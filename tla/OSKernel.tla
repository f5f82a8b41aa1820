------------------------------ MODULE OSKernel ------------------------------
(***************************************************************************)
(* The kernel with an application on it: tasks that make any of the calls  *)
(* of the application at any time, interrupt handlers that post, and the   *)
(* tick.  An application keeps rules of use that the kernel does not       *)
(* enforce:                                                                *)
(*   "posts schedule": no post has the option OS_POST_OPT_NO_SCHED;        *)
(*   "prio settled": a task that a post has chosen and that has not run    *)
(*     since keeps its priority;                                           *)
(*   "delete settled": a task is not deleted inside its OSTaskCreate;      *)
(*   "one object": a task that owns a mutex does not pend (Note 1 of       *)
(*     OSMutexPend) and does not take another mutex;                       *)
(*   "owner ready": a mutex is deleted with OS_DEL_ALWAYS while its owner  *)
(*     is ready (Note 4 of OSMutexDel);                                    *)
(*   "delete unraised": and with OS_DEL_NO_PEND while its owner has its    *)
(*     own priority;                                                       *)
(*   "suspend settled": a task inside OSMutexPend is not suspended;        *)
(*   "name self": a raised task does not suspend itself by its old         *)
(*     priority;                                                           *)
(*   "delay unlocked": a task that has locked the scheduler neither delays *)
(*     nor suspends itself;                                                *)
(*   "multi kept": no event is deleted with OS_DEL_ALWAYS while a task     *)
(*     that pends on several events is in its wait list;                   *)
(*   "multi resumed": a task that pends on several events is not           *)
(*     suspended;                                                          *)
(*   "waiters kept": a flag group is not deleted while a task waits for    *)
(*     it.                                                                 *)
(***************************************************************************)
EXTENDS Integers, Sequences, OSMsg, OSMutex, OSFlag

CONSTANT
  Apps          \* the applications

VARIABLES
  app,          \* the one that is linked with the kernel
  account,      \* units given to each semaphore less the units taken from it
  inside,       \* the tasks that a call has told that they own the mutex
  orphans,      \* the tasks inside a pend on an event that has been deleted since
  epoch         \* changed by the calls that discard or start a channel

\* An application has the calls that it makes and the rules that it keeps, the
\* priorities of its tasks at OSStart, those that it creates tasks with and
\* moves them to, and its events, delays, messages and requests for flags.
ASSUME AppsAssumption == \A a \in Apps :
  /\ DOMAIN a.start \subseteq Task
  /\ \A t, u \in DOMAIN a.start : a.start[t] \in Prio \ {LowestPrio}
                                  /\ (a.start[t] = a.start[u] => t = u)
  /\ a.events \subseteq Event /\ a.ticks \subseteq Ticks /\ a.msgs \subseteq Msg
  /\ a.waits \subseteq Request

semState == <<cnt, account>>
msgState == <<mail, qVars, epoch>>
mutexState == <<mutexVars, inside, orphans>>
vars == <<coreVars, free, semState, msgState, mutexState, flagVars, app>>

Serves(f) == f \in app.calls
Rule(r) == r \in app.rules

\* An event may be deleted with OS_DEL_ALWAYS.
MayEnd(e) ==
  Rule("multi kept") => \A u \in Task :
    MultiPends(u) => tcb[u].prio \notin waiting[e] /\ tcb[u].eptr # e

Owns(t) == \E e \in Event : owner[e] = t

\* A task may pend, or take a mutex.
MayPend(t) == Rule("one object") => ~Owns(t)

-----------------------------------------------------------------------------
\* Tasks that a post has already chosen, and that have not run yet.
Granted(e) == {t \in Alive : /\ tcb[t].eptr = e /\ tcb[t].pend = "ok"
                             /\ tcb[t].prio \notin waiting[e]}

\* The account is opened when a semaphore is created, and again when it is
\* set or deleted: those calls do not conserve units.
Reopen(e) == account' = [account EXCEPT ![e] = cnt'[e] + Cardinality(Granted(e)')]
Gives(e) == account' = [account EXCEPT ![e] = @ + 1]
Takes(e) == account' = [account EXCEPT ![e] = @ - 1]
Keeps == UNCHANGED account

\* The event e is deleted.  Only applications with mutexes keep the orphans.
Orphans(e) ==
  orphans' = orphans \cup {u \in Task : Serves("mutex") /\ Pends(u) /\ arg[u] = e}

SemCall(t) ==
  /\ Serves("sem")
  /\ \E e \in app.events :
       \/ /\ \E always \in BOOLEAN : MayEnd(e) /\ OSSemDel(t, e, always) /\ Reopen(e)
          /\ Orphans(e)
       \/ /\ \/ \E c \in Counts : OSSemCreate(t, e, c) /\ Reopen(e)
             \/ \E c \in Counts : OSSemSet(t, e, c) /\ Reopen(e)
             \/ Take(t, e) /\ Takes(e)
             \/ MayPend(t) /\ (\E ticks \in app.ticks : OSSemPend(t, e, ticks)) /\ Keeps
             \/ \E broadcast \in BOOLEAN : OSSemPendAbort(t, e, broadcast) /\ Keeps
             \/ OSSemPost(t, e) /\ Gives(e)
          /\ UNCHANGED orphans
  /\ UNCHANGED <<free, msgState, mutexVars, inside, flagVars, app>>

SemISR ==
  /\ Serves("sem")
  /\ \E e \in app.events :
       \/ OSSemPostISR(e) /\ Gives(e)
       \/ OSSemAcceptISR(e) /\ Takes(e)
  /\ UNCHANGED <<free, msgState, mutexState, flagVars, app>>

-----------------------------------------------------------------------------
Restarts(e) == epoch' = [epoch EXCEPT ![e] = 1 - @]

MboxCall(t) ==
  /\ Serves("mbox")
  /\ \E e \in app.events :
       \/ (\E m \in app.msgs \cup {None} : OSMboxCreate(t, e, m)) /\ Restarts(e) /\ UNCHANGED orphans
       \/ /\ \E always \in BOOLEAN : MayEnd(e) /\ OSMboxDel(t, e, always)
          /\ Restarts(e) /\ Orphans(e)
       \/ /\ \/ TakeMail(t, e)
             \/ MayPend(t) /\ \E ticks \in app.ticks : OSMboxPend(t, e, ticks)
             \/ \E broadcast \in BOOLEAN : OSMboxPendAbort(t, e, broadcast)
             \/ \E m \in app.msgs : OSMboxPost(t, e, m)
             \/ \E m \in app.msgs, broadcast, noSched \in BOOLEAN :
                  (Rule("posts schedule") => ~noSched) /\ OSMboxPostOpt(t, e, m, broadcast, noSched)
          /\ UNCHANGED <<epoch, orphans>>
  /\ UNCHANGED <<free, semState, qVars, mutexVars, inside, flagVars, app>>

QCall(t) ==
  /\ Serves("q")
  /\ \E e \in app.events :
       \/ (OSQCreate(t, e) \/ OSQFlush(t, e)) /\ Restarts(e) /\ UNCHANGED orphans
       \/ /\ \E always \in BOOLEAN : MayEnd(e) /\ OSQDel(t, e, always)
          /\ Restarts(e) /\ Orphans(e)
       \/ /\ \/ TakeMsg(t, e)
             \/ MayPend(t) /\ \E ticks \in app.ticks : OSQPend(t, e, ticks)
             \/ \E broadcast \in BOOLEAN : OSQPendAbort(t, e, broadcast)
             \/ \E m \in app.msgs : OSQPost(t, e, m) \/ OSQPostFront(t, e, m)
             \/ \E m \in app.msgs, front, broadcast, noSched \in BOOLEAN :
                  (Rule("posts schedule") => ~noSched) /\ OSQPostOpt(t, e, m, front, broadcast, noSched)
          /\ UNCHANGED <<epoch, orphans>>
  /\ UNCHANGED <<free, semState, mail, mutexVars, inside, flagVars, app>>

MsgISR ==
  /\ \E e \in app.events, m \in app.msgs :
       \/ Serves("mbox") /\ OSMboxPostISR(e, m) /\ UNCHANGED qVars
       \/ Serves("q") /\ OSQPostISR(e, m) /\ UNCHANGED mail
  /\ UNCHANGED <<free, semState, epoch, mutexState, flagVars, app>>

\* A unit is taken from each semaphore that has one, or none.
Took == account' = [e \in Event |-> account[e] - (cnt[e] - cnt'[e])]

MultiCall(t) ==
  /\ Serves("multi")
  /\ MayPend(t)
  /\ \E es \in SUBSET app.events \ {{}}, ticks \in app.ticks : OSEventPendMulti(t, es, ticks)
  /\ Took
  /\ UNCHANGED <<free, qVars, epoch, mutexState, flagVars, app>>

-----------------------------------------------------------------------------
\* A mutex has a PIP above all the tasks, as OSMutexCreate assumes.
Pips == {p \in Prio : \A t \in DOMAIN app.start : p < app.start[t]}

MutexCall(t) ==
  /\ Serves("mutex")
  /\ \E e \in app.events :
       \/ (\E p \in Pips : OSMutexCreate(t, e, p)) /\ UNCHANGED <<inside, orphans>>
       \/ /\ MayPend(t)
          /\ Acquire(t, e)
          /\ inside' = [inside EXCEPT ![e] = @ \cup {t}]
          /\ UNCHANGED orphans
       \/ /\ MayPend(t)
          /\ \E ticks \in app.ticks : OSMutexPend(t, e, ticks)
          /\ UNCHANGED <<inside, orphans>>
       \/ /\ OSMutexPost(t, e)
          /\ inside' = [inside EXCEPT ![e] = @ \ {t}]
          /\ UNCHANGED orphans
       \/ /\ Rule("delete unraised") => ~Raised(e)
          /\ DelNoPend(t, e)
          /\ inside' = [inside EXCEPT ![e] = {}]
          /\ Orphans(e)
       \/ /\ Rule("owner ready") /\ owner[e] \in Task => tcb[owner[e]].prio \in rdy
          /\ DelAlways(t, e)
          /\ inside' = [inside EXCEPT ![e] = {}]
          /\ Orphans(e)
  /\ UNCHANGED <<free, semState, msgState, flagVars, app>>

-----------------------------------------------------------------------------
PendsOn(t, g) == Pends(t) /\ arg[t] \in Request /\ arg[t].grp = g

FlagCall(t) ==
  /\ Serves("flag")
  /\ \/ \E g \in Group, fs \in SUBSET Flag :
          \/ OSFlagCreate(t, g, fs)
          \/ \E set \in BOOLEAN : OSFlagPost(t, g, fs, set)
     \/ \E r \in app.waits : OSFlagAccept(t, r)
     \/ MayPend(t) /\ \E r \in app.waits, ticks \in app.ticks : OSFlagPend(t, r, ticks)
     \/ \E g \in Group, always \in BOOLEAN :
          /\ Rule("waiters kept") => nodes[g] = {}
          /\ OSFlagDel(t, g, always)
  /\ UNCHANGED <<semState, msgState, mutexState, app>>

FlagISR ==
  /\ Serves("flag")
  /\ \E g \in Group, fs \in SUBSET Flag, set \in BOOLEAN : OSFlagPostISR(g, fs, set)
  /\ UNCHANGED <<semState, msgState, mutexState, app>>

-----------------------------------------------------------------------------
MayDelay == Rule("delay unlocked") => lockNesting = 0

MaySuspend(t, p) ==
  /\ Rule("name self") => (prioTbl[p] = t => p = tcb[t].prio)
  /\ prioTbl[p] = t => MayDelay
  /\ Rule("suspend settled") => ~(prioTbl[p] \in Task /\ Pends(prioTbl[p]))
  /\ Rule("multi resumed") => ~(prioTbl[p] \in Task /\ MultiPends(prioTbl[p]))

TimeCall(t) ==
  /\ \/ MayDelay /\ \E ticks \in app.ticks : OSTimeDly(t, ticks)
     \/ \E p \in Prio : OSTimeDlyResume(t, p)
     \/ \E p \in Prio : MaySuspend(t, p) /\ OSTaskSuspend(t, p)
     \/ \E p \in Prio : OSTaskResume(t, p)
     \/ Serves("lock") /\ (OSSchedLock(t) \/ OSSchedUnlock(t)) /\ UNCHANGED free
  /\ UNCHANGED <<semState, msgState, mutexState, flagVars, app>>

Settled(u) == tcb[u].eptr \in Event => tcb[u].prio \in waiting[tcb[u].eptr]

MayChange(u) == Rule("prio settled") => Settled(u)

CreateCall(t) ==
  /\ Serves("create")
  /\ \/ \E p \in app.prios : OSTaskCreate(t, p)
     \/ TakeTCB(t)
     \/ LinkTCB(t)
     \/ UndoCreate(t)
     \/ \E p \in Prio, q \in app.prios :
          prioTbl[p] \in Task /\ MayChange(prioTbl[p]) /\ OSTaskChangePrio(t, p, q)
  /\ UNCHANGED <<semState, msgState, mutexState, flagVars, app>>

MayDelete(t, u) == Rule("delete settled") /\ u # t => pc[u] \notin {"create", "link", "undo"}

\* A deleted task takes the unit with it that a post has given it.
DeleteCall(t) ==
  /\ Serves("delete")
  /\ \/ \E p \in Prio :
          /\ prioTbl[p] \in Task /\ MayDelete(t, prioTbl[p])
          /\ OSTaskDel(t, p)
          /\ UnlinkNode(prioTbl[p])
          /\ account' = [e \in Event |->
                           IF prioTbl[p] \in Granted(e) THEN account[e] - 1 ELSE account[e]]
     \/ UnlinkTCB(t) /\ UNCHANGED <<flagVars, account>>
  /\ UNCHANGED <<cnt, msgState, mutexState, app>>

-----------------------------------------------------------------------------
\* The second section of the pend calls.  OSMutexPend tells its caller that it
\* owns the mutex.
KernelWake(t) ==
  /\ Wake(t)
  /\ IF IsSem(arg[t]) /\ tcb[t].pend = "ok" THEN Takes(arg[t]) ELSE Keeps
  /\ inside' = IF IsMutex(arg[t]) /\ tcb[t].pend = "ok" /\ t \notin orphans
               THEN [inside EXCEPT ![arg[t]] = @ \cup {t}]
               ELSE inside
  /\ orphans' = orphans \ {t}
  /\ UNCHANGED <<free, cnt, msgState, mutexVars, flagVars, app>>

MultiReturn(t) ==
  /\ MultiWake(t)
  /\ IF ~TimedOut(t) /\ tcb[t].pend = "ok" /\ IsSem(tcb[t].eptr)
     THEN Takes(tcb[t].eptr)
     ELSE Keeps
  /\ UNCHANGED <<free, qVars, epoch, mutexState, flagVars, app>>

FlagReturn(t) == FlagWake(t) /\ UNCHANGED <<semState, msgState, mutexState, app>>

Sched(t) == OS_Sched(t) /\ UNCHANGED <<free, semState, msgState, mutexState, flagVars, app>>

Tick == OSTimeTick /\ UNCHANGED <<free, semState, msgState, mutexState, flagVars, app>>

Init ==
  /\ app \in Apps
  /\ CoreInit(app.start)
  /\ TaskInit(app.start)
  /\ SemInit
  /\ MboxInit
  /\ QInit
  /\ MutexInit
  /\ FlagInit
  /\ account = [e \in Event |-> 0]
  /\ inside = [e \in Event |-> {}]
  /\ orphans = {}
  /\ epoch = [e \in Event |-> 0]

Next ==
  \/ \E t \in Task :
       \/ SemCall(t) \/ MboxCall(t) \/ QCall(t) \/ MultiCall(t) \/ MutexCall(t) \/ FlagCall(t)
       \/ TimeCall(t) \/ CreateCall(t) \/ DeleteCall(t)
       \/ KernelWake(t) \/ MultiReturn(t) \/ FlagReturn(t) \/ Sched(t)
  \/ SemISR \/ MsgISR \/ FlagISR
  \/ Tick

Spec == Init /\ [][Next]_vars

-----------------------------------------------------------------------------
TypeOK ==
  /\ CoreTypeOK
  /\ free \subseteq Task
  /\ cnt \in [Event -> 0 .. MaxCnt]
  /\ account \in [Event -> Int]
  /\ mail \in [Event -> Msg \cup {None}]
  /\ ring \in [Event -> [0 .. Size - 1 -> Msg \cup {None}]]
  /\ qIn \in [Event -> 0 .. Size - 1]
  /\ qOut \in [Event -> 0 .. Size - 1]
  /\ entries \in [Event -> 0 .. Size]
  /\ epoch \in [Event -> {0, 1}]
  /\ pip \in [Event -> Prio]
  /\ ownPrio \in [Event -> Prio \cup {None}]
  /\ owner \in [Event -> Task \cup {None}]
  /\ inside \in [Event -> SUBSET Task]
  /\ orphans \subseteq Task
  /\ inUse \in [Group -> BOOLEAN]
  /\ flags \in [Group -> SUBSET Flag]
  /\ nodes \in [Group -> SUBSET Task]
  /\ flagsRdy \in [Task -> SUBSET Flag]
  /\ app \in Apps

-----------------------------------------------------------------------------
\* Every priority of the ready list is that of a task, or of the idle task.
ReadyTasksExist == \A p \in rdy : prioTbl[p] \in AllTasks /\ tcb[prioTbl[p]].prio = p

\* A wait list is empty when its event has been given back to the free list,
\* so that the next owner of the block does not wake a stranger.
FreeEventsEmpty == \A e \in Event : evType[e] = "unused" => waiting[e] = {}

\* A priority that is reserved is that of a creation that goes on, or the PIP
\* of a mutex: none is lost.
ReservedByCreator ==
  \A p \in Prio : prioTbl[p] = Reserved =>
    \/ \E t \in Task : \/ pc[t] \in {"create", "undo"} /\ arg[t] = p
                       \/ pc[t] = "link" /\ tcb[arg[t]].prio = p
    \/ \E e \in Event : IsMutex(e) /\ pip[e] = p

\* The PIP of a mutex is reserved, or is the priority of its raised owner, who
\* is found under its own priority, too.
PipConsistent ==
  \A e \in Event : IsMutex(e) =>
    IF Raised(e) THEN prioTbl[pip[e]] = owner[e] /\ prioTbl[ownPrio[e]] = owner[e]
    ELSE prioTbl[pip[e]] = Reserved

\* No TCB is lost and none is used twice: it is free, or linked, or a creation
\* that goes on holds it.
TCBsConserved ==
  /\ free = {t \in Task : pc[t] \in {"exit", "dormant"}}
             \ {arg[u] : u \in {v \in Task : pc[v] = "link"}}
  /\ \A t, u \in Task : pc[t] = "link" /\ pc[u] = "link" /\ arg[t] = arg[u] => t = u
  /\ \A t \in Task : pc[t] \notin {"exit", "dormant"} <=> prioTbl[tcb[t].prio] = t

\* The two pointers and the count of a queue agree, so that the entries
\* between OSQOut and OSQIn are those that were posted.
RingConsistent ==
  \A e \in Event : IsQ(e) => (qOut[e] + entries[e]) % Size = qIn[e]

\* The tables of the kernel agree with each other between any two critical
\* sections, although the calls change them in several sections: priorities,
\* TCBs, event control blocks and the rings of the queues.
TablesConsistent ==
  /\ TypeOK
  /\ ReadyTasksExist
  /\ FreeEventsEmpty
  /\ ReservedByCreator
  /\ PipConsistent
  /\ TCBsConserved
  /\ RingConsistent

\* A task is in the ready list exactly when nothing holds it: no bit of its
\* status and no delay.  The status, the delay and the list are changed at
\* different places by posts, ticks, suspension and deletion.  The bits of a
\* pend on several events stay in OSTCBStat until the task runs.
ReadyConsistent ==
  \A t \in Alive : tcb[t].prio \in rdy <=>
    /\ "suspend" \notin tcb[t].stat
    /\ tcb[t].dly = 0
    /\ tcb[t].stat = {} \/ (MultiPends(t) /\ (tcb[t].eptr # None \/ tcb[t].pend = "to"))

-----------------------------------------------------------------------------
\* The events of the pend that a task is inside of.
WaitsFor(t) == IF arg[t] \in Several THEN arg[t].events ELSE {arg[t]}

\* A priority in a wait list is that of a task inside a pend on this event
\* that nobody has answered; and a task whose status says that it pends is in
\* the list of its event.  A timed-out task stays in the list until it runs.
ListsConsistent ==
  /\ \A e \in Event : \A p \in waiting[e] :
       LET t == prioTbl[p] IN
       /\ t \in Task
       /\ tcb[t].prio = p
       /\ Pends(t)
       /\ e \in WaitsFor(t)
       /\ tcb[t].stat \cap PendAny # {} \/ tcb[t].pend = "to"
  /\ \A t \in Task :
       tcb[t].stat \cap (PendAny \ {"flag"}) # {} /\ tcb[t].multi = {} =>
         arg[t] \in Event /\ tcb[t].prio \in waiting[arg[t]]

\* The first event that is posted takes a task that pends on several out of
\* the wait lists of all the others; until then, or until it runs after a
\* timeout, it is in all of them.
AllOrNone ==
  \A t \in Task : MultiPends(t) =>
    \/ \A e \in arg[t].events : tcb[t].prio \in waiting[e] /\ tcb[t].eptr = None
    \/ tcb[t].eptr \in arg[t].events /\ \A e \in Event : tcb[t].prio \notin waiting[e]

\* A node lies on the stack of a task, so it may be linked only while the task
\* is inside the pend that linked it, and to a group that is in use: the field
\* that heads the nodes links the free list in a group that is not.
NodesConsistent ==
  \A g \in Group :
    /\ nodes[g] # {} => inUse[g]
    /\ \A t \in Task : t \in nodes[g] <=>
         /\ t \in Alive
         /\ PendsOn(t, g)
         /\ "flag" \in tcb[t].stat \/ tcb[t].pend = "to"

\* Whatever comes between the sections of a pend - a post, a timeout, an abort,
\* a suspension, a new priority, a deletion - the wait lists and the TCBs agree
\* about who waits for what.
WaitConsistent == ListsConsistent /\ AllOrNone /\ NodesConsistent

\* Code of a task runs only while the task is the highest one ready, unless
\* the scheduler is locked, and the scheduler's variables say so; but a task
\* that has given back a mutex for which nobody waits any more goes on at its
\* old priority until the next OS_Sched.
RunsHighest ==
  Rule("posts schedule") /\ pc[cur] \in {"user", "wake"} =>
    \/ /\ prioCur = tcb[cur].prio /\ prioTbl[prioCur] = cur
       /\ lockNesting = 0 => prioCur = HighRdy(rdy)
    \/ prioCur # tcb[cur].prio /\ prioTbl[prioCur] \in {Reserved, None}

-----------------------------------------------------------------------------
\* The messages that a mailbox or a queue holds, in order.
Contents(e) ==
  CASE IsMbox(e) -> IF mail[e] = None THEN <<>> ELSE <<mail[e]>>
    [] IsQ(e) -> [i \in 1 .. entries[e] |-> ring[e][(qOut[e] + i - 1) % Size]]
    [] OTHER -> <<>>

\* No task waits for what is there: a unit of a semaphore, a message, a mutex
\* that nobody owns, or flags as it wants them.
NothingMissed ==
  /\ \A e \in Event :
       \/ cnt[e] > 0
       \/ Contents(e) # <<>>
       \/ IsMutex(e) /\ owner[e] = None
       => waiting[e] = {}
  /\ \A g \in Group : Satisfied(g, flags[g]) = {}

\* Every unit given to a semaphore is in the count or on its way to a task that
\* a post has chosen: a timeout, an abort or a suspension that comes between
\* the post and the moment the task runs neither loses a unit nor makes one.
UnitsConserved == \A e \in Event : IsSem(e) => account[e] = cnt[e] + Cardinality(Granted(e))

\* A pend that returns OS_ERR_NONE returns enough of the flags it was called
\* for ("The desired bits have been set", os_flag.c).
NoneMeansReady ==
  \A t \in Alive : /\ Pends(t) /\ arg[t] \in Request
                   /\ tcb[t].pend = "ok" /\ "flag" \notin tcb[t].stat
                   /\ Rule("waiters kept")
    => Enough(arg[t], flagsRdy[t])

\* What a post has granted reaches the task that was chosen, whatever comes
\* between the post and the moment the task runs.
GrantsKept == UnitsConserved /\ NoneMeansReady

-----------------------------------------------------------------------------
\* A task that a call has told that it owns the mutex is the one that the
\* mutex names as its owner: at most one task is inside at a time, although
\* posts, timeouts and the second half of OSMutexPend come in any order.
MutualExclusion == \A e \in Event : inside[e] \subseteq {owner[e]}

\* The owner of a mutex is above all the tasks that wait for it, so that no
\* task of a priority between them keeps them waiting; and a task has its own
\* priority whenever it owns no mutex, however the waiters that it was raised
\* for have gone.
NoInversion ==
  Serves("mutex") =>
    /\ \A e \in Event : owner[e] \in Task =>
         \A p \in waiting[e] : tcb[owner[e]].prio < p
    /\ \A t \in DOMAIN app.start : ~Owns(t) => tcb[t].prio = app.start[t]

\* A task that nobody holds suspended and nothing holds waiting comes to run:
\* OSTaskResume ends a suspension in whatever state the task was suspended.
ResumedRuns ==
  \A t \in DOMAIN app.start :
    "suspend" \notin tcb[t].stat /\ tcb[t].dly = 0
      /\ (\A e \in Event : tcb[t].prio \notin waiting[e]) => tcb[t].prio \in rdy

-----------------------------------------------------------------------------
Promise == INSTANCE Channel WITH
  Chan <- Event, Receiver <- Task, Message <- Msg, Nothing <- None, Capacity <- Size,
  chan <- [e \in Event |-> Contents(e)],
  hand <- [t \in Task |-> tcb[t].msg]

\* Mailboxes and queues implement channels: nothing is lost, invented, given
\* twice or out of order between the ring, the TCB and the receiver.
ImplementsChannel == Promise!Spec
=============================================================================
