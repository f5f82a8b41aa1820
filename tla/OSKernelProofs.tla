--------------------------- MODULE OSKernelProofs ---------------------------
(***************************************************************************)
(* Theorems about the kernel for every application that neither creates,   *)
(* deletes nor moves tasks and that uses its semaphores, mailboxes,        *)
(* queues, mutexes, event flags and the lock of the scheduler in any       *)
(* mixture: any number of tasks, events, groups, priorities, messages and  *)
(* delays.  One that has mutexes keeps the rules of use for them.          *)
(***************************************************************************)
EXTENDS OSKernel, FiniteSetTheorems, SequenceTheorems, WellFoundedInduction, TLAPS

Services == {"sem", "mbox", "q", "mutex", "flag", "lock"}

MutexRules == {"one object", "owner ready", "delete unraised", "suspend settled", "name self",
               "delay unlocked"}

Disciplined ==
  app.calls \subseteq Services /\ (Serves("mutex") => MutexRules \subseteq app.rules)

\* The tasks of the application.
AppTasks == DOMAIN app.start

(***************************************************************************)
(* What never changes: the tasks, and the other task control blocks, which *)
(* nobody takes.  Every task is found under the priority that it has.      *)
(***************************************************************************)
Settings ==
  /\ app \in Apps /\ Disciplined
  /\ prioTbl \in [Prio -> AppTasks \cup {Idle, None, Reserved}]
  /\ \A p \in Prio : prioTbl[p] = Idle <=> p = LowestPrio
  /\ \A t \in AppTasks : prioTbl[tcb[t].prio] = t
  /\ \A t \in AllTasks \ AppTasks : tcb[t] = NewTCB(LowestPrio)
  /\ \A t \in Task \ AppTasks : pc[t] = "dormant"
  /\ \A t \in AppTasks : pc[t] \in {"user", "yield", "block", "wake"}
  /\ pc[Idle] = "user"
  /\ free = Task \ AppTasks

MutexTypes ==
  /\ pip \in [Event -> Prio]
  /\ ownPrio \in [Event -> Prio \cup {None}]
  /\ owner \in [Event -> AppTasks \cup {None}]
  /\ inside \in [Event -> SUBSET AppTasks]
  /\ orphans \subseteq AppTasks
  /\ \A t \in AllTasks : tcb[t].multi = {}
  /\ \A e \in Event : IsMutex(e) => Serves("mutex")

(***************************************************************************)
(* A mutex that is owned has the owner's own priority in its block, and    *)
(* its owner is above those that wait for it; nobody waits for one that    *)
(* is not.                                                                 *)
(***************************************************************************)
Owned(e) == owner[e] # None

Owners ==
  /\ \A e \in Event : Owned(e) => IsMutex(e) /\ ownPrio[e] = app.start[owner[e]]
  /\ \A e \in Event : ~Owned(e) => ownPrio[e] = None /\ (IsMutex(e) => waiting[e] = {})
  /\ \A e, f \in Event : Owned(e) /\ owner[e] = owner[f] => e = f
  /\ \A e \in Event : inside[e] \subseteq {owner[e]}
  /\ \A e \in Event : \A p \in waiting[e] : Owned(e) => tcb[owner[e]].prio < p

(***************************************************************************)
(* A task has the priority that it started with, under which it is always  *)
(* found, or the PIP of the mutex that it owns.                            *)
(***************************************************************************)
Priorities ==
  /\ \A t \in AppTasks : \/ tcb[t].prio = app.start[t]
                        \/ \E e \in Event : owner[e] = t /\ tcb[t].prio = pip[e]
  /\ \A t \in AppTasks : prioTbl[app.start[t]] = t
  /\ \A e \in Event : IsMutex(e) =>
       /\ \A t \in AppTasks : pip[e] < app.start[t]
       /\ prioTbl[pip[e]] = IF Raised(e) THEN owner[e] ELSE Reserved
  /\ \A p \in Prio : prioTbl[p] = Reserved => \E e \in Event : IsMutex(e) /\ pip[e] = p
  /\ \A p \in Prio : prioTbl[p] \in AppTasks =>
       p = app.start[prioTbl[p]] \/ \E e \in Event : IsMutex(e) /\ pip[e] = p
  /\ \A e, f \in Event : IsMutex(e) /\ IsMutex(f) /\ pip[e] = pip[f] => e = f

(***************************************************************************)
(* An owner inside a pend is one that a post has chosen and that has not   *)
(* run since; and a task that a post, or the deletion of its event, has    *)
(* chosen owns the mutex of its pend, unless it is an orphan.              *)
(***************************************************************************)
Picked(t) == tcb[t].pend = "ok" /\ tcb[t].prio \notin waiting[arg[t]]

Pending(t) ==
  Pends(t) =>
    /\ Owns(t) => arg[t] \in Event /\ owner[arg[t]] = t /\ Picked(t)
    /\ Serves("mutex") =>
         /\ "suspend" \notin tcb[t].stat
         /\ arg[t] \in Event =>
              (evType[arg[t]] \in {"mutex", "unused"} /\ Picked(t) /\ t \notin orphans =>
                 owner[arg[t]] = t)

MutexInv ==
  MutexTypes /\ Owners /\ Priorities /\ \A t \in AppTasks : Pending(t)

\* The bits of the ready list and of the wait lists are those of tasks.
Lists ==
  /\ rdy \subseteq {tcb[t].prio : t \in AppTasks} \cup {LowestPrio} /\ LowestPrio \in rdy
  /\ \A e \in Event : waiting[e] \subseteq {tcb[t].prio : t \in AppTasks}
  /\ nodes \in [Group -> SUBSET AppTasks] /\ inUse \in [Group -> BOOLEAN]

\* Nothing holds the task.
Unheld(c) == c.stat = {} /\ c.dly = 0

\* A status without a bit of a pend, and one with the bit of one.
NoPend(c) == c.stat \subseteq {"suspend"}
PendsFor(c, bit) == c.pend = "ok" /\ bit \in c.stat /\ c.stat \subseteq {bit, "suspend"}

\* A task that is not inside a pend is in no list.
InNoPend(t) ==
  /\ NoPend(tcb[t]) /\ tcb[t].pend = "ok" /\ tcb[t].eptr = None
  /\ \A e \in Event : tcb[t].prio \notin waiting[e]
  /\ \A g \in Group : t \notin nodes[g]

(***************************************************************************)
(* A task inside a pend on an event waits, or has timed out and is still   *)
(* in the list, or has been chosen by a post, an abort or a deletion.      *)
(***************************************************************************)
OnEvent(t) ==
  /\ arg[t] \in Event /\ tcb[t].eptr = arg[t]
  /\ \A e \in Event : tcb[t].prio \in waiting[e] => e = arg[t]
  /\ \A g \in Group : t \notin nodes[g]
  /\ \/ /\ tcb[t].prio \in waiting[arg[t]]
        /\ evType[arg[t]] \in {"sem", "mbox", "q", "mutex"}
        /\ \/ PendsFor(tcb[t], evType[arg[t]])
           \/ NoPend(tcb[t]) /\ tcb[t].pend = "to" /\ tcb[t].dly = 0
     \/ /\ tcb[t].prio \notin waiting[arg[t]]
        /\ NoPend(tcb[t]) /\ tcb[t].pend \in {"ok", "abort"} /\ tcb[t].dly = 0

\* The same for a pend on a group of flags, which nobody aborts.
OnFlags(t) ==
  /\ arg[t] \in app.waits /\ tcb[t].eptr = None
  /\ \A e \in Event : tcb[t].prio \notin waiting[e]
  /\ \A g \in Group : t \in nodes[g] => g = arg[t].grp
  /\ \/ /\ t \in nodes[arg[t].grp]
        /\ inUse[arg[t].grp]
        /\ \/ PendsFor(tcb[t], "flag")
           \/ NoPend(tcb[t]) /\ tcb[t].pend = "to" /\ tcb[t].dly = 0
     \/ /\ t \notin nodes[arg[t].grp]
        /\ NoPend(tcb[t]) /\ tcb[t].pend = "ok" /\ tcb[t].dly = 0

\* One task: the ready list and the lists that it waits in.
TaskInv(t) ==
  /\ tcb[t].prio \in rdy <=> Unheld(tcb[t])
  /\ IF Pends(t) THEN OnEvent(t) \/ OnFlags(t) ELSE InNoPend(t)

(***************************************************************************)
(* A task that has given back a mutex and goes on at its old priority:     *)
(* OSPrioCur is still the PIP, which no task has.                          *)
(***************************************************************************)
GoesOnRaised ==
  /\ cur \in AppTasks
  /\ prioTbl[prioCur] \in {Reserved, None}
  /\ lockNesting = 0 /\ pc[cur] \in {"user", "wake"} =>
       \A e \in Event : IsMutex(e) /\ pip[e] = prioCur => owner[e] \in {None, cur}

(***************************************************************************)
(* The processor.  A task runs unlocked only while it is ready, and, when  *)
(* all posts schedule, while it is the highest one ready; only an unlocked *)
(* scheduler lets a task wait.                                             *)
(***************************************************************************)
Processor ==
  /\ cur \in AppTasks \cup {Idle}
  /\ prioCur = tcb[cur].prio \/ GoesOnRaised
  /\ lockNesting = 0 /\ pc[cur] \in {"user", "wake"} =>
       /\ tcb[cur].prio \in rdy
       /\ Rule("posts schedule") /\ prioCur = tcb[cur].prio => prioCur = HighRdy(rdy)
  /\ pc[cur] \in {"block", "wake"} => lockNesting = 0
  /\ Serves("mutex") /\ lockNesting > 0 => tcb[cur].prio \in rdy

\* The inductive invariant of the tables, the lists and the scheduler.
KernelInv ==
  /\ CoreTypeOK /\ Settings /\ MutexInv /\ Lists /\ Processor
  /\ \A e \in Event : evType[e] = "unused" => waiting[e] = {}
  /\ \A t \in AppTasks : TaskInv(t)

-----------------------------------------------------------------------------
\* Priorities and tasks.

\* HighRdy is the smallest priority of a table that is not empty.
LEMMA HighRdyIs ==
  ASSUME NEW S \in SUBSET Prio, S # {}
  PROVE  HighRdy(S) \in S /\ \A q \in S : HighRdy(S) <= q
  <1>1. S \subseteq Nat
    BY CoreAssumption DEF Prio
  <1>2. PICK x \in S : \A y \in S : <<y, x>> \notin OpToRel(<, Nat)
    BY <1>1, NatLessThanWellFounded, WFMin
  <1>3. \A y \in S : ~(y < x)
    BY <1>1, <1>2 DEF OpToRel
  <1>4. \A y \in S : x <= y
    BY <1>1, <1>3
  <1>5. QED
    BY <1>4 DEF HighRdy

\* What an application is.
LEMMA AppIs ==
  ASSUME app \in Apps
  PROVE  /\ AppTasks \subseteq Task /\ AppTasks \subseteq AllTasks /\ Idle \notin AppTasks
         /\ None \notin AppTasks /\ Reserved \notin AppTasks
         /\ app.events \subseteq Event /\ app.ticks \subseteq Nat /\ app.msgs \subseteq Msg
         /\ app.waits \subseteq Request
  BY AppsAssumption, CoreAssumption DEF AppTasks, AllTasks

\* Every task has a priority of its own.
LEMMA OwnPriority ==
  ASSUME KernelInv
  PROVE  /\ LowestPrio \in Prio
         /\ \A t \in AppTasks : tcb[t].prio \in Prio /\ tcb[t].prio # LowestPrio
         /\ \A t, u \in AppTasks : tcb[t].prio = tcb[u].prio => t = u
         /\ tcb[Idle] = NewTCB(LowestPrio)
         /\ \A t \in AppTasks : tcb[t] \in TCB
  <1>1. LowestPrio \in Prio
    BY CoreAssumption DEF Prio
  <1>2. \A t \in AppTasks : t \in AllTasks /\ t # Idle
    BY AppIs DEF KernelInv, Settings
  <1>3. tcb \in [AllTasks -> TCB]
    BY DEF KernelInv, CoreTypeOK
  <1>4. \A t \in AppTasks : tcb[t] \in TCB
    BY <1>2, <1>3
  <1>5. \A t \in AppTasks : tcb[t].prio \in Prio
    BY <1>4 DEF TCB
  <1>6. Idle \in AllTasks \ AppTasks
    BY AppIs DEF AllTasks, KernelInv, Settings
  <1>7. QED
    BY <1>1, <1>2, <1>4, <1>5, <1>6 DEF KernelInv, Settings

\* Who runs is a task of the application.
LEMMA Runner ==
  ASSUME KernelInv, NEW t, cur = t, t # Idle
  PROVE  t \in AppTasks /\ t \in Task /\ t \in AllTasks
  BY AppIs DEF KernelInv, Settings, Processor

\* The tasks that wait for an event.
LEMMA WaitersAre ==
  ASSUME KernelInv, NEW e \in Event
  PROVE  /\ Waiters(e) = {t \in AppTasks : tcb[t].prio \in waiting[e]}
         /\ waiting[e] # {} => HighestWaiter(e) \in Waiters(e)
  <1>1. waiting[e] \subseteq {tcb[t].prio : t \in AppTasks} /\ waiting[e] \subseteq Prio
    BY DEF KernelInv, Lists, CoreTypeOK
  <1>2. \A t \in AppTasks : prioTbl[tcb[t].prio] = t
    BY DEF KernelInv, Settings
  <1>3. Waiters(e) = {t \in AppTasks : tcb[t].prio \in waiting[e]}
    BY <1>1, <1>2 DEF Waiters
  <1>4. waiting[e] # {} => HighRdy(waiting[e]) \in waiting[e]
    BY <1>1, HighRdyIs
  <1>5. QED
    BY <1>3, <1>4 DEF HighestWaiter, Waiters

-----------------------------------------------------------------------------
\* The steps of the kernel, by what they do to its tables and lists.

Kinds == {"sem", "mbox", "q"}
Listed == UNCHANGED <<inUse, nodes>>

Quiet == UNCHANGED <<coreVars, inUse, nodes>>

Create(t, e, type) == type \in Kinds /\ EventCreate(t, e, type) /\ Listed

Delete(t, e, always) == evType[e] \in Kinds /\ EventDel(t, e, evType[e], always) /\ Listed

BlockOn(t, e, ticks) ==
  /\ Runs(t) /\ ~Owns(t) /\ lockNesting = 0 /\ evType[e] \in Kinds /\ ticks \in Nat
  /\ Block(t, e, evType[e], ticks)
  /\ Listed

\* A post or an abort ends in OS_Sched, unless an option leaves it out, or in
\* the end of a handler.
Ends ==
  \/ \E t \in Task : Runs(t) /\ PostedByTask(t)
  \/ \E t \in Task : /\ Runs(t) /\ Returns /\ ~Rule("posts schedule")
                     /\ UNCHANGED <<prioTbl, cur, prioCur, lockNesting>>
  \/ PostedByISR

Answer(e, ts, m, st) ==
  /\ evType[e] \in Kinds /\ waiting[e] # {}
  /\ ts = Waiters(e) \/ ts = {HighestWaiter(e)}
  /\ m \in Msg \cup {None} /\ st \in {"ok", "abort"} /\ (st = "abort" => m = None)
  /\ OS_EventTaskRdy(e, ts, m, evType[e], st)
  /\ UNCHANGED evType
  /\ Ends
  /\ Listed

EventStep ==
  \/ \E t \in Task, e \in Event :
       \/ \E type \in Kinds : Create(t, e, type)
       \/ \E always \in BOOLEAN : Delete(t, e, always)
       \/ \E ticks \in Nat : BlockOn(t, e, ticks)
  \/ \E e \in Event, ts \in SUBSET AppTasks, m \in Msg \cup {None}, st \in {"ok", "abort"} :
       Answer(e, ts, m, st)

\* The same without a message for anybody.
SilentStep ==
  \/ \E t \in Task, e \in Event :
       \/ \E type \in Kinds : Create(t, e, type)
       \/ \E always \in BOOLEAN : Delete(t, e, always)
       \/ \E ticks \in Nat : BlockOn(t, e, ticks)
  \/ \E e \in Event, ts \in SUBSET AppTasks, st \in {"ok", "abort"} : Answer(e, ts, None, st)

LEMMA SilentIs == SilentStep => EventStep
  BY DEF SilentStep, EventStep

FlagBlock(t, r, ticks) ==
  /\ Runs(t) /\ ~Owns(t) /\ lockNesting = 0 /\ r \in app.waits /\ ticks \in Nat /\ inUse[r.grp]
  /\ OS_FlagBlock(t, r, ticks)
  /\ pc' = [pc EXCEPT ![t] = "block"]
  /\ arg' = [arg EXCEPT ![t] = r]
  /\ UNCHANGED <<prioTbl, evType, waiting, cur, prioCur, lockNesting, inUse>>

FlagStep ==
  \/ \E t \in Task, g \in Group, fs \in SUBSET Flag :
       OSFlagCreate(t, g, fs) \/ (\E set \in BOOLEAN : OSFlagPost(t, g, fs, set))
  \/ \E t \in Task, r \in app.waits, ticks \in Nat : FlagBlock(t, r, ticks)
  \/ \E t \in Task, g \in Group, always \in BOOLEAN :
       (Rule("waiters kept") => nodes[g] = {}) /\ OSFlagDel(t, g, always)
  \/ \E t \in Task : FlagWake(t)
  \/ \E g \in Group, fs \in SUBSET Flag, set \in BOOLEAN : OSFlagPostISR(g, fs, set)

TimeStep ==
  /\ \E t \in Task :
       \/ \E ticks \in Nat : MayDelay /\ OSTimeDly(t, ticks)
       \/ \E p \in Prio : \/ OSTimeDlyResume(t, p)
                          \/ MaySuspend(t, p) /\ OSTaskSuspend(t, p)
                          \/ OSTaskResume(t, p)
       \/ OSSchedLock(t) \/ OSSchedUnlock(t)
  /\ Listed

SchedStep ==
  /\ (\E t \in Task : OS_Sched(t) \/ Wake(t)) \/ OSTimeTick
  /\ Listed

KernelStep == Quiet \/ EventStep \/ FlagStep \/ TimeStep \/ SchedStep

\* What a task waits for is not several events.
LEMMA NotSeveral == \A x \in Event \cup Request : x \notin Several
  <1>1. \A r \in Request : DOMAIN r = {"grp", "want", "all", "set", "consume"}
    BY DEF Request
  <1>2. \A r \in Several : DOMAIN r = {"events"}
    BY DEF Several
  <1>3. {"grp", "want", "all", "set", "consume"} # {"events"}
    OBVIOUS
  <1>4. QED
    BY <1>1, <1>2, <1>3, SeveralAssumption

\* A task inside a pend is not inside one on several events.
LEMMA NoMulti ==
  ASSUME KernelInv, NEW t \in AppTasks, Pends(t)
  PROVE  arg[t] \in Event \cup Request /\ arg[t] \notin Several
  <1>1. arg[t] \in Event \cup Request
    BY AppIs DEF KernelInv, Settings, TaskInv, OnEvent, OnFlags
  <1>2. QED
    BY <1>1, NotSeveral

\* The rules of an application with mutexes, and who may pend.
LEMMA RulesKept ==
  ASSUME KernelInv
  PROVE  /\ Serves("mutex") => \A r \in MutexRules : Rule(r)
         /\ \A t \in Task : MayPend(t) => ~Owns(t)
         /\ ~Serves("multi") /\ ~Serves("create") /\ ~Serves("delete")
  <1>1. Serves("mutex") => \A r \in MutexRules : Rule(r)
    BY DEF KernelInv, Settings, Disciplined, Rule
  <1>2. ~Serves("multi") /\ ~Serves("create") /\ ~Serves("delete")
    BY DEF KernelInv, Settings, Disciplined, Services, Serves
  <1>3. ASSUME NEW t \in Task, MayPend(t), Owns(t) PROVE FALSE
    <2>1. PICK e \in Event : owner[e] = t
      BY <1>3 DEF Owns
    <2>2. Serves("mutex")
      BY <2>1, CoreAssumption DEF KernelInv, MutexInv, MutexTypes, Owners, Owned
    <2>3. QED
      BY <1>1, <1>3, <2>2 DEF MayPend, MutexRules
  <1>4. QED
    BY <1>1, <1>2, <1>3

LEMMA SemSteps ==
  ASSUME KernelInv, NEW t \in Task, SemCall(t)
  PROVE  Quiet \/ SilentStep
  <1> USE DEF Quiet, SilentStep, Kinds, Listed
  <1>1. PICK e \in app.events :
          \/ \E c \in Counts : OSSemCreate(t, e, c)
          \/ \E c \in Counts : OSSemSet(t, e, c)
          \/ \E always \in BOOLEAN : OSSemDel(t, e, always)
          \/ Take(t, e)
          \/ ~Owns(t) /\ \E ticks \in app.ticks : OSSemPend(t, e, ticks)
          \/ \E broadcast \in BOOLEAN : OSSemPendAbort(t, e, broadcast)
          \/ OSSemPost(t, e)
    BY RulesKept DEF SemCall
  <1>2. e \in Event /\ app.ticks \subseteq Nat /\ UNCHANGED <<inUse, nodes>>
    BY AppIs DEF KernelInv, Settings, SemCall, flagVars
  <1>3. waiting[e] # {} => /\ Waiters(e) \in SUBSET AppTasks /\ {HighestWaiter(e)} \in SUBSET AppTasks
    BY <1>2, WaitersAre
  <1>4. QED
    BY <1>1, <1>2, <1>3
       DEF OSSemCreate, Create, OSSemSet, OSSemDel, Delete, IsSem, Take, Returns, coreVars, OSSemPend, BlockOn,
           OSSemPendAbort, PendAbort, Answer, Ends, OSSemPost, PostWakes, PostCounts

LEMMA SemISRSteps ==
  ASSUME KernelInv, SemISR
  PROVE  Quiet \/ SilentStep
  <1> USE DEF Quiet, SilentStep, Kinds, Listed
  <1>1. PICK e \in app.events : OSSemPostISR(e) \/ OSSemAcceptISR(e)
    BY DEF SemISR
  <1>2. e \in Event /\ UNCHANGED <<inUse, nodes>>
    BY AppIs DEF KernelInv, Settings, SemISR, flagVars
  <1>3. waiting[e] # {} => {HighestWaiter(e)} \in SUBSET AppTasks
    BY <1>2, WaitersAre
  <1>4. QED
    BY <1>1, <1>2, <1>3
       DEF IsSem, Answer, Ends, OSSemPostISR, OSSemAcceptISR, PostWakes, PostCounts

LEMMA MboxSteps ==
  ASSUME KernelInv, NEW t \in Task, MboxCall(t)
  PROVE  Quiet \/ EventStep
  <1> USE DEF Quiet, EventStep, Kinds, Listed
  <1>1. PICK e \in app.events :
          \/ \E m \in app.msgs \cup {None} : OSMboxCreate(t, e, m)
          \/ \E always \in BOOLEAN : OSMboxDel(t, e, always)
          \/ TakeMail(t, e)
          \/ ~Owns(t) /\ \E ticks \in app.ticks : OSMboxPend(t, e, ticks)
          \/ \E broadcast \in BOOLEAN : OSMboxPendAbort(t, e, broadcast)
          \/ \E m \in app.msgs : OSMboxPost(t, e, m)
          \/ \E m \in app.msgs, broadcast, noSched \in BOOLEAN :
               (Rule("posts schedule") => ~noSched) /\ OSMboxPostOpt(t, e, m, broadcast, noSched)
    BY RulesKept DEF MboxCall
  <1>2. /\ e \in Event /\ app.ticks \subseteq Nat /\ app.msgs \subseteq Msg
        /\ UNCHANGED <<inUse, nodes>>
    BY AppIs DEF KernelInv, Settings, MboxCall, flagVars
  <1>3. waiting[e] # {} => /\ Waiters(e) \in SUBSET AppTasks /\ {HighestWaiter(e)} \in SUBSET AppTasks
    BY <1>2, WaitersAre
  <1>4. QED
    BY <1>1, <1>2, <1>3
       DEF OSMboxCreate, Create, OSMboxDel, Delete, IsMbox, TakeMail, Returns, OSMboxPend, BlockOn,
           OSMboxPendAbort, PendAbort, Answer, Ends, OSMboxPost, OSMboxPostOpt, MboxWakes, MboxKeeps,
           PostedByTask

LEMMA QSteps ==
  ASSUME KernelInv, NEW t \in Task, QCall(t)
  PROVE  Quiet \/ EventStep
  <1> USE DEF Quiet, EventStep, Kinds, Listed
  <1>1. PICK e \in app.events :
          \/ OSQCreate(t, e)
          \/ OSQFlush(t, e)
          \/ \E always \in BOOLEAN : OSQDel(t, e, always)
          \/ TakeMsg(t, e)
          \/ ~Owns(t) /\ \E ticks \in app.ticks : OSQPend(t, e, ticks)
          \/ \E broadcast \in BOOLEAN : OSQPendAbort(t, e, broadcast)
          \/ \E m \in app.msgs : OSQPost(t, e, m) \/ OSQPostFront(t, e, m)
          \/ \E m \in app.msgs, front, broadcast, noSched \in BOOLEAN :
               (Rule("posts schedule") => ~noSched) /\ OSQPostOpt(t, e, m, front, broadcast, noSched)
    BY RulesKept DEF QCall
  <1>2. /\ e \in Event /\ app.ticks \subseteq Nat /\ app.msgs \subseteq Msg
        /\ UNCHANGED <<inUse, nodes>>
    BY AppIs DEF KernelInv, Settings, QCall, flagVars
  <1>3. waiting[e] # {} => /\ Waiters(e) \in SUBSET AppTasks /\ {HighestWaiter(e)} \in SUBSET AppTasks
    BY <1>2, WaitersAre
  <1>4. QED
    BY <1>1, <1>2, <1>3
       DEF OSQCreate, Create, OSQDel, Delete, IsQ, TakeMsg, Returns, OSQPend, BlockOn, OSQFlush,
           OSQPendAbort, PendAbort, Answer, Ends, OSQPost, OSQPostFront, OSQPostOpt, QWakes, AtEnd, AtFront,
           PostedByTask

LEMMA MsgISRSteps ==
  ASSUME KernelInv, MsgISR
  PROVE  Quiet \/ EventStep
  <1> USE DEF Quiet, EventStep, Kinds, Listed
  <1>1. PICK e \in app.events, m \in app.msgs : OSMboxPostISR(e, m) \/ OSQPostISR(e, m)
    BY DEF MsgISR
  <1>2. e \in Event /\ m \in Msg /\ UNCHANGED <<inUse, nodes>>
    BY AppIs DEF KernelInv, Settings, MsgISR, flagVars
  <1>3. waiting[e] # {} => {HighestWaiter(e)} \in SUBSET AppTasks
    BY <1>2, WaitersAre
  <1>4. QED
    BY <1>1, <1>2, <1>3
       DEF IsMbox, IsQ, Answer, Ends, OSMboxPostISR, OSQPostISR, MboxWakes, MboxKeeps, QWakes, AtEnd

LEMMA FlagSteps ==
  ASSUME KernelInv, \/ \E t \in Task : FlagCall(t) \/ FlagReturn(t)
                    \/ FlagISR
  PROVE  Quiet \/ FlagStep
  <1>1. app.ticks \subseteq Nat
    BY AppIs DEF KernelInv, Settings
  <1>2. QED
    BY <1>1, RulesKept DEF FlagCall, FlagISR, FlagReturn, Quiet, FlagStep, OSFlagAccept, OSFlagPend, FlagBlock

LEMMA TimeSteps ==
  ASSUME KernelInv, NEW t \in Task, TimeCall(t)
  PROVE  TimeStep
  <1>1. app.ticks \subseteq Nat
    BY AppIs DEF KernelInv, Settings
  <1>2. QED
    BY <1>1 DEF TimeCall, TimeStep, Listed, flagVars

(***************************************************************************)
(* What the other calls do to the mutexes: a task may be told that it owns *)
(* one when it wakes, and the tasks inside a pend on an event that is      *)
(* deleted become orphans.                                                 *)
(***************************************************************************)
Told ==
  \/ /\ inside' = inside /\ orphans \subseteq orphans' /\ orphans' \subseteq Task
     /\ \A e \in Event : evType[e] # "unused" /\ evType'[e] = "unused" /\ Serves("mutex") =>
          \A u \in Task : Pends(u) /\ arg[u] = e => u \in orphans'
     /\ \A u \in Task : u \in orphans' => u \in orphans \/ Pends(u)
  \/ \E t \in Task :
       /\ Wake(t) /\ orphans' = orphans \ {t}
       /\ inside' = IF IsMutex(arg[t]) /\ tcb[t].pend = "ok" /\ t \notin orphans
                    THEN [inside EXCEPT ![arg[t]] = @ \cup {t}]
                    ELSE inside

\* A call that does not delete an event.
LEMMA ToldNobody ==
  ASSUME KernelInv, UNCHANGED <<inside, orphans>>,
         \A e \in Event : evType'[e] = "unused" => evType[e] = "unused"
  PROVE  Told
  BY AppIs DEF Told, KernelInv, Settings, MutexInv, MutexTypes

\* And one that does.
LEMMA ToldOrphans ==
  ASSUME KernelInv, inside' = inside, NEW e \in Event, Orphans(e),
         \A f \in Event \ {e} : evType'[f] = "unused" => evType[f] = "unused"
  PROVE  Told
  <1>1. orphans \subseteq Task
    BY AppIs DEF KernelInv, Settings, MutexInv, MutexTypes
  <1>2. QED
    BY <1>1 DEF Told, Orphans

NoneDeleted == \A e \in Event : evType'[e] = "unused" => evType[e] = "unused"

LEMMA SemTells ==
  ASSUME KernelInv, NEW t \in Task, SemCall(t)
  PROVE  Told
  <1>1. inside' = inside
    BY DEF SemCall
  <1>2. PICK e \in Event :
          \/ (\E always \in BOOLEAN : OSSemDel(t, e, always)) /\ Orphans(e)
          \/ /\ \/ \E c \in Counts : OSSemCreate(t, e, c)
                \/ \E c \in Counts : OSSemSet(t, e, c)
                \/ Take(t, e)
                \/ \E ticks \in app.ticks : OSSemPend(t, e, ticks)
                \/ \E broadcast \in BOOLEAN : OSSemPendAbort(t, e, broadcast)
                \/ OSSemPost(t, e)
             /\ UNCHANGED orphans
    BY AppIs DEF SemCall, KernelInv, Settings
  <1>3. evType \in [Event -> {"unused", "sem", "mbox", "q", "mutex"}]
    BY DEF KernelInv, CoreTypeOK
  <1>4. CASE (\E always \in BOOLEAN : OSSemDel(t, e, always)) /\ Orphans(e)
    BY <1>1, <1>3, <1>4, ToldOrphans DEF OSSemDel, EventDel
  <1>5. ASSUME \/ \E c \in Counts : OSSemCreate(t, e, c)
               \/ \E c \in Counts : OSSemSet(t, e, c)
               \/ Take(t, e)
               \/ \E ticks \in app.ticks : OSSemPend(t, e, ticks)
               \/ \E broadcast \in BOOLEAN : OSSemPendAbort(t, e, broadcast)
               \/ OSSemPost(t, e)
        PROVE  NoneDeleted
    BY <1>3, <1>5 DEF NoneDeleted, OSSemCreate, EventCreate, OSSemSet, Take, OSSemPend, Block, OSSemPendAbort, PendAbort,
                      OSSemPost, PostWakes, PostCounts, coreVars
  <1>6. QED
    BY <1>1, <1>2, <1>4, <1>5, ToldNobody DEF NoneDeleted

LEMMA MboxTells ==
  ASSUME KernelInv, NEW t \in Task, MboxCall(t)
  PROVE  Told
  <1>1. inside' = inside
    BY DEF MboxCall
  <1>2. PICK e \in app.events :
          \/ (\E always \in BOOLEAN : OSMboxDel(t, e, always)) /\ Orphans(e)
          \/ /\ \/ \E m \in app.msgs \cup {None} : OSMboxCreate(t, e, m)
                \/ TakeMail(t, e)
                \/ \E ticks \in app.ticks : OSMboxPend(t, e, ticks)
                \/ \E broadcast \in BOOLEAN : OSMboxPendAbort(t, e, broadcast)
                \/ \E m \in app.msgs : OSMboxPost(t, e, m)
                \/ \E m \in app.msgs, broadcast, noSched \in BOOLEAN : OSMboxPostOpt(t, e, m, broadcast, noSched)
             /\ UNCHANGED orphans
    BY DEF MboxCall
  <1> e \in Event
    BY AppIs DEF KernelInv, Settings
  <1>3. evType \in [Event -> {"unused", "sem", "mbox", "q", "mutex"}]
    BY DEF KernelInv, CoreTypeOK
  <1>4. CASE (\E always \in BOOLEAN : OSMboxDel(t, e, always)) /\ Orphans(e)
    BY <1>1, <1>3, <1>4, ToldOrphans DEF OSMboxDel, EventDel
  <1>5. ASSUME \/ \E m \in app.msgs \cup {None} : OSMboxCreate(t, e, m)
               \/ TakeMail(t, e)
               \/ \E ticks \in app.ticks : OSMboxPend(t, e, ticks)
               \/ \E broadcast \in BOOLEAN : OSMboxPendAbort(t, e, broadcast)
               \/ \E m \in app.msgs : OSMboxPost(t, e, m)
               \/ \E m \in app.msgs, broadcast, noSched \in BOOLEAN : OSMboxPostOpt(t, e, m, broadcast, noSched)
        PROVE  NoneDeleted
    BY <1>3, <1>5 DEF NoneDeleted, OSMboxCreate, EventCreate, TakeMail, OSMboxPend, Block, OSMboxPendAbort, PendAbort,
                      OSMboxPost, OSMboxPostOpt, MboxWakes, MboxKeeps, coreVars
  <1>6. QED
    BY <1>1, <1>2, <1>4, <1>5, ToldNobody DEF NoneDeleted

LEMMA QTells ==
  ASSUME KernelInv, NEW t \in Task, QCall(t)
  PROVE  Told
  <1>1. inside' = inside
    BY DEF QCall
  <1>2. PICK e \in app.events :
          \/ (\E always \in BOOLEAN : OSQDel(t, e, always)) /\ Orphans(e)
          \/ /\ \/ OSQCreate(t, e) \/ OSQFlush(t, e)
                \/ TakeMsg(t, e)
                \/ \E ticks \in app.ticks : OSQPend(t, e, ticks)
                \/ \E broadcast \in BOOLEAN : OSQPendAbort(t, e, broadcast)
                \/ \E m \in app.msgs : OSQPost(t, e, m) \/ OSQPostFront(t, e, m)
                \/ \E m \in app.msgs, front, broadcast, noSched \in BOOLEAN :
                     OSQPostOpt(t, e, m, front, broadcast, noSched)
             /\ UNCHANGED orphans
    BY DEF QCall
  <1> e \in Event
    BY AppIs DEF KernelInv, Settings
  <1>3. evType \in [Event -> {"unused", "sem", "mbox", "q", "mutex"}]
    BY DEF KernelInv, CoreTypeOK
  <1>4. CASE (\E always \in BOOLEAN : OSQDel(t, e, always)) /\ Orphans(e)
    BY <1>1, <1>3, <1>4, ToldOrphans DEF OSQDel, EventDel
  <1>5. ASSUME \/ OSQCreate(t, e) \/ OSQFlush(t, e)
               \/ TakeMsg(t, e)
               \/ \E ticks \in app.ticks : OSQPend(t, e, ticks)
               \/ \E broadcast \in BOOLEAN : OSQPendAbort(t, e, broadcast)
               \/ \E m \in app.msgs : OSQPost(t, e, m) \/ OSQPostFront(t, e, m)
               \/ \E m \in app.msgs, front, broadcast, noSched \in BOOLEAN :
                    OSQPostOpt(t, e, m, front, broadcast, noSched)
        PROVE  NoneDeleted
    BY <1>3, <1>5 DEF NoneDeleted, OSQCreate, EventCreate, OSQFlush, TakeMsg, OSQPend, Block, OSQPendAbort, PendAbort,
                      OSQPost, OSQPostFront, OSQPostOpt, QWakes, AtEnd, AtFront, coreVars
  <1>6. QED
    BY <1>1, <1>2, <1>4, <1>5, ToldNobody DEF NoneDeleted

(***************************************************************************)
(* Every step of such an application is one of these, which leave the      *)
(* owners, the PIPs and the table of the priorities alone, or a call of a  *)
(* mutex.                                                                  *)
(***************************************************************************)
PlainStep == KernelStep /\ Told /\ UNCHANGED <<app, prioTbl, free, pip, ownPrio, owner>>

LEMMA Steps ==
  ASSUME KernelInv, Next
  PROVE  PlainStep \/ \E t \in Task : MutexCall(t)
  <1>2. \/ \E t \in Task :
             \/ SemCall(t) \/ MboxCall(t) \/ QCall(t) \/ FlagCall(t) \/ TimeCall(t)
             \/ KernelWake(t) \/ MultiReturn(t) \/ FlagReturn(t) \/ Sched(t)
        \/ SemISR \/ MsgISR \/ FlagISR \/ Tick
        \/ \E t \in Task : MutexCall(t)
    BY RulesKept DEF Next, MultiCall, CreateCall, DeleteCall
  <1> DEFINE Frame == UNCHANGED <<app, free, pip, ownPrio, owner>>
  <1> evType \in [Event -> {"unused", "sem", "mbox", "q", "mutex"}]
    BY DEF KernelInv, CoreTypeOK
  <1>4. ASSUME NEW t \in Task, SemCall(t) PROVE KernelStep /\ Told /\ Frame
    BY <1>4, SemSteps, SemTells, SilentIs DEF KernelStep, SemCall, mutexVars
  <1>5. ASSUME SemISR PROVE KernelStep /\ Told /\ Frame
    <2>1. Told
      BY <1>5, ToldNobody DEF SemISR, OSSemPostISR, PostWakes, PostCounts, OSSemAcceptISR, coreVars, mutexState
    <2>2. QED
      BY <1>5, <2>1, SemISRSteps, SilentIs DEF KernelStep, SemISR, mutexState, mutexVars
  <1>6. ASSUME NEW t \in Task, MboxCall(t) PROVE KernelStep /\ Told /\ Frame
    BY <1>6, MboxSteps, MboxTells DEF KernelStep, MboxCall, mutexVars
  <1>7. ASSUME NEW t \in Task, QCall(t) PROVE KernelStep /\ Told /\ Frame
    BY <1>7, QSteps, QTells DEF KernelStep, QCall, mutexVars
  <1>8. ASSUME MsgISR PROVE KernelStep /\ Told /\ Frame
    <2>1. Told
      BY <1>8, ToldNobody DEF MsgISR, OSMboxPostISR, OSQPostISR, MboxWakes, MboxKeeps, QWakes, AtEnd, coreVars,
                              mutexState
    <2>2. QED
      BY <1>8, <2>1, MsgISRSteps DEF KernelStep, MsgISR, mutexState, mutexVars
  <1>9. ASSUME \/ \E t \in Task : FlagCall(t) \/ FlagReturn(t)
               \/ FlagISR
        PROVE  KernelStep /\ Told /\ Frame
    <2>1. KernelStep
      BY <1>9, FlagSteps DEF KernelStep
    <2>2. UNCHANGED <<free, evType>>
      <3>1. ASSUME NEW t \in Task, FlagCall(t) PROVE UNCHANGED <<free, evType>>
        BY <3>1 DEF FlagCall, OSFlagCreate, OSFlagPost, Posted, Readies, OSFlagAccept, OSFlagPend, OS_FlagBlock,
                    OSFlagDel, coreVars
      <3>2. ASSUME NEW t \in Task, FlagReturn(t) PROVE UNCHANGED <<free, evType>>
        BY <3>2 DEF FlagReturn, FlagWake
      <3>3. ASSUME FlagISR PROVE UNCHANGED <<free, evType>>
        BY <3>3 DEF FlagISR, OSFlagPostISR, Posted, Readies, coreVars
      <3>4. QED
        BY <1>9, <3>1, <3>2, <3>3
    <2>3. UNCHANGED <<inside, orphans>>
      BY <1>9 DEF FlagCall, FlagReturn, FlagISR, mutexState
    <2>4. QED
      BY <1>9, <2>1, <2>2, <2>3, ToldNobody DEF FlagCall, FlagReturn, FlagISR, mutexState, mutexVars
  <1>10. ASSUME NEW t \in Task, TimeCall(t) PROVE KernelStep /\ Told /\ Frame
    <2>1. KernelStep
      BY <1>10, TimeSteps DEF KernelStep
    <2>2. UNCHANGED <<free, evType>>
      BY <1>10 DEF TimeCall, OSTimeDly, OSTimeDlyResume, OSTaskSuspend, OSTaskResume, OSSchedLock, OSSchedUnlock
    <2>3. UNCHANGED <<inside, orphans>>
      BY <1>10 DEF TimeCall, mutexState
    <2>4. QED
      BY <1>10, <2>1, <2>2, <2>3, ToldNobody DEF TimeCall, mutexState, mutexVars
  <1>11. ASSUME NEW t \in Task, KernelWake(t) PROVE KernelStep /\ Told /\ Frame
    BY <1>11 DEF KernelWake, KernelStep, SchedStep, Listed, flagVars, mutexVars, Told
  <1>12. ASSUME NEW t \in Task, MultiReturn(t) PROVE FALSE
    BY <1>12, NoMulti, Runner, CoreAssumption DEF MultiReturn, MultiWake, Pends
  <1>13. ASSUME NEW t \in Task, Sched(t) PROVE KernelStep /\ Told /\ Frame
    BY <1>13, ToldNobody DEF Sched, OS_Sched, KernelStep, SchedStep, Listed, flagVars, mutexState, mutexVars
  <1>14. ASSUME Tick PROVE KernelStep /\ Told /\ Frame
    BY <1>14, ToldNobody DEF Tick, OSTimeTick, KernelStep, SchedStep, Listed, flagVars, mutexState, mutexVars
  <1>15. (KernelStep /\ Told /\ Frame) \/ \E t \in Task : MutexCall(t)
    BY <1>2, <1>4, <1>5, <1>6, <1>7, <1>8, <1>9, <1>10, <1>11, <1>12, <1>13, <1>14
  <1>16. KernelStep => UNCHANGED prioTbl
    BY DEF KernelStep, Quiet, coreVars, EventStep, FlagStep, TimeStep, SchedStep,
         Create, EventCreate, Delete, EventDel, BlockOn, Block, Answer, Ends, PostedByTask, PostedByISR,
         FlagBlock, OSFlagCreate, OSFlagPost, OSFlagPostISR, Posted, Readies, OSFlagDel, FlagWake,
         OSTimeDly, OSTimeDlyResume, OSTaskSuspend, OSTaskResume, OSSchedLock, OSSchedUnlock,
         OS_Sched, Wake, OSTimeTick
  <1>17. QED
    BY <1>15, <1>16 DEF PlainStep

-----------------------------------------------------------------------------
\* Task control blocks and lists after a step.

\* The priorities and the other TCBs stay.
TcbKept ==
  /\ tcb' \in [AllTasks -> TCB]
  /\ \A t \in AllTasks : tcb'[t].prio = tcb[t].prio /\ tcb'[t].multi = {}
  /\ \A t \in AllTasks \ AppTasks : tcb'[t] = tcb[t]

\* What OS_EventTaskRdy does to the tasks ts that wait for e.
ReadiedAs(e, ts, m, bit, st) ==
  /\ TcbKept
  /\ \A u \in AppTasks \ ts : tcb'[u] = tcb[u]
  /\ \A u \in ts : /\ tcb'[u].dly = 0 /\ tcb'[u].pend = st /\ tcb'[u].stat = tcb[u].stat \ {bit}
                   /\ tcb'[u].eptr = tcb[u].eptr /\ tcb'[u].msg = m
  /\ \A u \in AppTasks : tcb[u].prio \in rdy' <=>
       tcb[u].prio \in rdy \/ (u \in ts /\ "suspend" \notin tcb[u].stat)
  /\ rdy' \subseteq {tcb[u].prio : u \in AppTasks} \cup {LowestPrio} /\ LowestPrio \in rdy'
  /\ waiting' \in [Event -> SUBSET Prio]
  /\ \A f \in Event : waiting'[f] \subseteq waiting[f]
  /\ \A u \in AppTasks, f \in Event :
       tcb[u].prio \in waiting'[f] <=> tcb[u].prio \in waiting[f] /\ ~(f = e /\ u \in ts)

LEMMA Readied ==
  ASSUME KernelInv, NEW e \in Event, NEW ts \in SUBSET Waiters(e), NEW m \in Msg \cup {None},
         NEW bit \in PendAny, NEW st \in {"ok", "abort"}, OS_EventTaskRdy(e, ts, m, bit, st)
  PROVE  ReadiedAs(e, ts, m, bit, st)
  <1>1. /\ ts \subseteq AppTasks /\ AppTasks \subseteq AllTasks
        /\ tcb \in [AllTasks -> TCB] /\ waiting \in [Event -> SUBSET Prio] /\ rdy \subseteq Prio
        /\ \A t \in AllTasks : tcb[t].multi = {}
    BY WaitersAre, AppIs DEF KernelInv, Settings, MutexInv, MutexTypes, CoreTypeOK
  <1>2. tcb' = [t \in AllTasks |->
                  IF t \in ts
                  THEN [tcb[t] EXCEPT !.dly = 0, !.msg = m, !.stat = @ \ {bit}, !.pend = st]
                  ELSE tcb[t]]
    BY <1>1 DEF OS_EventTaskRdy, TCB
  <1>3. \A c \in TCB : /\ [c EXCEPT !.dly = 0, !.msg = m, !.stat = @ \ {bit}, !.pend = st] \in TCB
                       /\ [c EXCEPT !.dly = 0, !.msg = m, !.stat = @ \ {bit}, !.pend = st].prio = c.prio
                       /\ [c EXCEPT !.dly = 0, !.msg = m, !.stat = @ \ {bit}, !.pend = st].multi = c.multi
    BY DEF TCB
  <1>4. TcbKept
    BY <1>1, <1>2, <1>3 DEF TcbKept
  <1>5. /\ \A u \in AppTasks \ ts : tcb'[u] = tcb[u]
        /\ \A u \in ts : /\ tcb'[u].dly = 0 /\ tcb'[u].pend = st /\ tcb'[u].stat = tcb[u].stat \ {bit}
                         /\ tcb'[u].eptr = tcb[u].eptr /\ tcb'[u].msg = m
    BY <1>1, <1>2 DEF TCB
  <1>6. rdy' = rdy \cup {tcb[t].prio : t \in {u \in ts : "suspend" \notin tcb[u].stat}}
    BY DEF OS_EventTaskRdy, NotSuspended
  <1>7. \A f \in Event : waiting'[f] = waiting[f] \ {tcb[t].prio : t \in {u \in ts : f = e}}
    BY <1>1 DEF OS_EventTaskRdy, Leaves
  <1>8. \A u \in AppTasks : tcb[u].prio \in rdy' <=>
          tcb[u].prio \in rdy \/ (u \in ts /\ "suspend" \notin tcb[u].stat)
    BY <1>1, <1>6, OwnPriority
  <1>9. rdy' \subseteq {tcb[u].prio : u \in AppTasks} \cup {LowestPrio} /\ LowestPrio \in rdy'
    BY <1>1, <1>6 DEF KernelInv, Lists
  <1>10. /\ waiting' \in [Event -> SUBSET Prio]
         /\ \A f \in Event : waiting'[f] \subseteq waiting[f]
    BY <1>1, <1>7 DEF OS_EventTaskRdy
  <1>11. \A u \in AppTasks, f \in Event :
           tcb[u].prio \in waiting'[f] <=> tcb[u].prio \in waiting[f] /\ ~(f = e /\ u \in ts)
    BY <1>1, <1>7, OwnPriority
  <1>12. QED
    BY <1>4, <1>5, <1>8, <1>9, <1>10, <1>11 DEF ReadiedAs

\* A post, or a deletion, has chosen the task, which has not run since: one
\* that waited for the event f, and one that waited for flags.
HasGrant(u, f) == tcb[u].eptr = f /\ tcb[u].pend = "ok" /\ tcb[u].prio \notin waiting[f]
HasFlags(u) == Pends(u) /\ arg[u] \in Request /\ tcb[u].pend = "ok" /\ "flag" \notin tcb[u].stat

\* A step that chooses nobody: the task has what it had, and what it waits for
\* stays.
GrantSame(u) == \A f \in Event : HasGrant(u, f)' <=> HasGrant(u, f)
FlagsSame(u) == (HasFlags(u)' => HasFlags(u)) /\ (Pends(u) /\ Pends(u)' => arg'[u] = arg[u])

Goes(u) == TaskInv(u)' /\ GrantSame(u) /\ FlagsSame(u)
AllGo == \A u \in AppTasks : Goes(u)

\* A step that leaves a task where it is.
LEMMA TaskStays ==
  ASSUME KernelInv, NEW t \in AppTasks, app' = app,
         tcb'[t] = tcb[t], pc'[t] \in {"block", "wake"} <=> pc[t] \in {"block", "wake"}, arg'[t] = arg[t],
         tcb[t].prio \in rdy' <=> tcb[t].prio \in rdy,
         \A e \in Event : tcb[t].prio \in waiting'[e] <=> tcb[t].prio \in waiting[e],
         \A e \in Event : tcb[t].prio \in waiting[e] => evType'[e] = evType[e],
         \A g \in Group : t \in nodes'[g] <=> t \in nodes[g],
         \A g \in Group : t \in nodes[g] => inUse'[g] = inUse[g]
  PROVE  Goes(t)
  <1>1. TaskInv(t)
    BY DEF KernelInv
  <1>2. app.waits \subseteq Request
    BY AppIs DEF KernelInv, Settings
  <1>3. \A r \in Request : r.grp \in Group
    BY DEF Request
  <1>4. OnEvent(t) => OnEvent(t)'
    BY DEF OnEvent
  <1>5. OnFlags(t) => OnFlags(t)'
    BY <1>2, <1>3 DEF OnFlags
  <1>6. InNoPend(t) => InNoPend(t)'
    BY DEF InNoPend
  <1>7. TaskInv(t)'
    BY <1>1, <1>4, <1>5, <1>6 DEF TaskInv, Pends
  <1>8. GrantSame(t)
    BY DEF GrantSame, HasGrant
  <1>9. FlagsSame(t)
    BY DEF FlagsSame, HasFlags, Pends
  <1>10. QED
    BY <1>7, <1>8, <1>9 DEF Goes

\* The tables and the lists of the invariant after a step.
Kept ==
  /\ TcbKept
  /\ rdy' \subseteq {tcb[t].prio : t \in AppTasks} \cup {LowestPrio} /\ LowestPrio \in rdy'
  /\ waiting' \in [Event -> SUBSET Prio]
  /\ \A e \in Event : waiting'[e] \subseteq {tcb[t].prio : t \in AppTasks}
  /\ nodes' \in [Group -> SUBSET AppTasks] /\ inUse' \in [Group -> BOOLEAN]
  /\ evType' \in [Event -> Kinds \cup {"mutex", "unused"}]
  /\ \A e \in Event : evType'[e] = "unused" => waiting'[e] = {}
  /\ pc' \in [AllTasks -> PC]
  /\ \A t \in AppTasks : pc'[t] \in {"user", "yield", "block", "wake"}
  /\ \A t \in AllTasks \ AppTasks : pc'[t] = pc[t]
  /\ DOMAIN arg' = AllTasks
  /\ \A t \in AppTasks : TaskInv(t)'

\* What the invariant says of the present state.
LEMMA Now ==
  ASSUME KernelInv
  PROVE  /\ tcb \in [AllTasks -> TCB] /\ (\A t \in AllTasks : tcb[t].multi = {})
         /\ rdy \subseteq {tcb[t].prio : t \in AppTasks} \cup {LowestPrio} /\ LowestPrio \in rdy
         /\ waiting \in [Event -> SUBSET Prio]
         /\ \A e \in Event : waiting[e] \subseteq {tcb[t].prio : t \in AppTasks}
         /\ nodes \in [Group -> SUBSET AppTasks] /\ inUse \in [Group -> BOOLEAN]
         /\ evType \in [Event -> Kinds \cup {"mutex", "unused"}]
         /\ \A e \in Event : evType[e] = "unused" => waiting[e] = {}
         /\ pc \in [AllTasks -> PC]
         /\ \A t \in AppTasks : pc[t] \in {"user", "yield", "block", "wake"}
         /\ DOMAIN arg = AllTasks
         /\ AppTasks \subseteq AllTasks /\ AppTasks \subseteq Task
         /\ \A t \in AppTasks : TaskInv(t)
         /\ AllTasks \ AppTasks = (Task \ AppTasks) \cup {Idle}
  <1>1. evType \in [Event -> Kinds \cup {"mutex", "unused"}]
    BY DEF KernelInv, CoreTypeOK, Kinds
  <1>2. AppTasks \subseteq Task /\ Idle \notin AppTasks
    BY AppIs DEF KernelInv, Settings
  <1>3. QED
    BY <1>1, <1>2 DEF KernelInv, CoreTypeOK, MutexInv, MutexTypes, Settings, Lists, AllTasks

\* A step after which pc is that of a task that runs in a call or in its own
\* code.
LEMMA RunnerGoes ==
  ASSUME KernelInv, NEW t \in AppTasks, NEW where \in {"user", "yield", "block", "wake"},
         pc' = [pc EXCEPT ![t] = where]
  PROVE  /\ pc' \in [AllTasks -> PC] /\ pc'[t] = where
         /\ \A u \in AppTasks : pc'[u] \in {"user", "yield", "block", "wake"}
         /\ \A u \in AllTasks : u # t => pc'[u] = pc[u]
         /\ \A u \in AllTasks \ AppTasks : pc'[u] = pc[u]
  BY Now DEF PC

LEMMA QuietKeeps ==
  ASSUME KernelInv, app' = app, Quiet
  PROVE  Kept /\ AllGo
  <1>1. UNCHANGED <<tcb, rdy, evType, waiting, pc, arg, inUse, nodes>>
    BY DEF Quiet, coreVars
  <1>2. AllGo
    BY <1>1, TaskStays DEF AllGo
  <1>3. QED
    BY <1>1, <1>2, Now DEF Kept, TcbKept, AllGo, Goes

LEMMA CreateKeeps ==
  ASSUME KernelInv, app' = app, NEW t \in Task, NEW e \in Event, NEW type \in Kinds, Create(t, e, type)
  PROVE  Kept /\ AllGo
  <1>1. /\ UNCHANGED <<tcb, rdy, pc, arg, inUse, nodes>>
        /\ evType[e] = "unused" /\ evType' = [evType EXCEPT ![e] = type]
        /\ waiting' = [waiting EXCEPT ![e] = {}]
    BY DEF Create, EventCreate, Returns, Listed
  <1>2. waiting[e] = {} /\ waiting' = waiting
    BY <1>1, Now
  <1>3. \A f \in Event : waiting[f] # {} => evType'[f] = evType[f]
    BY <1>1, <1>2, Now
  <1>4. AllGo
    BY <1>1, <1>2, <1>3, TaskStays DEF AllGo
  <1>5. QED
    BY <1>1, <1>2, <1>4, Now DEF Kept, TcbKept, Kinds, AllGo, Goes

\* The task t is chosen by an answer to the event e.
Taken(t, e, st) ==
  /\ TaskInv(t)' /\ FlagsSame(t)
  /\ \A f \in Event : ~HasGrant(t, f) /\ (HasGrant(t, f)' <=> f = e /\ st = "ok")

\* A task that is chosen by a post, an abort or a deletion.
LEMMA Chosen ==
  ASSUME KernelInv, app' = app, NEW e \in Event, NEW ts \in SUBSET Waiters(e), NEW m \in Msg \cup {None},
         NEW st \in {"ok", "abort"}, evType[e] \in Kinds, OS_EventTaskRdy(e, ts, m, evType[e], st),
         NEW t \in ts, pc'[t] \in {"block", "wake"} <=> pc[t] \in {"block", "wake"}, arg'[t] = arg[t], Listed
  PROVE  Taken(t, e, st)
  <1>1. /\ t \in AppTasks /\ tcb[t].prio \in waiting[e] /\ TaskInv(t)
        /\ evType[e] \in PendAny /\ evType[e] # "suspend"
    BY WaitersAre, Now DEF Kinds, PendAny
  <1>2. OnEvent(t) /\ Pends(t) /\ arg[t] = e
    BY <1>1, Now DEF TaskInv, InNoPend, OnFlags, OnEvent
  <1>3. /\ tcb'[t].dly = 0 /\ tcb'[t].pend = st /\ tcb'[t].stat = tcb[t].stat \ {evType[e]}
        /\ tcb'[t].eptr = tcb[t].eptr /\ tcb'[t].prio = tcb[t].prio
        /\ tcb[t].prio \in rdy' <=> tcb[t].prio \in rdy \/ "suspend" \notin tcb[t].stat
        /\ \A f \in Event : tcb[t].prio \in waiting'[f] <=> tcb[t].prio \in waiting[f] /\ f # e
    <2>1. ReadiedAs(e, ts, m, evType[e], st)
      BY <1>1, Readied
    <2>2. QED
      BY <1>1, <2>1, Now DEF ReadiedAs, TcbKept
  <1>4. tcb[t].stat \subseteq {evType[e], "suspend"}
    BY <1>2 DEF OnEvent, PendsFor, NoPend
  <1>5. NoPend(tcb[t])'
    BY <1>3, <1>4 DEF NoPend
  <1>6. OnEvent(t)'
    BY <1>2, <1>3, <1>5 DEF OnEvent, Listed
  <1>7. tcb'[t].prio \in rdy' <=> Unheld(tcb[t])'
    BY <1>1, <1>3, <1>4 DEF Unheld, TaskInv
  <1>8. TaskInv(t)'
    BY <1>2, <1>6, <1>7 DEF TaskInv, Pends
  <1>9. \A f \in Event : ~HasGrant(t, f) /\ (HasGrant(t, f)' <=> f = e /\ st = "ok")
    BY <1>1, <1>2, <1>3 DEF HasGrant, OnEvent
  <1>10. FlagsSame(t)
    BY <1>2, RequestAssumption DEF FlagsSame, HasFlags
  <1>11. QED
    BY <1>8, <1>9, <1>10 DEF Taken

\* The tasks ts, chosen by an answer to their pends.
Answers(e, ts, st) ==
  \A u \in AppTasks : /\ FlagsSame(u)
                      /\ \A f \in Event : HasGrant(u, f)' <=> HasGrant(u, f) \/ (f = e /\ u \in ts /\ st = "ok")

LEMMA DeleteKeeps ==
  ASSUME KernelInv, app' = app, NEW t \in Task, NEW e \in Event, NEW always \in BOOLEAN, Delete(t, e, always)
  PROVE  Kept /\ Answers(e, Waiters(e), "ok")
  <1> DEFINE ts == Waiters(e)
  <1>1. /\ Runs(t) /\ evType[e] \in Kinds /\ OS_EventTaskRdy(e, ts, None, evType[e], "ok")
        /\ evType' = [evType EXCEPT ![e] = "unused"]
        /\ arg' = arg /\ (pc' = pc \/ pc' = [pc EXCEPT ![t] = "yield"])
        /\ Listed
    BY DEF Delete, EventDel, Returns, Yields
  <1>2. t \in AppTasks /\ pc[t] = "user" /\ evType[e] \in PendAny 
        /\ ReadiedAs(e, ts, None, evType[e], "ok")
    <2>1. t \in AppTasks /\ pc[t] = "user" /\ evType[e] \in PendAny
      BY <1>1, Runner DEF Runs, Kinds, PendAny
    <2>2. QED
      BY <1>1, <2>1, Readied
  <1>3. /\ pc' \in [AllTasks -> PC]
        /\ \A u \in AppTasks : pc'[u] \in {"user", "yield", "block", "wake"}
        /\ \A u \in AllTasks \ AppTasks : pc'[u] = pc[u]
        /\ \A u \in AppTasks : pc'[u] \in {"block", "wake"} <=> pc[u] \in {"block", "wake"}
    BY <1>1, <1>2, Now, RunnerGoes
  <1>4. \A u \in ts : Taken(u, e, "ok")
    BY <1>1, <1>2, <1>3, Chosen, WaitersAre
  <1>5. \A u \in AppTasks \ ts : Goes(u)
    <2> SUFFICES ASSUME NEW u \in AppTasks \ ts PROVE Goes(u)
      OBVIOUS
    <2>1. /\ tcb'[u] = tcb[u] /\ (tcb[u].prio \in rdy' <=> tcb[u].prio \in rdy)
          /\ \A f \in Event : tcb[u].prio \in waiting'[f] <=> tcb[u].prio \in waiting[f]
      BY <1>2 DEF ReadiedAs
    <2>2. tcb[u].prio \notin waiting[e]
      BY WaitersAre
    <2>3. QED
      BY <1>1, <1>3, <2>1, <2>2, Now, TaskStays DEF Listed
  <1>6. waiting'[e] = {}
    <2>1. waiting'[e] \subseteq waiting[e]
      BY <1>2 DEF ReadiedAs
    <2>2. \A u \in AppTasks : tcb[u].prio \notin waiting'[e]
      BY <1>2, WaitersAre DEF ReadiedAs
    <2>3. QED
      BY <2>1, <2>2, Now
  <1>7. /\ TcbKept
        /\ rdy' \subseteq {tcb[u].prio : u \in AppTasks} \cup {LowestPrio} /\ LowestPrio \in rdy'
        /\ waiting' \in [Event -> SUBSET Prio]
        /\ \A f \in Event : waiting'[f] \subseteq waiting[f]
    BY <1>2 DEF ReadiedAs
  <1>8. Answers(e, ts, "ok")
    BY <1>4, <1>5 DEF Answers, Taken, Goes, GrantSame
  <1>9. \A u \in AppTasks : TaskInv(u)'
    BY <1>4, <1>5 DEF Taken, Goes
  <1>10. QED
    BY <1>1, <1>3, <1>6, <1>7, <1>8, <1>9, Now DEF Kept, Listed

LEMMA AnswerKeeps ==
  ASSUME KernelInv, app' = app, NEW e \in Event, NEW ts \in SUBSET AppTasks, NEW m \in Msg \cup {None},
         NEW st \in {"ok", "abort"}, Answer(e, ts, m, st)
  PROVE  Kept /\ Answers(e, ts, st)
  <1>1. /\ evType[e] \in Kinds /\ OS_EventTaskRdy(e, ts, m, evType[e], st)
        /\ evType' = evType /\ Listed
        /\ evType[e] \in PendAny
    BY DEF Answer, Kinds, PendAny
  <1>2. ts \in SUBSET Waiters(e) /\ ReadiedAs(e, ts, m, evType[e], st)
    <2>1. ts \in SUBSET Waiters(e)
      BY WaitersAre DEF Answer
    <2>2. QED
      BY <1>1, <2>1, Readied
  <1>3. arg' = arg /\ (pc' = pc \/ \E t \in AppTasks : pc[t] = "user" /\ pc' = [pc EXCEPT ![t] = "yield"])
    BY Runner DEF Answer, Ends, PostedByTask, PostedByISR, Returns, Yields, Runs
  <1>4. /\ pc' \in [AllTasks -> PC]
        /\ \A u \in AppTasks : pc'[u] \in {"user", "yield", "block", "wake"}
        /\ \A u \in AllTasks \ AppTasks : pc'[u] = pc[u]
        /\ \A u \in AppTasks : pc'[u] \in {"block", "wake"} <=> pc[u] \in {"block", "wake"}
    BY <1>3, Now, RunnerGoes
  <1>5. \A u \in ts : Taken(u, e, st)
    BY <1>1, <1>2, <1>3, <1>4, Chosen, WaitersAre
  <1>6. \A u \in AppTasks \ ts : Goes(u)
    <2> SUFFICES ASSUME NEW u \in AppTasks \ ts PROVE Goes(u)
      OBVIOUS
    <2>1. /\ tcb'[u] = tcb[u] /\ (tcb[u].prio \in rdy' <=> tcb[u].prio \in rdy)
          /\ \A f \in Event : tcb[u].prio \in waiting'[f] <=> tcb[u].prio \in waiting[f]
      BY <1>2 DEF ReadiedAs
    <2>2. QED
      BY <1>1, <1>3, <1>4, <2>1, TaskStays DEF Listed
  <1>7. /\ TcbKept
        /\ rdy' \subseteq {tcb[u].prio : u \in AppTasks} \cup {LowestPrio} /\ LowestPrio \in rdy'
        /\ waiting' \in [Event -> SUBSET Prio]
        /\ \A f \in Event : waiting'[f] \subseteq waiting[f]
    BY <1>2 DEF ReadiedAs
  <1>8. Answers(e, ts, st)
    BY <1>5, <1>6 DEF Answers, Taken, Goes, GrantSame
  <1>9. \A u \in AppTasks : TaskInv(u)'
    BY <1>5, <1>6 DEF Taken, Goes
  <1>10. QED
    BY <1>1, <1>3, <1>4, <1>7, <1>8, <1>9, Now DEF Kept, Listed

\* A step in which one task changes its TCB and leaves the ready list: the
\* other tasks stay.
LEMMA OneTask ==
  ASSUME KernelInv, app' = app, NEW t \in AppTasks, NEW c \in TCB, tcb' = [tcb EXCEPT ![t] = c],
         c.prio = tcb[t].prio, c.multi = {},
         \/ rdy' = rdy
         \/ rdy' = rdy \ {tcb[t].prio}
         \/ rdy' = rdy \cup {tcb[t].prio}
  PROVE  /\ TcbKept /\ tcb'[t] = c
         /\ \A u \in AppTasks \ {t} : tcb'[u] = tcb[u] /\ (tcb[u].prio \in rdy' <=> tcb[u].prio \in rdy)
         /\ rdy' \subseteq {tcb[u].prio : u \in AppTasks} \cup {LowestPrio} /\ LowestPrio \in rdy'
  <1>1. tcb'[t] = c /\ (\A u \in AllTasks \ {t} : tcb'[u] = tcb[u]) /\ tcb' \in [AllTasks -> TCB]
    BY Now
  <1>2. TcbKept
    BY <1>1, Now DEF TcbKept
  <1>3. \A u \in AppTasks \ {t} : tcb[u].prio # tcb[t].prio
    BY OwnPriority
  <1>4. tcb[t].prio # LowestPrio
    BY OwnPriority
  <1>5. QED
    BY <1>1, <1>2, <1>3, <1>4, Now

LEMMA BlockKeeps ==
  ASSUME KernelInv, app' = app, NEW t \in Task, NEW e \in Event, NEW ticks \in Nat, BlockOn(t, e, ticks)
  PROVE  Kept /\ AllGo
  <1> DEFINE bit == evType[e]
             c == [tcb[t] EXCEPT !.stat = @ \cup {bit}, !.pend = "ok", !.dly = ticks, !.eptr = e]
             p == tcb[t].prio
  <1>1. /\ t \in AppTasks /\ pc[t] = "user" /\ bit \in Kinds /\ bit \in PendAny /\ tcb[t] \in TCB
        /\ tcb[t].multi = {}
    BY Runner, OwnPriority, Now DEF BlockOn, Runs, Kinds, PendAny
  <1>2. /\ tcb' = [tcb EXCEPT ![t] = c]
        /\ waiting' = [waiting EXCEPT ![e] = @ \cup {p}]
        /\ rdy' = rdy \ {p}
        /\ pc' = [pc EXCEPT ![t] = "block"] /\ arg' = [arg EXCEPT ![t] = e]
        /\ evType' = evType /\ UNCHANGED <<inUse, nodes>>
    BY DEF BlockOn, Block, OS_EventTaskWait, Listed
  <1>3. /\ c \in TCB /\ c.prio = p /\ c.multi = {} /\ c.stat = tcb[t].stat \cup {bit} /\ c.pend = "ok"
        /\ c.dly = ticks /\ c.eptr = e
    BY <1>1 DEF TCB, Stat, PendAny
  <1> HIDE DEF c
  <1>4. /\ TcbKept /\ tcb'[t] = c
        /\ \A u \in AppTasks \ {t} : tcb'[u] = tcb[u] /\ (tcb[u].prio \in rdy' <=> tcb[u].prio \in rdy)
        /\ rdy' \subseteq {tcb[u].prio : u \in AppTasks} \cup {LowestPrio} /\ LowestPrio \in rdy'
    BY <1>1, <1>2, <1>3, OneTask
  <1>5. /\ waiting' \in [Event -> SUBSET Prio]
        /\ \A f \in Event : waiting'[f] \subseteq {tcb[u].prio : u \in AppTasks}
        /\ \A f \in Event : waiting'[f] = IF f = e THEN waiting[f] \cup {p} ELSE waiting[f]
    BY <1>1, <1>2, Now, OwnPriority
  <1>6. /\ pc' \in [AllTasks -> PC] /\ pc'[t] = "block"
        /\ \A u \in AppTasks : pc'[u] \in {"user", "yield", "block", "wake"}
        /\ \A u \in AllTasks : u # t => pc'[u] = pc[u]
        /\ \A u \in AllTasks \ AppTasks : pc'[u] = pc[u]
    BY <1>1, <1>2, RunnerGoes
  <1>7. DOMAIN arg' = AllTasks /\ arg'[t] = e /\ \A u \in AppTasks \ {t} : arg'[u] = arg[u]
    BY <1>1, <1>2, Now
  <1>8. Goes(t)
    <2>1. InNoPend(t)
      BY <1>1, Now DEF TaskInv, Pends
    <2>2. PendsFor(tcb[t], bit)'
      BY <1>2, <1>3, <1>4, <2>1 DEF PendsFor, InNoPend, NoPend
    <2>3. OnEvent(t)'
      BY <1>1, <1>2, <1>3, <1>4, <1>5, <1>7, <2>1, <2>2 DEF OnEvent, InNoPend, Kinds
    <2>4. tcb'[t].prio \notin rdy' /\ ~Unheld(tcb[t])'
      BY <1>2, <1>3, <1>4 DEF Unheld
    <2>5. TaskInv(t)'
      BY <1>6, <2>3, <2>4 DEF TaskInv, Pends
    <2>6. GrantSame(t)
      <3>1. e # None /\ p \in waiting'[e]
        BY <1>5, CoreAssumption
      <3>2. QED
        BY <1>3, <1>4, <2>1, <3>1, CoreAssumption DEF GrantSame, HasGrant, InNoPend
    <2>7. FlagsSame(t)
      BY <1>1, <1>7, RequestAssumption DEF FlagsSame, HasFlags, Pends
    <2>8. QED
      BY <2>5, <2>6, <2>7 DEF Goes
  <1>9. \A u \in AppTasks \ {t} : Goes(u)
    <2> SUFFICES ASSUME NEW u \in AppTasks \ {t} PROVE Goes(u)
      OBVIOUS
    <2>1. \A f \in Event : tcb[u].prio \in waiting'[f] <=> tcb[u].prio \in waiting[f]
      BY <1>1, <1>5, OwnPriority
    <2>2. QED
      BY <1>2, <1>4, <1>6, <1>7, <2>1, Now, TaskStays
  <1>10. AllGo
    BY <1>8, <1>9 DEF AllGo
  <1>11. QED
    BY <1>1, <1>2, <1>4, <1>5, <1>6, <1>7, <1>10, Now DEF Kept, AllGo, Goes, Kinds

\* A step of a task goes on with another part of its code.
LEMMA TaskGoes ==
  ASSUME KernelInv, arg' = arg,
         pc' = pc \/ \E t \in AppTasks : pc[t] \in {"user", "yield"} /\
                       \E where \in {"user", "yield"} : pc' = [pc EXCEPT ![t] = where]
  PROVE  /\ pc' \in [AllTasks -> PC] /\ DOMAIN arg' = AllTasks
         /\ \A u \in AppTasks : pc'[u] \in {"user", "yield", "block", "wake"}
         /\ \A u \in AllTasks \ AppTasks : pc'[u] = pc[u]
         /\ \A u \in AppTasks : pc'[u] \in {"block", "wake"} <=> pc[u] \in {"block", "wake"}
  BY Now, RunnerGoes

\* What OS_FlagTaskRdy does to the tasks ts that wait for the group g.
FlagReadiedAs(g, ts) ==
  /\ TcbKept
  /\ \A u \in AppTasks \ ts : tcb'[u] = tcb[u] /\ (tcb[u].prio \in rdy' <=> tcb[u].prio \in rdy)
  /\ \A u \in ts : /\ tcb'[u].dly = 0 /\ tcb'[u].pend = "ok" /\ tcb'[u].stat = tcb[u].stat \ {"flag"}
                   /\ tcb'[u].eptr = tcb[u].eptr /\ tcb'[u].msg = tcb[u].msg
                   /\ tcb[u].prio \in rdy' <=> tcb[u].prio \in rdy \/ tcb[u].stat \subseteq {"flag"}
  /\ rdy' \subseteq {tcb[u].prio : u \in AppTasks} \cup {LowestPrio} /\ LowestPrio \in rdy'
  /\ nodes' \in [Group -> SUBSET AppTasks]
  /\ \A f \in Group : nodes'[f] = IF f = g THEN nodes[f] \ ts ELSE nodes[f]

LEMMA FlagReadied ==
  ASSUME KernelInv, NEW g \in Group, NEW ts \in SUBSET nodes[g], NEW got, OS_FlagTaskRdy(g, ts, got)
  PROVE  FlagReadiedAs(g, ts)
  <1>1. /\ ts \subseteq AppTasks /\ AppTasks \subseteq AllTasks
        /\ tcb \in [AllTasks -> TCB]
        /\ nodes \in [Group -> SUBSET AppTasks]
    BY Now
  <1>2. tcb' = [t \in AllTasks |->
                  IF t \in ts
                  THEN [tcb[t] EXCEPT !.dly = 0, !.stat = @ \ {"flag"}, !.pend = "ok"]
                  ELSE tcb[t]]
    BY DEF OS_FlagTaskRdy
  <1>3. \A c \in TCB : /\ [c EXCEPT !.dly = 0, !.stat = @ \ {"flag"}, !.pend = "ok"] \in TCB
                       /\ [c EXCEPT !.dly = 0, !.stat = @ \ {"flag"}, !.pend = "ok"].prio = c.prio
                       /\ [c EXCEPT !.dly = 0, !.stat = @ \ {"flag"}, !.pend = "ok"].multi = c.multi
    BY DEF TCB
  <1>4. TcbKept
    BY <1>1, <1>2, <1>3, Now DEF TcbKept
  <1>5. /\ \A u \in AppTasks \ ts : tcb'[u] = tcb[u]
        /\ \A u \in ts : /\ tcb'[u].dly = 0 /\ tcb'[u].pend = "ok" /\ tcb'[u].stat = tcb[u].stat \ {"flag"}
                         /\ tcb'[u].eptr = tcb[u].eptr /\ tcb'[u].msg = tcb[u].msg
    BY <1>1, <1>2 DEF TCB
  <1>6. rdy' = rdy \cup {tcb[t].prio : t \in {u \in ts : tcb[u].stat \subseteq {"flag"}}}
    BY DEF OS_FlagTaskRdy, ReadiedBy
  <1>7. \A u \in AppTasks : tcb[u].prio \in rdy' <=>
          tcb[u].prio \in rdy \/ (u \in ts /\ tcb[u].stat \subseteq {"flag"})
    BY <1>1, <1>6, OwnPriority
  <1>8. rdy' \subseteq {tcb[u].prio : u \in AppTasks} \cup {LowestPrio} /\ LowestPrio \in rdy'
    BY <1>1, <1>6, Now
  <1>9. nodes' = [nodes EXCEPT ![g] = nodes[g] \ ts]
    BY DEF OS_FlagTaskRdy
  <1>10. QED
    BY <1>1, <1>4, <1>5, <1>7, <1>8, <1>9 DEF FlagReadiedAs

\* A task that waits for flags is inside its pend.
LEMMA InGroup ==
  ASSUME KernelInv, NEW g \in Group, NEW t \in nodes[g]
  PROVE  t \in AppTasks /\ Pends(t) /\ OnFlags(t) /\ arg[t] \in Request /\ arg[t].grp = g /\ inUse[g]
  <1>1. t \in AppTasks /\ TaskInv(t)
    BY Now
  <1>2. app.waits \subseteq Request
    BY AppIs DEF KernelInv, Settings
  <1>3. QED
    BY <1>1, <1>2 DEF TaskInv, InNoPend, OnEvent, OnFlags

\* The steps of a post or a deletion of flags, for the tasks ts.
LEMMA FlagsKeep ==
  ASSUME KernelInv, app' = app, NEW g \in Group, NEW ts \in SUBSET nodes[g], NEW got,
         OS_FlagTaskRdy(g, ts, got), UNCHANGED <<evType, waiting, arg>>,
         pc' = pc \/ \E t \in AppTasks : pc[t] = "user" /\ pc' = [pc EXCEPT ![t] = "yield"],
         inUse' = inUse \/ (inUse' = [inUse EXCEPT ![g] = FALSE] /\ ts = nodes[g])
  PROVE  Kept /\ \A u \in AppTasks : GrantSame(u)
  <1>1. /\ pc' \in [AllTasks -> PC] /\ DOMAIN arg' = AllTasks
        /\ \A u \in AppTasks : pc'[u] \in {"user", "yield", "block", "wake"}
        /\ \A u \in AllTasks \ AppTasks : pc'[u] = pc[u]
        /\ \A u \in AppTasks : pc'[u] \in {"block", "wake"} <=> pc[u] \in {"block", "wake"}
    BY TaskGoes
  <1>2. FlagReadiedAs(g, ts)
    BY FlagReadied
  <1>3. inUse' \in [Group -> BOOLEAN] /\ \A f \in Group : nodes'[f] # {} => inUse'[f] = inUse[f]
    <2>1. CASE inUse' = inUse
      BY <2>1, Now
    <2>2. CASE inUse' = [inUse EXCEPT ![g] = FALSE] /\ ts = nodes[g]
      <3>1. nodes'[g] = {}
        BY <1>2, <2>2 DEF FlagReadiedAs
      <3>2. inUse' \in [Group -> BOOLEAN] /\ \A f \in Group : f # g => inUse'[f] = inUse[f]
        BY <2>2, Now
      <3>3. QED
        BY <3>1, <3>2
    <2>3. QED
      BY <2>1, <2>2
  <1>4. ASSUME NEW u \in ts PROVE TaskInv(u)' /\ GrantSame(u)
    <2>1. u \in AppTasks /\ Pends(u) /\ OnFlags(u) /\ arg[u].grp = g /\ TaskInv(u)
      BY InGroup, Now
    <2>2. tcb[u].stat \subseteq {"flag", "suspend"} /\ tcb'[u].prio = tcb[u].prio
      BY <1>2, <2>1, Now DEF OnFlags, PendsFor, NoPend, TcbKept, FlagReadiedAs
    <2>3. OnFlags(u)'
      BY <1>2, <2>1, <2>2 DEF OnFlags, NoPend, FlagReadiedAs
    <2>4. tcb'[u].prio \in rdy' <=> Unheld(tcb[u])'
      BY <1>2, <2>1, <2>2 DEF TaskInv, Unheld, FlagReadiedAs
    <2>5. TaskInv(u)'
      BY <1>1, <2>1, <2>3, <2>4 DEF TaskInv, Pends
    <2>6. GrantSame(u)
      BY <1>2, <2>1, CoreAssumption DEF GrantSame, HasGrant, OnFlags, FlagReadiedAs
    <2>7. QED
      BY <2>5, <2>6
  <1>5. ASSUME NEW u \in AppTasks \ ts PROVE TaskInv(u)' /\ GrantSame(u)
    <2>1. \A f \in Group : u \in nodes'[f] <=> u \in nodes[f]
      BY <1>2 DEF FlagReadiedAs
    <2>2. \A f \in Group : u \in nodes[f] => inUse'[f] = inUse[f]
      BY <1>3, <2>1
    <2>3. QED
      BY <1>1, <1>2, <2>1, <2>2, TaskStays DEF FlagReadiedAs, Goes
  <1>6. QED
    BY <1>1, <1>2, <1>3, <1>4, <1>5, Now DEF Kept, FlagReadiedAs

LEMMA FlagBlockKeeps ==
  ASSUME KernelInv, app' = app, NEW t \in Task, NEW r \in app.waits, NEW ticks \in Nat, FlagBlock(t, r, ticks)
  PROVE  Kept /\ AllGo
  <1> DEFINE c == [tcb[t] EXCEPT !.stat = @ \cup {"flag"}, !.pend = "ok", !.dly = ticks]
             p == tcb[t].prio
             g == r.grp
  <1>1. /\ t \in AppTasks /\ pc[t] = "user" /\ tcb[t] \in TCB /\ tcb[t].multi = {}
        /\ r \in Request /\ g \in Group
    BY Runner, OwnPriority, Now, AppIs DEF FlagBlock, Runs, Request, KernelInv, Settings
  <1>2. /\ tcb' = [tcb EXCEPT ![t] = c]
        /\ nodes' = [nodes EXCEPT ![g] = @ \cup {t}]
        /\ rdy' = rdy \ {p}
        /\ pc' = [pc EXCEPT ![t] = "block"] /\ arg' = [arg EXCEPT ![t] = r]
        /\ UNCHANGED <<evType, waiting, inUse>> /\ inUse[g]
    <2>1. tcb' = [tcb EXCEPT ![t] = c]
      BY DEF FlagBlock, OS_FlagBlock
    <2>2. /\ OS_FlagBlock(t, r, ticks)
          /\ pc' = [pc EXCEPT ![t] = "block"] /\ arg' = [arg EXCEPT ![t] = r]
          /\ UNCHANGED <<evType, waiting, inUse>> /\ inUse[g]
      BY DEF FlagBlock
    <2>3. QED
      BY <2>1, <2>2 DEF OS_FlagBlock
  <1>3. /\ c \in TCB /\ c.prio = p /\ c.multi = {} /\ c.stat = tcb[t].stat \cup {"flag"} /\ c.pend = "ok"
        /\ c.dly = ticks /\ c.eptr = tcb[t].eptr
    BY <1>1 DEF TCB, Stat, PendAny
  <1> HIDE DEF c
  <1>4. /\ TcbKept /\ tcb'[t] = c
        /\ \A u \in AppTasks \ {t} : tcb'[u] = tcb[u] /\ (tcb[u].prio \in rdy' <=> tcb[u].prio \in rdy)
        /\ rdy' \subseteq {tcb[u].prio : u \in AppTasks} \cup {LowestPrio} /\ LowestPrio \in rdy'
    BY <1>1, <1>2, <1>3, OneTask
  <1>5. /\ nodes' \in [Group -> SUBSET AppTasks]
        /\ \A f \in Group : nodes'[f] = IF f = g THEN nodes[f] \cup {t} ELSE nodes[f]
    BY <1>1, <1>2, Now
  <1>6. /\ pc' \in [AllTasks -> PC] /\ pc'[t] = "block"
        /\ \A u \in AppTasks : pc'[u] \in {"user", "yield", "block", "wake"}
        /\ \A u \in AllTasks : u # t => pc'[u] = pc[u]
        /\ \A u \in AllTasks \ AppTasks : pc'[u] = pc[u]
    BY <1>1, <1>2, RunnerGoes
  <1>7. DOMAIN arg' = AllTasks /\ arg'[t] = r /\ \A u \in AppTasks \ {t} : arg'[u] = arg[u]
    BY <1>1, <1>2, Now
  <1>8. Goes(t)
    <2>1. InNoPend(t)
      BY <1>1, Now DEF TaskInv, Pends
    <2>2. PendsFor(tcb[t], "flag")'
      BY <1>2, <1>3, <1>4, <2>1 DEF PendsFor, InNoPend, NoPend
    <2>3. OnFlags(t)'
      BY <1>1, <1>2, <1>3, <1>4, <1>5, <1>7, <2>1, <2>2 DEF OnFlags, InNoPend
    <2>4. tcb'[t].prio \notin rdy' /\ ~Unheld(tcb[t])'
      BY <1>2, <1>3, <1>4 DEF Unheld
    <2>5. TaskInv(t)'
      BY <1>6, <2>3, <2>4 DEF TaskInv, Pends
    <2>6. GrantSame(t)
      BY <1>3, <1>4, <2>1, CoreAssumption DEF GrantSame, HasGrant, InNoPend
    <2>7. FlagsSame(t)
      BY <1>1, <1>3, <1>4 DEF FlagsSame, HasFlags, Pends
    <2>8. QED
      BY <2>5, <2>6, <2>7 DEF Goes
  <1>9. \A u \in AppTasks \ {t} : Goes(u)
    <2> SUFFICES ASSUME NEW u \in AppTasks \ {t} PROVE Goes(u)
      OBVIOUS
    <2>1. \A f \in Group : u \in nodes'[f] <=> u \in nodes[f]
      BY <1>5
    <2>2. QED
      BY <1>2, <1>4, <1>6, <1>7, <2>1, Now, TaskStays
  <1>10. AllGo
    BY <1>8, <1>9 DEF AllGo
  <1>11. QED
    BY <1>1, <1>2, <1>4, <1>5, <1>6, <1>7, <1>10, Now DEF Kept, AllGo, Goes

\* A group is not in use before its creation, so that nobody waits for it.
LEMMA FlagCreateKeeps ==
  ASSUME KernelInv, app' = app, NEW t \in Task, NEW g \in Group, NEW fs, OSFlagCreate(t, g, fs)
  PROVE  Kept /\ AllGo
  <1>1. /\ UNCHANGED <<tcb, rdy, evType, waiting, pc, arg>> /\ ~inUse[g]
        /\ inUse' = [inUse EXCEPT ![g] = TRUE] /\ nodes' = [nodes EXCEPT ![g] = {}]
    BY DEF OSFlagCreate, coreVars
  <1>2. nodes[g] = {}
    BY <1>1, InGroup, Now
  <1>3. nodes' = nodes /\ inUse' \in [Group -> BOOLEAN] /\ \A f \in Group : f # g => inUse'[f] = inUse[f]
    BY <1>1, <1>2, Now
  <1>4. AllGo
    BY <1>1, <1>2, <1>3, TaskStays DEF AllGo
  <1>5. QED
    BY <1>1, <1>3, <1>4, Now DEF Kept, TcbKept, AllGo, Goes

\* A task that has the processor after a wait is ready.
LEMMA Awake ==
  ASSUME KernelInv, NEW t \in Task, cur = t, pc[t] = "wake"
  PROVE  t \in AppTasks /\ lockNesting = 0 /\ tcb[t].prio \in rdy /\ Unheld(tcb[t])
  <1>1. t \in AppTasks
    BY Runner, CoreAssumption
  <1>2. lockNesting = 0 /\ tcb[t].prio \in rdy
    BY DEF KernelInv, Processor
  <1>3. QED
    BY <1>1, <1>2, Now DEF TaskInv

LEMMA FlagWakeKeeps ==
  ASSUME KernelInv, app' = app, NEW t \in Task, FlagWake(t)
  PROVE  Kept /\ AllGo
  <1> DEFINE r == arg[t]
             c == [tcb[t] EXCEPT !.pend = "ok", !.stat = {}]
  <1>1. /\ t \in AppTasks /\ r \in Request /\ pc[t] = "wake" /\ Unheld(tcb[t]) /\ tcb[t].prio \in rdy
        /\ tcb[t] \in TCB /\ tcb[t].multi = {} /\ OnFlags(t)
    <2>1. t \in AppTasks /\ r \in Request /\ pc[t] = "wake" /\ Unheld(tcb[t]) /\ tcb[t].prio \in rdy
      BY Awake DEF FlagWake
    <2>2. TaskInv(t) /\ r \notin Event
      BY <2>1, Now, RequestAssumption
    <2>3. QED
      BY <2>1, <2>2, Now, OwnPriority DEF TaskInv, Pends, OnEvent
  <1>2. /\ UNCHANGED <<rdy, evType, waiting, inUse>>
        /\ pc' = [pc EXCEPT ![t] = "user"] /\ arg' = [arg EXCEPT ![t] = None]
    BY DEF FlagWake
  <1>3. /\ pc' \in [AllTasks -> PC] /\ pc'[t] = "user"
        /\ \A u \in AppTasks : pc'[u] \in {"user", "yield", "block", "wake"}
        /\ \A u \in AllTasks : u # t => pc'[u] = pc[u]
        /\ \A u \in AllTasks \ AppTasks : pc'[u] = pc[u]
    BY <1>1, <1>2, RunnerGoes
  <1>4. DOMAIN arg' = AllTasks /\ \A u \in AppTasks \ {t} : arg'[u] = arg[u]
    BY <1>1, <1>2, Now
  <1>5. c \in TCB /\ c.prio = tcb[t].prio /\ c.multi = {} /\ c.pend = "ok" /\ c.stat = {}
        /\ c.dly = tcb[t].dly /\ c.eptr = tcb[t].eptr
    BY <1>1 DEF TCB
  <1>6. /\ tcb' = [tcb EXCEPT ![t] = c]
        /\ nodes' \in [Group -> SUBSET AppTasks]
        /\ \A f \in Group : nodes'[f] = nodes[f] \ {t}
    <2>1. CASE tcb[t].pend # "ok"
      <3>1. tcb' = [tcb EXCEPT ![t] = c] /\ nodes' = [nodes EXCEPT ![r.grp] = @ \ {t}]
        BY <2>1 DEF FlagWake
      <3>2. r.grp \in Group /\ \A f \in Group : t \in nodes[f] => f = r.grp
        BY <1>1 DEF OnFlags, Request
      <3>3. QED
        BY <3>1, <3>2, Now
    <2>2. CASE tcb[t].pend = "ok"
      <3>1. tcb' = tcb /\ nodes' = nodes
        BY <2>2 DEF FlagWake
      <3>2. tcb[t].stat = {}
        BY <1>1 DEF Unheld
      <3>3. c = tcb[t]
        BY <1>1, <2>2, <3>2 DEF TCB
      <3>4. t \notin nodes[r.grp]
        BY <1>1, <2>2, <3>2 DEF OnFlags, PendsFor, NoPend, Unheld
      <3>5. \A f \in Group : t \notin nodes[f]
        BY <1>1, <3>4 DEF OnFlags
      <3>6. QED
        BY <1>1, <3>1, <3>3, <3>5, Now
    <2>3. QED
      BY <2>1, <2>2
  <1> HIDE DEF c
  <1>7. /\ TcbKept /\ tcb'[t] = c
        /\ \A u \in AppTasks \ {t} : tcb'[u] = tcb[u] /\ (tcb[u].prio \in rdy' <=> tcb[u].prio \in rdy)
        /\ rdy' \subseteq {tcb[u].prio : u \in AppTasks} \cup {LowestPrio} /\ LowestPrio \in rdy'
    BY <1>1, <1>2, <1>5, <1>6, OneTask
  <1>8. Goes(t)
    <2>1. InNoPend(t)'
      BY <1>1, <1>2, <1>5, <1>6, <1>7 DEF InNoPend, NoPend, OnFlags
    <2>2. tcb'[t].prio \in rdy' /\ Unheld(tcb[t])'
      BY <1>1, <1>2, <1>5, <1>7 DEF Unheld
    <2>3. TaskInv(t)'
      BY <1>3, <2>1, <2>2 DEF TaskInv, Pends
    <2>4. GrantSame(t)
      BY <1>1, <1>5, <1>7, CoreAssumption DEF GrantSame, HasGrant, OnFlags
    <2>5. FlagsSame(t)
      BY <1>3 DEF FlagsSame, HasFlags, Pends
    <2>6. QED
      BY <2>3, <2>4, <2>5 DEF Goes
  <1>9. \A u \in AppTasks \ {t} : Goes(u)
    BY <1>2, <1>3, <1>4, <1>6, <1>7, Now, TaskStays
  <1>10. AllGo
    BY <1>8, <1>9 DEF AllGo
  <1>11. QED
    BY <1>1, <1>2, <1>3, <1>4, <1>6, <1>7, <1>10, Now DEF Kept, AllGo, Goes

LEMMA FlagStepKeeps ==
  ASSUME KernelInv, app' = app, FlagStep
  PROVE  Kept /\ \A u \in AppTasks : GrantSame(u)
  <1> DEFINE KeptSame == Kept /\ \A u \in AppTasks : GrantSame(u)
  <1>1. ASSUME NEW t \in Task, NEW g \in Group, NEW fs \in SUBSET Flag, OSFlagCreate(t, g, fs)
        PROVE  KeptSame
    BY <1>1, FlagCreateKeeps DEF AllGo, Goes
  <1>2. ASSUME NEW t \in Task, NEW g \in Group, NEW fs \in SUBSET Flag, NEW set \in BOOLEAN,
               OSFlagPost(t, g, fs, set)
        PROVE  KeptSame
    <2> DEFINE ts == Satisfied(g, Changed(g, fs, set))
    <2>1. /\ Runs(t) /\ OS_FlagTaskRdy(g, ts, [u \in ts |-> Present(arg[u], Changed(g, fs, set))])
          /\ UNCHANGED <<evType, waiting, arg, inUse>> /\ (pc' = pc \/ pc' = [pc EXCEPT ![t] = "yield"])
      BY <1>2 DEF OSFlagPost, Posted, Readies, Returns, Yields
    <2>2. t \in AppTasks /\ pc[t] = "user"
      BY <2>1, Runner DEF Runs
    <2>3. ts \in SUBSET nodes[g]
      BY DEF Satisfied
    <2>4. QED
      BY <2>1, <2>2, <2>3, FlagsKeep
  <1>3. ASSUME NEW t \in Task, NEW r \in app.waits, NEW ticks \in Nat, FlagBlock(t, r, ticks)
        PROVE  KeptSame
    BY <1>3, FlagBlockKeeps DEF AllGo, Goes
  <1>4. ASSUME NEW t \in Task, NEW g \in Group, NEW always \in BOOLEAN, OSFlagDel(t, g, always)
        PROVE  KeptSame
    <2>1. /\ Runs(t) /\ OS_FlagTaskRdy(g, nodes[g], [u \in nodes[g] |-> {}])
          /\ UNCHANGED <<evType, waiting, arg>> /\ (pc' = pc \/ pc' = [pc EXCEPT ![t] = "yield"])
          /\ inUse' = [inUse EXCEPT ![g] = FALSE]
      BY <1>4 DEF OSFlagDel, Returns, Yields
    <2>2. t \in AppTasks /\ pc[t] = "user"
      BY <2>1, Runner DEF Runs
    <2>3. QED
      BY <2>1, <2>2, FlagsKeep
  <1>5. ASSUME NEW t \in Task, FlagWake(t) PROVE KeptSame
    BY <1>5, FlagWakeKeeps DEF AllGo, Goes
  <1>6. ASSUME NEW g \in Group, NEW fs \in SUBSET Flag, NEW set \in BOOLEAN, OSFlagPostISR(g, fs, set)
        PROVE  KeptSame
    <2> DEFINE ts == Satisfied(g, Changed(g, fs, set))
    <2>1. /\ OS_FlagTaskRdy(g, ts, [u \in ts |-> Present(arg[u], Changed(g, fs, set))])
          /\ UNCHANGED <<evType, waiting, arg, inUse, pc>>
      BY <1>6 DEF OSFlagPostISR, Posted, Readies
    <2>2. ts \in SUBSET nodes[g]
      BY DEF Satisfied
    <2>3. QED
      BY <2>1, <2>2, FlagsKeep
  <1> HIDE DEF KeptSame
  <1>7. KeptSame
    BY <1>1, <1>2, <1>3, <1>4, <1>5, <1>6 DEF FlagStep
  <1>8. QED
    BY <1>7 DEF KeptSame

\* What delays, timeouts and suspensions do to the TCB of a task, which is c
\* then: it is suspended or resumed, its delay goes on or begins, or its delay
\* ends, and with it the wait of a pend.
Elapses(u, c) ==
  \/ /\ c.stat \ {"suspend"} = tcb[u].stat \ {"suspend"} /\ c.pend = tcb[u].pend
     /\ c.dly = tcb[u].dly \/ tcb[u].dly # 0 \/ ~Pends(u)
  \/ /\ tcb[u].dly # 0 /\ c.dly = 0 /\ c.stat = tcb[u].stat \ PendAny
     /\ c.pend = IF tcb[u].stat \cap PendAny # {} THEN "to" ELSE "ok"

LEMMA TaskElapses ==
  ASSUME KernelInv, app' = app, NEW u \in AppTasks, Elapses(u, tcb'[u]),
         tcb'[u].prio = tcb[u].prio, tcb'[u].eptr = tcb[u].eptr,
         UNCHANGED <<evType, waiting, inUse, nodes>>,
         arg'[u] = arg[u], pc'[u] \in {"block", "wake"} <=> pc[u] \in {"block", "wake"},
         tcb[u].prio \in rdy' <=> Unheld(tcb'[u])
  PROVE  Goes(u)
  <1>1. TaskInv(u)
    BY Now
  <1>2. Unheld(tcb[u])' = Unheld(tcb'[u])
    BY DEF Unheld
  <1>3. ASSUME ~Pends(u) PROVE TaskInv(u)'
    <2>1. InNoPend(u)
      BY <1>1, <1>3 DEF TaskInv
    <2>2. NoPend(tcb'[u]) /\ tcb'[u].pend = "ok"
      BY <2>1 DEF Elapses, InNoPend, NoPend, PendAny
    <2>3. InNoPend(u)'
      BY <2>1, <2>2 DEF InNoPend, NoPend
    <2>4. QED
      BY <1>2, <1>3, <2>3 DEF TaskInv, Pends
  <1>4. ASSUME Pends(u), OnEvent(u) PROVE TaskInv(u)'
    <2>1. ASSUME PendsFor(tcb[u], evType[arg[u]]), evType[arg[u]] \in {"sem", "mbox", "q", "mutex"}
          PROVE  \/ PendsFor(tcb'[u], evType[arg[u]])
                 \/ NoPend(tcb'[u]) /\ tcb'[u].pend = "to" /\ tcb'[u].dly = 0
      BY <2>1, <1>4 DEF Elapses, PendsFor, NoPend, PendAny
    <2>2. ASSUME NoPend(tcb[u]), tcb[u].dly = 0
          PROVE  NoPend(tcb'[u]) /\ tcb'[u].pend = tcb[u].pend /\ tcb'[u].dly = 0
      BY <2>2, <1>4 DEF Elapses, NoPend
    <2>3. OnEvent(u)'
      BY <1>4, <2>1, <2>2 DEF OnEvent, PendsFor, NoPend
    <2>4. QED
      BY <1>2, <1>4, <2>3 DEF TaskInv, Pends
  <1>5. ASSUME Pends(u), OnFlags(u) PROVE TaskInv(u)'
    <2>1. ASSUME PendsFor(tcb[u], "flag")
          PROVE  \/ PendsFor(tcb'[u], "flag")
                 \/ NoPend(tcb'[u]) /\ tcb'[u].pend = "to" /\ tcb'[u].dly = 0
      BY <2>1, <1>5 DEF Elapses, PendsFor, NoPend, PendAny
    <2>2. ASSUME NoPend(tcb[u]), tcb[u].dly = 0
          PROVE  NoPend(tcb'[u]) /\ tcb'[u].pend = tcb[u].pend /\ tcb'[u].dly = 0
      BY <2>2, <1>5 DEF Elapses, NoPend
    <2>3. arg[u].grp \in Group
      BY <1>5, AppIs DEF OnFlags, KernelInv, Settings, Request
    <2>4. OnFlags(u)'
      BY <1>5, <2>1, <2>2, <2>3 DEF OnFlags, PendsFor, NoPend
    <2>5. QED
      BY <1>2, <1>5, <2>4 DEF TaskInv, Pends
  <1>6. TaskInv(u)'
    BY <1>1, <1>3, <1>4, <1>5 DEF TaskInv
  <1>7. GrantSame(u)
    <2>1. CASE tcb'[u].pend = tcb[u].pend
      BY <2>1 DEF GrantSame, HasGrant
    <2>2. CASE tcb[u].dly # 0
      <3>1. tcb[u].eptr = None \/ tcb[u].prio \in waiting[tcb[u].eptr]
        BY <1>1, <2>2 DEF TaskInv, InNoPend, OnEvent, OnFlags
      <3>2. QED
        BY <3>1, CoreAssumption DEF GrantSame, HasGrant
    <2>3. QED
      BY <2>1, <2>2 DEF Elapses
  <1>8. FlagsSame(u)
    <2>1. ASSUME Pends(u), arg[u] \in Request, tcb[u].dly # 0, tcb'[u].stat = tcb[u].stat \ PendAny,
                 tcb'[u].pend = IF tcb[u].stat \cap PendAny # {} THEN "to" ELSE "ok"
          PROVE  tcb'[u].pend = "to"
      <3>1. OnFlags(u)
        BY <1>1, <2>1, RequestAssumption DEF TaskInv, OnEvent
      <3>2. "flag" \in tcb[u].stat
        BY <2>1, <3>1 DEF OnFlags, PendsFor
      <3>3. QED
        BY <2>1, <3>2 DEF PendAny
    <2>2. QED
      BY <2>1 DEF FlagsSame, HasFlags, Elapses, Pends
  <1>9. QED
    BY <1>6, <1>7, <1>8 DEF Goes

LEMMA OneElapses ==
  ASSUME KernelInv, app' = app, NEW u \in AppTasks, NEW c \in TCB, tcb' = [tcb EXCEPT ![u] = c],
         Elapses(u, c), c.prio = tcb[u].prio, c.eptr = tcb[u].eptr, c.multi = {},
         \/ rdy' = rdy
         \/ rdy' = rdy \ {tcb[u].prio}
         \/ rdy' = rdy \cup {tcb[u].prio},
         tcb[u].prio \in rdy' <=> Unheld(c),
         UNCHANGED <<evType, waiting, arg, inUse, nodes>>,
         pc' = pc \/ \E t \in AppTasks : pc[t] = "user" /\ pc' = [pc EXCEPT ![t] = "yield"]
  PROVE  Kept /\ AllGo
  <1>1. /\ pc' \in [AllTasks -> PC] /\ DOMAIN arg' = AllTasks
        /\ \A v \in AppTasks : pc'[v] \in {"user", "yield", "block", "wake"}
        /\ \A v \in AllTasks \ AppTasks : pc'[v] = pc[v]
        /\ \A v \in AppTasks : pc'[v] \in {"block", "wake"} <=> pc[v] \in {"block", "wake"}
    BY TaskGoes
  <1>2. /\ TcbKept /\ tcb'[u] = c
        /\ \A v \in AppTasks \ {u} : tcb'[v] = tcb[v] /\ (tcb[v].prio \in rdy' <=> tcb[v].prio \in rdy)
        /\ rdy' \subseteq {tcb[v].prio : v \in AppTasks} \cup {LowestPrio} /\ LowestPrio \in rdy'
    BY OneTask
  <1>3. Goes(u)
    BY <1>1, <1>2, TaskElapses
  <1>4. \A v \in AppTasks \ {u} : Goes(v)
    BY <1>1, <1>2, TaskStays
  <1>5. QED
    BY <1>1, <1>2, <1>3, <1>4, Now DEF Kept, AllGo, Goes

\* The task that a priority is that of.
LEMMA Named ==
  ASSUME KernelInv, NEW p \in Prio, prioTbl[p] \in Task
  PROVE  prioTbl[p] \in AppTasks
  BY CoreAssumption DEF KernelInv, Settings

LEMMA TimeDlyKeeps ==
  ASSUME KernelInv, app' = app, NEW t \in Task, NEW ticks \in Nat, OSTimeDly(t, ticks), Listed
  PROVE  Kept /\ AllGo
  <1> DEFINE c == [tcb[t] EXCEPT !.dly = ticks]
  <1>1. /\ t \in AppTasks /\ pc[t] = "user" /\ tcb[t] \in TCB /\ tcb[t].multi = {} /\ TaskInv(t)
    BY Runner, OwnPriority, Now DEF OSTimeDly, Runs
  <1>2. /\ tcb' = [tcb EXCEPT ![t] = c] /\ rdy' = rdy \ {tcb[t].prio} /\ ticks # 0
        /\ pc' = [pc EXCEPT ![t] = "yield"]
        /\ UNCHANGED <<evType, waiting, arg, inUse, nodes>>
    BY DEF OSTimeDly, Yields, Listed
  <1>3. /\ c \in TCB /\ c.prio = tcb[t].prio /\ c.eptr = tcb[t].eptr /\ c.multi = {} /\ c.dly = ticks
        /\ c.stat = tcb[t].stat /\ c.pend = tcb[t].pend
    BY <1>1 DEF TCB
  <1> HIDE DEF c
  <1>4. Elapses(t, c) /\ ~Unheld(c)
    BY <1>1, <1>2, <1>3 DEF Elapses, Pends, Unheld
  <1>5. QED
    BY <1>1, <1>2, <1>3, <1>4, OneElapses

LEMMA DlyResumeKeeps ==
  ASSUME KernelInv, app' = app, NEW t \in Task, NEW p \in Prio, OSTimeDlyResume(t, p), Listed
  PROVE  Kept /\ AllGo
  <1> DEFINE u == prioTbl[p]
             c == [tcb[u] EXCEPT !.dly = 0, !.stat = @ \ PendAny,
                                 !.pend = IF tcb[u].stat \cap PendAny # {} THEN "to" ELSE "ok"]
  <1>1. /\ t \in AppTasks /\ pc[t] = "user" /\ u \in AppTasks
        /\ tcb[u] \in TCB /\ tcb[u].multi = {} /\ tcb[u].dly # 0 /\ TaskInv(u)
    BY Runner, OwnPriority, Now, Named DEF OSTimeDlyResume, Runs
  <1>2. /\ tcb' = [tcb EXCEPT ![u] = c]
        /\ rdy' = IF "suspend" \notin tcb[u].stat THEN rdy \cup {tcb[u].prio} ELSE rdy
        /\ pc' = pc \/ pc' = [pc EXCEPT ![t] = "yield"]
        /\ UNCHANGED <<evType, waiting, arg, inUse, nodes>>
    <2>1. tcb' = [tcb EXCEPT ![u] = c]
      BY DEF OSTimeDlyResume
    <2>2. QED
      BY <2>1 DEF OSTimeDlyResume, Returns, Yields, Listed
  <1>3. /\ c \in TCB /\ c.prio = tcb[u].prio /\ c.eptr = tcb[u].eptr /\ c.multi = {} /\ c.dly = 0
        /\ c.stat = tcb[u].stat \ PendAny
        /\ c.pend = IF tcb[u].stat \cap PendAny # {} THEN "to" ELSE "ok"
    BY <1>1 DEF TCB
  <1> HIDE DEF c
  <1>4. Elapses(u, c)
    BY <1>1, <1>3 DEF Elapses
  <1>5. tcb[u].stat \subseteq PendAny \cup {"suspend"} /\ tcb[u].prio \notin rdy
    BY <1>1 DEF TaskInv, InNoPend, OnEvent, OnFlags, PendsFor, NoPend, PendAny, Unheld
  <1>6. tcb[u].prio \in rdy' <=> Unheld(c)
    BY <1>2, <1>3, <1>5 DEF Unheld, PendAny
  <1>7. QED
    BY <1>1, <1>2, <1>3, <1>4, <1>6, OneElapses

LEMMA SuspendKeeps ==
  ASSUME KernelInv, app' = app, NEW t \in Task, NEW p \in Prio, OSTaskSuspend(t, p), Listed
  PROVE  Kept /\ AllGo
  <1> DEFINE u == prioTbl[p]
             c == [tcb[u] EXCEPT !.stat = @ \cup {"suspend"}]
  <1>1. /\ t \in AppTasks /\ pc[t] = "user" /\ u \in AppTasks
        /\ tcb[u] \in TCB /\ tcb[u].multi = {}
    BY Runner, OwnPriority, Now, Named DEF OSTaskSuspend, Runs
  <1>2. /\ tcb' = [tcb EXCEPT ![u] = c]
        /\ rdy' = rdy \ {tcb[u].prio}
        /\ pc' = pc \/ pc' = [pc EXCEPT ![t] = "yield"]
        /\ UNCHANGED <<evType, waiting, arg, inUse, nodes>>
    BY DEF OSTaskSuspend, Returns, Yields, Listed
  <1>3. /\ c \in TCB /\ c.prio = tcb[u].prio /\ c.eptr = tcb[u].eptr /\ c.multi = {}
        /\ c.dly = tcb[u].dly /\ c.stat = tcb[u].stat \cup {"suspend"} /\ c.pend = tcb[u].pend
    BY <1>1 DEF TCB, Stat
  <1> HIDE DEF c
  <1>4. Elapses(u, c)
    BY <1>3 DEF Elapses
  <1>5. ~Unheld(c)
    BY <1>3 DEF Unheld
  <1>6. QED
    BY <1>1, <1>2, <1>3, <1>4, <1>5, OneElapses

LEMMA ResumeKeeps ==
  ASSUME KernelInv, app' = app, NEW t \in Task, NEW p \in Prio, OSTaskResume(t, p), Listed
  PROVE  Kept /\ AllGo
  <1> DEFINE u == prioTbl[p]
             c == [tcb[u] EXCEPT !.stat = @ \ {"suspend"}]
  <1>1. /\ t \in AppTasks /\ pc[t] = "user" /\ u \in AppTasks
        /\ tcb[u] \in TCB /\ tcb[u].multi = {} /\ "suspend" \in tcb[u].stat /\ TaskInv(u)
    BY Runner, OwnPriority, Now, Named DEF OSTaskResume, Runs
  <1>2. /\ tcb' = [tcb EXCEPT ![u] = c]
        /\ rdy' = IF tcb[u].stat = {"suspend"} /\ tcb[u].dly = 0 THEN rdy \cup {tcb[u].prio} ELSE rdy
        /\ pc' = pc \/ pc' = [pc EXCEPT ![t] = "yield"]
        /\ UNCHANGED <<evType, waiting, arg, inUse, nodes>>
    BY DEF OSTaskResume, Returns, Yields, Listed
  <1>3. /\ c \in TCB /\ c.prio = tcb[u].prio /\ c.eptr = tcb[u].eptr /\ c.multi = {}
        /\ c.dly = tcb[u].dly /\ c.stat = tcb[u].stat \ {"suspend"} /\ c.pend = tcb[u].pend
    BY <1>1 DEF TCB
  <1> HIDE DEF c
  <1>4. Elapses(u, c)
    BY <1>3 DEF Elapses
  <1>5. tcb[u].prio \in rdy' <=> Unheld(c)
    BY <1>1, <1>2, <1>3 DEF Unheld, TaskInv
  <1>6. QED
    BY <1>1, <1>2, <1>3, <1>4, <1>5, OneElapses

LEMMA TimeStepKeeps ==
  ASSUME KernelInv, app' = app, TimeStep
  PROVE  Kept /\ AllGo
  <1>1. PICK t \in Task :
          \/ \E ticks \in Nat : OSTimeDly(t, ticks)
          \/ \E p \in Prio : OSTimeDlyResume(t, p) \/ OSTaskSuspend(t, p) \/ OSTaskResume(t, p)
          \/ OSSchedLock(t) \/ OSSchedUnlock(t)
    BY DEF TimeStep
  <1>2. Listed
    BY DEF TimeStep
  <1>3. ASSUME OSSchedLock(t) \/ OSSchedUnlock(t) PROVE Kept /\ AllGo
    <2>1. /\ UNCHANGED <<tcb, rdy, evType, waiting, arg, inUse, nodes>> /\ Runs(t)
          /\ pc' = pc \/ pc' = [pc EXCEPT ![t] = "yield"]
      BY <1>2, <1>3 DEF OSSchedLock, OSSchedUnlock, Returns, Yields, Listed
    <2>2. t \in AppTasks /\ pc[t] = "user"
      BY <2>1, Runner DEF Runs
    <2>3. /\ pc' \in [AllTasks -> PC] /\ DOMAIN arg' = AllTasks
          /\ \A v \in AppTasks : pc'[v] \in {"user", "yield", "block", "wake"}
          /\ \A v \in AllTasks \ AppTasks : pc'[v] = pc[v]
          /\ \A v \in AppTasks : pc'[v] \in {"block", "wake"} <=> pc[v] \in {"block", "wake"}
      BY <2>1, <2>2, TaskGoes
    <2>4. AllGo
      BY <2>1, <2>3, TaskStays DEF AllGo
    <2>5. QED
      BY <2>1, <2>3, <2>4, Now DEF Kept, TcbKept, AllGo, Goes
  <1>4. QED
    BY <1>1, <1>2, <1>3, TimeDlyKeeps, DlyResumeKeeps, SuspendKeeps, ResumeKeeps

LEMMA SchedKeeps ==
  ASSUME KernelInv, app' = app, NEW t \in Task, OS_Sched(t), Listed
  PROVE  Kept /\ AllGo
  <1>1. /\ UNCHANGED <<tcb, rdy, evType, waiting, arg, inUse, nodes>>
        /\ cur = t /\ pc[t] \in {"yield", "block", "exit"} /\ pc' = [pc EXCEPT ![t] = AfterSched[@]]
    BY DEF OS_Sched, AfterSched, Listed
  <1>2. t \in AppTasks /\ pc[t] \in {"yield", "block"}
    BY <1>1, Runner, Now, CoreAssumption
  <1>3. pc' = [pc EXCEPT ![t] = IF pc[t] = "yield" THEN "user" ELSE "wake"]
    <2>1. AfterSched["yield"] = "user" /\ AfterSched["block"] = "wake"
      BY DEF AfterSched
    <2>2. QED
      BY <1>1, <1>2, <2>1
  <1>4. /\ pc' \in [AllTasks -> PC] /\ pc'[t] = IF pc[t] = "yield" THEN "user" ELSE "wake"
        /\ \A u \in AppTasks : pc'[u] \in {"user", "yield", "block", "wake"}
        /\ \A u \in AllTasks : u # t => pc'[u] = pc[u]
        /\ \A u \in AllTasks \ AppTasks : pc'[u] = pc[u]
    BY <1>2, <1>3, RunnerGoes
  <1>5. \A u \in AppTasks : pc'[u] \in {"block", "wake"} <=> pc[u] \in {"block", "wake"}
    BY <1>2, <1>4, Now
  <1>6. AllGo
    BY <1>1, <1>5, TaskStays DEF AllGo
  <1>7. QED
    BY <1>1, <1>4, <1>6, Now DEF Kept, TcbKept, AllGo, Goes

LEMMA WakeKeeps ==
  ASSUME KernelInv, app' = app, NEW t \in Task, Wake(t), Listed
  PROVE  /\ Kept /\ t \in AppTasks
         /\ \A u \in AppTasks : /\ FlagsSame(u)
                               /\ \A f \in Event : HasGrant(u, f)' <=> HasGrant(u, f) /\ u # t
  <1> DEFINE e == arg[t]
             c == Cleared(tcb[t])
  <1>1. /\ t \in AppTasks /\ e \in Event /\ pc[t] = "wake" /\ Unheld(tcb[t]) /\ tcb[t].prio \in rdy
        /\ tcb[t] \in TCB /\ tcb[t].multi = {} /\ OnEvent(t)
    <2>1. t \in AppTasks /\ e \in Event /\ pc[t] = "wake" /\ Unheld(tcb[t]) /\ tcb[t].prio \in rdy
      BY Awake DEF Wake
    <2>2. TaskInv(t) /\ e \notin app.waits
      BY <2>1, Now, RequestAssumption, AppIs DEF KernelInv, Settings
    <2>3. QED
      BY <2>1, <2>2, Now, OwnPriority DEF TaskInv, Pends, OnFlags
  <1>2. /\ UNCHANGED <<rdy, evType, inUse, nodes>> /\ tcb' = [tcb EXCEPT ![t] = c]
        /\ waiting' = LeaveTimedOut(t)
        /\ pc' = [pc EXCEPT ![t] = "user"] /\ arg' = [arg EXCEPT ![t] = None]
    BY DEF Wake, Listed
  <1>3. /\ pc' \in [AllTasks -> PC] /\ pc'[t] = "user"
        /\ \A u \in AppTasks : pc'[u] \in {"user", "yield", "block", "wake"}
        /\ \A u \in AllTasks : u # t => pc'[u] = pc[u]
        /\ \A u \in AllTasks \ AppTasks : pc'[u] = pc[u]
    BY <1>1, <1>2, RunnerGoes
  <1>4. DOMAIN arg' = AllTasks /\ \A u \in AppTasks \ {t} : arg'[u] = arg[u]
    BY <1>1, <1>2, Now
  <1>5. c \in TCB /\ c.prio = tcb[t].prio /\ c.multi = {} /\ c.pend = "ok" /\ c.stat = {}
        /\ c.dly = tcb[t].dly /\ c.eptr = None
    BY <1>1 DEF TCB, Cleared
  <1> HIDE DEF c
  <1>6. /\ waiting' \in [Event -> SUBSET Prio]
        /\ \A f \in Event : waiting'[f] = waiting[f] \ {tcb[t].prio}
    <2>1. CASE tcb[t].pend = "to"
      <3>1. waiting' = [waiting EXCEPT ![e] = @ \ {tcb[t].prio}]
        BY <1>2, <2>1 DEF LeaveTimedOut
      <3>2. QED
        BY <1>1, <3>1, Now DEF OnEvent
    <2>2. CASE tcb[t].pend # "to"
      <3>1. waiting' = waiting
        BY <1>2, <2>2 DEF LeaveTimedOut
      <3>2. tcb[t].prio \notin waiting[e]
        BY <1>1, <2>2 DEF OnEvent, PendsFor, Unheld
      <3>3. QED
        BY <1>1, <3>1, <3>2, Now DEF OnEvent
    <2>3. QED
      BY <2>1, <2>2
  <1>7. /\ TcbKept /\ tcb'[t] = c
        /\ \A u \in AppTasks \ {t} : tcb'[u] = tcb[u] /\ (tcb[u].prio \in rdy' <=> tcb[u].prio \in rdy)
        /\ rdy' \subseteq {tcb[u].prio : u \in AppTasks} \cup {LowestPrio} /\ LowestPrio \in rdy'
    BY <1>1, <1>2, <1>5, OneTask
  <1>8. TaskInv(t)'
    <2>1. InNoPend(t)'
      BY <1>1, <1>2, <1>5, <1>6, <1>7 DEF InNoPend, NoPend, OnEvent
    <2>2. tcb'[t].prio \in rdy' /\ Unheld(tcb[t])'
      BY <1>1, <1>2, <1>5, <1>7 DEF Unheld
    <2>3. QED
      BY <1>3, <2>1, <2>2 DEF TaskInv, Pends
  <1>9. \A u \in AppTasks \ {t} : Goes(u)
    <2> SUFFICES ASSUME NEW u \in AppTasks \ {t} PROVE Goes(u)
      OBVIOUS
    <2>1. \A f \in Event : tcb[u].prio \in waiting'[f] <=> tcb[u].prio \in waiting[f]
      BY <1>1, <1>6, OwnPriority
    <2>2. QED
      BY <1>2, <1>3, <1>4, <1>7, <2>1, Now, TaskStays
  <1>10. FlagsSame(t) /\ \A f \in Event : ~HasGrant(t, f)'
    BY <1>3, <1>5, <1>7, CoreAssumption DEF FlagsSame, HasFlags, HasGrant, Pends
  <1>11. /\ \A u \in AppTasks : TaskInv(u)'
         /\ \A u \in AppTasks : /\ FlagsSame(u)
                               /\ \A f \in Event : HasGrant(u, f)' <=> HasGrant(u, f) /\ u # t
    BY <1>8, <1>9, <1>10 DEF Goes, GrantSame
  <1>12. QED
    BY <1>1, <1>2, <1>3, <1>4, <1>6, <1>7, <1>11, Now DEF Kept

LEMMA TickKeeps ==
  ASSUME KernelInv, app' = app, OSTimeTick, Listed
  PROVE  Kept /\ AllGo
  <1>1. /\ tcb' = [t \in AllTasks |-> Ticked(tcb[t])]
        /\ rdy' = rdy \cup {tcb[t].prio : t \in Expired}
        /\ UNCHANGED <<evType, waiting, pc, arg, inUse, nodes>>
    BY DEF OSTimeTick, Listed
  <1>2. ASSUME NEW c \in TCB
        PROVE  /\ Ticked(c) \in TCB
               /\ Ticked(c).prio = c.prio /\ Ticked(c).multi = c.multi /\ Ticked(c).eptr = c.eptr
               /\ c.dly = 0 => Ticked(c) = c
               /\ c.dly # 1 => /\ Ticked(c).stat = c.stat /\ Ticked(c).pend = c.pend
                               /\ Ticked(c).dly = 0 <=> c.dly = 0
               /\ c.dly = 1 => /\ Ticked(c).dly = 0 /\ Ticked(c).stat = c.stat \ PendAny
                               /\ Ticked(c).pend = IF c.stat \cap PendAny # {} THEN "to" ELSE "ok"
    <2>1. CASE c.dly = 1
      <3> DEFINE pend == IF c.stat \cap PendAny # {} THEN "to" ELSE "ok"
      <3>1. Ticked(c) = [c EXCEPT !.dly = 0, !.stat = c.stat \ PendAny, !.pend = pend]
        BY <2>1 DEF Ticked
      <3>2. pend \in {"ok", "to", "abort"}
        OBVIOUS
      <3> HIDE DEF pend
      <3>3. Ticked(c) \in TCB
        <4>1. c.stat \ PendAny \in SUBSET Stat /\ 0 \in Nat
          BY DEF TCB
        <4>2. QED
          BY <3>1, <3>2, <4>1 DEF TCB
      <3>4. /\ Ticked(c).prio = c.prio /\ Ticked(c).multi = c.multi /\ Ticked(c).eptr = c.eptr
            /\ Ticked(c).dly = 0 /\ Ticked(c).stat = c.stat \ PendAny /\ Ticked(c).pend = pend
        BY <3>1 DEF TCB
      <3>5. Ticked(c).pend = IF c.stat \cap PendAny # {} THEN "to" ELSE "ok"
        BY <3>4 DEF pend
      <3>6. c.dly # 0
        BY <2>1
      <3>7. QED
        BY <2>1, <3>3, <3>4, <3>5, <3>6
    <2>2. CASE c.dly # 1
      <3>1. (IF c.dly = 0 THEN 0 ELSE c.dly - 1) \in Nat
        BY DEF TCB
      <3>2. Ticked(c) = [c EXCEPT !.dly = IF c.dly = 0 THEN 0 ELSE c.dly - 1]
        BY <2>2 DEF Ticked
      <3>3. c.dly \in Nat
        BY DEF TCB
      <3>4. Ticked(c).dly = 0 <=> c.dly = 0
        BY <2>2, <3>2, <3>3 DEF TCB
      <3>5. c.dly = 0 => Ticked(c) = c
        BY <3>2 DEF TCB
      <3>6. QED
        BY <2>2, <3>1, <3>2, <3>4, <3>5 DEF TCB
    <2>3. QED
      BY <2>1, <2>2
  <1>3. TcbKept
    <2>1. \A t \in AllTasks \ AppTasks : tcb[t].dly = 0
      BY DEF KernelInv, Settings, NewTCB
    <2>2. QED
      BY <1>1, <1>2, <2>1, Now DEF TcbKept
  <1>4. Expired \subseteq AppTasks /\ \A u \in AppTasks : u \in Expired <=> tcb[u].dly = 1 /\ "suspend" \notin tcb[u].stat
    <2>1. \A t \in Task \ AppTasks : tcb[t].dly = 0
      BY DEF KernelInv, Settings, NewTCB, AllTasks
    <2>2. QED
      BY <2>1, Now DEF Expired
  <1>5. /\ rdy' \subseteq {tcb[u].prio : u \in AppTasks} \cup {LowestPrio} /\ LowestPrio \in rdy'
        /\ \A u \in AppTasks : tcb[u].prio \in rdy' <=> tcb[u].prio \in rdy \/ u \in Expired
    BY <1>1, <1>4, Now, OwnPriority
  <1>6. ASSUME NEW u \in AppTasks PROVE Goes(u)
    <2>1. tcb[u] \in TCB /\ tcb'[u] = Ticked(tcb[u])
      BY <1>1, Now
    <2>2. Elapses(u, tcb'[u])
      BY <1>2, <2>1 DEF Elapses
    <2> TaskInv(u)
      BY Now
    <2>3. tcb[u].stat \subseteq PendAny \cup {"suspend"}
      BY DEF TaskInv, InNoPend, OnEvent, OnFlags, PendsFor, NoPend, PendAny
    <2> tcb[u].prio \in rdy <=> Unheld(tcb[u])
      BY DEF TaskInv
    <2>4. tcb[u].prio \in rdy' <=> Unheld(tcb'[u])
      <3>1. CASE tcb[u].dly = 1
        BY <1>2, <1>4, <1>5, <2>1, <2>3, <3>1 DEF Unheld, PendAny
      <3>2. CASE tcb[u].dly # 1
        BY <1>2, <1>4, <1>5, <2>1, <2>3, <3>2 DEF Unheld
      <3>3. QED
        BY <3>1, <3>2
    <2>5. QED
      BY <1>1, <1>2, <2>1, <2>2, <2>4, TaskElapses
  <1>7. QED
    BY <1>1, <1>3, <1>5, <1>6, Now DEF Kept, AllGo, Goes

\* Every step keeps the tables and the lists.
LEMMA StepKeeps ==
  ASSUME KernelInv, app' = app, KernelStep
  PROVE  Kept
  <1>1. EventStep => Kept
    BY CreateKeeps, DeleteKeeps, BlockKeeps, AnswerKeeps DEF EventStep
  <1>2. SchedStep => Kept
    BY SchedKeeps, WakeKeeps, TickKeeps DEF SchedStep
  <1>3. QED
    BY <1>1, <1>2, QuietKeeps, FlagStepKeeps, TimeStepKeeps DEF KernelStep

-----------------------------------------------------------------------------
\* The processor after a step.

\* The ready list holds priorities, and never runs empty.
LEMMA ReadyAre ==
  ASSUME KernelInv, Kept
  PROVE  /\ rdy \subseteq Prio /\ LowestPrio \in rdy /\ rdy' \subseteq Prio /\ LowestPrio \in rdy'
         /\ HighRdy(rdy) \in rdy /\ (\A q \in rdy : HighRdy(rdy) <= q)
         /\ HighRdy(rdy') \in rdy' /\ \A q \in rdy' : HighRdy(rdy') <= q
  <1>1. rdy \subseteq Prio /\ LowestPrio \in rdy
    BY DEF KernelInv, CoreTypeOK, Lists
  <1>2. rdy' \subseteq Prio /\ LowestPrio \in rdy'
    BY OwnPriority DEF Kept
  <1>3. QED
    BY <1>1, <1>2, HighRdyIs

\* The task of a ready priority.
LEMMA ReadyTask ==
  ASSUME KernelInv, NEW p \in {tcb[u].prio : u \in AppTasks} \cup {LowestPrio}
  PROVE  prioTbl[p] \in AppTasks \cup {Idle} /\ tcb[prioTbl[p]].prio = p
  <1>1. CASE p = LowestPrio
    <2>1. prioTbl[p] = Idle
      BY <1>1, OwnPriority DEF KernelInv, Settings
    <2>2. QED
      BY <1>1, <2>1, OwnPriority DEF NewTCB
  <1>2. CASE p # LowestPrio
    BY <1>2, OwnPriority DEF KernelInv, Settings
  <1>3. QED
    BY <1>1, <1>2

\* A task names itself by the priority that it has.
LEMMA NamedSelf ==
  ASSUME KernelInv, NEW t \in AppTasks, NEW p \in Prio, MaySuspend(t, p), prioTbl[p] = t
  PROVE  p = tcb[t].prio
  <1>1. CASE Serves("mutex")
    BY <1>1, RulesKept DEF MaySuspend, MutexRules
  <1>2. CASE ~Serves("mutex")
    <2>1. \A e \in Event : ~IsMutex(e) /\ owner[e] = None
      BY <1>2 DEF KernelInv, MutexInv, MutexTypes, Owners, Owned
    <2>2. t # None
      BY AppIs DEF KernelInv, Settings
    <2>3. p = app.start[t] /\ tcb[t].prio = app.start[t]
      BY <2>1, <2>2 DEF KernelInv, MutexInv, Priorities
    <2>4. QED
      BY <2>3
  <1>3. QED
    BY <1>1, <1>2

\* The mutexes stay, and nobody waits for one that did not before.
MutexesStay ==
  \A e \in Event : (IsMutex(e)' <=> IsMutex(e)) /\ (IsMutex(e) => waiting'[e] \subseteq waiting[e])

LEMMA MutexesStand ==
  ASSUME KernelInv, KernelStep
  PROVE  MutexesStay
  <1>0. evType \in [Event -> {"unused", "sem", "mbox", "q", "mutex"}] /\ waiting \in [Event -> SUBSET Prio]
    BY DEF KernelInv, CoreTypeOK
  <1>1. CASE UNCHANGED <<evType, waiting>>
    BY <1>1 DEF MutexesStay, IsMutex
  <1>2. CASE EventStep
    <2>1. ASSUME NEW t \in Task, NEW e \in Event, NEW type \in Kinds, Create(t, e, type) PROVE MutexesStay
      BY <1>0, <2>1 DEF Create, EventCreate, MutexesStay, IsMutex, Kinds
    <2>2. ASSUME NEW t \in Task, NEW e \in Event, NEW always \in BOOLEAN, Delete(t, e, always) PROVE MutexesStay
      BY <1>0, <2>2 DEF Delete, EventDel, OS_EventTaskRdy, MutexesStay, IsMutex, Kinds
    <2>3. ASSUME NEW t \in Task, NEW e \in Event, NEW ticks \in Nat, BlockOn(t, e, ticks) PROVE MutexesStay
      BY <1>0, <2>3 DEF BlockOn, Block, OS_EventTaskWait, MutexesStay, IsMutex, Kinds
    <2>4. ASSUME NEW e \in Event, NEW ts \in SUBSET AppTasks, NEW m \in Msg \cup {None},
                 NEW st \in {"ok", "abort"}, Answer(e, ts, m, st)
          PROVE  MutexesStay
      BY <1>0, <2>4 DEF Answer, OS_EventTaskRdy, MutexesStay, IsMutex
    <2>5. QED
      BY <1>2, <2>1, <2>2, <2>3, <2>4 DEF EventStep
  <1>3. Quiet \/ FlagStep \/ TimeStep => UNCHANGED <<evType, waiting>>
    BY DEF Quiet, coreVars, FlagStep, TimeStep, FlagBlock, OSFlagCreate, OSFlagPost, OSFlagPostISR, Posted, Readies,
           OSFlagDel, FlagWake, OSTimeDly, OSTimeDlyResume, OSTaskSuspend, OSTaskResume, OSSchedLock, OSSchedUnlock
  <1>4. CASE SchedStep
    <2>1. ASSUME NEW t \in Task, Wake(t) PROVE MutexesStay
      BY <1>0, <2>1 DEF Wake, LeaveTimedOut, MutexesStay, IsMutex
    <2>2. OSTimeTick \/ (\E t \in Task : OS_Sched(t)) => UNCHANGED <<evType, waiting>>
      BY DEF OSTimeTick, OS_Sched
    <2>3. QED
      BY <1>1, <1>4, <2>1, <2>2 DEF SchedStep
  <1>5. QED
    BY <1>1, <1>2, <1>3, <1>4 DEF KernelStep

\* A task that has locked the scheduler stays ready where there are mutexes.
Locked == Serves("mutex") /\ lockNesting' > 0 => tcb[cur].prio \in rdy'

LEMMA LockedStays ==
  ASSUME KernelInv, KernelStep
  PROVE  Locked
  <1> SUFFICES ASSUME Serves("mutex"), lockNesting' > 0 PROVE tcb[cur].prio \in rdy'
    BY DEF Locked
  <1> lockNesting \in 0 .. MaxNesting /\ MaxNesting \in Nat
    BY CoreAssumption DEF KernelInv, CoreTypeOK
  <1>1. CASE lockNesting' = lockNesting /\ rdy \subseteq rdy'
    BY <1>1 DEF KernelInv, Processor
  <1>2. CASE EventStep
    <2>1. ASSUME NEW t \in Task, NEW e \in Event, NEW type \in Kinds, Create(t, e, type)
          PROVE  lockNesting' = lockNesting /\ rdy \subseteq rdy'
      BY <2>1 DEF Create, EventCreate
    <2>2. ASSUME NEW t \in Task, NEW e \in Event, NEW always \in BOOLEAN, Delete(t, e, always)
          PROVE  lockNesting' = lockNesting /\ rdy \subseteq rdy'
      BY <2>2 DEF Delete, EventDel, OS_EventTaskRdy
    <2>3. ASSUME NEW t \in Task, NEW e \in Event, NEW ticks \in Nat, BlockOn(t, e, ticks)
          PROVE  FALSE
      BY <2>3 DEF BlockOn, Block
    <2>4. ASSUME NEW e \in Event, NEW ts \in SUBSET AppTasks, NEW m \in Msg \cup {None},
                 NEW st \in {"ok", "abort"}, Answer(e, ts, m, st)
          PROVE  lockNesting' = lockNesting /\ rdy \subseteq rdy'
      BY <2>4 DEF Answer, OS_EventTaskRdy, Ends, PostedByTask, PostedByISR
    <2>5. QED
      BY <1>1, <1>2, <2>1, <2>2, <2>3, <2>4 DEF EventStep
  <1>3. CASE FlagStep
    <2>1. ASSUME NEW t \in Task, NEW r \in app.waits, NEW ticks \in Nat, FlagBlock(t, r, ticks) PROVE FALSE
      BY <2>1 DEF FlagBlock
    <2>2. ASSUME NEW t \in Task, NEW g \in Group, NEW fs \in SUBSET Flag, NEW set \in BOOLEAN,
                 OSFlagCreate(t, g, fs) \/ OSFlagPost(t, g, fs, set) \/ OSFlagPostISR(g, fs, set)
          PROVE  lockNesting' = lockNesting /\ rdy \subseteq rdy'
      BY <2>2 DEF OSFlagCreate, coreVars, OSFlagPost, OSFlagPostISR, Posted, Readies, OS_FlagTaskRdy
    <2>3. ASSUME NEW t \in Task, NEW g \in Group, NEW always \in BOOLEAN, OSFlagDel(t, g, always) \/ FlagWake(t)
          PROVE  lockNesting' = lockNesting /\ rdy \subseteq rdy'
      BY <2>3 DEF OSFlagDel, FlagWake, OS_FlagTaskRdy
    <2>4. QED
      <3>1. ASSUME NEW t \in Task, NEW g \in Group, NEW fs \in SUBSET Flag, OSFlagCreate(t, g, fs)
            PROVE  lockNesting' = lockNesting /\ rdy \subseteq rdy'
        BY <3>1 DEF OSFlagCreate, coreVars
      <3>2. ASSUME NEW t \in Task, FlagWake(t)
            PROVE  lockNesting' = lockNesting /\ rdy \subseteq rdy'
        BY <3>2 DEF FlagWake
      <3>3. ASSUME NEW g \in Group, NEW fs \in SUBSET Flag, NEW set \in BOOLEAN, OSFlagPostISR(g, fs, set)
            PROVE  lockNesting' = lockNesting /\ rdy \subseteq rdy'
        BY <3>3 DEF OSFlagPostISR, Posted, Readies, OS_FlagTaskRdy
      <3>4. QED
        BY <1>1, <1>3, <2>1, <2>2, <2>3, <3>1, <3>2, <3>3 DEF FlagStep
  <1>4. CASE TimeStep
    <2>1. PICK t \in Task :
            \/ \E ticks \in Nat : MayDelay /\ OSTimeDly(t, ticks)
            \/ \E p \in Prio : \/ OSTimeDlyResume(t, p)
                               \/ MaySuspend(t, p) /\ OSTaskSuspend(t, p)
                               \/ OSTaskResume(t, p)
            \/ OSSchedLock(t) \/ OSSchedUnlock(t)
      BY <1>4 DEF TimeStep
    <2>2. MayDelay => lockNesting = 0
      BY RulesKept DEF MutexRules, MayDelay
    <2>3. CASE \E ticks \in Nat : MayDelay /\ OSTimeDly(t, ticks)
      <3>1. lockNesting' = lockNesting /\ lockNesting = 0
        BY <2>2, <2>3 DEF OSTimeDly
      <3>2. QED
        BY <3>1
    <2>4. CASE \E p \in Prio : OSTimeDlyResume(t, p) \/ OSTaskResume(t, p)
      <3>1. lockNesting' = lockNesting /\ rdy \subseteq rdy'
        BY <2>4 DEF OSTimeDlyResume, OSTaskResume
      <3>2. QED
        BY <1>1, <3>1
    <2>5. ASSUME NEW p \in Prio, MaySuspend(t, p), OSTaskSuspend(t, p) PROVE tcb[cur].prio \in rdy'
      <3>1. /\ prioTbl[p] \in AppTasks /\ t \in AppTasks /\ cur = t /\ lockNesting' = lockNesting
            /\ rdy' = rdy \ {tcb[prioTbl[p]].prio}
        BY <2>5, Named, Runner DEF OSTaskSuspend, Runs
      <3>2. prioTbl[p] # t
        <4>1. prioTbl[p] = t => MayDelay
          BY <2>5 DEF MaySuspend
        <4>2. lockNesting # 0
          BY <3>1
        <4>3. QED
          BY <2>2, <4>1, <4>2
      <3>3. tcb[prioTbl[p]].prio # tcb[t].prio
        BY <3>1, <3>2, OwnPriority
      <3>4. tcb[cur].prio \in rdy
        BY <3>1 DEF KernelInv, Processor
      <3>5. QED
        BY <3>1, <3>3, <3>4
    <2>6. CASE OSSchedLock(t) \/ OSSchedUnlock(t)
      <3>1. cur = t /\ pc[t] = "user" /\ rdy' = rdy
        BY <2>6 DEF OSSchedLock, OSSchedUnlock, Runs
      <3>2. lockNesting = 0 \/ lockNesting > 0
        OBVIOUS
      <3>3. QED
        BY <3>1, <3>2 DEF KernelInv, Processor
    <2>7. QED
      BY <2>1, <2>3, <2>4, <2>5, <2>6
  <1>5. CASE Quiet \/ SchedStep
    <2>1. lockNesting' = lockNesting /\ rdy \subseteq rdy'
      BY <1>5 DEF Quiet, coreVars, SchedStep, OS_Sched, Wake, OSTimeTick
    <2>2. QED
      BY <1>1, <2>1
  <1>6. QED
    BY <1>2, <1>3, <1>4, <1>5 DEF KernelStep

\* What the steps but those of the mutexes leave alone.
Still == MutexesStay /\ Locked /\ UNCHANGED <<app, prioTbl, pip, owner>>

\* The scheduler, at the end of a handler or of a call.
LEMMA DispatchKeeps ==
  ASSUME KernelInv, Kept, Still, lockNesting' = lockNesting, Dispatch(rdy'),
         pc'[cur] \in {"block", "wake"} => lockNesting = 0
  PROVE  Processor'
  <1>1. /\ rdy' \subseteq {tcb[t].prio : t \in AppTasks} \cup {LowestPrio}
        /\ HighRdy(rdy') \in rdy' /\ \A t \in AllTasks : tcb'[t].prio = tcb[t].prio
    BY ReadyAre DEF Kept, TcbKept
  <1>2. cur \in AppTasks \cup {Idle} /\ cur \in AllTasks
    BY DEF KernelInv, Processor, CoreTypeOK
  <1> app' = app /\ prioTbl' = prioTbl
    BY DEF Still
  <1>3. CASE lockNesting = 0 /\ HighRdy(rdy') # prioCur
    <2>1. prioCur' = HighRdy(rdy') /\ cur' = prioTbl[HighRdy(rdy')]
      BY <1>3 DEF Dispatch
    <2>2. cur' \in AppTasks \cup {Idle} /\ tcb[cur'].prio = prioCur'
      BY <1>1, <2>1, ReadyTask
    <2>3. cur' \in AllTasks
      BY <2>2, Now DEF AllTasks
    <2>4. QED
      BY <1>1, <1>3, <2>1, <2>2, <2>3 DEF Processor, AppTasks
  <1>4. CASE lockNesting = 0 /\ HighRdy(rdy') = prioCur
    <2>1. cur' = cur /\ prioCur' = prioCur
      BY <1>4 DEF Dispatch
    <2>2. prioTbl[prioCur] \in AppTasks \cup {Idle}
      BY <1>1, <1>4, ReadyTask
    <2>3. prioTbl[prioCur] \notin {Reserved, None}
      BY <2>2, AppIs, CoreAssumption DEF KernelInv, Settings
    <2>4. prioCur = tcb[cur].prio
      BY <2>3 DEF KernelInv, Processor, GoesOnRaised
    <2>5. QED
      BY <1>1, <1>2, <1>4, <2>1, <2>4 DEF Processor, AppTasks
  <1>5. CASE lockNesting # 0
    <2>1. cur' = cur /\ prioCur' = prioCur
      BY <1>5 DEF Dispatch
    <2>2. prioCur' = tcb'[cur'].prio \/ GoesOnRaised'
      BY <1>1, <1>2, <1>5, <2>1 DEF KernelInv, Processor, GoesOnRaised, AppTasks
    <2>3. Serves("mutex")' /\ lockNesting' > 0 => tcb'[cur'].prio \in rdy'
      BY <1>1, <1>2, <2>1 DEF Still, Locked, Serves
    <2>4. QED
      BY <1>2, <1>5, <2>1, <2>2, <2>3 DEF Processor, AppTasks
  <1>6. QED
    BY <1>3, <1>4, <1>5

\* A step after which the same task goes on.
GoesOn ==
  \/ pc'[cur] = "yield"
  \/ pc'[cur] = "block" /\ lockNesting' = 0
  \/ pc'[cur] = "user" /\ lockNesting' # 0
  \/ /\ pc'[cur] = "user" /\ pc[cur] \in {"user", "wake"} /\ lockNesting' = lockNesting
     /\ \/ rdy' = rdy
        \/ ~Rule("posts schedule") /\ rdy \subseteq rdy'
        \/ \E x \in Prio : x # tcb[cur].prio /\ rdy' = rdy \ {x}
  \/ UNCHANGED <<pc, rdy, lockNesting>>

LEMMA GoesOnKeeps ==
  ASSUME KernelInv, Kept, Still, UNCHANGED <<cur, prioCur>>, GoesOn
  PROVE  Processor'
  <1> app' = app /\ prioTbl' = prioTbl
    BY DEF Still
  <1>1. cur \in AppTasks \cup {Idle} /\ tcb'[cur].prio = tcb[cur].prio
    BY DEF KernelInv, Processor, CoreTypeOK, Kept, TcbKept
  <1>2. ASSUME lockNesting' = 0, pc'[cur] \in {"user", "wake"}
        PROVE  /\ lockNesting = 0 /\ pc[cur] \in {"user", "wake"}
               /\ tcb[cur].prio \in rdy'
               /\ Rule("posts schedule") /\ prioCur = tcb[cur].prio => prioCur = HighRdy(rdy')
    <2>1. lockNesting = 0 /\ pc[cur] \in {"user", "wake"}
      BY <1>2 DEF GoesOn
    <2>2. /\ tcb[cur].prio \in rdy
          /\ Rule("posts schedule") /\ prioCur = tcb[cur].prio => prioCur = HighRdy(rdy)
      BY <2>1 DEF KernelInv, Processor
    <2>3. CASE rdy' = rdy
      BY <2>1, <2>2, <2>3
    <2>4. CASE ~Rule("posts schedule") /\ rdy \subseteq rdy'
      BY <2>1, <2>2, <2>4
    <2>5. CASE \E x \in Prio : x # tcb[cur].prio /\ rdy' = rdy \ {x}
      <3>1. tcb[cur].prio \in rdy' /\ rdy' \subseteq rdy
        BY <2>2, <2>5
      <3>2. ASSUME Rule("posts schedule"), prioCur = tcb[cur].prio PROVE prioCur = HighRdy(rdy')
        <4>1. HighRdy(rdy') \in rdy /\ HighRdy(rdy') <= prioCur /\ prioCur <= HighRdy(rdy')
          BY <2>2, <3>1, <3>2, ReadyAre
        <4>2. prioCur \in Nat /\ HighRdy(rdy') \in Nat
          <5>1. rdy \subseteq Nat
            BY ReadyAre, CoreAssumption DEF Prio
          <5>2. QED
            BY <2>2, <3>2, <4>1, <5>1
        <4>3. QED
          BY <4>1, <4>2
      <3>3. QED
        BY <2>1, <3>1, <3>2
    <2>6. QED
      BY <1>2, <2>3, <2>4, <2>5 DEF GoesOn
  <1>3. pc'[cur] \in {"block", "wake"} => lockNesting' = 0
    BY DEF GoesOn, KernelInv, Processor
  <1>4. Rule("posts schedule")' = Rule("posts schedule")
    BY DEF Rule
  <1>5. prioCur' = tcb'[cur'].prio \/ GoesOnRaised'
    <2>1. CASE prioCur = tcb[cur].prio
      BY <1>1, <2>1
    <2>2. CASE GoesOnRaised
      BY <1>2, <2>2 DEF GoesOnRaised, AppTasks, Still, MutexesStay
    <2>3. QED
      BY <2>1, <2>2 DEF KernelInv, Processor
  <1>6. Serves("mutex")' /\ lockNesting' > 0 => tcb'[cur'].prio \in rdy'
    BY <1>1 DEF Still, Locked, Serves
  <1>7. QED
    BY <1>1, <1>2, <1>3, <1>4, <1>5, <1>6 DEF Processor, AppTasks

\* Where the task is that makes a call.
LEMMA CallerIs ==
  ASSUME KernelInv, NEW t \in Task, cur = t
  PROVE  /\ t \in AppTasks
         /\ \A where : pc' = [pc EXCEPT ![t] = where] => pc'[cur] = where
  <1>1. t \in AppTasks
    BY Runner, CoreAssumption
  <1>2. QED
    BY <1>1, Now

LEMMA EventProcessor ==
  ASSUME KernelInv, Kept, Still, EventStep
  PROVE  Processor' /\ lockNesting' = lockNesting
  <1>1. ASSUME NEW t \in Task, NEW e \in Event, NEW type \in Kinds, Create(t, e, type)
        PROVE  Processor' /\ lockNesting' = lockNesting
    <2>1. UNCHANGED <<cur, prioCur, pc, rdy, lockNesting>>
      BY <1>1 DEF Create, EventCreate, Returns
    <2>2. QED
      BY <2>1, GoesOnKeeps DEF GoesOn
  <1>2. ASSUME NEW t \in Task, NEW e \in Event, NEW always \in BOOLEAN, Delete(t, e, always)
        PROVE  Processor' /\ lockNesting' = lockNesting
    <2>1. /\ cur = t /\ UNCHANGED <<cur, prioCur, lockNesting>>
          /\ IF waiting[e] # {} THEN pc' = [pc EXCEPT ![t] = "yield"] ELSE pc' = pc
          /\ rdy' = rdy \cup {tcb[u].prio : u \in NotSuspended(Waiters(e))}
      BY <1>2 DEF Delete, EventDel, Yields, Returns, Runs, OS_EventTaskRdy
    <2>2. waiting[e] = {} => rdy' = rdy
      BY <2>1 DEF NotSuspended, Waiters
    <2>3. GoesOn
      BY <2>1, <2>2, CallerIs DEF GoesOn
    <2>4. QED
      BY <2>1, <2>3, GoesOnKeeps
  <1>3. ASSUME NEW t \in Task, NEW e \in Event, NEW ticks \in Nat, BlockOn(t, e, ticks)
        PROVE  Processor' /\ lockNesting' = lockNesting
    <2>1. /\ cur = t /\ UNCHANGED <<cur, prioCur, lockNesting>> /\ lockNesting = 0
          /\ pc' = [pc EXCEPT ![t] = "block"]
      BY <1>3 DEF BlockOn, Block, Runs
    <2>2. GoesOn
      BY <2>1, CallerIs DEF GoesOn
    <2>3. QED
      BY <2>1, <2>2, GoesOnKeeps
  <1>4. ASSUME NEW e \in Event, NEW ts \in SUBSET AppTasks, NEW m \in Msg \cup {None},
               NEW st \in {"ok", "abort"}, Answer(e, ts, m, st)
        PROVE  Processor' /\ lockNesting' = lockNesting
    <2>1. Ends /\ rdy \subseteq rdy'
      BY <1>4 DEF Answer, OS_EventTaskRdy
    <2>2. ASSUME NEW t \in Task, Runs(t), PostedByTask(t)
          PROVE  Processor' /\ lockNesting' = lockNesting
      <3>1. cur = t /\ UNCHANGED <<cur, prioCur, lockNesting>> /\ pc' = [pc EXCEPT ![t] = "yield"]
        BY <2>2 DEF PostedByTask, Yields, Runs
      <3>2. GoesOn
        BY <3>1, CallerIs DEF GoesOn
      <3>3. QED
        BY <3>1, <3>2, GoesOnKeeps
    <2>3. ASSUME NEW t \in Task, Runs(t), Returns, ~Rule("posts schedule"),
                 UNCHANGED <<prioTbl, cur, prioCur, lockNesting>>
          PROVE  Processor' /\ lockNesting' = lockNesting
      <3>1. pc'[cur] = "user" /\ pc[cur] = "user"
        BY <2>3 DEF Runs, Returns
      <3>2. GoesOn
        BY <2>1, <2>3, <3>1 DEF GoesOn
      <3>3. QED
        BY <2>3, <3>2, GoesOnKeeps
    <2>4. ASSUME PostedByISR PROVE Processor' /\ lockNesting' = lockNesting
      <3>1. Dispatch(rdy') /\ lockNesting' = lockNesting /\ pc' = pc
        BY <2>4 DEF PostedByISR, OSIntExit
      <3>2. pc'[cur] \in {"block", "wake"} => lockNesting = 0
        BY <3>1 DEF KernelInv, Processor
      <3>3. QED
        BY <3>1, <3>2, DispatchKeeps
    <2>5. QED
      BY <2>1, <2>2, <2>3, <2>4 DEF Ends
  <1>5. QED
    BY <1>1, <1>2, <1>3, <1>4 DEF EventStep

LEMMA FlagProcessor ==
  ASSUME KernelInv, Kept, Still, FlagStep
  PROVE  Processor' /\ lockNesting' = lockNesting
  <1>1. ASSUME NEW t \in Task, NEW g \in Group, NEW fs \in SUBSET Flag, OSFlagCreate(t, g, fs)
        PROVE  Processor' /\ lockNesting' = lockNesting
    <2>1. UNCHANGED <<cur, prioCur, pc, rdy, lockNesting>>
      BY <1>1 DEF OSFlagCreate, coreVars
    <2>2. QED
      BY <2>1, GoesOnKeeps DEF GoesOn
  <1>2. ASSUME NEW t \in Task, NEW g \in Group, NEW fs \in SUBSET Flag, NEW set \in BOOLEAN,
               OSFlagPost(t, g, fs, set)
        PROVE  Processor' /\ lockNesting' = lockNesting
    <2> DEFINE ts == Satisfied(g, Changed(g, fs, set))
    <2>1. /\ cur = t /\ UNCHANGED <<cur, prioCur, lockNesting>>
          /\ IF ReadiedBy(ts) # {} THEN pc' = [pc EXCEPT ![t] = "yield"] ELSE pc' = pc
          /\ rdy' = rdy \cup {tcb[u].prio : u \in ReadiedBy(ts)}
      BY <1>2 DEF OSFlagPost, Posted, Readies, OS_FlagTaskRdy, Yields, Returns, Runs
    <2>2. ReadiedBy(ts) = {} => rdy' = rdy
      BY <2>1
    <2> HIDE DEF ts
    <2>3. GoesOn
      BY <2>1, <2>2, CallerIs DEF GoesOn
    <2>4. QED
      BY <2>1, <2>3, GoesOnKeeps
  <1>3. ASSUME NEW t \in Task, NEW r \in app.waits, NEW ticks \in Nat, FlagBlock(t, r, ticks)
        PROVE  Processor' /\ lockNesting' = lockNesting
    <2>1. /\ cur = t /\ UNCHANGED <<cur, prioCur, lockNesting>> /\ lockNesting = 0
          /\ pc' = [pc EXCEPT ![t] = "block"]
      BY <1>3 DEF FlagBlock, Runs
    <2>2. GoesOn
      BY <2>1, CallerIs DEF GoesOn
    <2>3. QED
      BY <2>1, <2>2, GoesOnKeeps
  <1>4. ASSUME NEW t \in Task, NEW g \in Group, NEW always \in BOOLEAN, OSFlagDel(t, g, always)
        PROVE  Processor' /\ lockNesting' = lockNesting
    <2>1. /\ cur = t /\ UNCHANGED <<cur, prioCur, lockNesting>>
          /\ IF nodes[g] # {} THEN pc' = [pc EXCEPT ![t] = "yield"] ELSE pc' = pc
          /\ rdy' = rdy \cup {tcb[u].prio : u \in ReadiedBy(nodes[g])}
      BY <1>4 DEF OSFlagDel, OS_FlagTaskRdy, Yields, Returns, Runs
    <2>2. nodes[g] = {} => rdy' = rdy
      BY <2>1 DEF ReadiedBy
    <2>3. GoesOn
      BY <2>1, <2>2, CallerIs DEF GoesOn
    <2>4. QED
      BY <2>1, <2>3, GoesOnKeeps
  <1>5. ASSUME NEW t \in Task, FlagWake(t)
        PROVE  Processor' /\ lockNesting' = lockNesting
    <2>1. /\ cur = t /\ UNCHANGED <<cur, prioCur, lockNesting, rdy>> /\ pc[t] = "wake"
          /\ pc' = [pc EXCEPT ![t] = "user"]
      BY <1>5 DEF FlagWake
    <2>2. GoesOn
      BY <2>1, CallerIs DEF GoesOn
    <2>3. QED
      BY <2>1, <2>2, GoesOnKeeps
  <1>6. ASSUME NEW g \in Group, NEW fs \in SUBSET Flag, NEW set \in BOOLEAN, OSFlagPostISR(g, fs, set)
        PROVE  Processor' /\ lockNesting' = lockNesting
    <2>1. Dispatch(rdy') /\ lockNesting' = lockNesting /\ pc' = pc
      BY <1>6 DEF OSFlagPostISR, Posted, Readies, OSIntExit
    <2>2. pc'[cur] \in {"block", "wake"} => lockNesting = 0
      BY <2>1 DEF KernelInv, Processor
    <2>3. QED
      BY <2>1, <2>2, DispatchKeeps
  <1>7. QED
    BY <1>1, <1>2, <1>3, <1>4, <1>5, <1>6 DEF FlagStep

LEMMA TimeProcessor ==
  ASSUME KernelInv, Kept, Still, TimeStep
  PROVE  Processor' /\ lockNesting' \in 0 .. MaxNesting
  <1> lockNesting \in 0 .. MaxNesting /\ MaxNesting \in Nat \ {0}
    BY CoreAssumption DEF KernelInv, CoreTypeOK
  <1>1. PICK t \in Task :
          \/ \E ticks \in Nat : OSTimeDly(t, ticks)
          \/ \E p \in Prio : \/ OSTimeDlyResume(t, p)
                             \/ MaySuspend(t, p) /\ OSTaskSuspend(t, p)
                             \/ OSTaskResume(t, p)
          \/ OSSchedLock(t) \/ OSSchedUnlock(t)
    BY DEF TimeStep
  <1>2. cur = t /\ pc[cur] = "user" /\ UNCHANGED <<cur, prioCur>>
    BY <1>1 DEF OSTimeDly, OSTimeDlyResume, OSTaskSuspend, OSTaskResume, OSSchedLock, OSSchedUnlock, Runs
  <1>3. GoesOn /\ lockNesting' \in 0 .. MaxNesting
    <2>1. ASSUME NEW ticks \in Nat, OSTimeDly(t, ticks) PROVE GoesOn /\ lockNesting' = lockNesting
      <3>1. pc' = [pc EXCEPT ![t] = "yield"] /\ lockNesting' = lockNesting
        BY <2>1 DEF OSTimeDly, Yields
      <3>2. QED
        BY <1>2, <3>1, CallerIs DEF GoesOn
    <2>2. ASSUME NEW p \in Prio, OSTimeDlyResume(t, p) PROVE GoesOn /\ lockNesting' = lockNesting
      <3>1. (pc' = [pc EXCEPT ![t] = "yield"] \/ UNCHANGED <<pc, rdy>>) /\ lockNesting' = lockNesting
        BY <2>2 DEF OSTimeDlyResume, Yields, Returns
      <3>2. QED
        BY <1>2, <3>1, CallerIs DEF GoesOn
    <2>3. ASSUME NEW p \in Prio, MaySuspend(t, p), OSTaskSuspend(t, p) PROVE GoesOn /\ lockNesting' = lockNesting
      <3>1. /\ IF p = tcb[t].prio THEN pc' = [pc EXCEPT ![t] = "yield"] ELSE pc' = pc
            /\ rdy' = rdy \ {tcb[prioTbl[p]].prio} /\ lockNesting' = lockNesting
        BY <2>3 DEF OSTaskSuspend, Yields, Returns
      <3>2. /\ tcb[prioTbl[p]].prio \in Prio
            /\ p # tcb[t].prio => tcb[prioTbl[p]].prio # tcb[t].prio
        <4>1. prioTbl[p] \in AppTasks /\ t \in AppTasks
          BY <1>2, <2>3, Named, CallerIs DEF OSTaskSuspend
        <4>2. QED
          BY <2>3, <4>1, OwnPriority, NamedSelf
      <3>3. QED
        BY <1>2, <3>1, <3>2, CallerIs DEF GoesOn
    <2>4. ASSUME NEW p \in Prio, OSTaskResume(t, p) PROVE GoesOn /\ lockNesting' = lockNesting
      <3>1. (pc' = [pc EXCEPT ![t] = "yield"] \/ UNCHANGED <<pc, rdy>>) /\ lockNesting' = lockNesting
        BY <2>4 DEF OSTaskResume, Yields, Returns
      <3>2. QED
        BY <1>2, <3>1, CallerIs DEF GoesOn
    <2>5. ASSUME OSSchedLock(t) PROVE GoesOn /\ lockNesting' \in 0 .. MaxNesting
      <3>1. pc' = pc /\ lockNesting' = Nested
        BY <2>5 DEF OSSchedLock, Returns
      <3>2. Nested \in 0 .. MaxNesting /\ Nested # 0
        BY DEF Nested
      <3>3. QED
        BY <1>2, <3>1, <3>2 DEF GoesOn
    <2>6. ASSUME OSSchedUnlock(t) PROVE GoesOn /\ lockNesting' \in 0 .. MaxNesting
      <3>1. /\ IF lockNesting = 1 THEN pc' = [pc EXCEPT ![t] = "yield"] ELSE pc' = pc
            /\ lockNesting > 0 /\ lockNesting' = lockNesting - 1
        BY <2>6 DEF OSSchedUnlock, Yields, Returns
      <3>2. lockNesting' \in 0 .. MaxNesting /\ (lockNesting # 1 => lockNesting' # 0)
        BY <3>1
      <3>3. QED
        BY <1>2, <3>1, <3>2, CallerIs DEF GoesOn
    <2>7. QED
      BY <1>1, <2>1, <2>2, <2>3, <2>4, <2>5, <2>6
  <1>4. QED
    BY <1>2, <1>3, GoesOnKeeps

LEMMA SchedProcessor ==
  ASSUME KernelInv, Kept, Still, SchedStep
  PROVE  Processor' /\ lockNesting' = lockNesting
  <1>1. ASSUME NEW t \in Task, OS_Sched(t) PROVE Processor' /\ lockNesting' = lockNesting
    <2>1. /\ cur = t /\ rdy' = rdy /\ lockNesting' = lockNesting /\ Dispatch(rdy')
          /\ pc[t] \in {"yield", "block", "exit"} /\ pc' = [pc EXCEPT ![t] = AfterSched[pc[t]]]
      BY <1>1 DEF OS_Sched, AfterSched
    <2>2. pc'[cur] = AfterSched[pc[t]]
      BY <2>1, CallerIs
    <2>3. pc[t] \in {"yield", "block"}
      BY <2>1, CallerIs, Now
    <2>4. AfterSched["yield"] = "user"
      BY DEF AfterSched
    <2>5. pc'[cur] \in {"block", "wake"} => lockNesting = 0
      BY <2>1, <2>2, <2>3, <2>4 DEF KernelInv, Processor
    <2>6. QED
      BY <2>1, <2>5, DispatchKeeps
  <1>2. ASSUME NEW t \in Task, Wake(t) PROVE Processor' /\ lockNesting' = lockNesting
    <2>1. /\ cur = t /\ UNCHANGED <<cur, prioCur, lockNesting, rdy>> /\ pc[t] = "wake"
          /\ pc' = [pc EXCEPT ![t] = "user"]
      BY <1>2 DEF Wake
    <2>2. GoesOn
      BY <2>1, CallerIs DEF GoesOn
    <2>3. QED
      BY <2>1, <2>2, GoesOnKeeps
  <1>3. ASSUME OSTimeTick PROVE Processor' /\ lockNesting' = lockNesting
    <2>1. Dispatch(rdy') /\ lockNesting' = lockNesting /\ pc' = pc
      BY <1>3 DEF OSTimeTick, OSIntExit
    <2>2. pc'[cur] \in {"block", "wake"} => lockNesting = 0
      BY <2>1 DEF KernelInv, Processor
    <2>3. QED
      BY <2>1, <2>2, DispatchKeeps
  <1>4. QED
    BY <1>1, <1>2, <1>3 DEF SchedStep

LEMMA ProcessorKept ==
  ASSUME KernelInv, Kept, Still, KernelStep
  PROVE  Processor' /\ lockNesting' \in 0 .. MaxNesting
  <1>1. lockNesting \in 0 .. MaxNesting
    BY DEF KernelInv, CoreTypeOK
  <1>2. Quiet => Processor' /\ lockNesting' = lockNesting
    BY GoesOnKeeps DEF Quiet, coreVars, GoesOn
  <1>3. QED
    BY <1>1, <1>2, EventProcessor, FlagProcessor, TimeProcessor, SchedProcessor DEF KernelStep

-----------------------------------------------------------------------------
\* The tasks inside a pend after a step.

\* Only OSTaskSuspend suspends a task.
Suspended(t) == \E u \in Task, p \in Prio : MaySuspend(u, p) /\ OSTaskSuspend(u, p) /\ prioTbl[p] = t

LEMMA WhoSuspends ==
  ASSUME KernelInv, KernelStep, NEW t \in AppTasks, "suspend" \in tcb'[t].stat
  PROVE  "suspend" \in tcb[t].stat \/ Suspended(t)
  <1> t \in AllTasks /\ tcb \in [AllTasks -> TCB] /\ tcb[t] \in TCB
    BY Now
  <1>1. CASE tcb' = tcb
    BY <1>1
  <1>2. CASE EventStep
    <2>1. ASSUME NEW u \in Task, NEW e \in Event, NEW type \in Kinds, Create(u, e, type) PROVE tcb' = tcb
      BY <2>1 DEF Create, EventCreate
    <2>2. ASSUME NEW e \in Event, NEW ts, NEW m, NEW bit, NEW st, OS_EventTaskRdy(e, ts, m, bit, st)
          PROVE  "suspend" \in tcb[t].stat
      <3>1. CASE t \in ts
        <4>1. tcb'[t].stat = tcb[t].stat \ {bit}
          BY <2>2, <3>1 DEF OS_EventTaskRdy, TCB
        <4>2. QED
          BY <4>1
      <3>2. CASE t \notin ts
        BY <2>2, <3>2 DEF OS_EventTaskRdy
      <3>3. QED
        BY <3>1, <3>2
    <2>3. ASSUME NEW u \in Task, NEW e \in Event, NEW ticks \in Nat, BlockOn(u, e, ticks)
          PROVE  "suspend" \in tcb[t].stat
      <3>1. evType[e] # "suspend" /\ u \in AppTasks /\ u \in AllTasks /\ tcb[u] \in TCB
        BY <2>3, Runner, Now DEF BlockOn, Runs, Kinds
      <3>2. tcb'[u].stat = tcb[u].stat \cup {evType[e]} /\ (u # t => tcb'[t] = tcb[t])
        BY <2>3, <3>1 DEF BlockOn, Block, OS_EventTaskWait, TCB
      <3>3. QED
        BY <3>1, <3>2
    <2>4. QED
      BY <1>1, <1>2, <2>1, <2>2, <2>3 DEF EventStep, Delete, EventDel, Answer
  <1>3. CASE FlagStep
    <2>1. ASSUME NEW g \in Group, NEW ts, NEW got, OS_FlagTaskRdy(g, ts, got)
          PROVE  "suspend" \in tcb[t].stat
      <3>1. CASE t \in ts
        <4>1. tcb'[t].stat = tcb[t].stat \ {"flag"}
          BY <2>1, <3>1 DEF OS_FlagTaskRdy, TCB
        <4>2. QED
          BY <4>1
      <3>2. CASE t \notin ts
        BY <2>1, <3>2 DEF OS_FlagTaskRdy
      <3>3. QED
        BY <3>1, <3>2
    <2>2. ASSUME NEW u \in Task, NEW r \in app.waits, NEW ticks \in Nat, FlagBlock(u, r, ticks)
          PROVE  "suspend" \in tcb[t].stat
      <3>1. u \in AppTasks /\ u \in AllTasks /\ tcb[u] \in TCB
        BY <2>2, Runner, Now DEF FlagBlock, Runs
      <3>2. tcb'[u].stat = tcb[u].stat \cup {"flag"} /\ (u # t => tcb'[t] = tcb[t])
        BY <2>2, <3>1 DEF FlagBlock, OS_FlagBlock, TCB
      <3>3. QED
        BY <3>2
    <2>3. ASSUME NEW u \in Task, FlagWake(u) PROVE "suspend" \in tcb[t].stat
      <3>1. u \in AllTasks /\ tcb[u] \in TCB
        BY <2>3 DEF AllTasks
      <3>2. \/ tcb' = tcb
            \/ tcb' = [tcb EXCEPT ![u] = [tcb[u] EXCEPT !.pend = "ok", !.stat = {}]]
        BY <2>3 DEF FlagWake
      <3>3. CASE tcb' # tcb
        <4>1. tcb' = [tcb EXCEPT ![u] = [tcb[u] EXCEPT !.pend = "ok", !.stat = {}]]
          BY <3>2, <3>3
        <4>2. tcb'[u] = [tcb[u] EXCEPT !.pend = "ok", !.stat = {}] /\ (u # t => tcb'[t] = tcb[t])
          BY <3>1, <4>1
        <4>3. tcb'[u].stat = {}
          BY <3>1, <4>2 DEF TCB
        <4>4. QED
          BY <4>2, <4>3
      <3>4. QED
        BY <1>1, <3>3
    <2>4. ASSUME NEW u \in Task, NEW g \in Group, NEW fs \in SUBSET Flag, OSFlagCreate(u, g, fs) PROVE tcb' = tcb
      BY <2>4 DEF OSFlagCreate, coreVars
    <2>5. QED
      BY <1>1, <1>3, <2>1, <2>2, <2>3, <2>4 DEF FlagStep, OSFlagPost, OSFlagPostISR, OSFlagDel, Posted, Readies
  <1>4. CASE TimeStep
    <2>1. PICK u \in Task :
            \/ \E ticks \in Nat : MayDelay /\ OSTimeDly(u, ticks)
            \/ \E p \in Prio : \/ OSTimeDlyResume(u, p)
                               \/ MaySuspend(u, p) /\ OSTaskSuspend(u, p)
                               \/ OSTaskResume(u, p)
            \/ OSSchedLock(u) \/ OSSchedUnlock(u)
      BY <1>4 DEF TimeStep
    <2>2. ASSUME NEW ticks \in Nat, OSTimeDly(u, ticks) PROVE "suspend" \in tcb[t].stat
      <3>1. u \in AllTasks
        BY DEF AllTasks
      <3>2. tcb'[u].stat = tcb[u].stat /\ (u # t => tcb'[t] = tcb[t])
        BY <2>2, <3>1 DEF OSTimeDly, TCB
      <3>3. QED
        BY <3>2
    <2>3. ASSUME NEW p \in Prio, OSTimeDlyResume(u, p) PROVE "suspend" \in tcb[t].stat
      <3>1. prioTbl[p] \in AllTasks
        BY <2>3 DEF OSTimeDlyResume, AllTasks
      <3>2. tcb'[prioTbl[p]].stat = tcb[prioTbl[p]].stat \ PendAny /\ (prioTbl[p] # t => tcb'[t] = tcb[t])
        BY <2>3, <3>1 DEF OSTimeDlyResume, TCB
      <3>3. QED
        BY <3>2
    <2>4. ASSUME NEW p \in Prio, MaySuspend(u, p), OSTaskSuspend(u, p), prioTbl[p] # t
          PROVE  "suspend" \in tcb[t].stat
      BY <2>4 DEF OSTaskSuspend, AllTasks
    <2>5. ASSUME NEW p \in Prio, OSTaskResume(u, p) PROVE "suspend" \in tcb[t].stat
      <3>1. prioTbl[p] \in AllTasks
        BY <2>5 DEF OSTaskResume, AllTasks
      <3>2. tcb'[prioTbl[p]].stat = tcb[prioTbl[p]].stat \ {"suspend"} /\ (prioTbl[p] # t => tcb'[t] = tcb[t])
        BY <2>5, <3>1 DEF OSTaskResume, TCB
      <3>3. QED
        BY <3>2
    <2>6. OSSchedLock(u) \/ OSSchedUnlock(u) => tcb' = tcb
      BY DEF OSSchedLock, OSSchedUnlock
    <2>7. QED
      BY <1>1, <2>1, <2>2, <2>3, <2>4, <2>5, <2>6 DEF Suspended
  <1>5. CASE SchedStep
    <2>1. ASSUME NEW u \in Task, Wake(u) PROVE "suspend" \in tcb[t].stat
      <3>1. u \in AllTasks
        BY DEF AllTasks
      <3>2. tcb'[u].stat = {} /\ (u # t => tcb'[t] = tcb[t])
        BY <2>1, <3>1 DEF Wake, Cleared, TCB
      <3>3. QED
        BY <3>2
    <2>2. ASSUME OSTimeTick PROVE "suspend" \in tcb[t].stat
      <3>1. tcb'[t] = Ticked(tcb[t])
        BY <2>2 DEF OSTimeTick
      <3>2. Ticked(tcb[t]).stat \subseteq tcb[t].stat
        BY DEF Ticked, TCB
      <3>3. QED
        BY <3>1, <3>2
    <2>3. QED
      BY <1>1, <1>5, <2>1, <2>2 DEF SchedStep, OS_Sched
  <1>6. QED
    BY <1>1, <1>2, <1>3, <1>4, <1>5 DEF KernelStep, Quiet, coreVars

\* A task that begins to wait owns no mutex, was not suspended, and does not
\* wait for a mutex.
LEMMA BeginsToPend ==
  ASSUME KernelInv, KernelStep, NEW t \in AppTasks, ~Pends(t), Pends(t)'
  PROVE  /\ ~Owns(t) /\ "suspend" \notin tcb[t].stat /\ ~Suspended(t)
         /\ arg'[t] \in Event => evType'[arg'[t]] \in Kinds
  <1> t \in AllTasks /\ pc \in [AllTasks -> PC] /\ DOMAIN arg = AllTasks
    BY Now
  <1> DEFINE Begins == \/ \E e \in Event, ticks \in Nat : BlockOn(t, e, ticks)
                       \/ \E r \in app.waits, ticks \in Nat : FlagBlock(t, r, ticks)
  <1>0. ~(pc' = pc)
    BY DEF Pends
  <1>1. ASSUME NEW u \in Task, NEW where \in {"user", "yield"}, pc' = [pc EXCEPT ![u] = where] PROVE FALSE
    <2>1. u # t => pc'[t] = pc[t]
      BY <1>1
    <2>2. u = t => pc'[t] = where
      BY <1>1
    <2>3. QED
      BY <2>1, <2>2 DEF Pends
  <1>2. ASSUME NEW u \in Task, PostedByTask(u) \/ Yields(u) \/ Returns PROVE FALSE
    BY <1>0, <1>1, <1>2 DEF PostedByTask, Yields, Returns
  <1>3. ASSUME EventStep PROVE Begins
    <2>1. ASSUME NEW u \in Task, NEW e \in Event, NEW ticks \in Nat, BlockOn(u, e, ticks)
          PROVE  u = t
      BY <2>1 DEF BlockOn, Block, Pends
    <2>2. ASSUME NEW e \in Event, NEW ts \in SUBSET AppTasks, NEW m \in Msg \cup {None},
                 NEW st \in {"ok", "abort"}, Answer(e, ts, m, st)
          PROVE  FALSE
      BY <1>0, <1>2, <2>2 DEF Answer, Ends, PostedByISR
    <2>3. ASSUME NEW u \in Task, NEW e \in Event, \/ \E type \in Kinds : Create(u, e, type)
                                                 \/ \E always \in BOOLEAN : Delete(u, e, always)
          PROVE  FALSE
      BY <1>2, <2>3 DEF Create, EventCreate, Delete, EventDel
    <2>4. QED
      BY <1>3, <2>1, <2>2, <2>3 DEF EventStep
  <1>4. ASSUME FlagStep PROVE Begins
    <2>1. ASSUME NEW u \in Task, NEW r \in app.waits, NEW ticks \in Nat, FlagBlock(u, r, ticks)
          PROVE  u = t
      BY <2>1 DEF FlagBlock, Pends
    <2>2. ASSUME NEW u \in Task, NEW g \in Group, NEW fs \in SUBSET Flag, OSFlagCreate(u, g, fs)
          PROVE  FALSE
      BY <1>0, <2>2 DEF OSFlagCreate, coreVars
    <2>3. ASSUME NEW u \in Task, NEW g \in Group, NEW fs \in SUBSET Flag, NEW set \in BOOLEAN,
                 OSFlagPost(u, g, fs, set)
          PROVE  FALSE
      BY <1>2, <2>3 DEF OSFlagPost
    <2>4. ASSUME NEW g \in Group, NEW fs \in SUBSET Flag, NEW set \in BOOLEAN, OSFlagPostISR(g, fs, set)
          PROVE  FALSE
      BY <1>0, <2>4 DEF OSFlagPostISR
    <2>5. ASSUME NEW u \in Task, NEW g \in Group, NEW always \in BOOLEAN, OSFlagDel(u, g, always)
          PROVE  FALSE
      BY <1>2, <2>5 DEF OSFlagDel
    <2>6. ASSUME NEW u \in Task, FlagWake(u) PROVE FALSE
      BY <1>1, <2>6 DEF FlagWake
    <2>7. QED
      BY <1>4, <2>1, <2>2, <2>3, <2>4, <2>5, <2>6 DEF FlagStep
  <1>5. ASSUME TimeStep PROVE FALSE
    <2>1. \A u \in Task : OSSchedLock(u) => pc' = pc
      BY DEF OSSchedLock, Returns
    <2>2. \E u \in Task : Yields(u) \/ Returns
      BY <1>5 DEF TimeStep, OSTimeDly, OSTimeDlyResume, OSTaskSuspend, OSTaskResume, OSSchedLock, OSSchedUnlock
    <2>3. QED
      BY <1>2, <2>2
  <1>6. ASSUME SchedStep PROVE FALSE
    <2>1. ASSUME NEW u \in Task, OS_Sched(u) PROVE FALSE
      <3>1. /\ pc[u] \in {"yield", "block", "exit"} /\ pc' = [pc EXCEPT ![u] = AfterSched[pc[u]]]
        BY <2>1 DEF OS_Sched, AfterSched
      <3>2. AfterSched["yield"] = "user" /\ AfterSched["exit"] = "dormant"
        BY DEF AfterSched
      <3>3. u = t /\ pc'[t] = AfterSched[pc[t]]
        BY <3>1 DEF Pends
      <3>4. QED
        BY <3>1, <3>2, <3>3 DEF Pends
    <2>2. ASSUME NEW u \in Task, Wake(u) PROVE FALSE
      BY <1>1, <2>2 DEF Wake
    <2>3. OSTimeTick => pc' = pc
      BY DEF OSTimeTick
    <2>4. QED
      BY <1>0, <1>6, <2>1, <2>2, <2>3 DEF SchedStep
  <1>7. \/ \E e \in Event, ticks \in Nat : BlockOn(t, e, ticks)
        \/ \E r \in app.waits, ticks \in Nat : FlagBlock(t, r, ticks)
    BY <1>0, <1>3, <1>4, <1>5, <1>6 DEF KernelStep, Quiet, coreVars
  <1>8. ~Owns(t) /\ Runs(t) /\ lockNesting = 0 /\ pc[t] = "user" /\ pc' = [pc EXCEPT ![t] = "block"]
    BY <1>7 DEF BlockOn, Block, FlagBlock, Runs
  <1>9. "suspend" \notin tcb[t].stat
    BY <1>8, Now DEF Runs, KernelInv, Processor, TaskInv, Unheld
  <1>10. ~Suspended(t)
    <2>1. ASSUME NEW u \in Task, NEW p \in Prio, OSTaskSuspend(u, p) PROVE FALSE
      BY <1>2, <2>1 DEF OSTaskSuspend
    <2>2. QED
      BY <2>1 DEF Suspended
  <1>11. arg'[t] \in Event => evType'[arg'[t]] \in Kinds
    <2>1. ASSUME NEW e \in Event, NEW ticks \in Nat, BlockOn(t, e, ticks) PROVE evType'[arg'[t]] \in Kinds
      BY <2>1 DEF BlockOn, Block
    <2>2. ASSUME NEW r \in app.waits, NEW ticks \in Nat, FlagBlock(t, r, ticks) PROVE arg'[t] \notin Event
      BY <2>2, AppIs, RequestAssumption DEF FlagBlock, KernelInv, Settings
    <2>3. QED
      BY <1>7, <2>1, <2>2
  <1>12. QED
    BY <1>8, <1>9, <1>10, <1>11

\* A task inside a pend of an application with mutexes is not suspended.
LEMMA NotSuspendedInPend ==
  ASSUME KernelInv, KernelStep, NEW t \in AppTasks, Pends(t)', Serves("mutex")
  PROVE  "suspend" \notin tcb'[t].stat
  <1>1. CASE Pends(t)
    <2>1. "suspend" \notin tcb[t].stat
      BY <1>1 DEF KernelInv, MutexInv, Pending
    <2>2. ~Suspended(t)
      BY <1>1, RulesKept, AppIs DEF Suspended, MaySuspend, MutexRules, KernelInv, Settings
    <2>3. QED
      BY <2>1, <2>2, WhoSuspends
  <1>2. CASE ~Pends(t)
    BY <1>2, BeginsToPend, WhoSuspends
  <1>3. QED
    BY <1>1, <1>2

\* A task that goes on waiting, waits for the same, and keeps what it has been
\* given; it is given what was not an event that posts give by no step.
LEMMA GrantsStand ==
  ASSUME KernelInv, app' = app, KernelStep, NEW u \in AppTasks, Pends(u), Pends(u)'
  PROVE  /\ arg'[u] = arg[u]
         /\ \A f \in Event : HasGrant(u, f) => HasGrant(u, f)'
         /\ \A f \in Event : evType[f] \notin Kinds /\ HasGrant(u, f)' => HasGrant(u, f)
  <1> DEFINE Stands == /\ \A f \in Event : HasGrant(u, f) => HasGrant(u, f)'
                       /\ \A f \in Event : evType[f] \notin Kinds /\ HasGrant(u, f)' => HasGrant(u, f)
  <1>1. GrantSame(u) => Stands
    BY DEF GrantSame
  <1>2. Goes(u) => arg'[u] = arg[u] /\ GrantSame(u)
    BY DEF Goes, FlagsSame
  <1>3. ASSUME NEW e \in Event, evType[e] \in Kinds, NEW ts, NEW st, Answers(e, ts, st)
        PROVE  arg'[u] = arg[u] /\ Stands
    BY <1>3 DEF Answers, FlagsSame
  <1>4. ASSUME EventStep PROVE arg'[u] = arg[u] /\ Stands
    <2>1. ASSUME NEW t \in Task, NEW e \in Event, NEW type \in Kinds, Create(t, e, type)
          PROVE  Goes(u)
      BY <2>1, CreateKeeps DEF AllGo
    <2>2. ASSUME NEW t \in Task, NEW e \in Event, NEW ticks \in Nat, BlockOn(t, e, ticks)
          PROVE  Goes(u)
      BY <2>2, BlockKeeps DEF AllGo
    <2>3. ASSUME NEW t \in Task, NEW e \in Event, NEW always \in BOOLEAN, Delete(t, e, always)
          PROVE  arg'[u] = arg[u] /\ Stands
      <3>1. Answers(e, Waiters(e), "ok") /\ evType[e] \in Kinds
        BY <2>3, DeleteKeeps DEF Delete
      <3>2. QED
        BY <1>3, <3>1
    <2>4. ASSUME NEW e \in Event, NEW ts \in SUBSET AppTasks, NEW m \in Msg \cup {None},
                 NEW st \in {"ok", "abort"}, Answer(e, ts, m, st)
          PROVE  arg'[u] = arg[u] /\ Stands
      <3>1. Answers(e, ts, st) /\ evType[e] \in Kinds
        BY <2>4, AnswerKeeps DEF Answer
      <3>2. QED
        BY <1>3, <3>1
    <2> HIDE DEF Stands
    <2>5. QED
      BY <1>1, <1>2, <1>4, <2>1, <2>2, <2>3, <2>4 DEF EventStep
  <1>5. ASSUME FlagStep PROVE arg'[u] = arg[u] /\ Stands
    <2>1. GrantSame(u)
      BY <1>5, FlagStepKeeps
    <2>2. arg'[u] = arg[u]
      <3>1. ASSUME NEW t \in Task, NEW r \in app.waits, NEW ticks \in Nat, FlagBlock(t, r, ticks)
            PROVE  arg'[u] = arg[u]
        BY <3>1, Now DEF FlagBlock, Runs, Pends
      <3>2. ASSUME NEW t \in Task, FlagWake(t) PROVE arg'[u] = arg[u]
        BY <3>2, Now DEF FlagWake, Pends
      <3>3. ASSUME NEW t \in Task, NEW g \in Group, NEW fs \in SUBSET Flag, OSFlagCreate(t, g, fs)
            PROVE  arg' = arg
        BY <3>3 DEF OSFlagCreate, coreVars
      <3>4. ASSUME NEW t \in Task, NEW g \in Group, NEW always \in BOOLEAN, OSFlagDel(t, g, always)
            PROVE  arg' = arg
        BY <3>4 DEF OSFlagDel, Yields, Returns
      <3>5. QED
        BY <1>5, <3>1, <3>2, <3>3, <3>4 DEF FlagStep, OSFlagPost, OSFlagPostISR, Posted, Readies
    <2>3. QED
      BY <1>1, <2>1, <2>2
  <1>6. ASSUME SchedStep PROVE arg'[u] = arg[u] /\ Stands
    <2>1. ASSUME NEW t \in Task, Wake(t) PROVE arg'[u] = arg[u] /\ Stands
      <3>1. t # u
        BY <2>1, Now DEF Wake, Pends
      <3>2. /\ FlagsSame(u)
            /\ \A f \in Event : HasGrant(u, f)' <=> HasGrant(u, f) /\ u # t
        BY <1>6, <2>1, WakeKeeps DEF SchedStep
      <3>3. QED
        BY <3>1, <3>2 DEF FlagsSame
    <2>2. ASSUME OSTimeTick \/ \E t \in Task : OS_Sched(t) PROVE Goes(u)
      BY <1>6, <2>2, TickKeeps, SchedKeeps DEF SchedStep, AllGo
    <2> HIDE DEF Stands
    <2>3. QED
      BY <1>1, <1>2, <1>6, <2>1, <2>2 DEF SchedStep
  <1>7. Quiet \/ TimeStep => Goes(u)
    BY QuietKeeps, TimeStepKeeps DEF AllGo
  <1> HIDE DEF Stands
  <1>8. arg'[u] = arg[u] /\ Stands
    BY <1>1, <1>2, <1>4, <1>5, <1>6, <1>7 DEF KernelStep
  <1>9. QED
    BY <1>8 DEF Stands

\* OSPrioCur stays or comes from the ready list.
LEMMA PrioCurKept ==
  ASSUME KernelInv, Kept, KernelStep
  PROVE  prioCur' \in Prio
  <1>1. prioCur \in Prio /\ HighRdy(rdy) \in Prio /\ HighRdy(rdy') \in Prio
    BY ReadyAre DEF KernelInv, CoreTypeOK
  <1>2. Dispatch(rdy) => prioCur' \in Prio
    BY <1>1 DEF Dispatch
  <1>3. Dispatch(rdy') => prioCur' \in Prio
    BY <1>1 DEF Dispatch
  <1>4. EventStep => prioCur' \in Prio
    <2>1. EventStep => prioCur' = prioCur \/ Dispatch(rdy')
      BY DEF EventStep, Create, EventCreate, Delete, EventDel, BlockOn, Block, Answer, Ends, PostedByTask, PostedByISR,
             OSIntExit
    <2>2. QED
      BY <1>1, <1>3, <2>1
  <1>5. FlagStep => prioCur' \in Prio
    <2>1. ASSUME NEW t \in Task, NEW g \in Group, NEW fs \in SUBSET Flag, OSFlagCreate(t, g, fs)
          PROVE  prioCur' = prioCur
      BY <2>1 DEF OSFlagCreate, coreVars
    <2>2. FlagStep => prioCur' = prioCur \/ Dispatch(rdy')
      BY <2>1 DEF FlagStep, OSFlagPost, FlagBlock, OSFlagDel, FlagWake, OSFlagPostISR, OSIntExit
    <2>3. QED
      BY <1>1, <1>3, <2>2
  <1>6. Quiet \/ TimeStep => prioCur' = prioCur
    BY DEF Quiet, coreVars, TimeStep, OSTimeDly, OSTimeDlyResume, OSTaskSuspend, OSTaskResume, OSSchedLock, OSSchedUnlock
  <1>7. SchedStep => prioCur' \in Prio
    <2>1. SchedStep => prioCur' = prioCur \/ Dispatch(rdy) \/ Dispatch(rdy')
      BY DEF SchedStep, OS_Sched, Wake, OSTimeTick, OSIntExit
    <2>2. QED
      BY <1>1, <1>2, <1>3, <2>1
  <1>8. QED
    BY <1>1, <1>4, <1>5, <1>6, <1>7 DEF KernelStep

\* A task inside a pend on an event has a grant when it is picked.
LEMMA PickedIs ==
  ASSUME KernelInv, NEW t \in AppTasks, Pends(t), arg[t] \in Event
  PROVE  OnEvent(t) /\ (Picked(t) <=> HasGrant(t, arg[t]))
  <1>1. arg[t] \notin app.waits
    BY AppIs, RequestAssumption DEF KernelInv, Settings
  <1>2. OnEvent(t)
    BY <1>1, Now DEF TaskInv, OnFlags
  <1>3. QED
    BY <1>2 DEF Picked, HasGrant, OnEvent

\* A task whose pend ends without a timeout is picked.
LEMMA AwakePicked ==
  ASSUME KernelInv, NEW t \in Task, Wake(t)
  PROVE  t \in AppTasks /\ Pends(t) /\ arg[t] \in Event /\ (tcb[t].pend = "ok" => Picked(t))
  <1>1. t \in AppTasks /\ arg[t] \in Event /\ Unheld(tcb[t]) /\ Pends(t)
    BY Awake DEF Wake, Pends
  <1>2. QED
    BY <1>1, PickedIs DEF OnEvent, PendsFor, Picked, Unheld

\* What is told.
LEMMA ToldIs ==
  ASSUME KernelInv, PlainStep
  PROVE  /\ inside' \in [Event -> SUBSET AppTasks] /\ orphans' \subseteq AppTasks
         /\ \A e \in Event : inside'[e] \subseteq {owner[e]}
         /\ \A t \in AppTasks : Pends(t) /\ Pends(t)' /\ t \notin orphans' /\ Serves("mutex") =>
              /\ t \notin orphans
              /\ arg[t] \in Event /\ evType'[arg[t]] = "unused" => evType[arg[t]] = "unused"
  <1>1. /\ inside \in [Event -> SUBSET AppTasks] /\ orphans \subseteq AppTasks
        /\ \A e \in Event : inside[e] \subseteq {owner[e]}
    BY DEF KernelInv, MutexInv, MutexTypes, Owners
  <1>2. CASE /\ inside' = inside /\ orphans \subseteq orphans' /\ orphans' \subseteq Task
             /\ \A e \in Event : evType[e] # "unused" /\ evType'[e] = "unused" /\ Serves("mutex") =>
                  \A u \in Task : Pends(u) /\ arg[u] = e => u \in orphans'
             /\ \A u \in Task : u \in orphans' => u \in orphans \/ Pends(u)
    <2>1. \A u \in Task : Pends(u) => u \in AppTasks
      BY DEF Pends, KernelInv, Settings
    <2>2. QED
      BY <1>1, <1>2, <2>1, Now
  <1>3. ASSUME NEW t \in Task, Wake(t), orphans' = orphans \ {t},
               inside' = IF IsMutex(arg[t]) /\ tcb[t].pend = "ok" /\ t \notin orphans
                         THEN [inside EXCEPT ![arg[t]] = @ \cup {t}]
                         ELSE inside
        PROVE  /\ inside' \in [Event -> SUBSET AppTasks] /\ orphans' \subseteq AppTasks
               /\ \A e \in Event : inside'[e] \subseteq {owner[e]}
               /\ \A u \in AppTasks : Pends(u) /\ Pends(u)' /\ u \notin orphans' /\ Serves("mutex") =>
                    /\ u \notin orphans
                    /\ arg[u] \in Event /\ evType'[arg[u]] = "unused" => evType[arg[u]] = "unused"
    <2>1. t \in AppTasks /\ Pends(t) /\ arg[t] \in Event /\ (tcb[t].pend = "ok" => Picked(t))
      BY <1>3, AwakePicked
    <2>2. IsMutex(arg[t]) /\ tcb[t].pend = "ok" /\ t \notin orphans => owner[arg[t]] = t
      BY <2>1 DEF KernelInv, MutexInv, MutexTypes, Pending, IsMutex
    <2>3. pc'[t] = "user" /\ evType' = evType
      BY <1>3, <2>1, Now DEF Wake
    <2>4. \A u \in AppTasks : Pends(u) /\ Pends(u)' /\ u \notin orphans' /\ Serves("mutex") =>
            /\ u \notin orphans
            /\ arg[u] \in Event /\ evType'[arg[u]] = "unused" => evType[arg[u]] = "unused"
      BY <1>3, <2>3 DEF Pends
    <2>5. QED
      BY <1>1, <1>3, <2>1, <2>2, <2>4
  <1>4. QED
    BY <1>2, <1>3 DEF PlainStep, Told

LEMMA PendingKept ==
  ASSUME KernelInv, PlainStep, NEW t \in AppTasks
  PROVE  Pending(t)'
  <1> app' = app /\ owner' = owner /\ KernelStep /\ AppTasks' = AppTasks
    BY DEF PlainStep, AppTasks
  <1> DEFINE a == arg'[t]
  <1>1. Kept
    BY StepKeeps
  <1>2. (Owns(t)' <=> Owns(t)) /\ (Serves("mutex")' <=> Serves("mutex"))
    BY DEF Owns, Serves
  <1> SUFFICES ASSUME Pends(t)'
               PROVE  /\ Owns(t) => a \in Event /\ owner[a] = t /\ Picked(t)'
                      /\ Serves("mutex") =>
                           /\ "suspend" \notin tcb'[t].stat
                           /\ a \in Event =>
                                (evType'[a] \in {"mutex", "unused"} /\ Picked(t)' /\ t \notin orphans' =>
                                   owner[a] = t)
    BY <1>2 DEF Pending
  <1>3. Serves("mutex") => "suspend" \notin tcb'[t].stat
    BY NotSuspendedInPend
  <1>4. CASE ~Pends(t)
    BY <1>3, <1>4, BeginsToPend DEF Kinds
  <1>5. CASE Pends(t)
    <2>1. PICK b : b = arg[t]
      OBVIOUS
    <2>2. /\ a = b
          /\ \A f \in Event : HasGrant(t, f) => HasGrant(t, f)'
          /\ \A f \in Event : evType[f] \notin Kinds /\ HasGrant(t, f)' => HasGrant(t, f)
      BY <1>5, <2>1, GrantsStand
    <2>3. b \in Event => (Picked(t) <=> HasGrant(t, b))
      BY <1>5, <2>1, PickedIs
    <2>4. b \in Event => (Picked(t)' <=> HasGrant(t, b)')
      <3>1. b \notin app.waits \/ b \notin Event
        BY AppIs, RequestAssumption DEF KernelInv, Settings
      <3>2. TaskInv(t)'
        BY <1>1 DEF Kept
      <3>3. b \in Event => tcb'[t].eptr = b
        BY <2>2, <3>1, <3>2 DEF TaskInv, OnFlags, OnEvent
      <3>4. QED
        BY <2>2, <3>3 DEF Picked, HasGrant
    <2>5. Owns(t) => b \in Event /\ owner[b] = t /\ Picked(t)'
      BY <1>5, <2>1, <2>2, <2>3, <2>4 DEF KernelInv, MutexInv, Pending
    <2>6. ASSUME Serves("mutex"), b \in Event, evType'[b] \in {"mutex", "unused"}, Picked(t)', t \notin orphans'
          PROVE  owner[b] = t
      <3>1. t \notin orphans /\ (evType'[b] = "unused" => evType[b] = "unused")
        BY <1>5, <2>1, <2>6, ToldIs
      <3>2. evType'[b] = "mutex" => evType[b] = "mutex"
        BY <2>6, MutexesStand DEF MutexesStay, IsMutex
      <3>3. evType[b] \in {"mutex", "unused"}
        BY <2>6, <3>1, <3>2
      <3>4. Picked(t)
        BY <2>2, <2>3, <2>4, <2>6, <3>3 DEF Kinds
      <3>5. QED
        BY <1>5, <2>1, <2>6, <3>1, <3>3, <3>4 DEF KernelInv, MutexInv, Pending
    <2>7. QED
      BY <1>3, <2>2, <2>5, <2>6
  <1>6. QED
    BY <1>4, <1>5

LEMMA MutexesKept ==
  ASSUME KernelInv, PlainStep
  PROVE  MutexInv'
  <1>1. /\ UNCHANGED <<app, prioTbl, pip, ownPrio, owner>> /\ AppTasks' = AppTasks
        /\ MutexesStay /\ Kept
    BY MutexesStand, StepKeeps DEF PlainStep, AppTasks
  <1>2. /\ \A t \in AllTasks : tcb'[t].prio = tcb[t].prio /\ tcb'[t].multi = {}
        /\ waiting' \in [Event -> SUBSET Prio]
    BY <1>1 DEF Kept, TcbKept
  <1>3. \A e \in Event : /\ IsMutex(e)' <=> IsMutex(e)
                         /\ IsMutex(e) => waiting'[e] \subseteq waiting[e]
                         /\ Owned(e)' <=> Owned(e)
    BY <1>1 DEF MutexesStay, Owned
  <1>4. MutexTypes'
    <2>1. /\ pip' \in [Event -> Prio] /\ ownPrio' \in [Event -> Prio \cup {None}]
          /\ owner' \in [Event -> AppTasks \cup {None}]
          /\ \A e \in Event : IsMutex(e)' => Serves("mutex")'
      BY <1>1, <1>3 DEF KernelInv, MutexInv, MutexTypes, Serves
    <2>2. inside' \in [Event -> SUBSET AppTasks] /\ orphans' \subseteq AppTasks
      BY ToldIs
    <2>3. QED
      BY <1>1, <1>2, <2>1, <2>2 DEF MutexTypes
  <1>5. Owners'
    <2> USE DEF KernelInv, MutexInv
    <2>1. \A e \in Event : Owned(e) => IsMutex(e)' /\ ownPrio'[e] = app.start[owner[e]]
      BY <1>1, <1>3 DEF Owners
    <2>2. \A e \in Event : ~Owned(e) => ownPrio'[e] = None /\ (IsMutex(e)' => waiting'[e] = {})
      BY <1>1, <1>3 DEF Owners
    <2>3. \A e, f \in Event : Owned(e) /\ owner[e] = owner[f] => e = f
      BY DEF Owners
    <2>4. \A e \in Event : inside'[e] \subseteq {owner[e]}
      BY ToldIs
    <2>5. \A e \in Event : \A p \in waiting'[e] : Owned(e) => tcb'[owner[e]].prio < p
      <3> SUFFICES ASSUME NEW e \in Event, NEW p \in waiting'[e], Owned(e) PROVE tcb'[owner[e]].prio < p
        OBVIOUS
      <3>1. IsMutex(e) /\ p \in waiting[e]
        BY <1>3 DEF Owners
      <3>2. owner[e] \in AllTasks
        BY Now DEF MutexTypes, Owned
      <3>3. QED
        BY <1>2, <3>1, <3>2 DEF Owners
    <2>6. QED
      BY <1>1, <1>3, <2>1, <2>2, <2>3, <2>4, <2>5 DEF Owners
  <1>6. Priorities'
    <2>1. \A t \in AppTasks : tcb'[t].prio = tcb[t].prio
      BY <1>2, Now
    <2>2. \A e \in Event : Raised(e)' <=> Raised(e)
      BY <1>1, <2>1 DEF Raised, KernelInv, MutexInv, MutexTypes
    <2>3. Priorities
      BY DEF KernelInv, MutexInv
    <2>4. \A t \in AppTasks : \/ tcb'[t].prio = app'.start[t]
                              \/ \E e \in Event : owner'[e] = t /\ tcb'[t].prio = pip'[e]
      BY <1>1, <2>1, <2>3 DEF Priorities
    <2>5. \A e \in Event : IsMutex(e)' =>
            /\ \A t \in AppTasks : pip'[e] < app'.start[t]
            /\ prioTbl'[pip'[e]] = IF Raised(e)' THEN owner'[e] ELSE Reserved
      BY <1>1, <1>3, <2>2, <2>3 DEF Priorities
    <2>6. \A p \in Prio : prioTbl'[p] = Reserved => \E e \in Event : IsMutex(e)' /\ pip'[e] = p
      BY <1>1, <1>3, <2>3 DEF Priorities
    <2>7. \A p \in Prio : prioTbl'[p] \in AppTasks =>
            p = app'.start[prioTbl'[p]] \/ \E e \in Event : IsMutex(e)' /\ pip'[e] = p
      BY <1>1, <1>3, <2>3 DEF Priorities
    <2>8. /\ \A e, f \in Event : IsMutex(e)' /\ IsMutex(f)' /\ pip'[e] = pip'[f] => e = f
          /\ \A t \in AppTasks : prioTbl'[app'.start[t]] = t
      BY <1>1, <1>3, <2>3 DEF Priorities
    <2>9. QED
      BY <1>1, <2>4, <2>5, <2>6, <2>7, <2>8 DEF Priorities
  <1>7. \A t \in AppTasks' : Pending(t)'
    BY <1>1, PendingKept
  <1>8. QED
    BY <1>4, <1>5, <1>6, <1>7 DEF MutexInv

-----------------------------------------------------------------------------
\* The calls of the mutexes: who owns and who waits, and what has the PIP.

LEMMA StartIs ==
  ASSUME KernelInv
  PROVE  /\ \A t \in AppTasks : app.start[t] \in Prio /\ app.start[t] # LowestPrio
         /\ \A t, u \in AppTasks : app.start[t] = app.start[u] => t = u
         /\ Prio \subseteq Nat
  <1>1. app \in Apps
    BY DEF KernelInv, Settings
  <1>2. QED
    BY <1>1, AppsAssumption, CoreAssumption DEF AppTasks, Prio

\* A task that owns no mutex has its own priority.
LEMMA UnownedIs ==
  ASSUME KernelInv, NEW t \in AppTasks, ~Owns(t)
  PROVE  tcb[t].prio = app.start[t]
  BY DEF KernelInv, MutexInv, Priorities, Owns

\* What a mutex has reserved.
LEMMA PipIs ==
  ASSUME KernelInv, NEW e \in Event, IsMutex(e)
  PROVE  /\ pip[e] \in Prio /\ pip[e] # LowestPrio /\ Serves("mutex")
         /\ \A r \in MutexRules : Rule(r)
         /\ \A t \in AppTasks : pip[e] < app.start[t] /\ pip[e] # app.start[t]
         /\ \A t \in AppTasks : tcb[t].prio = pip[e] => owner[e] = t
         /\ \A t \in AppTasks : app.start[t] <= tcb[t].prio => tcb[t].prio = app.start[t]
         /\ \A t, u \in AppTasks : tcb[t].prio = app.start[u] => t = u
         /\ ~Raised(e) => pip[e] \notin rdy /\ \A f \in Event : pip[e] \notin waiting[f]
  <1>1. pip[e] \in Prio /\ Serves("mutex") /\ \A r \in MutexRules : Rule(r)
    BY RulesKept DEF KernelInv, MutexInv, MutexTypes
  <1>2. \A t \in AppTasks : pip[e] < app.start[t] /\ app.start[t] \in Nat /\ pip[e] \in Nat
    BY <1>1, StartIs DEF KernelInv, MutexInv, Priorities
  <1>3. \A t \in AppTasks : pip[e] < app.start[t] /\ pip[e] # app.start[t]
    BY <1>2
  <1>4. pip[e] # LowestPrio
    <2>1. prioTbl[pip[e]] \in AppTasks \cup {Reserved}
      BY DEF KernelInv, MutexInv, MutexTypes, Priorities, Raised
    <2>2. Idle \notin AppTasks /\ Idle # Reserved
      BY AppIs, CoreAssumption DEF KernelInv, Settings
    <2>3. QED
      BY <1>1, <2>1, <2>2 DEF KernelInv, Settings
  <1>5. ASSUME NEW t \in AppTasks, tcb[t].prio = pip[e] PROVE owner[e] = t
    <2>1. PICK f \in Event : owner[f] = t /\ tcb[t].prio = pip[f]
      BY <1>3, <1>5 DEF KernelInv, MutexInv, Priorities
    <2>2. IsMutex(f)
      BY <2>1, AppIs DEF KernelInv, Settings, MutexInv, Owners, Owned
    <2>3. QED
      BY <1>5, <2>1, <2>2 DEF KernelInv, MutexInv, Priorities
  <1>6. ASSUME NEW t \in AppTasks, app.start[t] <= tcb[t].prio PROVE tcb[t].prio = app.start[t]
    <2>1. ASSUME NEW f \in Event, owner[f] = t, tcb[t].prio = pip[f] PROVE FALSE
      <3>1. IsMutex(f)
        BY <2>1, AppIs DEF KernelInv, Settings, MutexInv, Owners, Owned
      <3>2. pip[f] < app.start[t] /\ app.start[t] \in Nat /\ pip[f] \in Prio
        BY <3>1, StartIs DEF KernelInv, MutexInv, MutexTypes, Priorities
      <3>3. pip[f] \in Nat
        BY <3>2, StartIs
      <3>4. QED
        BY <1>6, <2>1, <3>2, <3>3
    <2>2. QED
      BY <2>1 DEF KernelInv, MutexInv, Priorities
  <1>7. \A t, u \in AppTasks : tcb[t].prio = app.start[u] => t = u
    BY DEF KernelInv, Settings, MutexInv, Priorities
  <1>8. ASSUME ~Raised(e) PROVE pip[e] \notin rdy /\ \A f \in Event : pip[e] \notin waiting[f]
    <2>1. \A t \in AppTasks : tcb[t].prio # pip[e]
      BY <1>5, <1>8, AppIs DEF Raised, KernelInv, Settings
    <2>2. QED
      BY <1>4, <2>1, Now
  <1>9. QED
    BY <1>1, <1>3, <1>4, <1>5, <1>6, <1>7, <1>8

\* The owner of a mutex is in no wait list, and when it waits it is ready.
LEMMA OwnerIs ==
  ASSUME KernelInv, NEW e \in Event, Owned(e)
  PROVE  /\ owner[e] \in AppTasks /\ IsMutex(e) /\ ownPrio[e] = app.start[owner[e]]
         /\ tcb[owner[e]].prio \in {app.start[owner[e]], pip[e]}
         /\ \A f \in Event : tcb[owner[e]].prio \notin waiting[f]
         /\ tcb[owner[e]].prio \notin rdy => tcb[owner[e]].eptr = None
         /\ Owns(owner[e]) /\ \A f \in Event : owner[f] = owner[e] => f = e
  <1> DEFINE o == owner[e]
  <1>1. o \in AppTasks /\ IsMutex(e) /\ ownPrio[e] = app.start[o] /\ Owns(o)
    BY DEF KernelInv, MutexInv, MutexTypes, Owners, Owned, Owns
  <1>2. \A f \in Event : owner[f] = o => f = e
    BY DEF KernelInv, MutexInv, Owners, Owned
  <1>3. tcb[o].prio \in {app.start[o], pip[e]}
    BY <1>1, <1>2 DEF KernelInv, MutexInv, Priorities
  <1>4. CASE Pends(o)
    <2>1. arg[o] \in Event /\ Picked(o)
      BY <1>1, <1>4 DEF KernelInv, MutexInv, Pending
    <2>2. Serves("mutex")
      BY <1>1, PipIs
    <2>3. OnEvent(o) /\ "suspend" \notin tcb[o].stat
      BY <1>1, <1>4, <2>1, <2>2, PickedIs DEF KernelInv, MutexInv, Pending
    <2>4. Unheld(tcb[o]) /\ \A f \in Event : tcb[o].prio \notin waiting[f]
      BY <2>1, <2>3 DEF OnEvent, Picked, NoPend, Unheld
    <2>5. tcb[o].prio \in rdy
      BY <1>1, <2>4, Now DEF TaskInv
    <2>6. QED
      BY <1>1, <1>2, <1>3, <2>4, <2>5
  <1>5. CASE ~Pends(o)
    <2>1. InNoPend(o)
      BY <1>1, <1>5, Now DEF TaskInv
    <2>2. QED
      BY <1>1, <1>2, <1>3, <2>1 DEF InNoPend
  <1>6. QED
    BY <1>4, <1>5

\* A task that waits for a mutex.
LEMMA WaiterIs ==
  ASSUME KernelInv, NEW e \in Event, IsMutex(e), NEW w \in Waiters(e)
  PROVE  /\ w \in AppTasks /\ tcb[w].prio \in waiting[e] /\ tcb[w].prio = app.start[w]
         /\ ~Owns(w) /\ Pends(w) /\ arg[w] = e /\ OnEvent(w)
         /\ tcb[w].stat \subseteq {"mutex"} /\ "suspend" \notin tcb[w].stat
         /\ \A f \in Event : tcb[w].prio \in waiting[f] <=> f = e
  <1>1. w \in AppTasks /\ tcb[w].prio \in waiting[e]
    BY WaitersAre
  <1>2. OnEvent(w) /\ Pends(w) /\ arg[w] = e
    BY <1>1, Now DEF TaskInv, InNoPend, OnFlags, OnEvent
  <1>3. ~Owns(w)
    BY <1>1, <1>2 DEF KernelInv, MutexInv, Pending, Picked
  <1>4. "suspend" \notin tcb[w].stat
    BY <1>1, <1>2, PipIs DEF KernelInv, MutexInv, Pending
  <1>5. tcb[w].stat \subseteq {"mutex"}
    BY <1>1, <1>2, <1>4 DEF OnEvent, PendsFor, NoPend, IsMutex
  <1>6. \A f \in Event : tcb[w].prio \in waiting[f] <=> f = e
    BY <1>1, <1>2 DEF OnEvent
  <1>7. QED
    BY <1>1, <1>2, <1>3, <1>4, <1>5, <1>6, UnownedIs

\* The caller of a mutex is ready.
LEMMA CallerReady ==
  ASSUME KernelInv, NEW t \in Task, Runs(t), Serves("mutex")
  PROVE  /\ t \in AppTasks /\ cur = t /\ pc[t] = "user" /\ ~Pends(t) /\ tcb[t].prio \in rdy
         /\ Unheld(tcb[t]) /\ InNoPend(t)
  <1>1. t \in AppTasks /\ cur = t /\ pc[t] = "user" /\ ~Pends(t)
    BY Runner DEF Runs, Pends
  <1>2. lockNesting \in 0 .. MaxNesting /\ MaxNesting \in Nat
    BY CoreAssumption DEF KernelInv, CoreTypeOK
  <1>3. lockNesting = 0 \/ lockNesting > 0
    BY <1>2
  <1>4. tcb[t].prio \in rdy
    BY <1>1, <1>3 DEF KernelInv, Processor
  <1>5. QED
    BY <1>1, <1>4, Now DEF TaskInv

\* A step that leaves a task where it is, although its priority may change.
LEMMA TaskMoves ==
  ASSUME KernelInv, NEW t \in AppTasks, app' = app,
         tcb'[t].stat = tcb[t].stat, tcb'[t].pend = tcb[t].pend, tcb'[t].dly = tcb[t].dly,
         tcb'[t].eptr = tcb[t].eptr,
         pc'[t] \in {"block", "wake"} <=> pc[t] \in {"block", "wake"}, arg'[t] = arg[t],
         tcb'[t].prio \in rdy' <=> tcb[t].prio \in rdy,
         \A e \in Event : tcb'[t].prio \in waiting'[e] <=> tcb[t].prio \in waiting[e],
         \A e \in Event : tcb[t].prio \in waiting[e] => evType'[e] = evType[e],
         UNCHANGED <<inUse, nodes>>
  PROVE  Goes(t)
  <1>1. TaskInv(t)
    BY DEF KernelInv
  <1>2. app.waits \subseteq Request
    BY AppIs DEF KernelInv, Settings
  <1>3. \A r \in Request : r.grp \in Group
    BY DEF Request
  <1>4. OnEvent(t) => OnEvent(t)'
    BY DEF OnEvent, PendsFor, NoPend
  <1>5. OnFlags(t) => OnFlags(t)'
    BY <1>2, <1>3 DEF OnFlags, PendsFor, NoPend
  <1>6. InNoPend(t) => InNoPend(t)'
    BY DEF InNoPend, NoPend
  <1>7. TaskInv(t)'
    BY <1>1, <1>4, <1>5, <1>6 DEF TaskInv, Pends, Unheld
  <1>8. GrantSame(t)
    BY DEF GrantSame, HasGrant
  <1>9. FlagsSame(t)
    BY DEF FlagsSame, HasFlags, Pends
  <1>10. QED
    BY <1>7, <1>8, <1>9 DEF Goes

\* The tables and the lists after a call of a mutex.
Placed ==
  /\ tcb' \in [AllTasks -> TCB] /\ \A t \in AllTasks : tcb'[t].multi = {}
  /\ \A t \in AllTasks \ AppTasks : tcb'[t] = tcb[t]
  /\ \A t \in AppTasks : prioTbl'[tcb'[t].prio] = t
  /\ rdy' \subseteq {tcb'[t].prio : t \in AppTasks} \cup {LowestPrio} /\ LowestPrio \in rdy'
  /\ waiting' \in [Event -> SUBSET Prio]
  /\ \A e \in Event : waiting'[e] \subseteq {tcb'[t].prio : t \in AppTasks}
  /\ evType' \in [Event -> Kinds \cup {"mutex", "unused"}]
  /\ \A e \in Event : evType'[e] = "unused" => waiting'[e] = {}
  /\ pc' \in [AllTasks -> PC] /\ DOMAIN arg' = AllTasks
  /\ \A t \in AppTasks : pc'[t] \in {"user", "yield", "block", "wake"}
  /\ \A t \in AllTasks \ AppTasks : pc'[t] = pc[t]
  /\ \A t \in AppTasks : TaskInv(t)'

MutexFrame == UNCHANGED <<app, free, cur, prioCur, lockNesting, inUse, nodes>>

LEMMA MutexNext ==
  ASSUME KernelInv, MutexFrame, Placed, MutexInv', Processor',
         \E e \in Event, x \in AppTasks \cup {None, Reserved} :
           \/ IsMutex(e) /\ prioTbl' = [prioTbl EXCEPT ![pip[e]] = x]
           \/ prioTbl[pip'[e]] = None /\ pip'[e] \in Prio /\ prioTbl' = [prioTbl EXCEPT ![pip'[e]] = x]
           \/ prioTbl' = prioTbl
  PROVE  KernelInv'
  <1>1. UNCHANGED <<app, free, cur, prioCur, lockNesting, inUse, nodes>> /\ AppTasks' = AppTasks
    BY DEF MutexFrame, AppTasks
  <1>2. /\ prioTbl' \in [Prio -> AppTasks \cup {Idle, None, Reserved}]
        /\ \A p \in Prio : prioTbl'[p] = Idle <=> p = LowestPrio
    <2>1. Idle \notin AppTasks \cup {None, Reserved}
      BY AppIs, CoreAssumption DEF KernelInv, Settings
    <2>2. LowestPrio \in Prio
      BY OwnPriority
    <2>3. /\ prioTbl \in [Prio -> AppTasks \cup {Idle, None, Reserved}]
          /\ \A p \in Prio : prioTbl[p] = Idle <=> p = LowestPrio
      BY DEF KernelInv, Settings
    <2>4. CASE prioTbl' = prioTbl
      BY <2>3, <2>4
    <2>5. ASSUME NEW p \in Prio, NEW x \in AppTasks \cup {None, Reserved}, p # LowestPrio,
                 prioTbl' = [prioTbl EXCEPT ![p] = x]
          PROVE  /\ prioTbl' \in [Prio -> AppTasks \cup {Idle, None, Reserved}]
                 /\ \A q \in Prio : prioTbl'[q] = Idle <=> q = LowestPrio
      BY <2>1, <2>2, <2>3, <2>5
    <2>6. ASSUME NEW e \in Event, NEW x \in AppTasks \cup {None, Reserved}, IsMutex(e),
                 prioTbl' = [prioTbl EXCEPT ![pip[e]] = x]
          PROVE  /\ prioTbl' \in [Prio -> AppTasks \cup {Idle, None, Reserved}]
                 /\ \A q \in Prio : prioTbl'[q] = Idle <=> q = LowestPrio
      BY <2>5, <2>6, PipIs
    <2>7. ASSUME NEW e \in Event, NEW x \in AppTasks \cup {None, Reserved}, prioTbl[pip'[e]] = None, pip'[e] \in Prio,
                 prioTbl' = [prioTbl EXCEPT ![pip'[e]] = x]
          PROVE  /\ prioTbl' \in [Prio -> AppTasks \cup {Idle, None, Reserved}]
                 /\ \A q \in Prio : prioTbl'[q] = Idle <=> q = LowestPrio
      <3>1. pip'[e] # LowestPrio
        BY <2>3, <2>7, CoreAssumption
      <3>2. QED
        BY <2>5, <2>7, <3>1
    <2>8. QED
      BY <2>4, <2>6, <2>7
  <1>3. Settings'
    <2>1. Disciplined'
      BY <1>1 DEF Disciplined, Serves, KernelInv, Settings
    <2>2. \A t \in AllTasks \ AppTasks : tcb'[t] = NewTCB(LowestPrio)
      BY DEF Placed, KernelInv, Settings
    <2>3. pc'[Idle] = "user" /\ \A t \in Task \ AppTasks : pc'[t] = "dormant"
      BY Now DEF Placed, KernelInv, Settings
    <2>4. QED
      BY <1>1, <1>2, <2>1, <2>2, <2>3 DEF Placed, KernelInv, Settings
  <1>4. Lists'
    BY <1>1 DEF Placed, Lists, KernelInv
  <1>5. CoreTypeOK'
    <2>1. rdy' \subseteq Prio
      <3>1. \A t \in AppTasks : tcb'[t].prio \in Prio
        BY Now DEF Placed, TCB
      <3>2. QED
        BY <3>1, OwnPriority DEF Placed
    <2>2. prioTbl' \in [Prio -> AllTasks \cup {None, Reserved}]
      BY <1>2, Now DEF AllTasks
    <2>3. cur' \in AllTasks /\ prioCur' \in Prio /\ lockNesting' \in 0 .. MaxNesting
      BY <1>1 DEF KernelInv, CoreTypeOK
    <2>4. QED
      BY <2>1, <2>2, <2>3 DEF Placed, Kinds, CoreTypeOK
  <1>6. \A t \in AppTasks' : TaskInv(t)'
    BY <1>1 DEF Placed
  <1>7. QED
    BY <1>3, <1>4, <1>5, <1>6 DEF Placed, KernelInv

\* A call that leaves the TCBs and the lists alone.
LEMMA StandsPlaced ==
  ASSUME KernelInv, UNCHANGED <<app, tcb, rdy, waiting, pc, arg, inUse, nodes>>,
         NEW e \in Event, waiting[e] = {}, NEW type \in {"mutex", "unused"},
         evType' = evType \/ evType' = [evType EXCEPT ![e] = type],
         \A t \in AppTasks : prioTbl'[tcb[t].prio] = t
  PROVE  Placed /\ AllGo
  <1>1. \A t \in AppTasks, f \in Event : tcb[t].prio \in waiting[f] => evType'[f] = evType[f]
    BY Now
  <1>2. AllGo
    BY <1>1, TaskStays DEF AllGo
  <1>3. QED
    BY <1>2, Now DEF Placed, AllGo, Goes, Kinds

\* The processor after a call that leaves it, and the ready list, alone.
LEMMA ProcessorStands ==
  ASSUME KernelInv, UNCHANGED <<app, cur, prioCur, lockNesting, rdy, pc>>,
         tcb'[cur].prio = tcb[cur].prio,
         GoesOnRaised => GoesOnRaised'
  PROVE  Processor'
  BY DEF KernelInv, Processor, AppTasks, Rule, Serves

LEMMA CreateMutex ==
  ASSUME KernelInv, MutexFrame, NEW t \in Task, NEW e \in Event, NEW p \in Pips, OSMutexCreate(t, e, p),
         UNCHANGED <<inside, orphans>>, Serves("mutex")
  PROVE  KernelInv' /\ AllGo
  <1>1. /\ evType[e] = "unused" /\ evType' = [evType EXCEPT ![e] = "mutex"] /\ waiting[e] = {}
        /\ prioTbl[p] = None /\ prioTbl' = [prioTbl EXCEPT ![p] = Reserved]
        /\ pip' = [pip EXCEPT ![e] = p]
        /\ UNCHANGED <<app, tcb, rdy, waiting, pc, arg, cur, prioCur, lockNesting, inUse, nodes>>
        /\ AppTasks' = AppTasks
    <2>1. evType[e] = "unused" /\ waiting[e] = {} /\ waiting' = [waiting EXCEPT ![e] = {}]
      BY Now DEF OSMutexCreate
    <2>2. waiting' = waiting
      BY <2>1, Now
    <2>3. QED
      BY <2>1, <2>2 DEF OSMutexCreate, MutexFrame, Returns, AppTasks
  <1>2. p \in Prio /\ \A u \in AppTasks : p < app.start[u]
    BY DEF Pips, AppTasks
  <1>3. /\ ~IsMutex(e) /\ ~Owned(e) /\ ownPrio[e] = None /\ owner[e] = None
        /\ UNCHANGED <<owner, ownPrio>>
    <2>1. ~IsMutex(e)
      BY <1>1 DEF IsMutex
    <2>2. ~Owned(e) /\ ownPrio[e] = None
      BY <2>1 DEF KernelInv, MutexInv, Owners
    <2>3. owner' = [owner EXCEPT ![e] = None] /\ ownPrio' = [ownPrio EXCEPT ![e] = None]
      BY DEF OSMutexCreate
    <2>4. owner \in [Event -> AppTasks \cup {None}] /\ ownPrio \in [Event -> Prio \cup {None}]
      BY DEF KernelInv, MutexInv, MutexTypes
    <2>5. QED
      BY <2>1, <2>2, <2>3, <2>4 DEF Owned
  <1>4. /\ \A f \in Event : IsMutex(f)' <=> IsMutex(f) \/ f = e
        /\ \A f \in Event : f # e => pip'[f] = pip[f]
        /\ pip'[e] = p /\ pip' \in [Event -> Prio]
        /\ \A f \in Event : Owned(f)' <=> Owned(f)
        /\ \A f \in Event : Owned(f) => f # e /\ IsMutex(f)
    <2>1. pip \in [Event -> Prio] /\ evType \in [Event -> Kinds \cup {"mutex", "unused"}]
      BY Now DEF KernelInv, MutexInv, MutexTypes
    <2>2. \A f \in Event : Owned(f) => f # e /\ IsMutex(f)
      BY <1>3 DEF KernelInv, MutexInv, Owners
    <2>3. QED
      BY <1>1, <1>2, <1>3, <2>1, <2>2 DEF IsMutex, Owned
  <1>5. /\ \A q \in Prio : q # p => prioTbl'[q] = prioTbl[q]
        /\ prioTbl'[p] = Reserved
        /\ None \notin AppTasks /\ Reserved \notin AppTasks /\ None # Reserved
    BY <1>1, <1>2, AppIs, CoreAssumption DEF KernelInv, Settings
  <1>6. /\ \A u \in AppTasks : tcb[u].prio # p /\ prioTbl'[tcb[u].prio] = u
        /\ \A u \in AppTasks : prioTbl'[app.start[u]] = u
        /\ \A f \in Event : IsMutex(f) => pip[f] # p
    <2>1. \A u \in AppTasks : tcb[u].prio \in Prio /\ prioTbl[tcb[u].prio] = u
      BY OwnPriority DEF KernelInv, Settings
    <2>2. \A u \in AppTasks : app.start[u] \in Prio /\ prioTbl[app.start[u]] = u
      BY StartIs DEF KernelInv, MutexInv, Priorities
    <2>3. \A f \in Event : IsMutex(f) => prioTbl[pip[f]] \in AppTasks \cup {Reserved}
      BY DEF KernelInv, MutexInv, MutexTypes, Priorities, Raised
    <2>4. QED
      BY <1>1, <1>5, <2>1, <2>2, <2>3
  <1>7. Placed /\ AllGo
    BY <1>1, <1>6, StandsPlaced
  <1>8. MutexTypes'
    <2>1. \A f \in Event : IsMutex(f)' => Serves("mutex")'
      BY <1>1 DEF Serves
    <2>2. QED
      BY <1>1, <1>3, <1>4, <2>1 DEF KernelInv, MutexInv, MutexTypes
  <1>9. Owners'
    BY <1>1, <1>3, <1>4 DEF KernelInv, MutexInv, Owners
  <1>10. Priorities'
    <2> USE DEF KernelInv, MutexInv
    <2>1. Priorities
      OBVIOUS
    <2>2. \A u \in AppTasks : \/ tcb[u].prio = app.start[u]
                              \/ \E f \in Event : owner[f] = u /\ tcb[u].prio = pip'[f]
      <3>1. \A f \in Event, u \in AppTasks : owner[f] = u => f # e
        BY <1>3, <1>5
      <3>2. QED
        BY <1>4, <2>1, <3>1 DEF Priorities
    <2>3. ASSUME NEW f \in Event, IsMutex(f)'
          PROVE  /\ \A u \in AppTasks : pip'[f] < app.start[u]
                 /\ prioTbl'[pip'[f]] = IF Raised(f)' THEN owner[f] ELSE Reserved
      <3>1. CASE f = e
        BY <1>2, <1>3, <1>4, <1>5, <3>1 DEF Raised
      <3>2. CASE f # e
        <4>1. IsMutex(f) /\ pip'[f] = pip[f] /\ pip[f] # p /\ pip[f] \in Prio
          BY <1>4, <1>6, <2>3, <3>2 DEF MutexTypes
        <4>2. Raised(f)' <=> Raised(f)
          BY <1>1, <1>3, <4>1 DEF Raised
        <4>3. QED
          BY <1>3, <1>5, <2>1, <4>1, <4>2 DEF Priorities
      <3>3. QED
        BY <3>1, <3>2
    <2>4. \A q \in Prio : prioTbl'[q] = Reserved => \E f \in Event : IsMutex(f)' /\ pip'[f] = q
      <3>1. \A f \in Event : IsMutex(f) => IsMutex(f)' /\ pip'[f] = pip[f]
        BY <1>3, <1>4
      <3>2. QED
        BY <1>4, <1>5, <2>1, <3>1 DEF Priorities
    <2>5. \A q \in Prio : prioTbl'[q] \in AppTasks =>
            q = app.start[prioTbl'[q]] \/ \E f \in Event : IsMutex(f)' /\ pip'[f] = q
      <3>1. \A f \in Event : IsMutex(f) => IsMutex(f)' /\ pip'[f] = pip[f]
        BY <1>3, <1>4
      <3>2. QED
        BY <1>5, <2>1, <3>1 DEF Priorities
    <2>6. \A f, g \in Event : IsMutex(f)' /\ IsMutex(g)' /\ pip'[f] = pip'[g] => f = g
      BY <1>4, <1>6, <2>1 DEF Priorities
    <2>7. QED
      BY <1>1, <1>3, <1>6, <2>2, <2>3, <2>4, <2>5, <2>6 DEF Priorities
  <1>11. \A u \in AppTasks' : Pending(u)'
    <2> SUFFICES ASSUME NEW u \in AppTasks PROVE Pending(u)'
      BY <1>1
    <2>1. Pending(u)
      BY DEF KernelInv, MutexInv
    <2>2. \A f \in Event : evType'[f] \in {"mutex", "unused"} => evType[f] \in {"mutex", "unused"}
      BY <1>1, Now
    <2>3. QED
      BY <1>1, <1>3, <2>1, <2>2 DEF Pending, Pends, Owns, Picked, Serves
  <1>12. MutexInv'
    BY <1>8, <1>9, <1>10, <1>11 DEF MutexInv
  <1>13. Processor'
    <2>1. GoesOnRaised => GoesOnRaised'
      <3>1. prioCur \in Prio
        BY DEF KernelInv, CoreTypeOK
      <3>2. QED
        BY <1>1, <1>3, <1>4, <1>5, <3>1 DEF GoesOnRaised
    <2>2. QED
      BY <1>1, <2>1, ProcessorStands
  <1>14. QED
    BY <1>1, <1>2, <1>4, <1>7, <1>12, <1>13, MutexNext

LEMMA AcquireMutex ==
  ASSUME KernelInv, MutexFrame, NEW t \in Task, NEW e \in Event, ~Owns(t), Acquire(t, e),
         inside' = [inside EXCEPT ![e] = @ \cup {t}], orphans' = orphans
  PROVE  KernelInv' /\ AllGo
  <1>1. /\ IsMutex(e) /\ owner' = [owner EXCEPT ![e] = t] /\ ownPrio' = [ownPrio EXCEPT ![e] = tcb[t].prio]
        /\ UNCHANGED <<app, prioTbl, tcb, rdy, evType, waiting, pc, arg, cur, prioCur, lockNesting, pip, inUse, nodes>>
        /\ AppTasks' = AppTasks /\ Runs(t) /\ ownPrio[e] = None
    BY DEF Acquire, MutexFrame, Returns, AppTasks
  <1>2. /\ t \in AppTasks /\ cur = t /\ ~Pends(t) /\ tcb[t].prio = app.start[t] /\ app.start[t] \in Prio
        /\ pip[e] # app.start[t]
    BY <1>1, CallerReady, UnownedIs, PipIs, StartIs
  <1>3. owner[e] = None /\ waiting[e] = {} /\ inside[e] = {} /\ ~Raised(e)
    <2>1. ~Owned(e)
      BY <1>1, StartIs, OwnerIs, MutexAssumption
    <2>2. inside[e] \subseteq {None} /\ inside[e] \subseteq AppTasks
      BY <2>1 DEF KernelInv, MutexInv, MutexTypes, Owners, Owned
    <2>3. inside[e] = {}
      BY <2>2, AppIs DEF KernelInv, Settings
    <2>4. QED
      BY <1>1, <2>1, <2>3 DEF KernelInv, MutexInv, Owners, Owned, Raised
  <1>4. /\ owner'[e] = t /\ ownPrio'[e] = app.start[t] /\ \A f \in Event : f # e => owner'[f] = owner[f]
        /\ \A f \in Event : f # e => ownPrio'[f] = ownPrio[f]
        /\ owner' \in [Event -> AppTasks \cup {None}] /\ ownPrio' \in [Event -> Prio \cup {None}]
        /\ \A f \in Event : owner[f] # t
        /\ inside' \in [Event -> SUBSET AppTasks] /\ inside'[e] = {t}
        /\ \A f \in Event : f # e => inside'[f] = inside[f]
    BY <1>1, <1>2, <1>3 DEF KernelInv, MutexInv, MutexTypes, Owns
  <1>5. None \notin AppTasks /\ t # None
    BY <1>2, AppIs DEF KernelInv, Settings
  <1>6. \A f \in Event : (IsMutex(f)' <=> IsMutex(f)) /\ (Owned(f)' <=> Owned(f) \/ f = e)
    BY <1>1, <1>3, <1>4, <1>5 DEF IsMutex, Owned
  <1>7. \A u \in AppTasks : prioTbl[tcb[u].prio] = u
    BY DEF KernelInv, Settings
  <1>8. Placed /\ AllGo
    BY <1>1, <1>3, <1>7, StandsPlaced
  <1>9. MutexTypes'
    <2>1. \A f \in Event : IsMutex(f)' => Serves("mutex")'
      BY <1>1, <1>6 DEF Serves, KernelInv, MutexInv, MutexTypes
    <2>2. QED
      BY <1>1, <1>4, <2>1 DEF KernelInv, MutexInv, MutexTypes
  <1>10. Owners'
    BY <1>1, <1>2, <1>3, <1>4, <1>5, <1>6 DEF KernelInv, MutexInv, Owners, Owned
  <1>11. \A f \in Event : Raised(f)' <=> Raised(f)
    BY <1>1, <1>2, <1>3, <1>4 DEF Raised
  <1>12. Priorities'
    <2> USE DEF KernelInv, MutexInv
    <2>1. Priorities
      OBVIOUS
    <2>2. \A u \in AppTasks : \/ tcb[u].prio = app.start[u]
                              \/ \E f \in Event : owner'[f] = u /\ tcb[u].prio = pip[f]
      BY <1>3, <1>4, <1>5, <2>1 DEF Priorities
    <2>3. \A f \in Event : IsMutex(f)' =>
                 /\ \A u \in AppTasks : pip[f] < app.start[u]
                 /\ prioTbl[pip[f]] = IF Raised(f)' THEN owner'[f] ELSE Reserved
      BY <1>3, <1>4, <1>6, <1>11, <2>1 DEF Priorities
    <2>4. \A q \in Prio : prioTbl[q] = Reserved => \E f \in Event : IsMutex(f)' /\ pip[f] = q
      BY <1>6, <2>1 DEF Priorities
    <2>5. \A q \in Prio : prioTbl[q] \in AppTasks =>
            q = app.start[prioTbl[q]] \/ \E f \in Event : IsMutex(f)' /\ pip[f] = q
      BY <1>6, <2>1 DEF Priorities
    <2>6. /\ \A f, g \in Event : IsMutex(f)' /\ IsMutex(g)' /\ pip[f] = pip[g] => f = g
          /\ \A u \in AppTasks : prioTbl[app.start[u]] = u
      BY <1>6, <2>1 DEF Priorities
    <2>7. QED
      BY <1>1, <2>2, <2>3, <2>4, <2>5, <2>6 DEF Priorities
  <1>13. \A u \in AppTasks' : Pending(u)'
    <2> SUFFICES ASSUME NEW u \in AppTasks, Pends(u) PROVE Pending(u)'
      BY <1>1 DEF Pending, Pends
    <2>1. Pending(u) /\ u # t
      BY <1>2 DEF KernelInv, MutexInv
    <2>2. (Owns(u)' => Owns(u)) /\ (Picked(u)' <=> Picked(u)) /\ (Serves("mutex")' <=> Serves("mutex"))
      BY <1>1, <1>4, <2>1 DEF Owns, Picked, Serves
    <2>3. \A f \in Event : owner[f] = u => owner'[f] = u
      BY <1>3, <1>4, <1>5
    <2>4. QED
      BY <1>1, <2>1, <2>2, <2>3 DEF Pending
  <1>14. MutexInv'
    BY <1>9, <1>10, <1>12, <1>13 DEF MutexInv
  <1>15. Processor'
    <2>1. GoesOnRaised => GoesOnRaised'
      BY <1>1, <1>2, <1>4, <1>6 DEF GoesOnRaised
    <2>2. QED
      BY <1>1, <2>1, ProcessorStands
  <1>16. QED
    BY <1>1, <1>8, <1>14, <1>15, MutexNext

\* What HandOver does to the TCBs and the lists.
HandedOver(e, ts) ==
  /\ tcb' \in [AllTasks -> TCB] /\ \A u \in AllTasks : tcb'[u].multi = {}
  /\ \A u \in AllTasks \ AppTasks : tcb'[u] = tcb[u]
  /\ \A u \in AppTasks : tcb'[u].prio = IF Raised(e) /\ u = owner[e] THEN app.start[u] ELSE tcb[u].prio
  /\ \A u \in AppTasks \ ts : /\ tcb'[u].stat = tcb[u].stat /\ tcb'[u].pend = tcb[u].pend
                              /\ tcb'[u].dly = tcb[u].dly /\ tcb'[u].eptr = tcb[u].eptr
  /\ \A u \in ts : /\ tcb'[u].stat = {} /\ tcb'[u].pend = "ok" /\ tcb'[u].dly = 0
                   /\ tcb'[u].eptr = tcb[u].eptr
  /\ \A u \in AppTasks : tcb'[u].prio \in rdy' <=> tcb[u].prio \in rdy \/ u \in ts
  /\ rdy' \subseteq {tcb'[u].prio : u \in AppTasks} \cup {LowestPrio} /\ LowestPrio \in rdy'
  /\ waiting' \in [Event -> SUBSET Prio]
  /\ \A f \in Event : waiting'[f] \subseteq waiting[f] /\ (f # e => waiting'[f] = waiting[f])
  /\ \A f \in Event : waiting'[f] \subseteq {tcb'[u].prio : u \in AppTasks}
  /\ \A u \in AppTasks, f \in Event :
       tcb'[u].prio \in waiting'[f] <=> tcb[u].prio \in waiting[f] /\ ~(f = e /\ u \in ts)

LEMMA HandOverIs ==
  ASSUME KernelInv, NEW e \in Event, IsMutex(e), NEW ts \in SUBSET Waiters(e), HandOver(e, ts),
         Raised(e) => tcb[owner[e]].prio \in rdy
  PROVE  HandedOver(e, ts)
  <1> DEFINE o == owner[e]
             moved(u) == Raised(e) /\ u = o
  <1>1. /\ ts \subseteq AppTasks /\ AppTasks \subseteq AllTasks /\ tcb \in [AllTasks -> TCB]
        /\ waiting \in [Event -> SUBSET Prio] /\ (\A u \in AllTasks : tcb[u].multi = {})
        /\ \A u \in ts : tcb[u].prio \in waiting[e] /\ tcb[u].stat \subseteq {"mutex"} /\ ~Owns(u)
    BY Now, WaitersAre, WaiterIs
  <1>2. Raised(e) => /\ Owned(e) /\ o \in AppTasks /\ o \notin ts /\ Owns(o) /\ tcb[o].prio = pip[e]
                     /\ ownPrio[e] = app.start[o] /\ app.start[o] \in Prio /\ pip[e] \in Prio
                     /\ pip[e] # app.start[o] /\ pip[e] # LowestPrio
    BY <1>1, OwnerIs, StartIs, PipIs DEF Raised, Owned
  <1>3. tcb' = [u \in AllTasks |->
                  IF u \in ts
                  THEN [tcb[u] EXCEPT !.dly = 0, !.msg = None, !.stat = @ \ {"mutex"}, !.pend = "ok"]
                  ELSE IF moved(u) THEN [tcb[u] EXCEPT !.prio = ownPrio[e]]
                  ELSE tcb[u]]
    BY DEF HandOver
  <1>4. \A c \in TCB : [c EXCEPT !.dly = 0, !.msg = None, !.stat = @ \ {"mutex"}, !.pend = "ok"] \in TCB
    BY DEF TCB
  <1>5. ASSUME NEW c \in TCB, NEW p \in Prio, NEW d, d = [c EXCEPT !.prio = p]
        PROVE  /\ d \in TCB /\ d.prio = p /\ d.multi = c.multi /\ d.eptr = c.eptr
               /\ d.stat = c.stat /\ d.pend = c.pend /\ d.dly = c.dly
    BY <1>5 DEF TCB
  <1>6. ASSUME NEW u \in ts
        PROVE  /\ tcb'[u] \in TCB /\ tcb'[u].prio = tcb[u].prio /\ tcb'[u].multi = {}
               /\ tcb'[u].stat = {} /\ tcb'[u].pend = "ok" /\ tcb'[u].dly = 0 /\ tcb'[u].eptr = tcb[u].eptr
    <2>1. /\ u \in AllTasks /\ tcb[u] \in TCB
          /\ tcb'[u] = [tcb[u] EXCEPT !.dly = 0, !.msg = None, !.stat = @ \ {"mutex"}, !.pend = "ok"]
      BY <1>1, <1>3
    <2>2. tcb'[u].stat = tcb[u].stat \ {"mutex"}
      BY <2>1 DEF TCB
    <2>3. tcb'[u].stat = {} /\ tcb[u].multi = {}
      BY <1>1, <2>1, <2>2
    <2>4. /\ tcb'[u].prio = tcb[u].prio /\ tcb'[u].multi = tcb[u].multi
          /\ tcb'[u].pend = "ok" /\ tcb'[u].dly = 0 /\ tcb'[u].eptr = tcb[u].eptr
      BY <2>1 DEF TCB
    <2>5. tcb'[u] \in TCB
      BY <1>4, <2>1
    <2>6. QED
      BY <2>3, <2>4, <2>5
  <1>7. ASSUME NEW u \in AllTasks \ ts, moved(u)
        PROVE  /\ tcb'[u] \in TCB /\ tcb'[u].prio = app.start[u] /\ tcb'[u].multi = {}
               /\ tcb'[u].stat = tcb[u].stat /\ tcb'[u].pend = tcb[u].pend
               /\ tcb'[u].dly = tcb[u].dly /\ tcb'[u].eptr = tcb[u].eptr
    <2>1. tcb[u] \in TCB /\ tcb'[u] = [tcb[u] EXCEPT !.prio = app.start[u]] /\ app.start[u] \in Prio
      BY <1>1, <1>2, <1>3, <1>7
    <2>2. QED
      BY <1>1, <1>5, <2>1
  <1>8. \A u \in AllTasks \ ts : ~moved(u) => tcb'[u] = tcb[u]
    BY <1>3
  <1>9. \A u \in AppTasks : tcb'[u].prio = IF moved(u) THEN app.start[u] ELSE tcb[u].prio
    BY <1>1, <1>2, <1>6, <1>7, <1>8
  <1>10. tcb' \in [AllTasks -> TCB] /\ \A u \in AllTasks : tcb'[u].multi = {}
    <2>1. \A u \in AllTasks : tcb'[u] \in TCB /\ tcb'[u].multi = {}
      BY <1>1, <1>6, <1>7, <1>8
    <2>2. QED
      BY <1>3, <2>1
  <1>11. \A u \in AllTasks \ AppTasks : tcb'[u] = tcb[u]
    BY <1>1, <1>2, <1>8
  <1>12. \A u \in AppTasks \ ts : /\ tcb'[u].stat = tcb[u].stat /\ tcb'[u].pend = tcb[u].pend
                                  /\ tcb'[u].dly = tcb[u].dly /\ tcb'[u].eptr = tcb[u].eptr
    BY <1>1, <1>7, <1>8
  <1>13. rdy' = (IF Raised(e) THEN (rdy \ {pip[e]}) \cup {ownPrio[e]} ELSE rdy) \cup {tcb[u].prio : u \in ts}
    <2>1. NotSuspended(ts) = ts
      BY <1>1 DEF NotSuspended
    <2>2. QED
      BY <2>1 DEF HandOver
  <1>14. \A u, v \in AppTasks : (tcb[u].prio = tcb[v].prio => u = v) /\ (tcb[u].prio = app.start[v] => u = v)
    BY OwnPriority, PipIs
  <1>15. \A u \in AppTasks : tcb'[u].prio \in rdy' <=> tcb[u].prio \in rdy \/ u \in ts
    <2> SUFFICES ASSUME NEW u \in AppTasks
                 PROVE  tcb'[u].prio \in rdy' <=> tcb[u].prio \in rdy \/ u \in ts
      OBVIOUS
    <2>1. CASE moved(u)
      BY <1>2, <1>9, <1>13, <2>1
    <2>2. CASE ~moved(u)
      <3>1. tcb'[u].prio = tcb[u].prio /\ (Raised(e) => tcb[u].prio # pip[e] /\ tcb[u].prio # ownPrio[e])
        BY <1>2, <1>9, <1>14, <2>2
      <3>2. tcb[u].prio \in {tcb[v].prio : v \in ts} <=> u \in ts
        BY <1>1, <1>14
      <3>3. QED
        BY <1>13, <3>1, <3>2
    <2>3. QED
      BY <2>1, <2>2
  <1>16. /\ rdy' \subseteq {tcb'[u].prio : u \in AppTasks} \cup {LowestPrio}
         /\ LowestPrio \in rdy'
    <2>1. LowestPrio \in rdy'
      BY <1>2, <1>13, Now
    <2>2. ASSUME NEW p \in rdy', p # LowestPrio PROVE \E u \in AppTasks : tcb'[u].prio = p
      <3>1. CASE Raised(e) /\ p = ownPrio[e]
        BY <1>2, <1>9, <3>1
      <3>2. CASE ~(Raised(e) /\ p = ownPrio[e])
        <4>1. PICK u \in AppTasks : tcb[u].prio = p
          BY <1>1, <1>13, <2>2, <3>2, Now
        <4>2. CASE moved(u)
          <5>1. p = pip[e] /\ p \notin {tcb[v].prio : v \in ts}
            BY <1>1, <1>2, <1>14, <4>1, <4>2
          <5>2. p \notin rdy'
            BY <1>13, <3>2, <4>2, <5>1
          <5>3. QED
            BY <2>2, <5>2
        <4>3. CASE ~moved(u)
          BY <1>9, <4>1, <4>3
        <4>4. QED
          BY <4>2, <4>3
      <3>3. QED
        BY <3>1, <3>2
    <2>3. QED
      BY <2>1, <2>2
  <1>17. /\ waiting' \in [Event -> SUBSET Prio]
         /\ \A f \in Event : waiting'[f] = IF f = e THEN waiting[e] \ {tcb[u].prio : u \in ts} ELSE waiting[f]
    BY <1>1 DEF HandOver
  <1>18. Raised(e) => \A f \in Event : pip[e] \notin waiting[f] /\ app.start[o] \notin waiting[f]
    <2>1. Raised(e) => \A f \in Event : pip[e] \notin waiting[f]
      BY <1>2, OwnerIs
    <2>2. ASSUME Raised(e), NEW f \in Event, app.start[o] \in waiting[f] PROVE FALSE
      <3>1. PICK u \in AppTasks : tcb[u].prio = app.start[o]
        BY <2>2, Now
      <3>2. u = o
        BY <1>2, <1>14, <2>2, <3>1
      <3>3. QED
        BY <1>2, <2>2, <3>1, <3>2
    <2>3. QED
      BY <2>1, <2>2
  <1>19. \A u \in AppTasks, f \in Event :
           tcb'[u].prio \in waiting'[f] <=> tcb[u].prio \in waiting[f] /\ ~(f = e /\ u \in ts)
    <2> SUFFICES ASSUME NEW u \in AppTasks, NEW f \in Event
                 PROVE  tcb'[u].prio \in waiting'[f] <=> tcb[u].prio \in waiting[f] /\ ~(f = e /\ u \in ts)
      OBVIOUS
    <2>1. CASE moved(u)
      BY <1>2, <1>9, <1>17, <1>18, <2>1
    <2>2. CASE ~moved(u)
      <3>1. tcb'[u].prio = tcb[u].prio
        BY <1>9, <2>2
      <3>2. tcb[u].prio \in {tcb[v].prio : v \in ts} <=> u \in ts
        BY <1>1, <1>14
      <3>3. QED
        BY <1>17, <3>1, <3>2
    <2>3. QED
      BY <2>1, <2>2
  <1>20. \A f \in Event : waiting'[f] \subseteq {tcb'[u].prio : u \in AppTasks}
    <2> SUFFICES ASSUME NEW f \in Event, NEW p \in waiting'[f] PROVE \E u \in AppTasks : tcb'[u].prio = p
      OBVIOUS
    <2>1. p \in waiting[f]
      BY <1>17
    <2>2. PICK u \in AppTasks : tcb[u].prio = p
      BY <2>1, Now
    <2>3. ~moved(u)
      BY <1>2, <1>18, <2>1, <2>2
    <2>4. QED
      BY <1>9, <2>2, <2>3
  <1>21. \A f \in Event : waiting'[f] \subseteq waiting[f] /\ (f # e => waiting'[f] = waiting[f])
    BY <1>17
  <1>22. \A u \in ts : /\ tcb'[u].stat = {} /\ tcb'[u].pend = "ok" /\ tcb'[u].dly = 0
                       /\ tcb'[u].eptr = tcb[u].eptr
    BY <1>6
  <1>23. QED
    BY <1>9, <1>10, <1>11, <1>12, <1>15, <1>16, <1>19, <1>20, <1>21, <1>22, <1>17 DEF HandedOver

\* The smallest priority is HighRdy.
LEMMA HighRdyOf ==
  ASSUME NEW S \in SUBSET Prio, NEW p \in S, \A q \in S : p <= q
  PROVE  HighRdy(S) = p
  <1>1. HighRdy(S) \in S /\ HighRdy(S) <= p /\ p <= HighRdy(S)
    BY HighRdyIs
  <1>2. Prio \subseteq Nat
    BY CoreAssumption DEF Prio
  <1>3. HighRdy(S) \in Nat /\ p \in Nat
    BY <1>1, <1>2
  <1>4. QED
    BY <1>1, <1>3

(***************************************************************************)
(* The call of t gives back the mutex e: to w, which has waited for it, or *)
(* to nobody; then the mutex may be deleted, too.  The tasks ts wait no    *)
(* more.                                                                   *)
(***************************************************************************)
Gone(e) ==
  /\ evType' = [evType EXCEPT ![e] = "unused"]
  /\ prioTbl' = [prioTbl EXCEPT ![pip[e]] = None]
  /\ inside' = [inside EXCEPT ![e] = {}]
  /\ Orphans(e)

Posts(t, e) ==
  /\ evType' = evType
  /\ prioTbl' = PipReserved(e)
  /\ owner[e] = t
  /\ inside' = [inside EXCEPT ![e] = @ \ {t}]
  /\ orphans' = orphans

GivesBack(t, e, ts, w) ==
  /\ Runs(t) /\ IsMutex(e) /\ HandOver(e, ts)
  /\ Raised(e) => tcb[owner[e]].prio \in rdy
  /\ \/ waiting[e] # {} /\ w = HighestWaiter(e) /\ ts = {w} /\ Posts(t, e)
        /\ ownPrio' = [ownPrio EXCEPT ![e] = tcb[w].prio]
     \/ w = None /\ ts = Waiters(e) /\ (Gone(e) \/ (waiting[e] = {} /\ Posts(t, e)))
        /\ ownPrio' = [ownPrio EXCEPT ![e] = None]
  /\ owner' = [owner EXCEPT ![e] = w]
  /\ pip' = pip
  /\ IF ts = {} THEN Returns ELSE Yields(t)

\* Who has waited for the mutex has it, or is inside a pend on an event that
\* is no more.
LEMMA HandedTasks ==
  ASSUME KernelInv, MutexFrame, NEW t \in Task, NEW e \in Event, NEW w, NEW ts \in SUBSET Waiters(e),
         GivesBack(t, e, ts, w), HandedOver(e, ts)
  PROVE  /\ \A u \in AppTasks : pc'[u] \in {"block", "wake"} <=> pc[u] \in {"block", "wake"}
         /\ arg' = arg
         /\ \A u \in AppTasks : TaskInv(u)'
         /\ Answers(e, ts, "ok")
         /\ pc' \in [AllTasks -> PC]
         /\ \A u \in AppTasks : pc'[u] \in {"user", "yield", "block", "wake"}
         /\ \A u \in AllTasks \ AppTasks : pc'[u] = pc[u]
  <1>1. IsMutex(e) /\ t \in AppTasks /\ pc[t] = "user" /\ ts \subseteq AppTasks
    BY CallerReady, PipIs, WaitersAre DEF GivesBack
  <1>2. arg' = arg /\ (pc' = pc \/ pc' = [pc EXCEPT ![t] = "yield"])
    BY DEF GivesBack, Returns, Yields
  <1>3. /\ pc' \in [AllTasks -> PC]
        /\ \A u \in AppTasks : pc'[u] \in {"user", "yield", "block", "wake"}
        /\ \A u \in AllTasks \ AppTasks : pc'[u] = pc[u]
        /\ \A u \in AppTasks : pc'[u] \in {"block", "wake"} <=> pc[u] \in {"block", "wake"}
    BY <1>1, <1>2, Now, RunnerGoes
  <1>4. UNCHANGED <<app, inUse, nodes>>
    BY DEF MutexFrame
  <1>5. ASSUME NEW u \in AppTasks \ ts PROVE Goes(u)
    <2>1. \A f \in Event : tcb[u].prio \in waiting[f] => evType'[f] = evType[f]
      <3>1. CASE evType' = evType
        BY <3>1
      <3>2. CASE evType' = [evType EXCEPT ![e] = "unused"] /\ ts = Waiters(e)
        BY <3>2, WaitersAre, Now
      <3>3. QED
        BY <3>1, <3>2 DEF GivesBack, Gone, Posts
    <2>2. /\ tcb'[u].stat = tcb[u].stat /\ tcb'[u].pend = tcb[u].pend
          /\ tcb'[u].dly = tcb[u].dly /\ tcb'[u].eptr = tcb[u].eptr
          /\ tcb'[u].prio \in rdy' <=> tcb[u].prio \in rdy
          /\ \A f \in Event : tcb'[u].prio \in waiting'[f] <=> tcb[u].prio \in waiting[f]
      BY DEF HandedOver
    <2>3. QED
      BY <1>2, <1>3, <1>4, <2>1, <2>2, TaskMoves
  <1>6. ASSUME NEW u \in ts PROVE Taken(u, e, "ok")
    <2>1. /\ tcb[u].prio \in waiting[e] /\ Pends(u) /\ arg[u] = e /\ OnEvent(u)
          /\ \A f \in Event : tcb[u].prio \in waiting[f] <=> f = e
      BY <1>1, WaiterIs
    <2>2. /\ tcb'[u].stat = {} /\ tcb'[u].pend = "ok" /\ tcb'[u].dly = 0 /\ tcb'[u].eptr = tcb[u].eptr
          /\ tcb'[u].prio \in rdy' /\ \A f \in Event : tcb'[u].prio \notin waiting'[f]
      BY <1>1, <2>1 DEF HandedOver
    <2>3. OnEvent(u)'
      BY <1>2, <1>4, <2>1, <2>2 DEF OnEvent, NoPend
    <2>4. TaskInv(u)'
      BY <1>1, <1>3, <2>1, <2>2, <2>3 DEF TaskInv, Pends, Unheld
    <2>5. FlagsSame(u)
      BY <1>2, <2>1, RequestAssumption DEF FlagsSame, HasFlags
    <2>6. \A f \in Event : ~HasGrant(u, f) /\ (HasGrant(u, f)' <=> f = e)
      BY <2>1, <2>2 DEF HasGrant, OnEvent
    <2>7. QED
      BY <2>4, <2>5, <2>6 DEF Taken
  <1>7. \A u \in AppTasks : TaskInv(u)'
    BY <1>5, <1>6 DEF Goes, Taken
  <1>8. Answers(e, ts, "ok")
    BY <1>5, <1>6 DEF Answers, Taken, Goes, GrantSame
  <1>9. QED
    BY <1>2, <1>3, <1>7, <1>8
\* The owners and the priorities when a mutex has been given back.
LEMMA HandedOwners ==
  ASSUME KernelInv, MutexFrame, NEW t \in Task, NEW e \in Event, NEW w, NEW ts \in SUBSET Waiters(e),
         GivesBack(t, e, ts, w), HandedOver(e, ts)
  PROVE  /\ AppTasks' = AppTasks /\ None \notin AppTasks
         /\ w \in ts \cup {None} /\ w \in AppTasks \cup {None} /\ (w # None => ~Owns(w))
         /\ \A f \in Event : owner'[f] = IF f = e THEN w ELSE owner[f]
         /\ owner' \in [Event -> AppTasks \cup {None}]
         /\ \A f \in Event : f # e => (IsMutex(f)' <=> IsMutex(f)) /\ evType'[f] = evType[f]
         /\ IsMutex(e)' => evType' = evType
         /\ \A u \in AppTasks : tcb'[u].prio = IF u = owner[e] THEN app.start[u] ELSE tcb[u].prio
         /\ w # None => tcb[w].prio = app.start[w]
         /\ w # None => \A p \in waiting'[e] : app.start[w] < p
         /\ w = None => waiting'[e] = {}
         /\ w # None => IsMutex(e)'
  <1>1. IsMutex(e) /\ AppTasks' = AppTasks /\ None \notin AppTasks
    BY AppIs DEF GivesBack, MutexFrame, AppTasks, KernelInv, Settings
  <1>2. w \in ts \cup {None} /\ w \in AppTasks \cup {None}
    BY WaitersAre DEF GivesBack
  <1>3. w # None => ~Owns(w) /\ tcb[w].prio = app.start[w] /\ w \in Waiters(e)
    BY <1>1, <1>2, WaiterIs
  <1>4. owner' = [owner EXCEPT ![e] = w] /\ owner \in [Event -> AppTasks \cup {None}]
    BY DEF GivesBack, KernelInv, MutexInv, MutexTypes
  <1>5. evType' = evType \/ (w = None /\ evType' = [evType EXCEPT ![e] = "unused"])
    BY DEF GivesBack, Gone, Posts
  <1>6. \A f \in Event : f # e => (IsMutex(f)' <=> IsMutex(f)) /\ evType'[f] = evType[f]
    BY <1>5, Now DEF IsMutex
  <1>7. (IsMutex(e)' => evType' = evType) /\ (w # None => IsMutex(e)')
    BY <1>1, <1>5, Now DEF IsMutex
  <1>8. \A u \in AppTasks : tcb'[u].prio = IF u = owner[e] THEN app.start[u] ELSE tcb[u].prio
    <2> SUFFICES ASSUME NEW u \in AppTasks, u = owner[e]
                 PROVE  tcb'[u].prio = app.start[u]
      BY DEF HandedOver
    <2>1. tcb[u].prio \in {app.start[u], pip[e]}
      BY <1>1, OwnerIs DEF Owned
    <2>2. u # None
      BY <1>1
    <2>3. QED
      BY <2>1, <2>2 DEF HandedOver, Raised
  <1>9. w # None => \A p \in waiting'[e] : app.start[w] < p
    <2> SUFFICES ASSUME w # None, NEW p \in waiting'[e] PROVE app.start[w] < p
      OBVIOUS
    <2>1. waiting[e] # {} /\ w = HighestWaiter(e) /\ ts = {w}
      BY DEF GivesBack
    <2>2. p \in waiting[e] /\ waiting[e] \subseteq Prio /\ w \in AppTasks
      BY <1>2, Now DEF HandedOver
    <2>3. HighRdy(waiting[e]) \in waiting[e] /\ HighRdy(waiting[e]) <= p
      BY <2>1, <2>2, HighRdyIs
    <2>4. PICK u \in AppTasks : tcb[u].prio = HighRdy(waiting[e])
      BY <2>3, Now
    <2>5. u = w
      BY <2>1, <2>4 DEF HighestWaiter, KernelInv, Settings
    <2>6. tcb'[w].prio \notin waiting'[e] /\ tcb'[w].prio = tcb[w].prio
      <3>1. w # owner[e]
        BY <1>3 DEF Owns
      <3>2. QED
        BY <1>8, <2>1, <2>2, <3>1 DEF HandedOver
    <2>7. p # app.start[w] /\ app.start[w] <= p /\ app.start[w] \in Prio /\ p \in Prio
      BY <1>3, <2>2, <2>3, <2>4, <2>5, <2>6, StartIs
    <2>8. Prio \subseteq Nat
      BY StartIs
    <2>9. app.start[w] \in Nat /\ p \in Nat
      BY <2>7, <2>8
    <2>10. QED
      BY <2>7, <2>9
  <1>10. w = None => waiting'[e] = {}
    <2> SUFFICES ASSUME w = None, NEW p \in waiting'[e] PROVE FALSE
      OBVIOUS
    <2>1. ts = Waiters(e)
      BY <1>3, WaitersAre, <1>1 DEF GivesBack
    <2>2. PICK u \in AppTasks : tcb'[u].prio = p
      BY DEF HandedOver
    <2>3. tcb[u].prio \in waiting[e] /\ u \notin ts
      BY <2>2 DEF HandedOver
    <2>4. QED
      BY <2>1, <2>3, WaitersAre
  <1>11. QED
    BY <1>1, <1>2, <1>3, <1>4, <1>6, <1>7, <1>8, <1>9, <1>10
LEMMA HandedMutexes ==
  ASSUME KernelInv, MutexFrame, NEW t \in Task, NEW e \in Event, NEW w, NEW ts \in SUBSET Waiters(e),
         GivesBack(t, e, ts, w), HandedOver(e, ts)
  PROVE  MutexTypes' /\ Owners' /\ Priorities' /\ \A u \in AppTasks : prioTbl'[tcb'[u].prio] = u
  <1>1. /\ AppTasks' = AppTasks /\ None \notin AppTasks
        /\ w \in AppTasks \cup {None} /\ (w # None => ~Owns(w))
        /\ \A f \in Event : owner'[f] = IF f = e THEN w ELSE owner[f]
        /\ owner' \in [Event -> AppTasks \cup {None}]
        /\ \A f \in Event : f # e => (IsMutex(f)' <=> IsMutex(f)) /\ evType'[f] = evType[f]
        /\ IsMutex(e)' => evType' = evType
        /\ \A u \in AppTasks : tcb'[u].prio = IF u = owner[e] THEN app.start[u] ELSE tcb[u].prio
        /\ w # None => tcb[w].prio = app.start[w]
        /\ w # None => \A p \in waiting'[e] : app.start[w] < p
        /\ w = None => waiting'[e] = {}
        /\ w # None => IsMutex(e)'
    BY HandedOwners
  <1>2. /\ UNCHANGED <<app, pip>> /\ IsMutex(e) /\ t \in AppTasks
        /\ pip \in [Event -> Prio] /\ ownPrio \in [Event -> Prio \cup {None}]
        /\ inside \in [Event -> SUBSET AppTasks] /\ orphans \subseteq AppTasks
        /\ Owners /\ Priorities
    BY CallerReady, PipIs DEF MutexFrame, GivesBack, KernelInv, MutexInv, MutexTypes
  <1>3. /\ \A f \in Event : ownPrio'[f] = IF f # e THEN ownPrio[f] ELSE IF w = None THEN None ELSE app.start[w]
        /\ ownPrio' \in [Event -> Prio \cup {None}]
    <2>1. w # None => app.start[w] \in Prio
      BY <1>1, StartIs
    <2>2. ownPrio' = [ownPrio EXCEPT ![e] = IF w = None THEN None ELSE app.start[w]]
      <3>1. waiting[e] # {} /\ w = HighestWaiter(e) => w # None
        BY <1>1, WaitersAre
      <3>2. QED
        BY <1>1, <3>1 DEF GivesBack
    <2>3. QED
      BY <1>2, <2>1, <2>2
  <1>4. /\ \A f \in Event : inside'[f] = IF f = e THEN {} ELSE inside[f]
        /\ inside' \in [Event -> SUBSET AppTasks]
    <2>1. inside[e] \subseteq {owner[e]}
      BY <1>2 DEF Owners
    <2>2. inside' = [inside EXCEPT ![e] = {}]
      BY <2>1, <1>2 DEF GivesBack, Posts, Gone
    <2>3. QED
      BY <1>2, <2>2
  <1>5. orphans' \subseteq AppTasks
    <2>1. \A u \in Task : Pends(u) => u \in AppTasks
      BY DEF KernelInv, Settings, Pends
    <2>2. QED
      BY <1>2, <2>1 DEF GivesBack, Posts, Gone, Orphans
  <1>6. \A f \in Event : IsMutex(f)' => IsMutex(f)
    BY <1>1, <1>2
  <1>7. MutexTypes'
    <2>1. \A f \in Event : IsMutex(f)' => Serves("mutex")'
      BY <1>2, <1>6 DEF KernelInv, MutexInv, MutexTypes, Serves
    <2>2. \A u \in AllTasks' : tcb'[u].multi = {}
      BY DEF HandedOver, AllTasks
    <2>3. QED
      BY <1>1, <1>2, <1>3, <1>4, <1>5, <2>1, <2>2 DEF MutexTypes
  <1>8. \A f \in Event : f # e /\ Owned(f) => owner[f] # owner[e] \/ owner[e] = None
    BY <1>2 DEF Owners, Owned
  <1>9. Owners'
    <2>1. \A f \in Event : owner'[f] # None => IsMutex(f)' /\ ownPrio'[f] = app.start[owner'[f]]
      BY <1>1, <1>2, <1>3 DEF Owners, Owned
    <2>2. \A f \in Event : owner'[f] = None => ownPrio'[f] = None /\ (IsMutex(f)' => waiting'[f] = {})
      <3>1. \A f \in Event : f # e => waiting'[f] = waiting[f]
        BY DEF HandedOver
      <3>2. QED
        BY <1>1, <1>2, <1>3, <3>1 DEF Owners, Owned
    <2>3. \A f, g \in Event : owner'[f] # None /\ owner'[f] = owner'[g] => f = g
      BY <1>1, <1>2 DEF Owners, Owned, Owns
    <2>4. \A f \in Event : inside'[f] \subseteq {owner'[f]}
      BY <1>1, <1>2, <1>4 DEF Owners
    <2>5. ASSUME NEW f \in Event, NEW p \in waiting'[f], owner'[f] # None PROVE tcb'[owner'[f]].prio < p
      <3>1. CASE f = e
        <4>1. w # None /\ w # owner[e] /\ owner'[f] = w
          BY <1>1, <2>5, <3>1 DEF Owns
        <4>2. QED
          BY <1>1, <2>5, <3>1, <4>1
      <3>2. CASE f # e
        <4>1. owner'[f] = owner[f] /\ owner[f] # None /\ owner[f] # owner[e] /\ owner[f] \in AppTasks
          BY <1>1, <1>8, <2>5, <3>2 DEF Owned
        <4>2. p \in waiting[f]
          BY <2>5, <3>2 DEF HandedOver
        <4>3. QED
          BY <1>1, <1>2, <4>1, <4>2 DEF Owners, Owned
      <3>3. QED
        BY <3>1, <3>2
    <2>6. QED
      BY <1>2, <2>1, <2>2, <2>3, <2>4, <2>5 DEF Owners, Owned
  <1>10. /\ \A p \in Prio : p # pip[e] => prioTbl'[p] = prioTbl[p]
         /\ prioTbl'[pip[e]] = IF IsMutex(e)' THEN Reserved ELSE None
         /\ None \notin AppTasks /\ Reserved \notin AppTasks /\ None # Reserved
         /\ pip[e] \in Prio
    <2>1. evType' = [evType EXCEPT ![e] = "unused"] => ~IsMutex(e)'
      BY Now DEF IsMutex
    <2>2. evType' = evType => IsMutex(e)'
      BY <1>2 DEF IsMutex
    <2>3. prioTbl \in [Prio -> AppTasks \cup {Idle, None, Reserved}]
      BY DEF KernelInv, Settings
    <2>4. QED
      BY <1>2, <2>1, <2>2, <2>3, AppIs, CoreAssumption DEF GivesBack, Gone, Posts, PipReserved, KernelInv, Settings
  <1>11. \A u \in AppTasks : app.start[u] # pip[e] /\ app.start[u] \in Prio /\ prioTbl'[app.start[u]] = u
    BY <1>2, <1>10, PipIs, StartIs DEF Priorities
  <1>12. \A u \in AppTasks : tcb'[u].prio # pip[e] /\ prioTbl'[tcb'[u].prio] = u
    <2> SUFFICES ASSUME NEW u \in AppTasks PROVE tcb'[u].prio # pip[e] /\ prioTbl'[tcb'[u].prio] = u
      OBVIOUS
    <2>1. CASE u = owner[e]
      BY <1>1, <1>11, <2>1
    <2>2. CASE u # owner[e]
      <3>1. tcb'[u].prio = tcb[u].prio /\ tcb[u].prio # pip[e] /\ tcb[u].prio \in Prio
        BY <1>1, <1>2, <2>2, PipIs, OwnPriority
      <3>2. prioTbl[tcb[u].prio] = u
        BY DEF KernelInv, Settings
      <3>3. QED
        BY <1>10, <3>1, <3>2
    <2>3. QED
      BY <2>1, <2>2
  <1>13. Priorities'
    <2>1. \A u \in AppTasks : \/ tcb'[u].prio = app.start[u]
                              \/ \E f \in Event : owner'[f] = u /\ tcb'[u].prio = pip[f]
      <3> SUFFICES ASSUME NEW u \in AppTasks, u # owner[e]
                   PROVE  \/ tcb[u].prio = app.start[u]
                          \/ \E f \in Event : owner'[f] = u /\ tcb[u].prio = pip[f]
        BY <1>1
      <3>1. \A f \in Event : owner[f] = u => owner'[f] = u
        BY <1>1
      <3>2. QED
        BY <1>2, <3>1 DEF Priorities
    <2>2. ASSUME NEW f \in Event, IsMutex(f)'
          PROVE  /\ \A u \in AppTasks : pip[f] < app.start[u]
                 /\ prioTbl'[pip[f]] = IF Raised(f)' THEN owner'[f] ELSE Reserved
      <3>1. IsMutex(f) /\ pip[f] \in Prio
        BY <1>2, <1>6, <2>2
      <3>2. CASE f = e
        <4>1. ~Raised(f)'
          BY <1>1, <1>2, <1>12, <3>2 DEF Raised
        <4>2. QED
          BY <1>2, <1>10, <2>2, <3>1, <3>2, <4>1 DEF Priorities
      <3>3. CASE f # e
        <4>1. pip[f] # pip[e] /\ owner'[f] = owner[f]
          BY <1>1, <1>2, <3>1, <3>3 DEF Priorities
        <4>2. owner[f] # None => owner[f] \in AppTasks /\ tcb'[owner[f]].prio = tcb[owner[f]].prio
          BY <1>1, <1>8, <3>3, <4>1 DEF Owned
        <4>3. Raised(f)' <=> Raised(f)
          BY <1>2, <4>1, <4>2 DEF Raised
        <4>4. QED
          BY <1>2, <1>10, <3>1, <4>1, <4>3 DEF Priorities
      <3>4. QED
        BY <3>2, <3>3
    <2>3. \A p \in Prio : prioTbl'[p] = Reserved => \E f \in Event : IsMutex(f)' /\ pip[f] = p
      <3> SUFFICES ASSUME NEW p \in Prio, prioTbl'[p] = Reserved PROVE \E f \in Event : IsMutex(f)' /\ pip[f] = p
        OBVIOUS
      <3>1. CASE p = pip[e]
        BY <1>10, <3>1
      <3>2. CASE p # pip[e]
        BY <1>1, <1>2, <1>10, <3>2 DEF Priorities
      <3>3. QED
        BY <3>1, <3>2
    <2>4. \A p \in Prio : prioTbl'[p] \in AppTasks =>
            p = app.start[prioTbl'[p]] \/ \E f \in Event : IsMutex(f)' /\ pip[f] = p
      <3> SUFFICES ASSUME NEW p \in Prio, prioTbl'[p] \in AppTasks
                   PROVE  p = app.start[prioTbl'[p]] \/ \E f \in Event : IsMutex(f)' /\ pip[f] = p
        OBVIOUS
      <3>1. p # pip[e] /\ prioTbl'[p] = prioTbl[p]
        BY <1>10
      <3>2. QED
        BY <1>1, <1>2, <3>1 DEF Priorities
    <2>5. \A f, g \in Event : IsMutex(f)' /\ IsMutex(g)' /\ pip[f] = pip[g] => f = g
      BY <1>2, <1>6 DEF Priorities
    <2>6. QED
      BY <1>1, <1>2, <1>11, <2>1, <2>2, <2>3, <2>4, <2>5 DEF Priorities
  <1>14. QED
    BY <1>7, <1>9, <1>12, <1>13
LEMMA HandedPending ==
  ASSUME KernelInv, MutexFrame, NEW t \in Task, NEW e \in Event, NEW w, NEW ts \in SUBSET Waiters(e),
         GivesBack(t, e, ts, w), HandedOver(e, ts)
  PROVE  \A u \in AppTasks : Pending(u)'
  <1> SUFFICES ASSUME NEW u \in AppTasks, Pends(u)' PROVE Pending(u)'
    BY DEF Pending
  <1>1. /\ w \in ts \cup {None} /\ w \in AppTasks \cup {None}
        /\ \A f \in Event : owner'[f] = IF f = e THEN w ELSE owner[f]
        /\ \A f \in Event : f # e => evType'[f] = evType[f]
        /\ None \notin AppTasks
    BY HandedOwners
  <1>2. /\ IsMutex(e) /\ Serves("mutex") /\ t \in AppTasks /\ cur = t /\ ~Pends(t)
        /\ UNCHANGED <<app, pip>>
    BY CallerReady, PipIs DEF MutexFrame, GivesBack
  <1>3. Pends(u) /\ arg' = arg /\ u # t
    BY <1>2, HandedTasks DEF Pends
  <1>4. Pending(u) /\ (arg[u] \in Event \cup Request)
    BY <1>3, NoMulti DEF KernelInv, MutexInv
  <1>5. CASE u \in ts
    <2>1. /\ arg[u] = e /\ ~Owns(u) /\ tcb'[u].stat = {} /\ tcb'[u].pend = "ok" /\ tcb'[u].prio \notin waiting'[e]
          /\ u \in Task
      BY <1>2, <1>5, WaiterIs, Now DEF HandedOver
    <2>2. Picked(u)'
      BY <1>3, <2>1 DEF Picked
    <2>3. \A f \in Event : owner'[f] = u => f = e
      BY <1>1, <2>1 DEF Owns
    <2>4. w = u \/ u \in orphans'
      <3>1. CASE w # None
        <4>1. w = HighestWaiter(e) /\ ts = {w}
          BY <3>1 DEF GivesBack
        <4>2. QED
          BY <1>5, <4>1
      <3>2. CASE w = None
        <4>1. waiting[e] # {}
          BY <1>2, <1>5, WaiterIs
        <4>2. Gone(e)
          <5>1. HighestWaiter(e) \in Waiters(e)
            BY <4>1, WaitersAre
          <5>2. HighestWaiter(e) # None
            BY <1>1, <5>1, WaitersAre
          <5>3. QED
            BY <3>2, <4>1, <5>2 DEF GivesBack
        <4>3. QED
          BY <1>2, <1>3, <2>1, <4>2 DEF Gone, Orphans
      <3>3. QED
        BY <3>1, <3>2
    <2>5. QED
      BY <1>1, <1>2, <1>3, <1>4, <2>1, <2>2, <2>3, <2>4 DEF Pending, Owns
  <1>6. CASE u \notin ts
    <2>1. tcb'[u].stat = tcb[u].stat /\ tcb'[u].pend = tcb[u].pend
      BY <1>6 DEF HandedOver
    <2>2. arg[u] \in Event => (Picked(u)' <=> Picked(u))
      BY <1>3, <1>6, <2>1 DEF HandedOver, Picked
    <2>3. Owns(u)' => /\ Owns(u) /\ arg[u] \in Event /\ owner'[arg[u]] = u /\ Picked(u)'
      <3> SUFFICES ASSUME NEW f \in Event, owner'[f] = u
                   PROVE  Owns(u) /\ arg[u] \in Event /\ owner'[arg[u]] = u /\ Picked(u)'
        BY DEF Owns
      <3>1. f # e /\ owner[f] = u
        BY <1>1, <1>6
      <3>2. Owns(u)
        BY <3>1 DEF Owns
      <3>3. arg[u] \in Event /\ owner[arg[u]] = u /\ Picked(u)
        BY <1>3, <1>4, <3>2 DEF Pending
      <3>4. arg[u] = f
        BY <3>1, <3>3, <1>1 DEF KernelInv, MutexInv, Owners, Owned
      <3>5. QED
        BY <2>2, <3>1, <3>2, <3>3, <3>4
    <2>4. ASSUME arg[u] \in Event, evType'[arg[u]] \in {"mutex", "unused"}, Picked(u)', u \notin orphans'
          PROVE  owner'[arg[u]] = u
      <3>1. orphans \subseteq orphans'
        BY DEF GivesBack, Posts, Gone, Orphans
      <3>2. CASE arg[u] # e
        BY <1>1, <1>2, <1>3, <1>4, <2>2, <2>4, <3>1, <3>2 DEF Pending
      <3>3. CASE arg[u] = e
        <4>1. ~Gone(e)
          BY <1>2, <1>3, <2>4, <3>3, Now DEF Gone, Orphans
        <4>2. Posts(t, e)
          BY <4>1 DEF GivesBack
        <4>3. owner[e] = u
          BY <1>2, <1>3, <1>4, <2>2, <2>4, <3>1, <3>3 DEF Pending, IsMutex
        <4>4. QED
          BY <1>3, <4>2, <4>3 DEF Posts
      <3>4. QED
        BY <3>2, <3>3
    <2>5. QED
      BY <1>2, <1>3, <1>4, <2>1, <2>3, <2>4 DEF Pending, Serves
  <1>7. QED
    BY <1>5, <1>6

\* The processor when a mutex has been given back.
LEMMA HandedProcessor ==
  ASSUME KernelInv, MutexFrame, NEW t \in Task, NEW e \in Event, NEW w, NEW ts \in SUBSET Waiters(e),
         GivesBack(t, e, ts, w), HandedOver(e, ts)
  PROVE  Processor'
  <1>1. /\ w \in AppTasks \cup {None} /\ None \notin AppTasks /\ Reserved \notin AppTasks
        /\ \A f \in Event : owner'[f] = IF f = e THEN w ELSE owner[f]
        /\ \A f \in Event : f # e => (IsMutex(f)' <=> IsMutex(f))
        /\ \A u \in AppTasks : tcb'[u].prio = IF u = owner[e] THEN app.start[u] ELSE tcb[u].prio
        /\ AppTasks' = AppTasks
    BY HandedOwners, AppIs DEF KernelInv, Settings
  <1>2. /\ IsMutex(e) /\ Serves("mutex") /\ t \in AppTasks /\ cur = t /\ pc[t] = "user"
        /\ tcb[t].prio \in rdy /\ prioCur \in Prio
        /\ UNCHANGED <<app, pip, cur, prioCur, lockNesting>> /\ Processor
    BY CallerReady, PipIs DEF MutexFrame, GivesBack, KernelInv, CoreTypeOK
  <1>3. /\ pc'[t] \in {"user", "yield"} /\ (pc'[t] = "user" => ts = {} /\ w = None)
    <2>1. ts = {} => w = None
      BY <1>1, HandedOwners
    <2>2. pc' = pc \/ pc' = [pc EXCEPT ![t] = "yield"]
      BY DEF GivesBack, Returns, Yields
    <2>3. pc'[t] \in {"user", "yield"} /\ (pc'[t] = "user" => ts = {})
      <3>1. CASE ts = {}
        BY <1>2, <3>1 DEF GivesBack, Returns
      <3>2. CASE ts # {}
        BY <1>2, <2>2, <3>2, Now DEF GivesBack, Yields
      <3>3. QED
        BY <3>1, <3>2
    <2>4. QED
      BY <2>1, <2>3
  <1>4. tcb'[t].prio \in rdy'
    BY <1>2 DEF HandedOver
  <1>5. /\ prioTbl'[pip[e]] \in {None, Reserved} /\ pip[e] \in Prio
        /\ \A p \in Prio : p # pip[e] => prioTbl'[p] = prioTbl[p]
    <2>1. prioTbl \in [Prio -> AppTasks \cup {Idle, None, Reserved}] /\ pip[e] \in Prio
      BY <1>2, PipIs DEF KernelInv, Settings
    <2>2. QED
      BY <2>1 DEF GivesBack, Gone, Posts, PipReserved
  <1>6. GoesOnRaised => GoesOnRaised'
    <2> SUFFICES ASSUME GoesOnRaised PROVE GoesOnRaised'
      OBVIOUS
    <2>1. prioTbl'[prioCur] \in {Reserved, None}
      BY <1>2, <1>5 DEF GoesOnRaised
    <2>2. ASSUME lockNesting = 0, pc'[t] = "user", NEW f \in Event, IsMutex(f)', pip[f] = prioCur
          PROVE  owner'[f] \in {None, t}
      <3>1. owner'[f] = IF f = e THEN None ELSE owner[f]
        BY <1>1, <1>3, <2>2
      <3>2. f # e => IsMutex(f)
        BY <1>1, <2>2
      <3>3. QED
        BY <1>2, <2>2, <3>1, <3>2 DEF GoesOnRaised
    <2>3. QED
      BY <1>1, <1>2, <1>3, <2>1, <2>2 DEF GoesOnRaised
  <1>7. CASE Raised(e) /\ owner[e] = t /\ prioCur = tcb[t].prio
    <2>1. prioCur = pip[e] /\ tcb'[t].prio # prioCur
      BY <1>1, <1>2, <1>7, PipIs DEF Raised
    <2>2. ASSUME pc'[t] = "user", NEW f \in Event, IsMutex(f)', pip[f] = prioCur
          PROVE  owner'[f] \in {None, t}
      <3>1. f = e
        BY <1>1, <1>2, <2>1, <2>2 DEF KernelInv, MutexInv, Priorities
      <3>2. QED
        BY <1>1, <1>3, <2>2, <3>1
    <2>3. GoesOnRaised'
      BY <1>1, <1>2, <1>3, <1>5, <2>1, <2>2 DEF GoesOnRaised
    <2>4. QED
      BY <1>1, <1>2, <1>3, <1>4, <2>1, <2>3 DEF Processor, Rule, Serves
  <1>8. CASE ~(Raised(e) /\ owner[e] = t) /\ prioCur = tcb[t].prio
    <2>1. tcb'[t].prio = tcb[t].prio
      BY <1>1, <1>2, <1>8, OwnerIs DEF Raised, Owned
    <2>2. ASSUME lockNesting = 0, pc'[t] = "user", Rule("posts schedule")
          PROVE  prioCur = HighRdy(rdy')
      <3>1. ts = {} /\ prioCur = HighRdy(rdy)
        BY <1>2, <1>3, <1>8, <2>2 DEF Processor
      <3>2. rdy \subseteq Prio /\ rdy # {}
        BY Now DEF KernelInv, CoreTypeOK
      <3>3. \A p \in rdy : prioCur <= p
        BY <3>1, <3>2, HighRdyIs
      <3>4. rdy' = IF Raised(e) THEN (rdy \ {pip[e]}) \cup {ownPrio[e]} ELSE rdy
        BY <3>1 DEF GivesBack, HandOver, NotSuspended
      <3>5. CASE ~Raised(e)
        BY <3>1, <3>4, <3>5
      <3>6. CASE Raised(e)
        <4>1. /\ owner[e] \in AppTasks /\ ownPrio[e] = app.start[owner[e]] /\ pip[e] < app.start[owner[e]]
              /\ pip[e] \in rdy /\ pip[e] \in Prio /\ ownPrio[e] \in Prio
          BY <1>2, <3>6, OwnerIs, PipIs, StartIs DEF Raised, Owned, GivesBack
        <4>2. Prio \subseteq Nat
          BY StartIs
        <4>3. prioCur <= ownPrio[e]
          <5>1. prioCur <= pip[e] /\ pip[e] < ownPrio[e] /\ pip[e] \in Nat /\ ownPrio[e] \in Nat /\ prioCur \in Nat
            BY <1>2, <3>3, <4>1, <4>2
          <5>2. QED
            BY <5>1
        <4>4. prioCur \in rdy'
          <5>1. prioCur # pip[e]
            BY <1>2, <1>8, <3>6, PipIs
          <5>2. QED
            BY <1>2, <1>8, <3>4, <3>6, <5>1
        <4>5. rdy' \in SUBSET Prio /\ \A p \in rdy' : prioCur <= p
          BY <3>2, <3>3, <3>4, <4>1, <4>3
        <4>6. QED
          BY <4>4, <4>5, HighRdyOf
      <3>7. QED
        BY <3>5, <3>6
    <2>3. QED
      BY <1>1, <1>2, <1>3, <1>4, <1>8, <2>1, <2>2 DEF Processor, Rule, Serves
  <1>9. CASE prioCur # tcb[t].prio
    <2>1. GoesOnRaised
      BY <1>2, <1>9 DEF Processor
    <2>2. prioCur # tcb'[t].prio
      <3>1. prioTbl[app.start[t]] = t /\ prioTbl[prioCur] \in {None, Reserved} /\ t \notin {None, Reserved}
        BY <1>1, <1>2, <2>1 DEF GoesOnRaised, KernelInv, MutexInv, Priorities
      <3>2. QED
        BY <1>1, <1>2, <1>9, <3>1
    <2>3. QED
      BY <1>1, <1>2, <1>3, <1>4, <1>6, <2>1, <2>2 DEF Processor, Rule, Serves
  <1>10. QED
    BY <1>7, <1>8, <1>9

\* A mutex given back, by a post or by its deletion.
LEMMA ReturnMutex ==
  ASSUME KernelInv, MutexFrame, NEW t \in Task, NEW e \in Event, NEW w, NEW ts \in SUBSET Waiters(e),
         GivesBack(t, e, ts, w)
  PROVE  KernelInv' /\ Answers(e, ts, "ok")
  <1>1. IsMutex(e) /\ HandOver(e, ts) /\ (Raised(e) => tcb[owner[e]].prio \in rdy)
    BY DEF GivesBack
  <1>2. HandedOver(e, ts)
    BY <1>1, HandOverIs
  <1>3. MutexTypes' /\ Owners' /\ Priorities' /\ \A u \in AppTasks : prioTbl'[tcb'[u].prio] = u
    BY <1>2, HandedMutexes
  <1>4. MutexInv'
    <2>1. AppTasks' = AppTasks
      BY DEF MutexFrame, AppTasks
    <2>2. QED
      BY <1>2, <1>3, <2>1, HandedPending DEF MutexInv
  <1>5. /\ arg' = arg
        /\ \A u \in AppTasks : TaskInv(u)'
        /\ Answers(e, ts, "ok")
        /\ pc' \in [AllTasks -> PC]
        /\ \A u \in AppTasks : pc'[u] \in {"user", "yield", "block", "wake"}
        /\ \A u \in AllTasks \ AppTasks : pc'[u] = pc[u]
    BY <1>2, HandedTasks
  <1>6. evType' \in [Event -> Kinds \cup {"mutex", "unused"}]
    BY Now DEF GivesBack, Gone, Posts
  <1>7. \A f \in Event : evType'[f] = "unused" => waiting'[f] = {}
    <2> SUFFICES ASSUME NEW f \in Event, evType'[f] = "unused" PROVE waiting'[f] = {}
      OBVIOUS
    <2>1. CASE f = e
      <3>1. w = None
        BY <1>2, <2>1, HandedOwners DEF IsMutex
      <3>2. QED
        BY <1>2, <2>1, <3>1, HandedOwners
    <2>2. CASE f # e
      <3>1. evType'[f] = evType[f] /\ waiting'[f] = waiting[f]
        <4>1. evType'[f] = evType[f]
          BY <1>2, <2>2, HandedOwners
        <4>2. QED
          BY <1>2, <2>2, <4>1 DEF HandedOver
      <3>2. QED
        BY <3>1, Now
    <2>3. QED
      BY <2>1, <2>2
  <1>8. Placed
    <2>1. DOMAIN arg' = AllTasks
      BY <1>5, Now
    <2>2. QED
      BY <1>2, <1>3, <1>5, <1>6, <1>7, <2>1 DEF Placed, HandedOver
  <1>9. Processor'
    BY <1>2, HandedProcessor
  <1>10. \E x \in AppTasks \cup {None, Reserved} : prioTbl' = [prioTbl EXCEPT ![pip[e]] = x]
    <2>1. \/ prioTbl' = [prioTbl EXCEPT ![pip[e]] = Reserved]
          \/ prioTbl' = [prioTbl EXCEPT ![pip[e]] = None]
      BY DEF GivesBack, Gone, Posts, PipReserved
    <2>2. QED
      BY <2>1
  <1>11. KernelInv'
    <2>1. PICK x \in AppTasks \cup {None, Reserved} : prioTbl' = [prioTbl EXCEPT ![pip[e]] = x]
      BY <1>10
    <2>2. \E f \in Event, y \in AppTasks \cup {None, Reserved} :
            \/ IsMutex(f) /\ prioTbl' = [prioTbl EXCEPT ![pip[f]] = y]
            \/ prioTbl[pip'[f]] = None /\ pip'[f] \in Prio /\ prioTbl' = [prioTbl EXCEPT ![pip'[f]] = y]
            \/ prioTbl' = prioTbl
      BY <1>1, <2>1
    <2>3. QED
      BY <1>4, <1>8, <1>9, <2>2, MutexNext
  <1>12. QED
    BY <1>5, <1>11

\* What OSMutexPend does to the TCBs and the lists when t has to wait.
PendedOn(t, e) ==
  /\ tcb' \in [AllTasks -> TCB] /\ \A u \in AllTasks : tcb'[u].multi = {}
  /\ \A u \in AllTasks \ AppTasks : tcb'[u] = tcb[u]
  /\ \A u \in AppTasks : tcb'[u].prio = IF MustRaise(t, e) /\ u = owner[e] THEN pip[e] ELSE tcb[u].prio
  /\ \A u \in AppTasks \ {t} : /\ tcb'[u].stat = tcb[u].stat /\ tcb'[u].pend = tcb[u].pend
                               /\ tcb'[u].dly = tcb[u].dly /\ tcb'[u].eptr = tcb[u].eptr
  /\ tcb'[t].stat = {"mutex"} /\ tcb'[t].pend = "ok" /\ tcb'[t].eptr = e
  /\ \A u \in AppTasks : tcb'[u].prio \in rdy' <=> tcb[u].prio \in rdy /\ u # t
  /\ rdy' \subseteq {tcb'[u].prio : u \in AppTasks} \cup {LowestPrio} /\ LowestPrio \in rdy'
  /\ waiting' \in [Event -> SUBSET Prio]
  /\ \A f \in Event : waiting'[f] = IF f = e THEN waiting[e] \cup {app.start[t]} ELSE waiting[f]
  /\ \A f \in Event : waiting'[f] \subseteq {tcb'[u].prio : u \in AppTasks}
  /\ \A u \in AppTasks, f \in Event :
       tcb'[u].prio \in waiting'[f] <=> tcb[u].prio \in waiting[f] \/ (f = e /\ u = t)

\* The owner that a pend finds, and when it is raised.
LEMMA RaisedOwner ==
  ASSUME KernelInv, NEW t \in Task, NEW e \in Event, ~Owns(t), Runs(t), IsMutex(e), ownPrio[e] # None
  PROVE  /\ t \in AppTasks /\ cur = t /\ pc[t] = "user" /\ ~Pends(t) /\ tcb[t].prio \in rdy
         /\ tcb[t].prio = app.start[t] /\ tcb[t].stat = {} /\ tcb[t].prio \in Prio
         /\ \A f \in Event : tcb[t].prio \notin waiting[f]
         /\ owner[e] \in AppTasks /\ owner[e] # t /\ Owned(e) /\ ownPrio[e] = app.start[owner[e]]
         /\ app.start[owner[e]] \in Prio /\ pip[e] \in Prio /\ pip[e] # LowestPrio /\ pip[e] < app.start[t]
         /\ MustRaise(t, e) => /\ tcb[owner[e]].prio = app.start[owner[e]] /\ ~Raised(e)
                               /\ pip[e] \notin rdy /\ \A f \in Event : pip[e] \notin waiting[f]
         /\ ~MustRaise(t, e) => \/ tcb[owner[e]].prio = pip[e]
                                \/ tcb[owner[e]].prio < app.start[t]
  <1> DEFINE o == owner[e]
  <1>1. /\ t \in AppTasks /\ cur = t /\ pc[t] = "user" /\ ~Pends(t) /\ tcb[t].prio \in rdy
        /\ tcb[t].stat = {} /\ \A f \in Event : tcb[t].prio \notin waiting[f]
    BY CallerReady, PipIs DEF Unheld, InNoPend
  <1>2. tcb[t].prio = app.start[t] /\ app.start[t] \in Prio
    BY <1>1, UnownedIs, StartIs
  <1>3. Owned(e)
    BY DEF KernelInv, MutexInv, Owners
  <1>4. /\ o \in AppTasks /\ o # t /\ ownPrio[e] = app.start[o] /\ app.start[o] \in Prio
        /\ tcb[o].prio \in {app.start[o], pip[e]}
    BY <1>3, OwnerIs, StartIs DEF Owns
  <1>5. /\ pip[e] \in Prio /\ pip[e] # LowestPrio /\ pip[e] < app.start[t]
        /\ ~Raised(e) => pip[e] \notin rdy /\ \A f \in Event : pip[e] \notin waiting[f]
    BY <1>1, PipIs
  <1>6. app.start[o] # app.start[t] /\ Prio \subseteq Nat
    BY <1>1, <1>4, StartIs
  <1>7. app.start[o] \in Nat /\ app.start[t] \in Nat /\ pip[e] \in Nat
    BY <1>2, <1>4, <1>5, <1>6
  <1>8. ASSUME MustRaise(t, e) PROVE tcb[o].prio = app.start[o] /\ ~Raised(e)
    <2>1. tcb[o].prio > pip[e]
      BY <1>8 DEF MustRaise
    <2>2. tcb[o].prio # pip[e]
      BY <1>7, <2>1
    <2>3. QED
      BY <1>4, <2>2 DEF Raised
  <1>9. ASSUME ~MustRaise(t, e), tcb[o].prio # pip[e] PROVE tcb[o].prio < app.start[t]
    <2>1. tcb[o].prio = app.start[o] /\ pip[e] < app.start[o]
      BY <1>4, <1>9, PipIs
    <2>2. tcb[o].prio > pip[e]
      BY <1>7, <2>1
    <2>3. ~(app.start[o] > app.start[t])
      BY <1>2, <1>4, <1>9, <2>2 DEF MustRaise
    <2>4. QED
      BY <1>6, <1>7, <2>1, <2>3
  <1>10. QED
    BY <1>1, <1>2, <1>3, <1>4, <1>5, <1>8, <1>9

LEMMA PendOnIs ==
  ASSUME KernelInv, MutexFrame, NEW t \in Task, NEW e \in Event, NEW ticks \in Nat, ~Owns(t), OSMutexPend(t, e, ticks)
  PROVE  PendedOn(t, e)
  <1> DEFINE o == owner[e]
             r == MustRaise(t, e)
             moved(u) == r /\ u = o
  <1>1. /\ Runs(t) /\ IsMutex(e) /\ ownPrio[e] # None
    BY DEF OSMutexPend
  <1>2. /\ t \in AppTasks /\ tcb[t].prio = app.start[t] /\ tcb[t].stat = {} /\ tcb[t].prio \in Prio
        /\ \A f \in Event : tcb[t].prio \notin waiting[f]
        /\ o \in AppTasks /\ o # t /\ app.start[o] \in Prio /\ pip[e] \in Prio /\ pip[e] # LowestPrio
        /\ r => tcb[o].prio = app.start[o] /\ pip[e] \notin rdy /\ \A f \in Event : pip[e] \notin waiting[f]
        /\ Owned(e)
    BY <1>1, RaisedOwner
  <1>3. /\ AppTasks \subseteq AllTasks /\ tcb \in [AllTasks -> TCB] /\ waiting \in [Event -> SUBSET Prio]
        /\ \A u \in AllTasks : tcb[u].multi = {}
    BY Now
  <1>4. tcb' = [tcb EXCEPT ![o].prio = IF r THEN pip[e] ELSE @,
                           ![t].stat = @ \cup {"mutex"}, ![t].pend = "ok", ![t].dly = ticks, ![t].eptr = e]
    BY DEF OSMutexPend
  <1>5. /\ tcb'[t] = [tcb[t] EXCEPT !.stat = @ \cup {"mutex"}, !.pend = "ok", !.dly = ticks, !.eptr = e]
        /\ tcb'[o] = [tcb[o] EXCEPT !.prio = IF r THEN pip[e] ELSE @]
        /\ \A u \in AllTasks \ {t, o} : tcb'[u] = tcb[u]
        /\ DOMAIN tcb' = AllTasks /\ tcb' = [u \in AllTasks |-> tcb'[u]]
    <2>1. t \in AllTasks /\ o \in AllTasks /\ o # t
      BY <1>2, <1>3
    <2>2. DOMAIN tcb' = AllTasks /\ tcb' = [u \in AllTasks |-> tcb'[u]]
      BY <1>3, <1>4
    <2>3. \A u \in AllTasks \ {t, o} : tcb'[u] = tcb[u]
      BY <1>3, <1>4
    <2>4. tcb'[t] = [tcb[t] EXCEPT !.stat = @ \cup {"mutex"}, !.pend = "ok", !.dly = ticks, !.eptr = e]
      BY <1>3, <1>4, <2>1
    <2>5. tcb'[o] = [tcb[o] EXCEPT !.prio = IF r THEN pip[e] ELSE @]
      BY <1>3, <1>4, <2>1
    <2>6. QED
      BY <2>2, <2>3, <2>4, <2>5
  <1>6. /\ tcb'[t] \in TCB /\ tcb'[t].prio = tcb[t].prio /\ tcb'[t].multi = {} /\ tcb'[t].stat = {"mutex"}
        /\ tcb'[t].pend = "ok" /\ tcb'[t].eptr = e
    <2>1. tcb[t] \in TCB /\ tcb[t].multi = {} /\ tcb[t].stat = {}
      BY <1>2, <1>3
    <2>2. \A c \in TCB : [c EXCEPT !.stat = @ \cup {"mutex"}, !.pend = "ok", !.dly = ticks, !.eptr = e] \in TCB
      BY DEF TCB, Stat, PendAny
    <2>3. tcb'[t] \in TCB
      BY <1>5, <2>1, <2>2
    <2>4. /\ tcb'[t].prio = tcb[t].prio /\ tcb'[t].multi = tcb[t].multi
          /\ tcb'[t].stat = tcb[t].stat \cup {"mutex"} /\ tcb'[t].pend = "ok" /\ tcb'[t].eptr = e
      BY <1>5, <2>1 DEF TCB
    <2>5. QED
      BY <2>1, <2>3, <2>4
  <1>7. /\ tcb'[o] \in TCB /\ tcb'[o].prio = (IF r THEN pip[e] ELSE tcb[o].prio) /\ tcb'[o].multi = {}
        /\ tcb'[o].stat = tcb[o].stat /\ tcb'[o].pend = tcb[o].pend
        /\ tcb'[o].dly = tcb[o].dly /\ tcb'[o].eptr = tcb[o].eptr
    <2>1. tcb[o] \in TCB /\ tcb[o].multi = {}
      BY <1>2, <1>3
    <2>2. PICK p \in Prio : p = IF r THEN pip[e] ELSE tcb[o].prio
      BY <1>2, <2>1 DEF TCB
    <2>3. tcb'[o] = [tcb[o] EXCEPT !.prio = p]
      BY <1>5, <2>1, <2>2
    <2>4. \A c \in TCB : [c EXCEPT !.prio = p] \in TCB
      BY <2>2 DEF TCB
    <2>5. tcb'[o] \in TCB
      BY <2>1, <2>3, <2>4
    <2>6. /\ tcb'[o].prio = p /\ tcb'[o].multi = tcb[o].multi
          /\ tcb'[o].stat = tcb[o].stat /\ tcb'[o].pend = tcb[o].pend
          /\ tcb'[o].dly = tcb[o].dly /\ tcb'[o].eptr = tcb[o].eptr
      BY <2>1, <2>3 DEF TCB
    <2>7. QED
      BY <2>1, <2>2, <2>5, <2>6
  <1>8. tcb' \in [AllTasks -> TCB] /\ \A u \in AllTasks : tcb'[u].multi = {}
    <2>1. \A u \in AllTasks : tcb'[u] \in TCB /\ tcb'[u].multi = {}
      <3> SUFFICES ASSUME NEW u \in AllTasks PROVE tcb'[u] \in TCB /\ tcb'[u].multi = {}
        OBVIOUS
      <3>1. CASE u = t
        BY <1>6, <3>1
      <3>2. CASE u = o
        BY <1>7, <3>2
      <3>3. CASE u \notin {t, o}
        BY <1>3, <1>5, <3>3
      <3>4. QED
        BY <3>1, <3>2, <3>3
    <2>2. QED
      BY <1>5, <2>1
  <1>9. \A u \in AppTasks : tcb'[u].prio = IF moved(u) THEN pip[e] ELSE tcb[u].prio
    BY <1>2, <1>3, <1>5, <1>6, <1>7
  <1>10. \A u \in AllTasks \ AppTasks : tcb'[u] = tcb[u]
    BY <1>2, <1>5
  <1>11. \A u \in AppTasks \ {t} : /\ tcb'[u].stat = tcb[u].stat /\ tcb'[u].pend = tcb[u].pend
                                   /\ tcb'[u].dly = tcb[u].dly /\ tcb'[u].eptr = tcb[u].eptr
    BY <1>3, <1>5, <1>7
  <1>12. \A u, v \in AppTasks : (tcb[u].prio = tcb[v].prio => u = v) /\ (tcb[u].prio = app.start[v] => u = v)
    BY <1>1, OwnPriority, PipIs
  <1>13. rdy' = (IF r THEN Moved(rdy, tcb[o].prio, pip[e]) ELSE rdy) \ {tcb[t].prio}
    BY DEF OSMutexPend
  <1>14. pip[e] # tcb[t].prio
    BY <1>1, <1>2, PipIs
  <1>15. \A u \in AppTasks : tcb'[u].prio \in rdy' <=> tcb[u].prio \in rdy /\ u # t
    <2> SUFFICES ASSUME NEW u \in AppTasks
                 PROVE  tcb'[u].prio \in rdy' <=> tcb[u].prio \in rdy /\ u # t
      OBVIOUS
    <2>1. CASE moved(u)
      <3>1. pip[e] \in rdy' <=> tcb[o].prio \in rdy
        BY <1>2, <1>13, <1>14, <2>1 DEF Moved
      <3>2. QED
        BY <1>2, <1>9, <2>1, <3>1
    <2>2. CASE ~moved(u)
      <3>1. tcb'[u].prio = tcb[u].prio /\ (tcb[u].prio = tcb[t].prio <=> u = t)
        BY <1>2, <1>9, <1>12, <2>2
      <3>2. r => tcb[u].prio # tcb[o].prio
        BY <1>2, <1>12, <2>2
      <3>3. r => tcb[u].prio # pip[e]
        BY <1>1, <1>2, <2>2, PipIs
      <3>4. QED
        BY <1>13, <3>1, <3>2, <3>3 DEF Moved
    <2>3. QED
      BY <2>1, <2>2
  <1>16. rdy' \subseteq {tcb'[u].prio : u \in AppTasks} \cup {LowestPrio} /\ LowestPrio \in rdy'
    <2>1. tcb[o].prio # LowestPrio /\ tcb[t].prio # LowestPrio
      BY <1>2, OwnPriority
    <2>2. LowestPrio \in rdy'
      BY <1>13, <2>1, Now DEF Moved
    <2>3. ASSUME NEW p \in rdy', p # LowestPrio PROVE \E u \in AppTasks : tcb'[u].prio = p
      <3>1. CASE r /\ p = pip[e]
        BY <1>2, <1>9, <3>1
      <3>2. CASE ~(r /\ p = pip[e])
        <4>1. p \in rdy /\ (r => p # tcb[o].prio)
          BY <1>13, <2>3, <3>2 DEF Moved
        <4>2. PICK u \in AppTasks : tcb[u].prio = p
          BY <2>3, <4>1, Now
        <4>3. QED
          BY <1>9, <4>1, <4>2
      <3>3. QED
        BY <3>1, <3>2
    <2>4. QED
      BY <2>2, <2>3
  <1>17. /\ waiting' \in [Event -> SUBSET Prio]
         /\ \A f \in Event : waiting'[f] = IF f = e THEN waiting[e] \cup {app.start[t]} ELSE waiting[f]
    <2>1. tcb[o].prio \notin rdy => \A f \in Event : f # tcb[o].eptr
      BY <1>2, OwnerIs, CoreAssumption
    <2>2. waiting' = [[f \in Event |->
                         IF r /\ ~(tcb[o].prio \in rdy) /\ f = tcb[o].eptr
                         THEN (waiting[f] \ {tcb[o].prio}) \cup {pip[e]}
                         ELSE waiting[f]] EXCEPT ![e] = @ \cup {tcb[t].prio}]
      BY DEF OSMutexPend
    <2>3. waiting' = [waiting EXCEPT ![e] = @ \cup {tcb[t].prio}]
      BY <1>3, <2>1, <2>2
    <2>4. QED
      BY <1>2, <1>3, <2>3
  <1>18. \A u \in AppTasks, f \in Event :
           tcb'[u].prio \in waiting'[f] <=> tcb[u].prio \in waiting[f] \/ (f = e /\ u = t)
    <2> SUFFICES ASSUME NEW u \in AppTasks, NEW f \in Event
                 PROVE  tcb'[u].prio \in waiting'[f] <=> tcb[u].prio \in waiting[f] \/ (f = e /\ u = t)
      OBVIOUS
    <2>1. CASE moved(u)
      <3>1. tcb'[u].prio = pip[e] /\ pip[e] \notin waiting[f] /\ tcb[u].prio \notin waiting[f] /\ u # t
        BY <1>2, <1>9, <2>1, OwnerIs
      <3>2. QED
        BY <1>2, <1>14, <1>17, <3>1
    <2>2. CASE ~moved(u)
      <3>1. tcb'[u].prio = tcb[u].prio /\ (tcb[u].prio = app.start[t] <=> u = t)
        BY <1>2, <1>9, <1>12, <2>2
      <3>2. QED
        BY <1>17, <3>1
    <2>3. QED
      BY <2>1, <2>2
  <1>19. \A f \in Event : waiting'[f] \subseteq {tcb'[u].prio : u \in AppTasks}
    <2> SUFFICES ASSUME NEW f \in Event, NEW p \in waiting'[f] PROVE \E u \in AppTasks : tcb'[u].prio = p
      OBVIOUS
    <2>1. CASE p = app.start[t]
      BY <1>2, <1>9, <2>1
    <2>2. CASE p # app.start[t]
      <3>1. p \in waiting[f]
        BY <1>17, <2>2
      <3>2. PICK u \in AppTasks : tcb[u].prio = p
        BY <3>1, Now
      <3>3. ~moved(u)
        BY <1>2, <3>1, <3>2, OwnerIs
      <3>4. QED
        BY <1>9, <3>2, <3>3
    <2>3. QED
      BY <2>1, <2>2
  <1>20. QED
    BY <1>6, <1>8, <1>9, <1>10, <1>11, <1>15, <1>16, <1>17, <1>18, <1>19 DEF PendedOn
LEMMA PendMutexes ==
  ASSUME KernelInv, MutexFrame, NEW t \in Task, NEW e \in Event, NEW ticks \in Nat, ~Owns(t), OSMutexPend(t, e, ticks),
         PendedOn(t, e), UNCHANGED <<inside, orphans>>
  PROVE  MutexInv' /\ \A u \in AppTasks : prioTbl'[tcb'[u].prio] = u
  <1> DEFINE o == owner[e]
             r == MustRaise(t, e)
  <1>1. /\ Runs(t) /\ IsMutex(e) /\ ownPrio[e] # None
        /\ UNCHANGED <<app, evType, pip, owner, ownPrio>> /\ AppTasks' = AppTasks
        /\ MutexTypes /\ Owners /\ Priorities
    BY DEF OSMutexPend, mutexVars, MutexFrame, AppTasks, KernelInv, MutexInv
  <1>2. /\ t \in AppTasks /\ cur = t /\ pc[t] = "user" /\ ~Pends(t) /\ tcb[t].prio = app.start[t]
        /\ o \in AppTasks /\ o # t /\ Owned(e) /\ pip[e] \in Prio /\ pip[e] < app.start[t]
        /\ r => tcb[o].prio = app.start[o] /\ ~Raised(e)
        /\ ~r => \/ tcb[o].prio = pip[e]
                 \/ tcb[o].prio < app.start[t]
    BY <1>1, RaisedOwner
  <1>3. \A f \in Event : /\ IsMutex(f)' <=> IsMutex(f)
                         /\ Owned(f)' <=> Owned(f)
    BY <1>1 DEF IsMutex, Owned
  <1>4. MutexTypes'
    <2>1. \A u \in AllTasks' : tcb'[u].multi = {}
      BY DEF PendedOn, AllTasks
    <2>2. \A f \in Event : IsMutex(f)' => Serves("mutex")'
      BY <1>1, <1>3 DEF MutexTypes, Serves
    <2>3. QED
      BY <1>1, <2>1, <2>2 DEF MutexTypes
  <1>5. \A f \in Event : f # e /\ Owned(f) => owner[f] # o /\ tcb'[owner[f]].prio = tcb[owner[f]].prio
    BY <1>1, <1>2 DEF Owners, Owned, PendedOn, MutexTypes
  <1>6. Owners'
    <2>1. \A f \in Event : ~Owned(f) /\ IsMutex(f) => waiting'[f] = {}
      BY <1>1, <1>2 DEF PendedOn, Owners
    <2>2. ASSUME NEW f \in Event, NEW p \in waiting'[f], Owned(f) PROVE tcb'[owner[f]].prio < p
      <3>1. CASE f # e
        BY <1>1, <1>5, <2>2, <3>1 DEF Owners, PendedOn
      <3>2. CASE f = e /\ p \in waiting[e]
        <4>1. PICK u \in AppTasks : tcb[u].prio = p
          BY <3>2, Now
        <4>2. p = app.start[u]
          <5>1. u \in Waiters(e)
            BY <3>2, <4>1, WaitersAre
          <5>2. QED
            BY <1>1, <4>1, <5>1, WaiterIs
        <4>3. pip[e] < p /\ tcb[o].prio < p
          BY <1>1, <1>2, <3>2, <4>2 DEF Owners, Priorities
        <4>4. QED
          BY <1>2, <3>2, <4>3 DEF PendedOn
      <3>3. CASE f = e /\ p = app.start[t]
        BY <1>2, <3>3 DEF PendedOn
      <3>4. QED
        BY <2>2, <3>1, <3>2, <3>3 DEF PendedOn
    <2>3. QED
      BY <1>1, <1>3, <2>1, <2>2 DEF Owners
  <1>7. \A f \in Event : Raised(f)' <=> Raised(f) \/ (f = e /\ r)
    <2> SUFFICES ASSUME NEW f \in Event PROVE Raised(f)' <=> Raised(f) \/ (f = e /\ r)
      OBVIOUS
    <2>1. CASE f = e
      BY <1>1, <1>2, <2>1 DEF Raised, PendedOn, Owned
    <2>2. CASE f # e
      BY <1>1, <1>5, <2>2 DEF Raised, Owned
    <2>3. QED
      BY <2>1, <2>2
  <1>8. /\ \A p \in Prio : p # pip[e] => prioTbl'[p] = prioTbl[p]
        /\ prioTbl'[pip[e]] = IF r THEN o ELSE prioTbl[pip[e]]
        /\ Reserved \notin AppTasks
    <2>1. prioTbl \in [Prio -> AppTasks \cup {Idle, None, Reserved}]
      BY DEF KernelInv, Settings
    <2>2. prioTbl' = IF r THEN [prioTbl EXCEPT ![pip[e]] = o] ELSE prioTbl
      BY DEF OSMutexPend
    <2>3. QED
      BY <2>1, <2>2, <1>2, AppIs DEF KernelInv, Settings
  <1>9. \A u \in AppTasks : app.start[u] # pip[e] /\ app.start[u] \in Prio /\ prioTbl'[app.start[u]] = u
    BY <1>1, <1>8, PipIs, StartIs DEF Priorities
  <1>10. \A u \in AppTasks : prioTbl'[tcb'[u].prio] = u
    <2> SUFFICES ASSUME NEW u \in AppTasks PROVE prioTbl'[tcb'[u].prio] = u
      OBVIOUS
    <2>1. CASE r /\ u = o
      BY <1>2, <1>8, <2>1 DEF PendedOn
    <2>2. CASE ~(r /\ u = o)
      <3>1. tcb'[u].prio = tcb[u].prio /\ tcb[u].prio \in Prio /\ prioTbl[tcb[u].prio] = u
        BY <2>2, OwnPriority DEF PendedOn, KernelInv, Settings
      <3>2. r => tcb[u].prio # pip[e]
        BY <1>1, <2>2, PipIs
      <3>3. QED
        BY <1>8, <3>1, <3>2
    <2>3. QED
      BY <2>1, <2>2
  <1>11. Priorities'
    <2>1. \A u \in AppTasks : \/ tcb'[u].prio = app.start[u]
                              \/ \E f \in Event : owner[f] = u /\ tcb'[u].prio = pip[f]
      BY <1>1 DEF PendedOn, Priorities
    <2>2. ASSUME NEW f \in Event, IsMutex(f)
          PROVE  /\ \A u \in AppTasks : pip[f] < app.start[u]
                 /\ prioTbl'[pip[f]] = IF Raised(f)' THEN owner[f] ELSE Reserved
      <3>1. CASE f = e
        BY <1>1, <1>2, <1>7, <1>8, <3>1 DEF Priorities
      <3>2. CASE f # e
        <4>1. pip[f] # pip[e] /\ pip[f] \in Prio
          BY <1>1, <2>2, <3>2 DEF Priorities, MutexTypes
        <4>2. QED
          BY <1>1, <1>7, <1>8, <2>2, <3>2, <4>1 DEF Priorities
      <3>3. QED
        BY <3>1, <3>2
    <2>3. \A p \in Prio : prioTbl'[p] = Reserved => \E f \in Event : IsMutex(f) /\ pip[f] = p
      <3> SUFFICES ASSUME NEW p \in Prio, prioTbl'[p] = Reserved PROVE \E f \in Event : IsMutex(f) /\ pip[f] = p
        OBVIOUS
      <3>1. CASE p = pip[e]
        BY <1>1, <3>1
      <3>2. CASE p # pip[e]
        BY <1>1, <1>8, <3>2 DEF Priorities
      <3>3. QED
        BY <3>1, <3>2
    <2>4. \A p \in Prio : prioTbl'[p] \in AppTasks =>
            p = app.start[prioTbl'[p]] \/ \E f \in Event : IsMutex(f) /\ pip[f] = p
      <3> SUFFICES ASSUME NEW p \in Prio, prioTbl'[p] \in AppTasks
                   PROVE  p = app.start[prioTbl'[p]] \/ \E f \in Event : IsMutex(f) /\ pip[f] = p
        OBVIOUS
      <3>1. CASE p = pip[e]
        BY <1>1, <3>1
      <3>2. CASE p # pip[e]
        BY <1>1, <1>8, <3>2 DEF Priorities
      <3>3. QED
        BY <3>1, <3>2
    <2>5. \A f, g \in Event : IsMutex(f) /\ IsMutex(g) /\ pip[f] = pip[g] => f = g
      BY <1>1 DEF Priorities
    <2>6. QED
      BY <1>1, <1>3, <1>9, <2>1, <2>2, <2>3, <2>4, <2>5 DEF Priorities
  <1>12. \A u \in AppTasks : Pending(u)'
    <2> SUFFICES ASSUME NEW u \in AppTasks, Pends(u)' PROVE Pending(u)'
      BY DEF Pending
    <2>1. arg' = [arg EXCEPT ![t] = e] /\ pc' = [pc EXCEPT ![t] = "block"]
      BY DEF OSMutexPend
    <2>2. CASE u = t
      <3>1. arg'[t] = e /\ ~Picked(t)' /\ ~Owns(t)' /\ "suspend" \notin tcb'[t].stat
        BY <1>1, <1>2, <2>1, Now DEF PendedOn, Picked, Owns
      <3>2. QED
        BY <2>2, <3>1 DEF Pending
    <2>3. CASE u # t
      <3>1. arg'[u] = arg[u] /\ Pends(u) /\ (arg[u] \in Event \cup Request)
        <4>1. arg'[u] = arg[u] /\ pc'[u] = pc[u]
          BY <1>2, <2>1, <2>3, Now
        <4>2. QED
          BY <4>1, NoMulti DEF Pends
      <3>2. Pending(u) /\ tcb'[u].stat = tcb[u].stat
        BY <2>3 DEF KernelInv, MutexInv, PendedOn
      <3>3. arg[u] \in Event => (Picked(u)' <=> Picked(u))
        BY <2>3, <3>1 DEF PendedOn, Picked
      <3>4. (Owns(u)' <=> Owns(u)) /\ (Serves("mutex")' <=> Serves("mutex"))
        BY <1>1 DEF Owns, Serves
      <3>5. QED
        BY <1>1, <3>1, <3>2, <3>3, <3>4 DEF Pending
    <2>4. QED
      BY <2>2, <2>3
  <1>13. QED
    BY <1>1, <1>4, <1>6, <1>10, <1>11, <1>12 DEF MutexInv

LEMMA PendMutex ==
  ASSUME KernelInv, MutexFrame, NEW t \in Task, NEW e \in Event, NEW ticks \in Nat, ~Owns(t), OSMutexPend(t, e, ticks),
         UNCHANGED <<inside, orphans>>
  PROVE  KernelInv' /\ AllGo
  <1>1. PendedOn(t, e)
    BY PendOnIs
  <1>2. MutexInv' /\ \A u \in AppTasks : prioTbl'[tcb'[u].prio] = u
    BY <1>1, PendMutexes
  <1>3. /\ Runs(t) /\ IsMutex(e) /\ ownPrio[e] # None /\ lockNesting = 0
        /\ pc' = [pc EXCEPT ![t] = "block"] /\ arg' = [arg EXCEPT ![t] = e]
        /\ UNCHANGED <<app, evType, cur, prioCur, lockNesting, inUse, nodes>> /\ AppTasks' = AppTasks
        /\ UNCHANGED <<pip, owner>>
        /\ prioTbl' = IF MustRaise(t, e) THEN [prioTbl EXCEPT ![pip[e]] = owner[e]] ELSE prioTbl
    BY DEF OSMutexPend, MutexFrame, AppTasks, mutexVars
  <1>4. /\ t \in AppTasks /\ cur = t /\ pc[t] = "user" /\ ~Pends(t) /\ tcb[t].prio = app.start[t]
        /\ owner[e] \in AppTasks /\ owner[e] # t /\ pip[e] \in Prio /\ evType[e] = "mutex"
        /\ \A f \in Event : tcb[t].prio \notin waiting[f]
    BY <1>3, RaisedOwner DEF IsMutex
  <1>5. /\ pc' \in [AllTasks -> PC] /\ pc'[t] = "block"
        /\ \A u \in AppTasks : pc'[u] \in {"user", "yield", "block", "wake"}
        /\ \A u \in AllTasks : u # t => pc'[u] = pc[u]
        /\ \A u \in AllTasks \ AppTasks : pc'[u] = pc[u]
    BY <1>3, <1>4, RunnerGoes
  <1>6. DOMAIN arg' = AllTasks /\ arg'[t] = e /\ \A u \in AppTasks \ {t} : arg'[u] = arg[u]
    BY <1>3, <1>4, Now
  <1>7. Goes(t)
    <2>1. InNoPend(t)
      BY <1>4, Now DEF TaskInv, Pends
    <2>2. /\ tcb'[t].stat = {"mutex"} /\ tcb'[t].pend = "ok" /\ tcb'[t].eptr = e
          /\ tcb'[t].prio \notin rdy' /\ \A f \in Event : tcb'[t].prio \in waiting'[f] <=> f = e
      BY <1>1, <1>4 DEF PendedOn
    <2>3. PendsFor(tcb[t], "mutex")'
      BY <2>2 DEF PendsFor
    <2>4. OnEvent(t)'
      BY <1>3, <1>4, <1>6, <2>1, <2>2, <2>3 DEF OnEvent, InNoPend
    <2>5. ~Unheld(tcb[t])'
      BY <2>2 DEF Unheld
    <2>6. TaskInv(t)'
      BY <1>5, <2>2, <2>4, <2>5 DEF TaskInv, Pends
    <2>7. GrantSame(t)
      BY <2>1, <2>2, CoreAssumption DEF GrantSame, HasGrant, InNoPend
    <2>8. FlagsSame(t)
      BY <1>4, <1>6, RequestAssumption DEF FlagsSame, HasFlags
    <2>9. QED
      BY <2>6, <2>7, <2>8 DEF Goes
  <1>8. ASSUME NEW u \in AppTasks \ {t} PROVE Goes(u)
    <2>1. /\ tcb'[u].stat = tcb[u].stat /\ tcb'[u].pend = tcb[u].pend
          /\ tcb'[u].dly = tcb[u].dly /\ tcb'[u].eptr = tcb[u].eptr
          /\ tcb'[u].prio \in rdy' <=> tcb[u].prio \in rdy
          /\ \A f \in Event : tcb'[u].prio \in waiting'[f] <=> tcb[u].prio \in waiting[f]
      BY <1>1 DEF PendedOn
    <2>2. arg'[u] = arg[u] /\ pc'[u] = pc[u]
      BY <1>5, <1>6, Now
    <2>3. QED
      BY <1>3, <2>1, <2>2, TaskMoves
  <1>9. AllGo
    BY <1>7, <1>8 DEF AllGo
  <1>10. Placed
    <2>1. \A f \in Event : evType'[f] = "unused" => waiting'[f] = {}
      BY <1>1, <1>3, <1>4, Now DEF PendedOn
    <2>2. evType' \in [Event -> Kinds \cup {"mutex", "unused"}]
      BY <1>3, Now
    <2>3. \A u \in AppTasks : TaskInv(u)'
      BY <1>9 DEF AllGo, Goes
    <2>4. QED
      BY <1>1, <1>2, <1>5, <1>6, <2>1, <2>2, <2>3 DEF Placed, PendedOn
  <1>11. Processor'
    <2>1. Processor /\ prioCur \in Prio /\ prioTbl \in [Prio -> AppTasks \cup {Idle, None, Reserved}]
      BY DEF KernelInv, CoreTypeOK, Settings
    <2>2. tcb'[t].prio = tcb[t].prio
      BY <1>1, <1>4 DEF PendedOn
    <2>3. GoesOnRaised => GoesOnRaised'
      <3> SUFFICES ASSUME GoesOnRaised PROVE GoesOnRaised'
        OBVIOUS
      <3>1. prioCur # pip[e]
        BY <1>3, <1>4, AppIs DEF GoesOnRaised, KernelInv, Settings
      <3>2. prioTbl'[prioCur] = prioTbl[prioCur]
        BY <1>3, <2>1, <3>1
      <3>3. QED
        BY <1>3, <1>4, <1>5, <3>2 DEF GoesOnRaised
    <2>4. cur' = t /\ pc'[t] = "block" /\ lockNesting' = 0 /\ ~(lockNesting' > 0)
      BY <1>3, <1>4, <1>5
    <2>5. prioCur' = tcb'[t].prio \/ GoesOnRaised'
      <3>1. prioCur = tcb[t].prio \/ GoesOnRaised
        BY <1>4, <2>1 DEF Processor
      <3>2. QED
        BY <1>3, <2>2, <2>3, <3>1
    <2>6. QED
      BY <1>3, <1>4, <2>4, <2>5 DEF Processor
  <1>12. \E f \in Event, x \in AppTasks \cup {None, Reserved} :
           \/ IsMutex(f) /\ prioTbl' = [prioTbl EXCEPT ![pip[f]] = x]
           \/ prioTbl[pip'[f]] = None /\ pip'[f] \in Prio /\ prioTbl' = [prioTbl EXCEPT ![pip'[f]] = x]
           \/ prioTbl' = prioTbl
    BY <1>3, <1>4
  <1>13. QED
    BY <1>2, <1>9, <1>10, <1>11, <1>12, MutexNext

\* A post gives the mutex to the highest waiter, or to nobody.
LEMMA PostMutex ==
  ASSUME KernelInv, MutexFrame, NEW t \in Task, NEW e \in Event, OSMutexPost(t, e),
         inside' = [inside EXCEPT ![e] = @ \ {t}], orphans' = orphans
  PROVE  KernelInv' /\ \E ts \in SUBSET Waiters(e) : HandOver(e, ts) /\ Answers(e, ts, "ok")
  <1>1. /\ Runs(t) /\ IsMutex(e) /\ owner[e] = t /\ pip' = pip
        /\ Posts(t, e) /\ (Raised(e) => tcb[owner[e]].prio \in rdy)
    BY CallerReady, PipIs DEF OSMutexPost, IsOwner, Posts
  <1>2. CASE waiting[e] # {}
    <2> DEFINE w == HighestWaiter(e)
    <2>1. /\ HandOver(e, {w}) /\ ownPrio' = [ownPrio EXCEPT ![e] = tcb[w].prio]
          /\ owner' = [owner EXCEPT ![e] = w] /\ Yields(t)
      BY <1>2 DEF OSMutexPost, Wanted
    <2>2. {w} \in SUBSET Waiters(e) /\ {w} # {}
      BY <1>2, WaitersAre
    <2>3. GivesBack(t, e, {w}, w)
      BY <1>1, <1>2, <2>1, <2>2 DEF GivesBack
    <2>4. QED
      BY <2>1, <2>2, <2>3, ReturnMutex
  <1>3. CASE waiting[e] = {}
    <2>1. /\ HandOver(e, {}) /\ ownPrio' = [ownPrio EXCEPT ![e] = None]
          /\ owner' = [owner EXCEPT ![e] = None] /\ Returns
      BY <1>3 DEF OSMutexPost, Wanted
    <2>2. Waiters(e) = {}
      BY <1>3 DEF Waiters
    <2>3. GivesBack(t, e, {}, None)
      BY <1>1, <1>3, <2>1, <2>2 DEF GivesBack
    <2>4. QED
      BY <2>1, <2>3, ReturnMutex
  <1>4. QED
    BY <1>2, <1>3

\* A deletion.
LEMMA DeleteMutex ==
  ASSUME KernelInv, MutexFrame, NEW t \in Task, NEW e \in Event,
         inside' = [inside EXCEPT ![e] = {}], Orphans(e),
         \/ DelNoPend(t, e) /\ ~Raised(e)
         \/ DelAlways(t, e) /\ (owner[e] \in Task => tcb[owner[e]].prio \in rdy)
  PROVE  KernelInv' /\ \E ts \in SUBSET Waiters(e) : HandOver(e, ts) /\ Answers(e, ts, "ok")
  <1>1. /\ Runs(t) /\ IsMutex(e) /\ pip' = pip /\ Gone(e)
        /\ ownPrio' = [ownPrio EXCEPT ![e] = None] /\ owner' = [owner EXCEPT ![e] = None]
    BY DEF DelNoPend, DelAlways, Freed, Gone
  <1>2. Raised(e) => tcb[owner[e]].prio \in rdy
    BY <1>1, OwnerIs, AppIs DEF Raised, Owned, KernelInv, Settings
  <1>3. HandOver(e, Waiters(e)) /\ IF Waiters(e) = {} THEN Returns ELSE Yields(t)
    <2>1. waiting[e] = {} <=> Waiters(e) = {}
      BY DEF Waiters
    <2>2. CASE DelNoPend(t, e) /\ ~Raised(e)
      <3>1. Waiters(e) = {} /\ waiting[e] = {} /\ UNCHANGED <<tcb, rdy, waiting>> /\ Returns
        BY <2>1, <2>2 DEF DelNoPend
      <3>2. tcb = [u \in AllTasks |-> tcb[u]] /\ waiting = [waiting EXCEPT ![e] = {}]
        BY <3>1, Now
      <3>3. waiting[e] \ {tcb[u].prio : u \in {}} = {} /\ {tcb[u].prio : u \in NotSuspended({})} = {}
        BY <3>1 DEF NotSuspended
      <3>4. HandOver(e, {})
        BY <2>2, <3>1, <3>2, <3>3 DEF HandOver
      <3>5. QED
        BY <3>1, <3>4
    <2>3. CASE DelAlways(t, e)
      BY <2>1, <2>3 DEF DelAlways
    <2>4. QED
      BY <2>2, <2>3
  <1>4. GivesBack(t, e, Waiters(e), None)
    BY <1>1, <1>2, <1>3 DEF GivesBack
  <1>5. QED
    BY <1>3, <1>4, ReturnMutex

(***************************************************************************)
(* A call of a mutex e: nobody waits for another event than before, and    *)
(* only tasks ts that have waited for e are answered.                      *)
(***************************************************************************)
MutexStep(e, ts) ==
  /\ evType[e] \in {"mutex", "unused"} /\ evType'[e] \in {"mutex", "unused"}
  /\ \A f \in Event : f # e => evType'[f] = evType[f] /\ waiting'[f] = waiting[f]
  /\ Answers(e, ts, "ok")
  /\ \A u \in AppTasks : tcb'[u].msg = IF u \in ts THEN None ELSE tcb[u].msg
  /\ \A u \in AppTasks : Pends(u) => Pends(u)' /\ arg'[u] = arg[u]
  /\ UNCHANGED <<app, free, semState, msgState, flagVars>>

LEMMA AllAnswered ==
  ASSUME AllGo, NEW e
  PROVE  Answers(e, {}, "ok")
  BY DEF AllGo, Goes, GrantSame, Answers

LEMMA MutexKept ==
  ASSUME KernelInv, NEW t \in Task, MutexCall(t)
  PROVE  KernelInv' /\ \E e \in Event : \E ts \in SUBSET Waiters(e) : MutexStep(e, ts)
  <1>1. /\ UNCHANGED <<app, free, semState, msgState, flagVars>> /\ Serves("mutex")
        /\ \A r \in MutexRules : Rule(r)
        /\ MutexRules = {"one object", "owner ready", "delete unraised", "suspend settled", "name self",
                         "delay unlocked"}
        /\ app.events \subseteq Event /\ app.ticks \subseteq Nat
    BY RulesKept, AppIs DEF MutexCall, MutexRules, KernelInv, Settings
  <1>2. PICK e \in Event :
          \/ (\E p \in Pips : OSMutexCreate(t, e, p)) /\ UNCHANGED <<inside, orphans>>
          \/ /\ ~Owns(t) /\ Acquire(t, e) /\ inside' = [inside EXCEPT ![e] = @ \cup {t}] /\ orphans' = orphans
          \/ /\ ~Owns(t) /\ (\E ticks \in Nat : OSMutexPend(t, e, ticks)) /\ UNCHANGED <<inside, orphans>>
          \/ OSMutexPost(t, e) /\ inside' = [inside EXCEPT ![e] = @ \ {t}] /\ orphans' = orphans
          \/ /\ inside' = [inside EXCEPT ![e] = {}] /\ Orphans(e)
             /\ \/ DelNoPend(t, e) /\ ~Raised(e)
                \/ DelAlways(t, e) /\ (owner[e] \in Task => tcb[owner[e]].prio \in rdy)
    BY <1>1, RulesKept DEF MutexCall
  <1> DEFINE Others == \A f \in Event : f # e => evType'[f] = evType[f] /\ waiting'[f] = waiting[f]
             Msgs(ts) == \A u \in AppTasks : tcb'[u].msg = IF u \in ts THEN None ELSE tcb[u].msg
             Inside == \A u \in AppTasks : Pends(u) => Pends(u)' /\ arg'[u] = arg[u]
             Types == evType[e] \in {"mutex", "unused"} /\ evType'[e] \in {"mutex", "unused"}
  <1>3. \A u \in AppTasks : u \in AllTasks /\ tcb[u] \in TCB
    BY Now
  <1>4. CASE (\E p \in Pips : OSMutexCreate(t, e, p)) /\ UNCHANGED <<inside, orphans>>
    <2>1. PICK p \in Pips : OSMutexCreate(t, e, p)
      BY <1>4
    <2>2. UNCHANGED <<cur, prioCur, lockNesting, tcb, pc, arg>>
      BY <2>1 DEF OSMutexCreate, Returns
    <2>3. MutexFrame
      BY <1>1, <2>2 DEF MutexFrame, flagVars
    <2>4. KernelInv' /\ Answers(e, {}, "ok")
      BY <1>1, <1>4, <2>1, <2>3, CreateMutex, AllAnswered
    <2>5. Types /\ Others /\ Msgs({}) /\ Inside
      BY <2>1, <2>2, Now DEF OSMutexCreate, Pends
    <2>6. MutexStep(e, {})
      BY <1>1, <2>4, <2>5 DEF MutexStep
    <2>7. QED
      BY <2>4, <2>6
  <1>5. CASE ~Owns(t) /\ Acquire(t, e) /\ inside' = [inside EXCEPT ![e] = @ \cup {t}] /\ orphans' = orphans
    <2>1. UNCHANGED <<cur, prioCur, lockNesting, tcb, pc, arg, evType, waiting>> /\ IsMutex(e)
      BY <1>5 DEF Acquire, Returns
    <2>2. MutexFrame
      BY <1>1, <2>1 DEF MutexFrame, flagVars
    <2>3. KernelInv' /\ Answers(e, {}, "ok")
      BY <1>5, <2>2, AcquireMutex, AllAnswered
    <2>4. Types /\ Others /\ Msgs({}) /\ Inside
      BY <2>1 DEF Pends, IsMutex
    <2>5. MutexStep(e, {})
      BY <1>1, <2>3, <2>4 DEF MutexStep
    <2>6. QED
      BY <2>3, <2>5
  <1>6. CASE ~Owns(t) /\ (\E ticks \in Nat : OSMutexPend(t, e, ticks)) /\ UNCHANGED <<inside, orphans>>
    <2>1. PICK ticks \in Nat : OSMutexPend(t, e, ticks)
      BY <1>6
    <2>2. /\ UNCHANGED <<evType, cur, prioCur, lockNesting>> /\ IsMutex(e) /\ Runs(t)
          /\ pc' = [pc EXCEPT ![t] = "block"] /\ arg' = [arg EXCEPT ![t] = e]
      BY <2>1 DEF OSMutexPend
    <2>3. MutexFrame
      BY <1>1, <2>2 DEF MutexFrame, flagVars
    <2>4. KernelInv' /\ Answers(e, {}, "ok")
      BY <1>6, <2>1, <2>3, PendMutex, AllAnswered
    <2>5. Others
      <3>1. PendedOn(t, e)
        BY <1>6, <2>1, <2>3, PendOnIs
      <3>2. \A f \in Event : waiting'[f] = IF f = e THEN waiting[e] \cup {app.start[t]} ELSE waiting[f]
        BY <3>1 DEF PendedOn
      <3>3. QED
        BY <2>2, <3>2
    <2>6. Inside
      BY <2>2, Now DEF Pends, Runs
    <2>7. Msgs({})
      <3> SUFFICES ASSUME NEW u \in AppTasks PROVE tcb'[u].msg = tcb[u].msg
        OBVIOUS
      <3>1. u \in AllTasks /\ tcb[u] \in TCB /\ DOMAIN tcb = AllTasks
        BY <1>3, Now
      <3>2. tcb' = [tcb EXCEPT ![owner[e]].prio = IF MustRaise(t, e) THEN pip[e] ELSE @,
                               ![t].stat = @ \cup {"mutex"}, ![t].pend = "ok", ![t].dly = ticks, ![t].eptr = e]
        BY <2>1 DEF OSMutexPend
      <3>3. QED
        BY <3>1, <3>2 DEF TCB
    <2>8. MutexStep(e, {})
      BY <1>1, <2>2, <2>4, <2>5, <2>6, <2>7 DEF MutexStep, IsMutex
    <2>9. QED
      BY <2>4, <2>8
  <1>7. ASSUME NEW ts \in SUBSET Waiters(e), HandOver(e, ts), Answers(e, ts, "ok"),
               IsMutex(e), evType' = evType \/ evType' = [evType EXCEPT ![e] = "unused"],
               Runs(t), Returns \/ Yields(t)
        PROVE  MutexStep(e, ts)
    <2>1. Types
      BY <1>7, Now DEF IsMutex
    <2>2. Others
      BY <1>7, Now DEF HandOver
    <2>3. Inside
      BY <1>7, Now DEF Returns, Yields, Pends, Runs
    <2>4. Msgs(ts)
      <3> SUFFICES ASSUME NEW u \in AppTasks PROVE tcb'[u].msg = IF u \in ts THEN None ELSE tcb[u].msg
        OBVIOUS
      <3>1. u \in AllTasks /\ tcb[u] \in TCB
        BY <1>3
      <3>2. CASE u \in ts
        <4>1. tcb'[u] = [tcb[u] EXCEPT !.dly = 0, !.msg = None, !.stat = @ \ {"mutex"}, !.pend = "ok"]
          BY <1>7, <3>1, <3>2 DEF HandOver
        <4>2. QED
          BY <3>1, <3>2, <4>1 DEF TCB
      <3>3. CASE u \notin ts
        <4>1. tcb'[u] = tcb[u] \/ tcb'[u] = [tcb[u] EXCEPT !.prio = ownPrio[e]]
          BY <1>7, <3>1, <3>3 DEF HandOver
        <4>2. QED
          BY <3>1, <3>3, <4>1 DEF TCB
      <3>4. QED
        BY <3>2, <3>3
    <2>5. QED
      BY <1>1, <1>7, <2>1, <2>2, <2>3, <2>4 DEF MutexStep
  <1>8. CASE OSMutexPost(t, e) /\ inside' = [inside EXCEPT ![e] = @ \ {t}] /\ orphans' = orphans
    <2>1. UNCHANGED <<evType, cur, prioCur, lockNesting>> /\ IsMutex(e) /\ Runs(t) /\ (Returns \/ Yields(t))
      BY <1>8 DEF OSMutexPost
    <2>2. MutexFrame
      BY <1>1, <2>1 DEF MutexFrame, flagVars
    <2>3. KernelInv' /\ \E ts \in SUBSET Waiters(e) : HandOver(e, ts) /\ Answers(e, ts, "ok")
      BY <1>8, <2>2, PostMutex
    <2>4. QED
      BY <1>7, <2>1, <2>3
  <1>9. CASE /\ inside' = [inside EXCEPT ![e] = {}] /\ Orphans(e)
             /\ \/ DelNoPend(t, e) /\ ~Raised(e)
                \/ DelAlways(t, e) /\ (owner[e] \in Task => tcb[owner[e]].prio \in rdy)
    <2>1. /\ evType' = [evType EXCEPT ![e] = "unused"] /\ UNCHANGED <<cur, prioCur, lockNesting>>
          /\ IsMutex(e) /\ Runs(t) /\ (Returns \/ Yields(t))
      BY <1>9 DEF DelNoPend, DelAlways, Freed
    <2>2. MutexFrame
      BY <1>1, <2>1 DEF MutexFrame, flagVars
    <2>3. KernelInv' /\ \E ts \in SUBSET Waiters(e) : HandOver(e, ts) /\ Answers(e, ts, "ok")
      BY <1>9, <2>2, DeleteMutex
    <2>4. QED
      BY <1>7, <2>1, <2>3
  <1>10. QED
    BY <1>2, <1>4, <1>5, <1>6, <1>8, <1>9

-----------------------------------------------------------------------------
\* The invariant.

LEMMA KernelStart ==
  ASSUME Init, Disciplined
  PROVE  KernelInv
  <1> DEFINE start == app.start
  <1>1. /\ AppTasks \subseteq Task /\ AppTasks \subseteq AllTasks /\ Idle \notin AppTasks
        /\ None \notin AppTasks /\ Reserved \notin AppTasks /\ AppTasks = DOMAIN start
        /\ \A t, u \in AppTasks : start[t] \in Prio \ {LowestPrio} /\ (start[t] = start[u] => t = u)
    BY AppIs, AppsAssumption DEF Init, AppTasks
  <1>2. LowestPrio \in Prio /\ Prio \subseteq Nat /\ 0 \in Prio /\ None # Idle /\ None \notin Task
        /\ 0 \in 0 .. MaxNesting /\ MaxNesting \in Nat /\ AllTasks = Task \cup {Idle}
    BY CoreAssumption DEF Prio, AllTasks
  <1>3. \A p \in Prio : /\ NewTCB(p) \in TCB /\ NewTCB(p).prio = p /\ NewTCB(p).stat = {}
                        /\ NewTCB(p).pend = "ok" /\ NewTCB(p).dly = 0 /\ NewTCB(p).eptr = None
                        /\ NewTCB(p).multi = {}
    BY DEF NewTCB, TCB
  <1>4. /\ prioTbl = [p \in Prio |-> IF p = LowestPrio THEN Idle
                                     ELSE IF \E t \in DOMAIN start : start[t] = p
                                          THEN CHOOSE t \in DOMAIN start : start[t] = p
                                          ELSE None]
        /\ tcb = [t \in AllTasks |-> NewTCB(IF t \in DOMAIN start THEN start[t] ELSE LowestPrio)]
        /\ rdy = {start[t] : t \in DOMAIN start} \cup {LowestPrio}
        /\ evType = [e \in Event |-> "unused"] /\ waiting = [e \in Event |-> {}]
        /\ prioCur = HighRdy(rdy) /\ cur = prioTbl[prioCur] /\ lockNesting = 0
        /\ pc = [t \in AllTasks |-> IF t \in DOMAIN start \cup {Idle} THEN "user" ELSE "dormant"]
        /\ arg = [t \in AllTasks |-> None]
        /\ free = Task \ DOMAIN start
        /\ pip = [e \in Event |-> 0] /\ ownPrio = [e \in Event |-> None]
        /\ owner = [e \in Event |-> None] /\ inside = [e \in Event |-> {}] /\ orphans = {}
        /\ inUse = [g \in Group |-> FALSE] /\ nodes = [g \in Group |-> {}]
        /\ app \in Apps
    BY DEF Init, CoreInit, TasksInit, EventsInit, TaskInit, MutexInit, FlagInit
  <1> HIDE DEF start
  <1>5. /\ \A t \in AppTasks : tcb[t] = NewTCB(start[t]) /\ tcb[t].prio = start[t]
        /\ \A t \in AllTasks \ AppTasks : tcb[t] = NewTCB(LowestPrio)
        /\ tcb \in [AllTasks -> TCB]
        /\ \A t \in AllTasks : tcb[t].stat = {} /\ tcb[t].dly = 0 /\ tcb[t].pend = "ok"
                               /\ tcb[t].eptr = None /\ tcb[t].multi = {}
    <2>1. \A t \in AllTasks : tcb[t] = NewTCB(IF t \in AppTasks THEN start[t] ELSE LowestPrio)
      BY <1>1, <1>4
    <2>2. \A t \in AllTasks : (IF t \in AppTasks THEN start[t] ELSE LowestPrio) \in Prio
      BY <1>1, <1>2
    <2>3. \A t \in AllTasks : tcb[t] \in TCB /\ tcb[t].stat = {} /\ tcb[t].dly = 0 /\ tcb[t].pend = "ok"
                               /\ tcb[t].eptr = None /\ tcb[t].multi = {}
      BY <1>3, <2>1, <2>2
    <2>4. \A t \in AppTasks : tcb[t] = NewTCB(start[t]) /\ tcb[t].prio = start[t]
      BY <1>1, <1>3, <2>1
    <2>5. \A t \in AllTasks \ AppTasks : tcb[t] = NewTCB(LowestPrio)
      BY <2>1
    <2>6. tcb \in [AllTasks -> TCB]
      BY <1>4, <2>3
    <2>7. QED
      BY <2>3, <2>4, <2>5, <2>6
  <1>6. /\ \A t \in AppTasks : prioTbl[tcb[t].prio] = t
        /\ prioTbl[LowestPrio] = Idle
        /\ \A p \in Prio : prioTbl[p] \in AppTasks \cup {Idle, None}
        /\ \A p \in Prio : prioTbl[p] = Idle <=> p = LowestPrio
        /\ \A p \in Prio : prioTbl[p] \in AppTasks => start[prioTbl[p]] = p
    <2>1. \A p \in Prio : \/ p = LowestPrio /\ prioTbl[p] = Idle
                          \/ p # LowestPrio /\ (\E t \in AppTasks : start[t] = p)
                             /\ prioTbl[p] \in AppTasks /\ start[prioTbl[p]] = p
                          \/ p # LowestPrio /\ ~(\E t \in AppTasks : start[t] = p) /\ prioTbl[p] = None
      <3> SUFFICES ASSUME NEW p \in Prio
                   PROVE  \/ p = LowestPrio /\ prioTbl[p] = Idle
                          \/ p # LowestPrio /\ (\E t \in AppTasks : start[t] = p)
                             /\ prioTbl[p] \in AppTasks /\ start[prioTbl[p]] = p
                          \/ p # LowestPrio /\ ~(\E t \in AppTasks : start[t] = p) /\ prioTbl[p] = None
        OBVIOUS
      <3>1. CASE p # LowestPrio /\ \E t \in AppTasks : start[t] = p
        <4>1. prioTbl[p] = CHOOSE t \in AppTasks : start[t] = p
          BY <1>1, <1>4, <3>1
        <4>2. QED
          BY <3>1, <4>1
      <3>2. QED
        BY <1>1, <1>4, <3>1
    <2>2. \A t \in AppTasks : prioTbl[start[t]] = t
      <3> SUFFICES ASSUME NEW t \in AppTasks PROVE prioTbl[start[t]] = t
        OBVIOUS
      <3>1. start[t] \in Prio /\ start[t] # LowestPrio
        BY <1>1
      <3>2. prioTbl[start[t]] \in AppTasks /\ start[prioTbl[start[t]]] = start[t]
        BY <2>1, <3>1
      <3>3. QED
        BY <1>1, <3>2
    <2>3. \A t \in AppTasks : prioTbl[tcb[t].prio] = t
      BY <1>5, <2>2
    <2>4. \A p \in Prio : prioTbl[p] \in AppTasks => start[prioTbl[p]] = p
      BY <1>1, <2>1
    <2>5. /\ prioTbl[LowestPrio] = Idle
          /\ \A p \in Prio : prioTbl[p] \in AppTasks \cup {Idle, None}
          /\ \A p \in Prio : prioTbl[p] = Idle <=> p = LowestPrio
      BY <1>1, <1>2, <2>1
    <2>6. QED
      BY <2>3, <2>4, <2>5
  <1>7. /\ rdy = {tcb[t].prio : t \in AppTasks} \cup {LowestPrio} /\ rdy \subseteq Prio
        /\ HighRdy(rdy) \in rdy
    <2>1. rdy = {tcb[t].prio : t \in AppTasks} \cup {LowestPrio}
      <3>1. rdy = {start[t] : t \in AppTasks} \cup {LowestPrio}
        BY <1>1, <1>4
      <3>2. \A t \in AppTasks : tcb[t].prio = start[t]
        BY <1>5
      <3>3. QED
        BY <3>1, <3>2
    <2>2. rdy \subseteq Prio
      BY <1>1, <1>2, <1>5, <2>1
    <2>3. QED
      BY <2>1, <2>2, HighRdyIs
  <1>8. cur \in AppTasks \cup {Idle} /\ tcb[cur].prio = prioCur /\ prioCur \in Prio
    <2>1. prioCur \in rdy /\ prioCur \in Prio /\ cur = prioTbl[prioCur]
      BY <1>4, <1>7
    <2>2. CASE prioCur = LowestPrio
      <3>1. cur = Idle /\ Idle \in AllTasks \ AppTasks
        BY <1>1, <1>2, <1>6, <2>1, <2>2
      <3>2. tcb[Idle] = NewTCB(LowestPrio)
        BY <1>5, <3>1
      <3>3. QED
        BY <1>2, <1>3, <2>1, <2>2, <3>1, <3>2
    <2>3. CASE prioCur # LowestPrio
      <3>1. PICK t \in AppTasks : prioCur = tcb[t].prio
        BY <1>7, <2>1, <2>3
      <3>2. QED
        BY <1>6, <2>1, <3>1
    <2>4. QED
      BY <2>2, <2>3
  <1>9. /\ pc \in [AllTasks -> PC] /\ pc[Idle] = "user"
        /\ \A t \in AppTasks : pc[t] = "user"
        /\ \A t \in Task \ AppTasks : pc[t] = "dormant"
    BY <1>1, <1>2, <1>4, CoreAssumption DEF PC
  <1>10. CoreTypeOK
    <2>1. prioTbl \in [Prio -> AllTasks \cup {None, Reserved}]
      BY <1>1, <1>2, <1>4, <1>6
    <2>2. evType \in [Event -> {"unused", "sem", "mbox", "q", "mutex"}] /\ waiting \in [Event -> SUBSET Prio]
          /\ DOMAIN arg = AllTasks /\ lockNesting \in 0 .. MaxNesting
      BY <1>2, <1>4
    <2>3. cur \in AllTasks
      BY <1>1, <1>2, <1>8
    <2>4. QED
      BY <1>5, <1>7, <1>8, <1>9, <2>1, <2>2, <2>3 DEF CoreTypeOK
  <1>11. Settings
    BY <1>1, <1>4, <1>5, <1>6, <1>9, CoreAssumption DEF Settings
  <1>12. MutexInv
    <2>1. /\ pip \in [Event -> Prio] /\ ownPrio \in [Event -> Prio \cup {None}]
          /\ owner \in [Event -> AppTasks \cup {None}] /\ inside \in [Event -> SUBSET AppTasks]
      BY <1>2, <1>4
    <2>2. \A e \in Event : /\ ~IsMutex(e) /\ ~Owned(e) /\ ownPrio[e] = None /\ waiting[e] = {}
                           /\ inside[e] = {}
      BY <1>4 DEF IsMutex, Owned
    <2>3. MutexTypes
      BY <1>4, <1>5, <2>1, <2>2 DEF MutexTypes
    <2>4. Owners
      BY <2>2 DEF Owners
    <2>5. Priorities
      <3>1. \A p \in Prio : prioTbl[p] # Reserved
        <4>1. Reserved # Idle /\ Reserved # None
          BY CoreAssumption
        <4>2. QED
          BY <1>1, <1>6, <4>1
      <3>2. \A t \in AppTasks : tcb[t].prio = app.start[t] /\ prioTbl[app.start[t]] = t
        BY <1>5, <1>6 DEF start
      <3>3. \A p \in Prio : prioTbl[p] \in AppTasks => p = app.start[prioTbl[p]]
        BY <1>6 DEF start
      <3>4. QED
        BY <2>2, <3>1, <3>2, <3>3 DEF Priorities
    <2>6. \A t \in AppTasks : Pending(t)
      BY <1>9 DEF Pending, Pends
    <2>7. QED
      BY <2>3, <2>4, <2>5, <2>6 DEF MutexInv
  <1>13. Lists
    BY <1>4, <1>7 DEF Lists
  <1>14. Processor
    <2>1. lockNesting = 0
      BY <1>4
    <2>2. tcb[cur].prio \in rdy /\ prioCur = HighRdy(rdy)
      BY <1>4, <1>7, <1>8
    <2>3. pc[cur] = "user"
      BY <1>8, <1>9
    <2>4. ~(lockNesting > 0)
      BY <2>1
    <2>5. QED
      BY <1>8, <2>1, <2>2, <2>3, <2>4 DEF Processor
  <1>15. \A t \in AppTasks : TaskInv(t)
    <2> SUFFICES ASSUME NEW t \in AppTasks PROVE TaskInv(t)
      OBVIOUS
    <2>1. tcb[t].stat = {} /\ tcb[t].dly = 0 /\ tcb[t].pend = "ok" /\ tcb[t].eptr = None
          /\ tcb[t].prio \in rdy /\ pc[t] = "user"
      BY <1>1, <1>5, <1>7, <1>9
    <2>2. InNoPend(t)
      BY <1>4, <2>1 DEF InNoPend, NoPend
    <2>3. QED
      BY <2>1, <2>2 DEF TaskInv, Pends, Unheld
  <1>16. QED
    BY <1>4, <1>10, <1>11, <1>12, <1>13, <1>14, <1>15 DEF KernelInv

LEMMA PlainKept ==
  ASSUME KernelInv, PlainStep
  PROVE  KernelInv'
  <1>1. KernelStep /\ UNCHANGED <<app, prioTbl, free, pip, owner>>
    BY DEF PlainStep
  <1>2. Kept
    BY <1>1, StepKeeps
  <1>3. Processor' /\ lockNesting' \in 0 .. MaxNesting
    <2>1. Still
      BY <1>1, MutexesStand, LockedStays DEF Still
    <2>2. QED
      BY <1>1, <1>2, <2>1, ProcessorKept
  <1>4. AppTasks' = AppTasks
    BY <1>1 DEF AppTasks
  <1>5. \A t \in AllTasks : tcb'[t].prio = tcb[t].prio /\ tcb'[t].multi = {}
    BY <1>2 DEF Kept, TcbKept
  <1>6. Settings'
    <2>1. Disciplined'
      BY <1>1 DEF Disciplined, Serves, KernelInv, Settings
    <2>2. \A t \in AppTasks : prioTbl[tcb'[t].prio] = t
      BY <1>5, Now DEF KernelInv, Settings
    <2>3. \A t \in AllTasks \ AppTasks : tcb'[t] = NewTCB(LowestPrio)
      BY <1>2 DEF Kept, TcbKept, KernelInv, Settings
    <2>4. pc'[Idle] = "user" /\ \A t \in Task \ AppTasks : pc'[t] = "dormant"
      BY <1>2, Now DEF Kept, KernelInv, Settings
    <2>5. \A t \in AppTasks : pc'[t] \in {"user", "yield", "block", "wake"}
      BY <1>2 DEF Kept
    <2>6. QED
      BY <1>1, <1>4, <2>1, <2>2, <2>3, <2>4, <2>5 DEF KernelInv, Settings
  <1>7. MutexInv'
    BY MutexesKept
  <1>8. {tcb'[t].prio : t \in AppTasks} = {tcb[t].prio : t \in AppTasks}
    BY <1>5, Now
  <1>9. Lists'
    BY <1>2, <1>4, <1>8 DEF Kept, Lists
  <1>10. CoreTypeOK'
    <2>1. rdy' \subseteq Prio /\ prioCur' \in Prio
      BY <1>1, <1>2, ReadyAre, PrioCurKept
    <2>2. cur' \in AllTasks
      BY <1>3, <1>4, Now DEF Processor, AllTasks
    <2>3. tcb' \in [AllTasks -> TCB]
      BY <1>2 DEF Kept, TcbKept
    <2>4. QED
      BY <1>1, <1>2, <1>3, <2>1, <2>2, <2>3 DEF Kept, Kinds, CoreTypeOK, KernelInv
  <1>11. QED
    BY <1>2, <1>3, <1>4, <1>6, <1>7, <1>9, <1>10 DEF Kept, KernelInv

\* A step that changes nothing is one of the steps that are not about a mutex.
LEMMA StutterIsPlain ==
  ASSUME KernelInv, UNCHANGED vars
  PROVE  PlainStep
  <1>1. Told
    <2>1. UNCHANGED <<inside, orphans, evType>>
      BY DEF vars, coreVars, mutexState
    <2>2. QED
      BY <2>1, ToldNobody
  <1>2. QED
    BY <1>1 DEF vars, PlainStep, KernelStep, Quiet, coreVars, mutexState, mutexVars, flagVars

LEMMA StepsAre ==
  ASSUME KernelInv, [Next]_vars
  PROVE  PlainStep \/ \E t \in Task : MutexCall(t)
  BY Steps, StutterIsPlain

LEMMA KernelKept ==
  ASSUME KernelInv, [Next]_vars
  PROVE  KernelInv'
  BY StepsAre, PlainKept, MutexKept

\* The tables, the lists, the mutexes and the scheduler's variables agree in
\* every state, for every application that obeys the rules of use.
THEOREM KernelInvariant == Spec /\ Disciplined => []KernelInv
  <1>1. Init /\ Disciplined => KernelInv
    BY KernelStart
  <1>2. KernelInv /\ [Next]_vars => KernelInv'
    BY KernelKept
  <1>3. QED
    BY <1>1, <1>2, PTL DEF Spec

\* A task that has been told that it owns a mutex is the one that the mutex
\* names as its owner, although posts, timeouts, deletions and the second half
\* of OSMutexPend come in any order.
THEOREM OwnerAlone == Spec /\ Disciplined => []MutualExclusion
  <1>1. KernelInv => MutualExclusion
    BY DEF KernelInv, MutexInv, Owners, MutualExclusion
  <1>2. QED
    BY <1>1, KernelInvariant, PTL

\* The owner of a mutex is above all the tasks that wait for it, and a task
\* that owns no mutex has the priority that it was created with.
THEOREM NoTaskBetween == Spec /\ Disciplined => []NoInversion
  <1>1. KernelInv => NoInversion
    <2> SUFFICES ASSUME KernelInv PROVE NoInversion
      OBVIOUS
    <2>1. ASSUME NEW e \in Event, owner[e] \in Task, NEW p \in waiting[e]
          PROVE  tcb[owner[e]].prio < p
      BY <2>1, CoreAssumption DEF KernelInv, MutexInv, Owners, Owned
    <2>2. ASSUME NEW t \in AppTasks, ~Owns(t)
          PROVE  tcb[t].prio = app.start[t]
      BY <2>2 DEF KernelInv, MutexInv, Priorities, Owns
    <2>3. QED
      BY <2>1, <2>2 DEF NoInversion, AppTasks
  <1>2. QED
    BY <1>1, KernelInvariant, PTL

\* Who is alive.
LEMMA AliveAre ==
  ASSUME KernelInv
  PROVE  Alive = AppTasks
  <1>1. \A t \in Task \ AppTasks : prioTbl[tcb[t].prio] # t
    <2>1. \A t \in Task \ AppTasks : tcb[t].prio = LowestPrio /\ t # Idle
      BY CoreAssumption DEF KernelInv, Settings, AllTasks, NewTCB
    <2>2. QED
      BY <2>1, OwnPriority DEF KernelInv, Settings
  <1>2. \A t \in Task : pc[t] # "del"
    BY DEF KernelInv, Settings
  <1>3. QED
    BY <1>1, <1>2, Now DEF Alive, KernelInv, Settings

\* The ready list holds exactly the tasks that nothing holds: whatever the
\* order of posts, ticks, aborts, deletions, suspensions and resumptions.
THEOREM ReadyIsConsistent == Spec /\ Disciplined => []ReadyConsistent
  <1>1. KernelInv => ReadyConsistent
    <2> SUFFICES ASSUME KernelInv PROVE ReadyConsistent
      OBVIOUS
    <2>1. \A t \in Alive : TaskInv(t) /\ ~MultiPends(t)
      <3> SUFFICES ASSUME NEW t \in AppTasks PROVE TaskInv(t) /\ ~MultiPends(t)
        BY AliveAre
      <3>1. TaskInv(t)
        BY Now
      <3>2. QED
        BY <3>1, NoMulti DEF MultiPends
    <2>2. QED
      BY <2>1 DEF ReadyConsistent, TaskInv, Unheld
  <1>2. QED
    BY <1>1, KernelInvariant, PTL

\* Whoever is in a wait list or a group waits there, and whoever waits is in
\* the list of what it waits for, between any two critical sections.
THEOREM WaitIsConsistent == Spec /\ Disciplined => []WaitConsistent
  <1>1. KernelInv => WaitConsistent
    <2> SUFFICES ASSUME KernelInv PROVE WaitConsistent
      OBVIOUS
    <2>1. \A t \in Task \ AppTasks : pc[t] = "dormant" /\ tcb[t].stat = {}
      BY DEF KernelInv, Settings, AllTasks, NewTCB
    <2>2. ListsConsistent
      <3>1. ASSUME NEW e \in Event, NEW p \in waiting[e]
            PROVE  LET t == prioTbl[p] IN
                   /\ t \in Task
                   /\ tcb[t].prio = p
                   /\ Pends(t)
                   /\ e \in WaitsFor(t)
                   /\ tcb[t].stat \cap PendAny # {} \/ tcb[t].pend = "to"
        <4>1. PICK t \in AppTasks : p = tcb[t].prio
          BY Now
        <4>2. prioTbl[p] = t /\ t \in Task /\ TaskInv(t)
          BY <4>1, Now DEF KernelInv, Settings
        <4>3. Pends(t) /\ OnEvent(t) /\ arg[t] = e
          BY <4>1, <4>2 DEF TaskInv, InNoPend, OnEvent, OnFlags
        <4>4. e \in WaitsFor(t)
          BY <4>3, NoMulti DEF WaitsFor
        <4>5. tcb[t].stat \cap PendAny # {} \/ tcb[t].pend = "to"
          <5>1. \/ tcb[t].pend = "to"
                \/ evType[e] \in {"sem", "mbox", "q", "mutex"} /\ evType[e] \in tcb[t].stat
            BY <4>1, <4>3 DEF OnEvent, PendsFor
          <5>2. QED
            BY <5>1 DEF PendAny
        <4>6. QED
          BY <4>1, <4>2, <4>3, <4>4, <4>5
      <3>2. ASSUME NEW t \in Task, tcb[t].stat \cap (PendAny \ {"flag"}) # {}
            PROVE  arg[t] \in Event /\ tcb[t].prio \in waiting[arg[t]]
        <4>1. t \in AppTasks /\ TaskInv(t)
          BY <2>1, <3>2, Now
        <4>2. ~InNoPend(t) /\ ~OnFlags(t)
          BY <3>2 DEF InNoPend, OnFlags, PendsFor, NoPend, PendAny
        <4>3. OnEvent(t)
          BY <4>1, <4>2 DEF TaskInv
        <4>4. QED
          BY <3>2, <4>3 DEF OnEvent, NoPend, PendAny
      <3>3. QED
        BY <3>1, <3>2 DEF ListsConsistent
    <2>3. AllOrNone
      BY <2>1, NoMulti DEF AllOrNone, MultiPends, Pends
    <2>4. NodesConsistent
      <3> SUFFICES ASSUME NEW g \in Group
                   PROVE  /\ nodes[g] # {} => inUse[g]
                          /\ \A t \in Task : t \in nodes[g] <=>
                               /\ t \in Alive
                               /\ PendsOn(t, g)
                               /\ "flag" \in tcb[t].stat \/ tcb[t].pend = "to"
        BY DEF NodesConsistent
      <3>1. nodes[g] # {} => inUse[g]
        BY InGroup
      <3>2. ASSUME NEW t \in nodes[g]
            PROVE  t \in Alive /\ PendsOn(t, g) /\ ("flag" \in tcb[t].stat \/ tcb[t].pend = "to")
        BY InGroup, AliveAre DEF PendsOn, OnFlags, PendsFor
      <3>3. ASSUME NEW t \in Alive, PendsOn(t, g), "flag" \in tcb[t].stat \/ tcb[t].pend = "to"
            PROVE  t \in nodes[g]
        <4>1. t \in AppTasks /\ TaskInv(t) /\ Pends(t) /\ arg[t] \notin Event /\ arg[t].grp = g
          BY <3>3, AliveAre, Now, RequestAssumption DEF PendsOn
        <4>2. OnFlags(t)
          BY <4>1 DEF TaskInv, OnEvent
        <4>3. QED
          BY <3>3, <4>1, <4>2 DEF OnFlags, NoPend
      <3>4. QED
        BY <3>1, <3>2, <3>3
    <2>5. QED
      BY <2>2, <2>3, <2>4 DEF WaitConsistent
  <1>2. QED
    BY <1>1, KernelInvariant, PTL

\* Code of a task runs only while it is the highest task ready or the
\* scheduler is locked, whatever the handlers and the ticks do between the
\* critical sections of the calls.
THEOREM HighestRuns == Spec /\ Disciplined => []RunsHighest
  <1>1. KernelInv => RunsHighest
    <2> SUFFICES ASSUME KernelInv, Rule("posts schedule"), pc[cur] \in {"user", "wake"}
                 PROVE  \/ /\ prioCur = tcb[cur].prio /\ prioTbl[prioCur] = cur
                           /\ lockNesting = 0 => prioCur = HighRdy(rdy)
                        \/ prioCur # tcb[cur].prio /\ prioTbl[prioCur] \in {Reserved, None}
      BY DEF RunsHighest
    <2>1. cur \in AppTasks \cup {Idle} /\ prioTbl[tcb[cur].prio] = cur
      <3>1. cur \in AppTasks \cup {Idle} /\ \A t \in AppTasks : prioTbl[tcb[t].prio] = t
        BY DEF KernelInv, Processor, Settings
      <3>2. NewTCB(LowestPrio).prio = LowestPrio
        BY DEF NewTCB
      <3>3. prioTbl[tcb[Idle].prio] = Idle
        BY <3>2, OwnPriority DEF KernelInv, Settings
      <3>4. QED
        BY <3>1, <3>3
    <2>2. CASE prioCur = tcb[cur].prio
      BY <2>1, <2>2 DEF KernelInv, Processor
    <2>3. CASE prioCur # tcb[cur].prio
      BY <2>3 DEF KernelInv, Processor, GoesOnRaised
    <2>4. QED
      BY <2>2, <2>3
  <1>2. QED
    BY <1>1, KernelInvariant, PTL

-----------------------------------------------------------------------------
\* What the services keep: counts, messages and flags.

\* No task waits for a semaphore with units, and so on.  What is not in use
\* holds nothing.
CountsInv ==
  /\ cnt \in [Event -> 0 .. MaxCnt]
  /\ \A e \in Event : cnt[e] > 0 => IsSem(e) /\ waiting[e] = {}

MailInv ==
  /\ mail \in [Event -> Msg \cup {None}]
  /\ \A e \in Event : mail[e] # None => IsMbox(e) /\ waiting[e] = {}

RingInv ==
  /\ ring \in [Event -> [0 .. Size - 1 -> Msg \cup {None}]]
  /\ qIn \in [Event -> 0 .. Size - 1] /\ qOut \in [Event -> 0 .. Size - 1]
  /\ entries \in [Event -> 0 .. Size]
  /\ \A e \in Event : IsQ(e) => /\ (qOut[e] + entries[e]) % Size = qIn[e]
                                /\ entries[e] > 0 => waiting[e] = {}

\* An event that a step only takes waiters from.
Calm(e) == evType'[e] = evType[e] /\ waiting'[e] \subseteq waiting[e]

\* A step that is about the event e, of one kind.
Concerns(e, kind) ==
  /\ \A f \in Event \ {e} : evType'[f] = evType[f] /\ waiting'[f] = waiting[f]
  /\ evType[e] \in {kind, "unused"} /\ evType'[e] \in {kind, "unused"}

\* Whom a post or an abort may choose.
LEMMA ChosenAre ==
  ASSUME KernelInv, NEW e \in Event, waiting[e] # {}
  PROVE  Waiters(e) \in SUBSET AppTasks /\ {HighestWaiter(e)} \in SUBSET AppTasks
  BY WaitersAre

\* The tasks chosen leave only the list of the event.
LEMMA OthersWaitOn ==
  ASSUME KernelInv, NEW e \in Event, NEW ts \in SUBSET AppTasks, NEW m, NEW bit, NEW st,
         OS_EventTaskRdy(e, ts, m, bit, st)
  PROVE  \A f \in Event \ {e} : waiting'[f] = waiting[f]
  <1>1. \A t \in ts : tcb[t].multi = {}
    BY Now
  <1>2. QED
    BY <1>1 DEF OS_EventTaskRdy, Leaves

\* Every call of a service concerns one event.
LEMMA CallConcerns ==
  ASSUME KernelInv, NEW kind \in Kinds, NEW e \in Event,
         \/ \E t \in Task : EventCreate(t, e, kind)
         \/ \E t \in Task, always \in BOOLEAN : evType[e] = kind /\ EventDel(t, e, kind, always)
         \/ \E t \in Task, ticks \in Nat : evType[e] = kind /\ Block(t, e, kind, ticks)
         \/ \E ts \in SUBSET AppTasks : \E m, st :
              evType[e] = kind /\ OS_EventTaskRdy(e, ts, m, kind, st) /\ UNCHANGED evType
         \/ evType[e] = kind /\ UNCHANGED <<evType, waiting>>
  PROVE  Concerns(e, kind)
  <1> evType \in [Event -> Kinds \cup {"mutex", "unused"}] /\ waiting \in [Event -> SUBSET Prio]
    BY Now
  <1>1. ASSUME NEW t \in Task, EventCreate(t, e, kind) PROVE Concerns(e, kind)
    BY <1>1 DEF EventCreate, Concerns, Calm
  <1>2. ASSUME NEW t \in Task, NEW always \in BOOLEAN, evType[e] = kind, EventDel(t, e, kind, always)
        PROVE  Concerns(e, kind)
    <2>1. evType' = [evType EXCEPT ![e] = "unused"] /\ OS_EventTaskRdy(e, Waiters(e), None, kind, "ok")
      BY <1>2 DEF EventDel
    <2>2. \A f \in Event \ {e} : waiting'[f] = waiting[f]
      BY <2>1, OthersWaitOn, WaitersAre
    <2>3. QED
      BY <1>2, <2>1, <2>2 DEF Concerns
  <1>3. ASSUME NEW t \in Task, NEW ticks \in Nat, evType[e] = kind, Block(t, e, kind, ticks)
        PROVE  Concerns(e, kind)
    BY <1>3 DEF Block, OS_EventTaskWait, Concerns, Calm
  <1>4. ASSUME NEW ts \in SUBSET AppTasks, NEW m, NEW st, evType[e] = kind, OS_EventTaskRdy(e, ts, m, kind, st),
               UNCHANGED evType
        PROVE  Concerns(e, kind)
    BY <1>4, OthersWaitOn DEF Concerns
  <1>5. ASSUME evType[e] = kind, UNCHANGED <<evType, waiting>> PROVE Concerns(e, kind)
    BY <1>5 DEF Concerns, Calm
  <1>6. QED
    BY <1>1, <1>2, <1>3, <1>4, <1>5

\* A step that concerns no semaphore, no mailbox, no queue.
LEMMA CountsStay ==
  ASSUME KernelInv, CountsInv, UNCHANGED cnt,
         \/ \A f \in Event : Calm(f)
         \/ \E e \in Event, kind \in {"mbox", "q", "mutex"} : Concerns(e, kind)
  PROVE  CountsInv'
  BY DEF CountsInv, Calm, Concerns, IsSem

LEMMA MailStays ==
  ASSUME KernelInv, MailInv, UNCHANGED mail,
         \/ \A f \in Event : Calm(f)
         \/ \E e \in Event, kind \in {"sem", "q", "mutex"} : Concerns(e, kind)
  PROVE  MailInv'
  BY DEF MailInv, Calm, Concerns, IsMbox

LEMMA RingStays ==
  ASSUME KernelInv, RingInv, UNCHANGED qVars,
         \/ \A f \in Event : Calm(f)
         \/ \E e \in Event, kind \in {"sem", "mbox", "mutex"} : Concerns(e, kind)
  PROVE  RingInv'
  BY DEF RingInv, Calm, Concerns, IsQ, qVars

\* The semaphores.
LEMMA SemKeepsCounts ==
  ASSUME KernelInv, CountsInv, NEW e \in Event,
         \/ \E t \in Task, c \in Counts : OSSemCreate(t, e, c)
         \/ \E t \in Task, c \in Counts : OSSemSet(t, e, c)
         \/ \E t \in Task, always \in BOOLEAN : OSSemDel(t, e, always)
         \/ \E t \in Task : Take(t, e)
         \/ \E t \in Task, ticks \in Nat : OSSemPend(t, e, ticks)
         \/ \E t \in Task, broadcast \in BOOLEAN : OSSemPendAbort(t, e, broadcast)
         \/ \E t \in Task : OSSemPost(t, e)
         \/ OSSemPostISR(e) \/ OSSemAcceptISR(e)
  PROVE  Concerns(e, "sem") /\ CountsInv'
  <1> DEFINE To(n) == /\ cnt' = [cnt EXCEPT ![e] = n] /\ n \in 0 .. MaxCnt
                      /\ n > 0 => evType'[e] = "sem" /\ waiting'[e] = {}
  <1>2. cnt \in [Event -> 0 .. MaxCnt] /\ Counts \subseteq 0 .. MaxCnt /\ MaxCnt \in Nat
        /\ "sem" \in Kinds
    BY SemAssumption DEF CountsInv, Kinds
  <1> DEFINE Own == /\ Concerns(e, "sem")
                    /\ \/ cnt' = cnt /\ waiting'[e] \subseteq waiting[e] /\ evType'[e] = evType[e]
                       \/ \E n \in Nat : To(n)
  <1>3. Own
    <2>1. ASSUME NEW t \in Task, NEW c \in Counts, OSSemCreate(t, e, c)
          PROVE  Concerns(e, "sem") /\ To(c)
      <3>1. EventCreate(t, e, "sem") /\ cnt' = [cnt EXCEPT ![e] = c]
        BY <2>1 DEF OSSemCreate
      <3>2. Concerns(e, "sem")
        BY <1>2, <3>1, CallConcerns
      <3>3. QED
        BY <1>2, <3>1, <3>2, Now DEF EventCreate
    <2>2. ASSUME NEW t \in Task, NEW c \in Counts, OSSemSet(t, e, c)
          PROVE  Concerns(e, "sem") /\ To(c)
      <3>1. /\ IsSem(e) /\ (cnt[e] > 0 \/ waiting[e] = {}) /\ cnt' = [cnt EXCEPT ![e] = c]
            /\ UNCHANGED <<evType, waiting>>
        BY <2>2 DEF OSSemSet, coreVars
      <3>2. Concerns(e, "sem")
        BY <1>2, <3>1, CallConcerns DEF IsSem
      <3>3. QED
        BY <1>2, <3>1, <3>2 DEF CountsInv, IsSem
    <2>3. ASSUME NEW t \in Task, NEW always \in BOOLEAN, OSSemDel(t, e, always)
          PROVE  Concerns(e, "sem") /\ To(0)
      <3>1. evType[e] = "sem" /\ EventDel(t, e, "sem", always) /\ cnt' = [cnt EXCEPT ![e] = 0]
        BY <2>3 DEF OSSemDel, IsSem
      <3>2. Concerns(e, "sem")
        BY <1>2, <3>1, CallConcerns
      <3>3. QED
        BY <1>2, <3>1, <3>2
    <2>4. ASSUME (\E t \in Task : Take(t, e)) \/ OSSemAcceptISR(e)
          PROVE  Concerns(e, "sem") /\ To(cnt[e] - 1)
      <3>1. /\ IsSem(e) /\ cnt[e] > 0 /\ cnt' = [cnt EXCEPT ![e] = cnt[e] - 1]
            /\ UNCHANGED <<evType, waiting>>
        BY <2>4 DEF Take, OSSemAcceptISR, coreVars
      <3>2. Concerns(e, "sem")
        BY <1>2, <3>1, CallConcerns DEF IsSem
      <3>3. cnt[e] - 1 \in 0 .. MaxCnt
        BY <1>2, <3>1
      <3>4. QED
        BY <3>1, <3>2, <3>3 DEF CountsInv, IsSem
    <2>5. ASSUME NEW t \in Task, NEW ticks \in Nat, OSSemPend(t, e, ticks)
          PROVE  Concerns(e, "sem") /\ To(0)
      <3>1. evType[e] = "sem" /\ cnt[e] = 0 /\ Block(t, e, "sem", ticks) /\ cnt' = cnt
        BY <2>5 DEF OSSemPend, IsSem
      <3>2. Concerns(e, "sem")
        BY <1>2, <3>1, CallConcerns
      <3>3. cnt' = [cnt EXCEPT ![e] = 0]
        BY <1>2, <3>1
      <3>4. QED
        BY <1>2, <3>2, <3>3
    <2>6. ASSUME NEW ts \in SUBSET AppTasks, NEW m, NEW st, IsSem(e),
                 OS_EventTaskRdy(e, ts, m, "sem", st), UNCHANGED <<evType, cnt>>
          PROVE  Concerns(e, "sem") /\ cnt' = cnt /\ waiting'[e] \subseteq waiting[e] /\ evType'[e] = evType[e]
      <3>1. Concerns(e, "sem")
        BY <1>2, <2>6, CallConcerns DEF IsSem
      <3>2. QED
        BY <2>6, <3>1, Now DEF OS_EventTaskRdy
    <2>7. ASSUME PostCounts(e)
          PROVE  Concerns(e, "sem") /\ To(cnt[e] + 1)
      <3>1. /\ IsSem(e) /\ waiting[e] = {} /\ cnt[e] < MaxCnt /\ cnt' = [cnt EXCEPT ![e] = cnt[e] + 1]
            /\ UNCHANGED <<evType, waiting>>
        BY <2>7 DEF PostCounts, coreVars
      <3>2. Concerns(e, "sem")
        BY <1>2, <3>1, CallConcerns DEF IsSem
      <3>3. cnt[e] + 1 \in 0 .. MaxCnt
        BY <1>2, <3>1
      <3>4. QED
        BY <3>1, <3>2, <3>3 DEF IsSem
    <2>8. ASSUME PostWakes(e) \/ \E t \in Task, broadcast \in BOOLEAN : OSSemPendAbort(t, e, broadcast)
          PROVE  Concerns(e, "sem") /\ cnt' = cnt /\ waiting'[e] \subseteq waiting[e] /\ evType'[e] = evType[e]
      BY <2>6, <2>8, ChosenAre DEF PostWakes, OSSemPendAbort, PendAbort
    <2>9. ASSUME NEW n, Concerns(e, "sem"), To(n) PROVE Own
      <3>1. n \in Nat
        BY <1>2, <2>9
      <3> HIDE DEF To
      <3>2. QED
        BY <2>9, <3>1
    <2>10. Concerns(e, "sem") /\ cnt' = cnt /\ waiting'[e] \subseteq waiting[e] /\ evType'[e] = evType[e] => Own
      OBVIOUS
    <2> HIDE DEF To, Own
    <2>11. OSSemPostISR(e) \/ (\E t \in Task : OSSemPost(t, e)) => Own
      BY <2>7, <2>8, <2>9, <2>10 DEF OSSemPost, OSSemPostISR
    <2>12. (\E t \in Task, c \in Counts : OSSemCreate(t, e, c)) => Own
      BY <2>1, <2>9
    <2>13. (\E t \in Task, c \in Counts : OSSemSet(t, e, c)) => Own
      BY <2>2, <2>9
    <2>14. (\E t \in Task, always \in BOOLEAN : OSSemDel(t, e, always)) => Own
      BY <2>3, <2>9
    <2>15. (\E t \in Task : Take(t, e)) \/ OSSemAcceptISR(e) => Own
      BY <2>4, <2>9
    <2>16. (\E t \in Task, ticks \in Nat : OSSemPend(t, e, ticks)) => Own
      BY <2>5, <2>9
    <2>17. (\E t \in Task, broadcast \in BOOLEAN : OSSemPendAbort(t, e, broadcast)) => Own
      BY <2>8, <2>10
    <2>18. QED
      BY <2>11, <2>12, <2>13, <2>14, <2>15, <2>16, <2>17
  <1>4. CountsInv'
    <2>1. CASE cnt' = cnt /\ waiting'[e] \subseteq waiting[e] /\ evType'[e] = evType[e]
      BY <1>3, <2>1 DEF CountsInv, Concerns, Calm, IsSem
    <2>2. ASSUME NEW n \in Nat, To(n) PROVE CountsInv'
      BY <1>2, <1>3, <2>2 DEF CountsInv, Concerns, Calm, IsSem
    <2>3. QED
      BY <1>3, <2>1, <2>2
  <1>5. QED
    BY <1>3, <1>4

LEMMA SemKeeps ==
  ASSUME KernelInv, CountsInv,
         SemISR \/ \E t \in Task : SemCall(t)
  PROVE  (\E e \in Event : Concerns(e, "sem")) /\ CountsInv'
  <1>1. PICK e \in Event :
          \/ \E t \in Task, c \in Counts : OSSemCreate(t, e, c)
          \/ \E t \in Task, c \in Counts : OSSemSet(t, e, c)
          \/ \E t \in Task, always \in BOOLEAN : OSSemDel(t, e, always)
          \/ \E t \in Task : Take(t, e)
          \/ \E t \in Task, ticks \in Nat : OSSemPend(t, e, ticks)
          \/ \E t \in Task, broadcast \in BOOLEAN : OSSemPendAbort(t, e, broadcast)
          \/ \E t \in Task : OSSemPost(t, e)
          \/ OSSemPostISR(e) \/ OSSemAcceptISR(e)
    <2>1. app.events \subseteq Event /\ app.ticks \subseteq Nat
      BY AppIs DEF KernelInv, Settings
    <2>2. ASSUME NEW t \in Task, SemCall(t)
          PROVE  \E e \in Event :
                   \/ \E c \in Counts : OSSemCreate(t, e, c)
                   \/ \E c \in Counts : OSSemSet(t, e, c)
                   \/ \E always \in BOOLEAN : OSSemDel(t, e, always)
                   \/ Take(t, e)
                   \/ \E ticks \in Nat : OSSemPend(t, e, ticks)
                   \/ \E broadcast \in BOOLEAN : OSSemPendAbort(t, e, broadcast)
                   \/ OSSemPost(t, e)
      BY <2>1, <2>2 DEF SemCall
    <2>3. QED
      BY <2>1, <2>2 DEF SemISR
  <1>2. QED
    BY <1>1, SemKeepsCounts

\* The mailboxes.
LEMMA MboxKeepsMail ==
  ASSUME KernelInv, MailInv, NEW e \in Event,
         \/ \E t \in Task, m \in Msg \cup {None} : OSMboxCreate(t, e, m)
         \/ \E t \in Task, always \in BOOLEAN : OSMboxDel(t, e, always)
         \/ \E t \in Task : TakeMail(t, e)
         \/ \E t \in Task, ticks \in Nat : OSMboxPend(t, e, ticks)
         \/ \E t \in Task, broadcast \in BOOLEAN : OSMboxPendAbort(t, e, broadcast)
         \/ \E m \in Msg, broadcast \in BOOLEAN : MboxWakes(e, m, broadcast)
         \/ \E m \in Msg : MboxKeeps(e, m)
  PROVE  Concerns(e, "mbox") /\ MailInv'
  <1> DEFINE To(m) == /\ mail' = [mail EXCEPT ![e] = m] /\ m \in Msg \cup {None}
                      /\ m # None => evType'[e] = "mbox" /\ waiting'[e] = {}
             Own == /\ Concerns(e, "mbox")
                    /\ \/ mail' = mail /\ Calm(e)
                       \/ \E m \in Msg \cup {None} : To(m)
  <1>1. mail \in [Event -> Msg \cup {None}] /\ "mbox" \in Kinds
    BY DEF MailInv, Kinds
  <1>2. ASSUME NEW m \in Msg \cup {None}, Concerns(e, "mbox"), To(m) PROVE Own
    BY <1>2
  <1>3. ASSUME NEW t \in Task, NEW m \in Msg \cup {None}, OSMboxCreate(t, e, m) PROVE Own
    <2>1. EventCreate(t, e, "mbox") /\ mail' = [mail EXCEPT ![e] = m]
      BY <1>3 DEF OSMboxCreate
    <2>2. Concerns(e, "mbox")
      BY <1>1, <2>1, CallConcerns
    <2>3. QED
      BY <1>2, <2>1, <2>2, Now DEF EventCreate
  <1>4. ASSUME NEW t \in Task, NEW always \in BOOLEAN, OSMboxDel(t, e, always) PROVE Own
    <2>1. evType[e] = "mbox" /\ EventDel(t, e, "mbox", always) /\ mail' = [mail EXCEPT ![e] = None]
      BY <1>4 DEF OSMboxDel, IsMbox
    <2>2. Concerns(e, "mbox")
      BY <1>1, <2>1, CallConcerns
    <2>3. QED
      BY <1>2, <2>1, <2>2
  <1>5. ASSUME NEW t \in Task, TakeMail(t, e) PROVE Own
    <2>1. evType[e] = "mbox" /\ mail' = [mail EXCEPT ![e] = None] /\ UNCHANGED <<evType, waiting>>
      BY <1>5 DEF TakeMail, IsMbox, coreVars
    <2>2. Concerns(e, "mbox")
      BY <1>1, <2>1, CallConcerns
    <2>3. QED
      BY <1>2, <2>1, <2>2
  <1>6. ASSUME NEW t \in Task, NEW ticks \in Nat, OSMboxPend(t, e, ticks) PROVE Own
    <2>1. evType[e] = "mbox" /\ mail[e] = None /\ Block(t, e, "mbox", ticks) /\ mail' = mail
      BY <1>6 DEF OSMboxPend, IsMbox
    <2>2. Concerns(e, "mbox") /\ mail' = [mail EXCEPT ![e] = None]
      BY <1>1, <2>1, CallConcerns
    <2>3. QED
      BY <1>2, <2>2
  <1>7. ASSUME NEW ts \in SUBSET AppTasks, NEW m, NEW st, IsMbox(e),
               OS_EventTaskRdy(e, ts, m, "mbox", st), UNCHANGED <<evType, mail>>
        PROVE  Own
    <2>1. Concerns(e, "mbox")
      BY <1>1, <1>7, CallConcerns DEF IsMbox
    <2>2. Calm(e)
      BY <1>7, Now DEF OS_EventTaskRdy, Calm
    <2>3. QED
      BY <1>7, <2>1, <2>2
  <1>8. ASSUME NEW m \in Msg, MboxKeeps(e, m) PROVE Own
    <2>1. /\ evType[e] = "mbox" /\ waiting[e] = {} /\ mail' = [mail EXCEPT ![e] = m]
          /\ UNCHANGED <<evType, waiting>>
      BY <1>8 DEF MboxKeeps, IsMbox, coreVars
    <2>2. Concerns(e, "mbox")
      BY <1>1, <2>1, CallConcerns
    <2>3. QED
      BY <1>2, <2>1, <2>2
  <1>9. Own
    <2> HIDE DEF Own
    <2>1. (\E t \in Task, broadcast \in BOOLEAN : OSMboxPendAbort(t, e, broadcast)) => Own
      BY <1>7, ChosenAre DEF OSMboxPendAbort, PendAbort
    <2>2. (\E m \in Msg, broadcast \in BOOLEAN : MboxWakes(e, m, broadcast)) => Own
      BY <1>7, ChosenAre DEF MboxWakes
    <2>3. QED
      BY <1>3, <1>4, <1>5, <1>6, <1>8, <2>1, <2>2
  <1>10. CASE mail' = mail /\ Calm(e)
    BY <1>9, <1>10 DEF MailInv, Concerns, Calm, IsMbox
  <1>11. ASSUME NEW m \in Msg \cup {None}, To(m) PROVE MailInv'
    BY <1>1, <1>9, <1>11 DEF MailInv, Concerns, Calm, IsMbox
  <1>12. QED
    BY <1>9, <1>10, <1>11

\* A number below twice the size of the ring.
LEMMA Wrap ==
  ASSUME NEW n \in Nat \ {0}, NEW x \in 0 .. 2 * n - 1
  PROVE  (x % n) = IF x < n THEN x ELSE x - n
  <1> DEFINE q == x \div n
             r == x % n
  <1>1. q \in Int /\ r \in 0 .. n - 1 /\ x = n * q + r
    BY SMT
  <1>2. q = 0 \/ q = 1
    <2>1. CASE q >= 2
      <3>1. n * q >= n * 2
        BY <1>1, <2>1, SMT
      <3>2. QED
        BY <1>1, <3>1, SMT
    <2>2. CASE q <= -1
      <3>1. n * q <= -n
        BY <1>1, <2>2, SMT
      <3>2. QED
        BY <1>1, <3>1, SMT
    <2>3. QED
      BY <1>1, <2>1, <2>2
  <1> HIDE DEF q, r
  <1>3. r = IF x < n THEN x ELSE x - n
    <2>1. CASE q = 0
      BY <1>1, <2>1
    <2>2. CASE q = 1
      BY <1>1, <2>2
    <2>3. QED
      BY <1>2, <2>1, <2>2
  <1>4. QED
    BY <1>3 DEF r

\* The place behind n entries that begin at a.
Behind(a, n) == IF a + n < Size THEN a + n ELSE a + n - Size

LEMMA BehindIs ==
  ASSUME NEW a \in 0 .. Size - 1, NEW n \in 0 .. Size
  PROVE  (a + n) % Size = Behind(a, n)
  <1>1. Size \in Nat \ {0} /\ a + n \in 0 .. 2 * Size - 1
    BY QAssumption
  <1> DEFINE x == a + n
  <1>2. ((x % Size) = IF x < Size THEN x ELSE x - Size)
    <2>1. Size \in Nat \ {0} /\ x \in 0 .. 2 * Size - 1
      BY <1>1
    <2> HIDE DEF x
    <2>2. QED
      BY <2>1, Wrap
  <1>3. Behind(a, n) = IF x < Size THEN x ELSE x - Size
    BY <1>1 DEF Behind, x
  <1> HIDE DEF x
  <1>4. x % Size = Behind(a, n)
    BY <1>2, <1>3
  <1>5. QED
    BY <1>4 DEF x

\* The ends of a ring as OSQPost, OSQPostFront and OSQAccept move them.
Moves(a, n) ==
  /\ Next1(a) \in 0 .. Size - 1 /\ Prev1(a) \in 0 .. Size - 1
  /\ n < Size => Behind(a, n + 1) = Next1(Behind(a, n)) /\ Behind(Prev1(a), n + 1) = Behind(a, n)
  /\ n > 0 => Behind(Next1(a), n - 1) = Behind(a, n)

LEMMA RingMoves ==
  ASSUME NEW a \in 0 .. Size - 1, NEW n \in 0 .. Size
  PROVE  Moves(a, n)
  <1> Size \in Nat \ {0}
    BY QAssumption
  <1>1. Next1(a) \in 0 .. Size - 1 /\ Prev1(a) \in 0 .. Size - 1
    BY DEF Next1, Prev1
  <1>2. n < Size => Behind(a, n + 1) = Next1(Behind(a, n)) /\ Behind(Prev1(a), n + 1) = Behind(a, n)
    BY DEF Next1, Prev1, Behind
  <1>3. n > 0 => Behind(Next1(a), n - 1) = Behind(a, n)
    BY DEF Next1, Behind
  <1>4. QED
    BY <1>1, <1>2, <1>3 DEF Moves

\* The queues.
LEMMA QKeepsRing ==
  ASSUME KernelInv, RingInv, NEW e \in Event,
         \/ \E t \in Task : OSQCreate(t, e) \/ OSQFlush(t, e)
         \/ \E t \in Task, always \in BOOLEAN : OSQDel(t, e, always)
         \/ \E t \in Task : TakeMsg(t, e)
         \/ \E t \in Task, ticks \in Nat : OSQPend(t, e, ticks)
         \/ \E t \in Task, broadcast \in BOOLEAN : OSQPendAbort(t, e, broadcast)
         \/ \E m \in Msg, broadcast \in BOOLEAN : QWakes(e, m, broadcast)
         \/ \E m \in Msg : AtEnd(e, m) \/ AtFront(e, m)
  PROVE  Concerns(e, "q") /\ RingInv'
  <1> DEFINE To(i, o, n) ==
               /\ qIn' = [qIn EXCEPT ![e] = i] /\ qOut' = [qOut EXCEPT ![e] = o]
               /\ entries' = [entries EXCEPT ![e] = n]
               /\ i \in 0 .. Size - 1 /\ o \in 0 .. Size - 1 /\ n \in 0 .. Size
               /\ evType'[e] = "q" => i = Behind(o, n) /\ (n > 0 => waiting'[e] = {})
             Typed == ring' \in [Event -> [0 .. Size - 1 -> Msg \cup {None}]]
             Own == /\ Concerns(e, "q") /\ Typed
                    /\ \/ UNCHANGED <<qIn, qOut, entries>> /\ Calm(e)
                       \/ \E i \in 0 .. Size - 1, o \in 0 .. Size - 1, n \in 0 .. Size : To(i, o, n)
  <1>1. /\ ring \in [Event -> [0 .. Size - 1 -> Msg \cup {None}]]
        /\ qIn[e] \in 0 .. Size - 1 /\ qOut[e] \in 0 .. Size - 1 /\ entries[e] \in 0 .. Size
        /\ "q" \in Kinds /\ Size \in Nat \ {0}
    BY QAssumption DEF RingInv, Kinds
  <1>2. ASSUME NEW i, NEW o, NEW n, Concerns(e, "q"), Typed, To(i, o, n) PROVE Own
    <2>1. i \in 0 .. Size - 1 /\ o \in 0 .. Size - 1 /\ n \in 0 .. Size
      BY <1>2
    <2> HIDE DEF To
    <2>2. QED
      BY <1>2, <2>1
  <1>3. IsQ(e) => qIn[e] = Behind(qOut[e], entries[e])
    <2>1. IsQ(e) => (qOut[e] + entries[e]) % Size = qIn[e]
      BY DEF RingInv
    <2>2. (qOut[e] + entries[e]) % Size = Behind(qOut[e], entries[e])
      BY <1>1, BehindIs
    <2>3. QED
      BY <2>1, <2>2
  <1>4. Behind(0, 0) = 0 /\ Next1(qIn[e]) \in 0 .. Size - 1
    BY <1>1 DEF Behind, Next1
  <1>moves. Moves(qOut[e], entries[e])
    BY <1>1, RingMoves
  <1>5. ASSUME NEW t \in Task, OSQCreate(t, e) \/ OSQFlush(t, e) PROVE Own
    <2>1. /\ EventCreate(t, e, "q") \/ (evType[e] = "q" /\ UNCHANGED <<evType, waiting>>)
          /\ qIn' = [qIn EXCEPT ![e] = 0] /\ qOut' = [qOut EXCEPT ![e] = 0]
          /\ entries' = [entries EXCEPT ![e] = 0] /\ ring' = ring
      BY <1>5 DEF OSQCreate, OSQFlush, IsQ, coreVars
    <2>2. Concerns(e, "q")
      BY <1>1, <2>1, CallConcerns
    <2>3. To(0, 0, 0)
      BY <1>1, <1>4, <2>1
    <2> HIDE DEF To
    <2>4. QED
      BY <1>1, <1>2, <2>1, <2>2, <2>3
  <1>6. ASSUME NEW t \in Task, NEW always \in BOOLEAN, OSQDel(t, e, always) PROVE Own
    <2>1. evType[e] = "q" /\ EventDel(t, e, "q", always) /\ UNCHANGED <<ring, qIn, qOut, entries>>
      BY <1>6 DEF OSQDel, IsQ, qVars
    <2>2. Concerns(e, "q") /\ evType'[e] = "unused"
      BY <1>1, <2>1, CallConcerns, Now DEF EventDel
    <2>3. To(qIn[e], qOut[e], entries[e])
      BY <1>1, <2>1, <2>2 DEF RingInv
    <2> HIDE DEF To
    <2>4. QED
      BY <1>1, <1>2, <2>1, <2>2, <2>3
  <1>7. ASSUME NEW t \in Task, TakeMsg(t, e) PROVE Own
    <2>1. /\ evType[e] = "q" /\ entries[e] > 0 /\ UNCHANGED <<evType, waiting, ring, qIn>>
          /\ qOut' = [qOut EXCEPT ![e] = Next1(qOut[e])]
          /\ entries' = [entries EXCEPT ![e] = entries[e] - 1]
      BY <1>7 DEF TakeMsg, IsQ, coreVars
    <2>2. Concerns(e, "q") /\ waiting'[e] = {}
      BY <1>1, <2>1, CallConcerns DEF RingInv, IsQ
    <2>3. /\ Next1(qOut[e]) \in 0 .. Size - 1 /\ entries[e] - 1 \in 0 .. Size
          /\ Behind(Next1(qOut[e]), entries[e] - 1) = qIn[e]
      BY <1>1, <1>3, <1>4, <1>moves, <2>1 DEF IsQ, Moves
    <2>4. qIn' = [qIn EXCEPT ![e] = qIn[e]]
      BY <2>1 DEF RingInv
    <2>5. To(qIn[e], Next1(qOut[e]), entries[e] - 1)
      BY <1>1, <2>1, <2>2, <2>3, <2>4
    <2> HIDE DEF To
    <2>6. QED
      BY <1>1, <1>2, <2>1, <2>2, <2>5
  <1>8. ASSUME NEW t \in Task, NEW ticks \in Nat, OSQPend(t, e, ticks) PROVE Own
    <2>1. /\ evType[e] = "q" /\ entries[e] = 0 /\ Block(t, e, "q", ticks)
          /\ UNCHANGED <<evType, ring, qIn, qOut, entries>>
      BY <1>8 DEF OSQPend, IsQ, qVars
    <2>2. Concerns(e, "q")
      BY <1>1, <2>1, CallConcerns
    <2>3. To(qIn[e], qOut[e], entries[e])
      BY <1>1, <1>3, <2>1 DEF RingInv, IsQ
    <2> HIDE DEF To
    <2>4. QED
      BY <1>1, <1>2, <2>1, <2>2, <2>3
  <1>9. ASSUME NEW ts \in SUBSET AppTasks, NEW m, NEW st, IsQ(e),
               OS_EventTaskRdy(e, ts, m, "q", st), UNCHANGED <<evType, qVars>>
        PROVE  Own
    <2>1. Concerns(e, "q")
      BY <1>1, <1>9, CallConcerns DEF IsQ
    <2>2. Calm(e)
      BY <1>9, Now DEF OS_EventTaskRdy, Calm
    <2>3. QED
      BY <1>1, <1>9, <2>1, <2>2 DEF qVars
  <1>10. ASSUME NEW m \in Msg, AtEnd(e, m) PROVE Own
    <2>1. /\ evType[e] = "q" /\ waiting[e] = {} /\ entries[e] < Size /\ UNCHANGED <<evType, waiting, qOut>>
          /\ ring' = [ring EXCEPT ![e][qIn[e]] = m]
          /\ qIn' = [qIn EXCEPT ![e] = Next1(qIn[e])]
          /\ entries' = [entries EXCEPT ![e] = entries[e] + 1]
      BY <1>10 DEF AtEnd, HasRoom, IsQ, coreVars
    <2>2. Concerns(e, "q") /\ Typed
      BY <1>1, <2>1, CallConcerns
    <2>3. /\ Next1(qIn[e]) \in 0 .. Size - 1 /\ entries[e] + 1 \in 0 .. Size
          /\ Behind(qOut[e], entries[e] + 1) = Next1(qIn[e])
      BY <1>1, <1>3, <1>4, <1>moves, <2>1 DEF IsQ, Moves
    <2>4. qOut' = [qOut EXCEPT ![e] = qOut[e]]
      BY <2>1 DEF RingInv
    <2>5. To(Next1(qIn[e]), qOut[e], entries[e] + 1)
      BY <1>1, <2>1, <2>3, <2>4
    <2> HIDE DEF To
    <2>6. QED
      BY <1>2, <2>2, <2>5
  <1>11. ASSUME NEW m \in Msg, AtFront(e, m) PROVE Own
    <2>1. /\ evType[e] = "q" /\ waiting[e] = {} /\ entries[e] < Size /\ UNCHANGED <<evType, waiting, qIn>>
          /\ ring' = [ring EXCEPT ![e][Prev1(qOut[e])] = m]
          /\ qOut' = [qOut EXCEPT ![e] = Prev1(qOut[e])]
          /\ entries' = [entries EXCEPT ![e] = entries[e] + 1]
      BY <1>11 DEF AtFront, HasRoom, IsQ, coreVars
    <2>2. /\ Prev1(qOut[e]) \in 0 .. Size - 1 /\ entries[e] + 1 \in 0 .. Size
          /\ Behind(Prev1(qOut[e]), entries[e] + 1) = qIn[e]
      BY <1>1, <1>3, <1>4, <1>moves, <2>1 DEF IsQ, Moves
    <2>3. Concerns(e, "q") /\ Typed
      BY <1>1, <2>1, <2>2, CallConcerns
    <2>4. qIn' = [qIn EXCEPT ![e] = qIn[e]]
      BY <2>1 DEF RingInv
    <2>5. To(qIn[e], Prev1(qOut[e]), entries[e] + 1)
      BY <1>1, <2>1, <2>2, <2>4
    <2> HIDE DEF To
    <2>6. QED
      BY <1>2, <2>3, <2>5
  <1>12. Own
    <2> HIDE DEF Own
    <2>1. (\E t \in Task, broadcast \in BOOLEAN : OSQPendAbort(t, e, broadcast)) => Own
      BY <1>9, ChosenAre DEF OSQPendAbort, PendAbort
    <2>2. (\E m \in Msg, broadcast \in BOOLEAN : QWakes(e, m, broadcast)) => Own
      BY <1>9, ChosenAre DEF QWakes
    <2>3. QED
      BY <1>5, <1>6, <1>7, <1>8, <1>10, <1>11, <2>1, <2>2
  <1>13. CASE UNCHANGED <<qIn, qOut, entries>> /\ Calm(e)
    BY <1>12, <1>13 DEF RingInv, Concerns, Calm, IsQ
  <1>14. ASSUME NEW i \in 0 .. Size - 1, NEW o \in 0 .. Size - 1, NEW n \in 0 .. Size, To(i, o, n)
         PROVE  RingInv'
    <2>1. evType'[e] = "q" => (o + n) % Size = i /\ (n > 0 => waiting'[e] = {})
      BY <1>14, BehindIs
    <2>2. \A f \in Event \ {e} : qIn'[f] = qIn[f] /\ qOut'[f] = qOut[f] /\ entries'[f] = entries[f]
      BY <1>14 DEF RingInv
    <2>3. qIn'[e] = i /\ qOut'[e] = o /\ entries'[e] = n
      BY <1>14 DEF RingInv
    <2>4. /\ qIn' \in [Event -> 0 .. Size - 1] /\ qOut' \in [Event -> 0 .. Size - 1]
          /\ entries' \in [Event -> 0 .. Size]
      BY <1>14 DEF RingInv
    <2>5. ASSUME NEW f \in Event, evType'[f] = "q"
          PROVE  (qOut'[f] + entries'[f]) % Size = qIn'[f] /\ (entries'[f] > 0 => waiting'[f] = {})
      <3>1. CASE f = e
        BY <2>1, <2>3, <2>5, <3>1
      <3>2. CASE f # e
        BY <1>12, <2>2, <2>5, <3>2 DEF RingInv, Concerns, Calm, IsQ
      <3>3. QED
        BY <3>1, <3>2
    <2>6. QED
      BY <1>12, <2>4, <2>5 DEF RingInv, IsQ
  <1>15. QED
    BY <1>12, <1>13, <1>14

\* What semaphores, mailboxes and queues hold.
HeldInv == CountsInv /\ MailInv /\ RingInv

LEMMA HeldAtStart ==
  ASSUME Init
  PROVE  HeldInv
  <1>1. /\ cnt = [e \in Event |-> 0] /\ mail = [e \in Event |-> None]
        /\ ring = [e \in Event |-> [i \in 0 .. Size - 1 |-> None]]
        /\ qIn = [e \in Event |-> 0] /\ qOut = [e \in Event |-> 0] /\ entries = [e \in Event |-> 0]
        /\ evType = [e \in Event |-> "unused"] /\ waiting = [e \in Event |-> {}]
    BY DEF Init, CoreInit, EventsInit, SemInit, MboxInit, QInit
  <1>2. MaxCnt \in Nat /\ Size \in Nat \ {0}
    BY SemAssumption, QAssumption
  <1>3. CountsInv
    BY <1>1, <1>2 DEF CountsInv
  <1>4. MailInv
    BY <1>1 DEF MailInv
  <1>5. RingInv
    BY <1>1, <1>2 DEF RingInv, IsQ
  <1>6. QED
    BY <1>3, <1>4, <1>5 DEF HeldInv

\* The steps that are about no event.
LEMMA OthersAreCalm ==
  ASSUME KernelInv, Quiet \/ FlagStep \/ TimeStep \/ SchedStep
  PROVE  \A f \in Event : Calm(f)
  <1> waiting \in [Event -> SUBSET Prio]
    BY Now
  <1>1. CASE Quiet \/ FlagStep \/ TimeStep
    <2>1. FlagStep => UNCHANGED <<evType, waiting>>
      BY DEF FlagStep, OSFlagCreate, coreVars, OSFlagPost, Posted, Readies, FlagBlock, OSFlagDel, FlagWake,
         OSFlagPostISR
    <2>2. TimeStep => UNCHANGED <<evType, waiting>>
      BY DEF TimeStep, OSTimeDly, OSTimeDlyResume, OSTaskSuspend, OSTaskResume, OSSchedLock, OSSchedUnlock
    <2>3. QED
      BY <1>1, <2>1, <2>2 DEF Quiet, coreVars, Calm
  <1>2. ASSUME NEW t \in Task, Wake(t) PROVE \A f \in Event : Calm(f)
    <2>1. evType' = evType /\ waiting' = LeaveTimedOut(t) /\ arg[t] \in Event
      BY <1>2 DEF Wake
    <2>2. \A f \in Event : waiting'[f] \subseteq waiting[f]
      BY <2>1 DEF LeaveTimedOut
    <2>3. QED
      BY <2>1, <2>2 DEF Calm
  <1>3. CASE SchedStep
    <2>1. (\E t \in Task : OS_Sched(t)) \/ OSTimeTick => UNCHANGED <<evType, waiting>>
      BY DEF OS_Sched, OSTimeTick
    <2>2. QED
      BY <1>2, <1>3, <2>1 DEF Calm, SchedStep
  <1>4. QED
    BY <1>1, <1>3

\* Every step, by the service that it is of.
LEMMA CasesAre ==
  ASSUME KernelInv, [Next]_vars
  PROVE  \/ \E t \in Task :
              \/ SemCall(t) \/ MboxCall(t) \/ QCall(t) \/ MutexCall(t) \/ FlagCall(t) \/ TimeCall(t)
              \/ KernelWake(t) \/ FlagReturn(t) \/ Sched(t)
         \/ SemISR \/ MsgISR \/ FlagISR \/ Tick \/ UNCHANGED vars
  <1>1. ASSUME NEW t \in Task, MultiReturn(t) PROVE FALSE
    BY <1>1, NoMulti, Runner, CoreAssumption DEF MultiReturn, MultiWake, Pends
  <1>2. QED
    BY <1>1, RulesKept DEF Next, MultiCall, CreateCall, DeleteCall

\* A call of a mutex concerns no other event.
LEMMA MutexConcerns ==
  ASSUME KernelInv, NEW t \in Task, MutexCall(t)
  PROVE  /\ \E e \in Event : Concerns(e, "mutex")
         /\ UNCHANGED <<cnt, mail, qVars>>
  <1>1. \E e \in Event : \E ts \in SUBSET Waiters(e) : MutexStep(e, ts)
    BY MutexKept
  <1>2. QED
    BY <1>1 DEF MutexStep, Concerns, semState, msgState

LEMMA MboxCallKeeps ==
  ASSUME KernelInv, MailInv, NEW t \in Task, MboxCall(t)
  PROVE  (\E e \in Event : Concerns(e, "mbox")) /\ MailInv'
  <1>1. app.events \subseteq Event /\ app.ticks \subseteq Nat /\ app.msgs \subseteq Msg
    BY AppIs DEF KernelInv, Settings
  <1>2. PICK e \in Event :
          \/ \E m \in Msg \cup {None} : OSMboxCreate(t, e, m)
          \/ \E always \in BOOLEAN : OSMboxDel(t, e, always)
          \/ TakeMail(t, e)
          \/ \E ticks \in Nat : OSMboxPend(t, e, ticks)
          \/ \E broadcast \in BOOLEAN : OSMboxPendAbort(t, e, broadcast)
          \/ \E m \in Msg : OSMboxPost(t, e, m)
          \/ \E m \in Msg, broadcast, noSched \in BOOLEAN : OSMboxPostOpt(t, e, m, broadcast, noSched)
    BY <1>1 DEF MboxCall
  <1>3. \A m \in Msg, broadcast, noSched \in BOOLEAN :
          OSMboxPost(t, e, m) \/ OSMboxPostOpt(t, e, m, broadcast, noSched)
          => MboxWakes(e, m, FALSE) \/ MboxWakes(e, m, broadcast) \/ MboxKeeps(e, m)
    BY DEF OSMboxPost, OSMboxPostOpt
  <1>4. Concerns(e, "mbox") /\ MailInv'
    BY <1>2, <1>3, MboxKeepsMail
  <1>5. QED
    BY <1>4

LEMMA QCallKeeps ==
  ASSUME KernelInv, RingInv, NEW t \in Task, QCall(t)
  PROVE  (\E e \in Event : Concerns(e, "q")) /\ RingInv'
  <1>1. app.events \subseteq Event /\ app.ticks \subseteq Nat /\ app.msgs \subseteq Msg
    BY AppIs DEF KernelInv, Settings
  <1>2. PICK e \in app.events :
          \/ OSQCreate(t, e)
          \/ OSQFlush(t, e)
          \/ \E always \in BOOLEAN : OSQDel(t, e, always)
          \/ TakeMsg(t, e)
          \/ \E ticks \in app.ticks : OSQPend(t, e, ticks)
          \/ \E broadcast \in BOOLEAN : OSQPendAbort(t, e, broadcast)
          \/ \E m \in app.msgs : OSQPost(t, e, m) \/ OSQPostFront(t, e, m)
          \/ \E m \in app.msgs, front, broadcast, noSched \in BOOLEAN :
               (Rule("posts schedule") => ~noSched) /\ OSQPostOpt(t, e, m, front, broadcast, noSched)
    BY DEF QCall
  <1>3. \A m \in app.msgs, front, broadcast, noSched \in BOOLEAN :
          OSQPost(t, e, m) \/ OSQPostFront(t, e, m) \/ OSQPostOpt(t, e, m, front, broadcast, noSched)
          => QWakes(e, m, FALSE) \/ QWakes(e, m, broadcast) \/ AtEnd(e, m) \/ AtFront(e, m)
    BY DEF OSQPost, OSQPostFront, OSQPostOpt
  <1>4. Concerns(e, "q") /\ RingInv'
    BY <1>1, <1>2, <1>3, QKeepsRing
  <1>5. QED
    BY <1>1, <1>4

LEMMA MsgISRKeeps ==
  ASSUME KernelInv, HeldInv, MsgISR
  PROVE  HeldInv' /\ \E e \in Event, kind \in {"mbox", "q"} : Concerns(e, kind)
  <1>1. PICK e \in Event, m \in Msg : \/ OSMboxPostISR(e, m) /\ UNCHANGED qVars
                                      \/ OSQPostISR(e, m) /\ UNCHANGED mail
    BY AppIs DEF MsgISR, KernelInv, Settings
  <1>2. UNCHANGED cnt
    BY DEF MsgISR, semState
  <1>3. CASE OSMboxPostISR(e, m) /\ UNCHANGED qVars
    <2>1. Concerns(e, "mbox") /\ MailInv'
      BY <1>3, MboxKeepsMail DEF OSMboxPostISR, HeldInv
    <2>2. CountsInv' /\ RingInv'
      BY <1>2, <1>3, <2>1, CountsStay, RingStays DEF HeldInv
    <2>3. QED
      BY <2>1, <2>2 DEF HeldInv
  <1>4. CASE OSQPostISR(e, m) /\ UNCHANGED mail
    <2>1. Concerns(e, "q") /\ RingInv'
      BY <1>4, QKeepsRing DEF OSQPostISR, HeldInv
    <2>2. CountsInv' /\ MailInv'
      BY <1>2, <1>4, <2>1, CountsStay, MailStays DEF HeldInv
    <2>3. QED
      BY <2>1, <2>2 DEF HeldInv
  <1>5. QED
    BY <1>1, <1>3, <1>4

LEMMA HeldKept ==
  ASSUME KernelInv, HeldInv, [Next]_vars
  PROVE  HeldInv'
  <1>3. CASE SemISR \/ \E t \in Task : SemCall(t)
    <2>1. (\E e \in Event : Concerns(e, "sem")) /\ CountsInv'
      BY <1>3, SemKeeps DEF HeldInv
    <2>2. UNCHANGED <<mail, qVars>>
      BY <1>3 DEF SemISR, SemCall, msgState
    <2>3. MailInv' /\ RingInv'
      BY <2>1, <2>2, MailStays, RingStays DEF HeldInv
    <2>4. QED
      BY <2>1, <2>3 DEF HeldInv
  <1>4. CASE \E t \in Task : MboxCall(t)
    <2>1. (\E e \in Event : Concerns(e, "mbox")) /\ MailInv'
      BY <1>4, MboxCallKeeps DEF HeldInv
    <2>2. UNCHANGED <<cnt, qVars>>
      BY <1>4 DEF MboxCall, semState
    <2>3. CountsInv' /\ RingInv'
      BY <2>1, <2>2, CountsStay, RingStays DEF HeldInv
    <2>4. QED
      BY <2>1, <2>3 DEF HeldInv
  <1>5. CASE \E t \in Task : QCall(t)
    <2>1. (\E e \in Event : Concerns(e, "q")) /\ RingInv'
      BY <1>5, QCallKeeps DEF HeldInv
    <2>2. UNCHANGED <<cnt, mail>>
      BY <1>5 DEF QCall, semState
    <2>3. CountsInv' /\ MailInv'
      BY <2>1, <2>2, CountsStay, MailStays DEF HeldInv
    <2>4. QED
      BY <2>1, <2>3 DEF HeldInv
  <1>6. CASE MsgISR
    BY <1>6, MsgISRKeeps
  <1>7. CASE \/ \E t \in Task : FlagCall(t) \/ TimeCall(t) \/ KernelWake(t) \/ FlagReturn(t) \/ Sched(t)
             \/ FlagISR \/ Tick \/ UNCHANGED vars
    <2>1. Quiet \/ FlagStep \/ TimeStep \/ SchedStep
      <3>1. (\E t \in Task : FlagCall(t) \/ FlagReturn(t)) \/ FlagISR => Quiet \/ FlagStep
        BY FlagSteps
      <3>2. (\E t \in Task : TimeCall(t)) => TimeStep
        BY TimeSteps
      <3>3. (\E t \in Task : KernelWake(t) \/ Sched(t)) \/ Tick => SchedStep
        BY DEF KernelWake, Sched, Tick, SchedStep, Listed, flagVars
      <3>4. UNCHANGED vars => Quiet
        BY DEF vars, Quiet, coreVars, flagVars
      <3>5. QED
        BY <1>7, <3>1, <3>2, <3>3, <3>4
    <2>2. \A f \in Event : Calm(f)
      BY <2>1, OthersAreCalm
    <2>3. UNCHANGED <<cnt, mail, qVars>>
      BY <1>7 DEF FlagCall, TimeCall, KernelWake, FlagReturn, Sched, FlagISR, Tick, vars, semState, msgState
    <2>4. QED
      BY <2>2, <2>3, CountsStay, MailStays, RingStays DEF HeldInv
  <1>8. CASE \E t \in Task : MutexCall(t)
    BY <1>8, MutexConcerns, CountsStay, MailStays, RingStays DEF HeldInv
  <1>9. QED
    BY CasesAre, <1>3, <1>4, <1>5, <1>6, <1>7, <1>8

\* The flags of the groups, and those that a post has given to each task.
FlagsTyped == flags \in [Group -> SUBSET Flag] /\ flagsRdy \in [Task -> SUBSET Flag]

\* Nobody waits for flags that are there.
NoneSatisfied == \A g \in Group : \A t \in nodes[g] : ~Holds(arg[t], flags[g])

\* A task that a post has chosen has enough of the flags.
Served ==
  Rule("waiters kept") => \A t \in AppTasks : HasFlags(t) => Enough(arg[t], flagsRdy[t])

\* Requests of the application that take no flags away that another of them
\* waits for: none of them consumes, or all wait for flags to be set, or all
\* for flags to be clear.
OneSense == \/ \A r \in app.waits : ~r.consume
            \/ \E set \in BOOLEAN : \A r \in app.waits : r.set = set

\* What a task asks for.
LEMMA Requests ==
  ASSUME NEW r \in Request
  PROVE  /\ r.grp \in Group /\ r.want \in SUBSET Flag /\ r.all \in BOOLEAN
         /\ r.set \in BOOLEAN /\ r.consume \in BOOLEAN
  BY DEF Request

\* A request that does not hold does not hold with fewer of its flags.
LEMMA FewerHold ==
  ASSUME NEW r \in Request, NEW fs \in SUBSET Flag, NEW less \in SUBSET Flag,
         Present(r, less) \subseteq Present(r, fs), Holds(r, less)
  PROVE  Holds(r, fs)
  <1>1. Present(r, fs) \subseteq r.want
    BY Requests DEF Present
  <1>2. CASE r.all
    <2>1. Present(r, less) = r.want
      BY <1>2 DEF Holds, Enough
    <2>2. Present(r, fs) = r.want
      BY <1>1, <2>1
    <2>3. QED
      BY <1>2, <2>2 DEF Holds, Enough
  <1>3. CASE ~r.all
    BY <1>3 DEF Holds, Enough
  <1>4. QED
    BY <1>2, <1>3

\* What a request takes does not make another one hold.
LEMMA TakingHelpsNobody ==
  ASSUME KernelInv, OneSense, NEW r \in app.waits, NEW q \in app.waits,
         NEW got \in SUBSET Flag, NEW fs \in SUBSET Flag
  PROVE  Consumed(r, got, fs) \in SUBSET Flag /\ (Holds(q, Consumed(r, got, fs)) => Holds(q, fs))
  <1>1. r \in Request /\ q \in Request
    BY AppIs DEF KernelInv, Settings
  <1>2. r.set \in BOOLEAN /\ q.set \in BOOLEAN /\ r.consume \in BOOLEAN
    BY <1>1, Requests
  <1>3. ~r.consume \/ r.set = q.set
    BY DEF OneSense
  <1>4. Consumed(r, got, fs) \in SUBSET Flag
    BY DEF Consumed
  <1>5. Present(q, Consumed(r, got, fs)) \subseteq Present(q, fs)
    BY <1>2, <1>3 DEF Consumed, Present
  <1>6. QED
    BY <1>1, <1>4, <1>5, FewerHold

\* What OS_FlagTaskRdy does about flags, for a post and for a deletion.
LEMMA ReadyServes ==
  ASSUME KernelInv, FlagsTyped, Served, app' = app, NEW g \in Group, NEW ts \in SUBSET nodes[g], NEW got,
         OS_FlagTaskRdy(g, ts, got), arg' = arg,
         \A t \in ts : got[t] \in SUBSET Flag /\ (Rule("waiters kept") => Enough(arg[t], got[t])),
         pc' = pc \/ \E t \in AppTasks : pc[t] = "user" /\ pc' = [pc EXCEPT ![t] = "yield"]
  PROVE  flagsRdy' \in [Task -> SUBSET Flag] /\ Served'
  <1>1. flagsRdy' = [t \in Task |-> IF t \in ts THEN got[t] ELSE flagsRdy[t]]
    BY DEF OS_FlagTaskRdy, Given
  <1>2. AppTasks' = AppTasks /\ AppTasks \subseteq Task
    BY Now DEF AppTasks
  <1>3. FlagReadiedAs(g, ts)
    BY FlagReadied
  <1>4. flagsRdy' \in [Task -> SUBSET Flag]
    BY <1>1 DEF FlagsTyped
  <1>5. Served'
    <2> SUFFICES ASSUME Rule("waiters kept"), NEW t \in AppTasks, HasFlags(t)'
                 PROVE  Enough(arg[t], flagsRdy'[t])
      BY <1>2 DEF Served, Rule
    <2>1. Pends(t)
      BY TaskGoes DEF HasFlags, Pends
    <2>2. CASE t \in ts
      BY <1>1, <1>2, <2>2
    <2>3. CASE t \notin ts
      <3>1. tcb'[t] = tcb[t] /\ flagsRdy'[t] = flagsRdy[t]
        BY <1>1, <1>2, <1>3, <2>3 DEF FlagReadiedAs
      <3>2. HasFlags(t)
        BY <2>1, <3>1 DEF HasFlags
      <3>3. QED
        BY <3>1, <3>2 DEF Served
    <2>4. QED
      BY <2>2, <2>3
  <1>6. QED
    BY <1>4, <1>5

\* A post.
LEMMA PostedServes ==
  ASSUME KernelInv, FlagsTyped, Served, NEW g \in Group, NEW fs \in SUBSET Flag, Posted(g, fs), app' = app,
         pc' = pc \/ \E t \in AppTasks : pc[t] = "user" /\ pc' = [pc EXCEPT ![t] = "yield"]
  PROVE  FlagsTyped' /\ Served' /\ (NoneSatisfied => NoneSatisfied')
  <1> DEFINE ts == Satisfied(g, fs)
             got == [t \in ts |-> Present(arg[t], fs)]
  <1>1. flags' = [flags EXCEPT ![g] = fs] /\ OS_FlagTaskRdy(g, ts, got) /\ arg' = arg
    BY DEF Posted, Readies
  <1>2. ts \in SUBSET nodes[g]
    BY DEF Satisfied
  <1>3. \A t \in ts : got[t] \in SUBSET Flag /\ Enough(arg[t], got[t])
    <2> SUFFICES ASSUME NEW t \in ts PROVE got[t] \in SUBSET Flag /\ Enough(arg[t], got[t])
      OBVIOUS
    <2>1. arg[t] \in Request
      BY <1>2, InGroup
    <2>2. got[t] = Present(arg[t], fs)
      OBVIOUS
    <2>3. Present(arg[t], fs) \in SUBSET Flag
      BY <2>1, Requests DEF Present
    <2>4. Holds(arg[t], fs)
      BY DEF Satisfied
    <2>5. QED
      BY <2>2, <2>3, <2>4 DEF Holds
  <1> HIDE DEF ts, got
  <1>4. flagsRdy' \in [Task -> SUBSET Flag] /\ Served'
    BY <1>1, <1>2, <1>3, ReadyServes
  <1>5. ASSUME NoneSatisfied PROVE NoneSatisfied'
    <2>1. FlagReadiedAs(g, ts)
      BY <1>1, <1>2, FlagReadied
    <2> SUFFICES ASSUME NEW f \in Group, NEW t \in nodes'[f] PROVE ~Holds(arg[t], flags'[f])
      BY <1>1 DEF NoneSatisfied
    <2>2. t \in nodes[f] /\ (f = g => t \notin ts)
      BY <2>1 DEF FlagReadiedAs
    <2>3. CASE f = g
      BY <1>1, <2>2, <2>3 DEF FlagsTyped, ts, Satisfied
    <2>4. CASE f # g
      BY <1>1, <1>5, <2>2, <2>4 DEF FlagsTyped, NoneSatisfied
    <2>5. QED
      BY <2>3, <2>4
  <1>6. QED
    BY <1>1, <1>4, <1>5 DEF FlagsTyped

\* A step that chooses nobody.
LEMMA ServedStays ==
  ASSUME Served, app' = app, \A u \in AppTasks : FlagsSame(u),
         \A u \in AppTasks : Pends(u)' => flagsRdy'[u] = flagsRdy[u]
  PROVE  Served'
  <1>1. AppTasks' = AppTasks
    BY DEF AppTasks
  <1>2. ASSUME NEW u \in AppTasks, HasFlags(u)', Rule("waiters kept") PROVE Enough(arg[u], flagsRdy[u])'
    <2>1. HasFlags(u) /\ arg'[u] = arg[u] /\ flagsRdy'[u] = flagsRdy[u]
      BY <1>2 DEF FlagsSame, HasFlags
    <2>2. QED
      BY <1>2, <2>1 DEF Served
  <1>3. QED
    BY <1>1, <1>2 DEF Served, Rule

\* A step that leaves no more flags, in the sense of the requests.
LEMMA NoneStays ==
  ASSUME KernelInv, Kept, NoneSatisfied, \A u \in AppTasks : FlagsSame(u),
         \A f \in Group : nodes'[f] \subseteq nodes[f],
         \A f \in Group : \A q \in app.waits : Holds(q, flags'[f]) => Holds(q, flags[f])
  PROVE  NoneSatisfied'
  <1> SUFFICES ASSUME NEW f \in Group, NEW t \in nodes'[f] PROVE ~Holds(arg'[t], flags'[f])
    BY DEF NoneSatisfied
  <1>1. t \in nodes[f]
    OBVIOUS
  <1>2. t \in AppTasks /\ Pends(t) /\ arg[t] \in app.waits
    BY <1>1, InGroup DEF OnFlags
  <1>3. Pends(t)'
    BY <1>2 DEF Kept, TaskInv, InNoPend
  <1>4. arg'[t] = arg[t]
    BY <1>2, <1>3 DEF FlagsSame
  <1>5. QED
    BY <1>1, <1>2, <1>4 DEF NoneSatisfied

FlagInv == FlagsTyped /\ Served /\ (OneSense => NoneSatisfied)

LEMMA FlagsAtStart ==
  ASSUME Init
  PROVE  FlagInv
  <1>1. /\ flags = [g \in Group |-> {}] /\ nodes = [g \in Group |-> {}] /\ flagsRdy = [t \in Task |-> {}]
        /\ pc = [t \in AllTasks |-> IF t \in DOMAIN app.start \cup {Idle} THEN "user" ELSE "dormant"]
    BY DEF Init, CoreInit, FlagInit
  <1>2. \A t \in AppTasks : ~Pends(t)
    BY <1>1, AppIs DEF Pends, AppTasks, AllTasks, Init
  <1>3. QED
    BY <1>1, <1>2 DEF FlagInv, FlagsTyped, Served, HasFlags, NoneSatisfied

\* A call or a wake-up that takes flags for the request r, and moves no task.
LEMMA TakingHolds ==
  ASSUME KernelInv, FlagInv, app' = app, Kept, \A u \in AppTasks : FlagsSame(u),
         NEW r \in app.waits, NEW got \in SUBSET Flag,
         flags' = [flags EXCEPT ![r.grp] = Consumed(r, got, flags[r.grp])],
         flagsRdy' \in [Task -> SUBSET Flag],
         \A u \in AppTasks : Pends(u)' => flagsRdy'[u] = flagsRdy[u],
         \A f \in Group : nodes'[f] \subseteq nodes[f]
  PROVE  FlagInv'
  <1>1. r \in Request /\ r.grp \in Group /\ flags \in [Group -> SUBSET Flag]
    BY AppIs, Requests DEF KernelInv, Settings, FlagInv, FlagsTyped
  <1>2. Consumed(r, got, flags[r.grp]) \in SUBSET Flag
    BY <1>1 DEF Consumed
  <1>3. FlagsTyped'
    BY <1>1, <1>2 DEF FlagsTyped
  <1>4. Served'
    BY ServedStays DEF FlagInv
  <1>5. ASSUME OneSense PROVE NoneSatisfied'
    <2>1. \A f \in Group : \A q \in app.waits : Holds(q, flags'[f]) => Holds(q, flags[f])
      BY <1>1, <1>5, TakingHelpsNobody
    <2>2. QED
      BY <1>5, <2>1, NoneStays DEF FlagInv
  <1>6. QED
    BY <1>3, <1>4, <1>5 DEF FlagInv, OneSense

LEMMA FlagWaits ==
  ASSUME KernelInv, FlagInv, app' = app, NEW t \in Task, NEW r \in app.waits, NEW ticks \in Nat,
         MayPend(t), OSFlagPend(t, r, ticks)
  PROVE  FlagInv'
  <1> DEFINE got == Present(r, flags[r.grp])
  <1>1. r \in Request /\ r.grp \in Group /\ got \in SUBSET Flag
    BY AppIs, Requests DEF KernelInv, Settings, Present
  <1>2. t \in AppTasks /\ pc[t] = "user"
    BY Runner DEF OSFlagPend, Runs
  <1> HIDE DEF got
  <1>3. CASE Enough(r, got)
    <2>1. /\ flags' = [flags EXCEPT ![r.grp] = Consumed(r, got, flags[r.grp])]
          /\ flagsRdy' = [flagsRdy EXCEPT ![t] = got] /\ UNCHANGED <<coreVars, nodes, inUse>>
      BY <1>3 DEF OSFlagPend, got
    <2>2. Quiet
      BY <2>1 DEF Quiet
    <2>3. Kept /\ \A u \in AppTasks : FlagsSame(u)
      BY <2>2, QuietKeeps DEF AllGo, Goes
    <2>4. flagsRdy' \in [Task -> SUBSET Flag]
      BY <1>1, <2>1 DEF FlagInv, FlagsTyped
    <2>5. \A u \in AppTasks : Pends(u)' => flagsRdy'[u] = flagsRdy[u]
      BY <1>2, <2>1, Now DEF Pends, coreVars, FlagInv, FlagsTyped
    <2>6. \A f \in Group : nodes'[f] \subseteq nodes[f]
      BY <2>1
    <2>7. QED
      BY <1>1, <2>1, <2>3, <2>4, <2>5, <2>6, TakingHolds
  <1>4. CASE ~Enough(r, got)
    <2>1. /\ OS_FlagBlock(t, r, ticks) /\ pc' = [pc EXCEPT ![t] = "block"] /\ arg' = [arg EXCEPT ![t] = r]
          /\ UNCHANGED <<prioTbl, evType, waiting, cur, prioCur, lockNesting, flags, flagsRdy, free, inUse>>
          /\ Runs(t) /\ lockNesting = 0 /\ inUse[r.grp]
      BY <1>4 DEF OSFlagPend, got
    <2>2. Kept /\ \A u \in AppTasks : FlagsSame(u)
      BY <2>1, FlagBlockKeeps, RulesKept DEF FlagBlock, AllGo, Goes
    <2>3. FlagsTyped' /\ Served'
      BY <2>1, <2>2, ServedStays DEF FlagInv, FlagsTyped
    <2>4. ASSUME NoneSatisfied PROVE NoneSatisfied'
      <3> SUFFICES ASSUME NEW f \in Group, NEW u \in nodes'[f] PROVE ~Holds(arg'[u], flags[f])
        BY <2>1 DEF NoneSatisfied
      <3>1. nodes' = [nodes EXCEPT ![r.grp] = nodes[r.grp] \cup {t}]
        BY <2>1 DEF OS_FlagBlock
      <3>2. CASE u = t
        <4>1. u \notin nodes[f]
          BY <1>2, <3>2, InGroup DEF Pends
        <4>2. f = r.grp
          BY <1>1, <3>1, <4>1, Now
        <4>3. arg'[u] = r
          BY <1>2, <2>1, <3>2, Now
        <4>4. QED
          BY <1>4, <4>2, <4>3 DEF Holds, got
      <3>3. CASE u # t
        <4>1. u \in nodes[f]
          BY <1>1, <3>1, <3>3, Now
        <4>2. arg'[u] = arg[u]
          BY <1>2, <2>1, <3>3, Now
        <4>3. QED
          BY <2>4, <4>1, <4>2 DEF NoneSatisfied
      <3>4. QED
        BY <3>2, <3>3
    <2>5. QED
      BY <2>3, <2>4 DEF FlagInv, OneSense
  <1>5. QED
    BY <1>3, <1>4

LEMMA FlagWakeHolds ==
  ASSUME KernelInv, FlagInv, app' = app, NEW t \in Task, FlagWake(t)
  PROVE  FlagInv'
  <1> DEFINE r == arg[t]
  <1>1. t \in AppTasks /\ r \in app.waits /\ r.grp \in Group /\ flagsRdy[t] \in SUBSET Flag
    <2>1. t \in AppTasks /\ r \in Request /\ pc[t] = "wake"
      BY Awake DEF FlagWake
    <2>2. TaskInv(t) /\ r \notin Event
      BY <2>1, Now, RequestAssumption
    <2>3. QED
      BY <2>1, <2>2, Requests DEF TaskInv, Pends, OnEvent, OnFlags, FlagInv, FlagsTyped
  <1>2. Kept /\ \A u \in AppTasks : FlagsSame(u)
    BY FlagWakeKeeps DEF AllGo, Goes
  <1>3. flagsRdy' = flagsRdy
    BY DEF FlagWake
  <1>4. CASE tcb[t].pend = "ok"
    <2>1. flags' = [flags EXCEPT ![r.grp] = Consumed(r, flagsRdy[t], flags[r.grp])] /\ nodes' = nodes
      BY <1>4 DEF FlagWake
    <2>2. QED
      BY <1>1, <1>2, <1>3, <2>1, TakingHolds DEF FlagInv, FlagsTyped
  <1>5. CASE tcb[t].pend # "ok"
    <2>1. flags' = flags /\ nodes' = [nodes EXCEPT ![r.grp] = nodes[r.grp] \ {t}]
      BY <1>5 DEF FlagWake
    <2>2. \A f \in Group : nodes'[f] \subseteq nodes[f]
      BY <1>1, <2>1, Now
    <2>3. NoneSatisfied => NoneSatisfied'
      BY <1>2, <2>1, <2>2, NoneStays
    <2>4. QED
      BY <1>2, <1>3, <2>1, <2>3, ServedStays DEF FlagInv, FlagsTyped, OneSense
  <1>6. QED
    BY <1>4, <1>5

LEMMA FlagPostHolds ==
  ASSUME KernelInv, FlagInv, app' = app, NEW g \in Group, NEW fs \in SUBSET Flag, NEW set \in BOOLEAN,
         OSFlagPostISR(g, fs, set) \/ \E t \in Task : OSFlagPost(t, g, fs, set)
  PROVE  FlagInv'
  <1>1. Changed(g, fs, set) \in SUBSET Flag
    BY DEF Changed, FlagInv, FlagsTyped
  <1>2. /\ Posted(g, Changed(g, fs, set))
        /\ pc' = pc \/ \E t \in Task : Runs(t) /\ pc' = [pc EXCEPT ![t] = "yield"]
    BY DEF OSFlagPostISR, OSFlagPost, Returns, Yields
  <1>3. pc' = pc \/ \E t \in AppTasks : pc[t] = "user" /\ pc' = [pc EXCEPT ![t] = "yield"]
    BY <1>2, Runner DEF Runs
  <1>4. QED
    BY <1>1, <1>2, <1>3, PostedServes DEF FlagInv, OneSense

LEMMA FlagCallHolds ==
  ASSUME KernelInv, FlagInv, NEW t \in Task, FlagCall(t)
  PROVE  FlagInv'
  <1>1. app' = app /\ app.ticks \subseteq Nat
    BY AppIs DEF FlagCall, KernelInv, Settings
  <1>2. ASSUME NEW g \in Group, NEW fs \in SUBSET Flag, OSFlagCreate(t, g, fs) PROVE FlagInv'
    <2>1. /\ UNCHANGED <<coreVars, flagsRdy>> /\ flags' = [flags EXCEPT ![g] = fs]
          /\ nodes' = [nodes EXCEPT ![g] = {}]
      BY <1>2 DEF OSFlagCreate
    <2>2. \A u \in AppTasks : FlagsSame(u)
      BY <1>1, <1>2, FlagCreateKeeps DEF AllGo, Goes
    <2>3. FlagsTyped' /\ Served'
      BY <1>1, <2>1, <2>2, ServedStays DEF FlagInv, FlagsTyped
    <2>4. NoneSatisfied => NoneSatisfied'
      BY <2>1, Now DEF NoneSatisfied, coreVars, FlagInv, FlagsTyped
    <2>5. QED
      BY <1>1, <2>3, <2>4 DEF FlagInv, OneSense
  <1>3. ASSUME NEW r \in app.waits, OSFlagAccept(t, r) PROVE FlagInv'
    <2>1. /\ UNCHANGED <<coreVars, inUse, nodes, flagsRdy>> /\ r \in Request
          /\ flags' = [flags EXCEPT ![r.grp] = Consumed(r, Present(r, flags[r.grp]), flags[r.grp])]
      BY <1>3, AppIs DEF OSFlagAccept, KernelInv, Settings
    <2>2. Kept /\ \A u \in AppTasks : FlagsSame(u)
      BY <1>1, <2>1, QuietKeeps DEF AllGo, Goes, Quiet
    <2>3. Present(r, flags[r.grp]) \in SUBSET Flag /\ flagsRdy' \in [Task -> SUBSET Flag]
      BY <2>1, Requests DEF Present, FlagInv, FlagsTyped
    <2>4. QED
      BY <1>1, <2>1, <2>2, <2>3, TakingHolds
  <1>4. ASSUME NEW g \in Group, NEW always \in BOOLEAN, Rule("waiters kept") => nodes[g] = {},
               OSFlagDel(t, g, always)
        PROVE  FlagInv'
    <2> DEFINE got == [u \in nodes[g] |-> {}]
    <2>1. /\ Runs(t) /\ OS_FlagTaskRdy(g, nodes[g], got) /\ arg' = arg
          /\ pc' = pc \/ pc' = [pc EXCEPT ![t] = "yield"]
          /\ flags' = [flags EXCEPT ![g] = {}]
      BY <1>4 DEF OSFlagDel, Returns, Yields
    <2>2. \A u \in nodes[g] : got[u] \in SUBSET Flag /\ (Rule("waiters kept") => Enough(arg[u], got[u]))
      BY <1>4
    <2> HIDE DEF got
    <2>3. t \in AppTasks /\ pc[t] = "user"
      BY <2>1, Runner DEF Runs
    <2>4. FlagsTyped' /\ Served'
      BY <1>1, <2>1, <2>2, <2>3, ReadyServes DEF FlagInv, FlagsTyped
    <2>5. NoneSatisfied => NoneSatisfied'
      <3>1. nodes' = [nodes EXCEPT ![g] = nodes[g] \ nodes[g]]
        BY <2>1 DEF OS_FlagTaskRdy
      <3>2. \A f \in Group : nodes'[f] # {} => f # g /\ nodes'[f] = nodes[f] /\ flags'[f] = flags[f]
        BY <2>1, <3>1, Now DEF FlagInv, FlagsTyped
      <3>3. QED
        BY <2>1, <3>2 DEF NoneSatisfied
    <2>6. QED
      BY <1>1, <2>4, <2>5 DEF FlagInv, OneSense
  <1>5. QED
    BY <1>1, <1>2, <1>3, <1>4, FlagWaits, FlagPostHolds DEF FlagCall

\* The steps that are not about flags.
LEMMA OthersServe ==
  ASSUME KernelInv, FlagInv, app' = app, UNCHANGED flagVars, Quiet \/ EventStep \/ TimeStep \/ SchedStep
  PROVE  FlagInv'
  <1>1. Kept
    BY StepKeeps DEF KernelStep
  <1>2. \A u \in AppTasks : FlagsSame(u)
    <2>1. EventStep => \A u \in AppTasks : FlagsSame(u)
      BY CreateKeeps, DeleteKeeps, BlockKeeps, AnswerKeeps DEF EventStep, AllGo, Goes, Answers
    <2>2. SchedStep => \A u \in AppTasks : FlagsSame(u)
      BY SchedKeeps, WakeKeeps, TickKeeps DEF SchedStep, AllGo, Goes
    <2>3. Quiet \/ TimeStep => \A u \in AppTasks : FlagsSame(u)
      BY QuietKeeps, TimeStepKeeps DEF AllGo, Goes
    <2>4. QED
      BY <2>1, <2>2, <2>3
  <1>3. Served'
    BY <1>2, ServedStays DEF FlagInv, flagVars
  <1>4. NoneSatisfied => NoneSatisfied'
    BY <1>1, <1>2, NoneStays DEF flagVars
  <1>5. QED
    BY <1>3, <1>4 DEF FlagInv, FlagsTyped, OneSense, flagVars

\* The calls of the mutexes.
LEMMA MutexServes ==
  ASSUME KernelInv, FlagInv, NEW t \in Task, MutexCall(t)
  PROVE  FlagInv'
  <1>1. PICK e \in Event : \E ts \in SUBSET Waiters(e) : MutexStep(e, ts)
    BY MutexKept
  <1>2. /\ app' = app /\ UNCHANGED flagVars /\ \A u \in AppTasks : FlagsSame(u)
        /\ \A u \in AppTasks : Pends(u) => Pends(u)' /\ arg'[u] = arg[u]
    BY <1>1 DEF MutexStep, Answers
  <1>3. Served'
    BY <1>2, ServedStays DEF FlagInv, flagVars
  <1>4. ASSUME NoneSatisfied PROVE NoneSatisfied'
    <2>1. \A f \in Group : \A u \in nodes[f] : u \in AppTasks /\ Pends(u)
      BY InGroup
    <2>2. \A f \in Group : \A u \in nodes[f] : arg'[u] = arg[u]
      BY <1>2, <2>1
    <2>3. QED
      BY <1>2, <1>4, <2>2 DEF NoneSatisfied, flagVars
  <1>5. QED
    BY <1>2, <1>3, <1>4 DEF FlagInv, FlagsTyped, OneSense, flagVars

LEMMA FlagKept ==
  ASSUME KernelInv, FlagInv, [Next]_vars
  PROVE  FlagInv'
  <1>3. CASE \/ \E t \in Task : SemCall(t) \/ MboxCall(t) \/ QCall(t) \/ TimeCall(t) \/ KernelWake(t) \/ Sched(t)
             \/ SemISR \/ MsgISR \/ Tick \/ UNCHANGED vars
    <2>1. app' = app /\ UNCHANGED flagVars
      BY <1>3 DEF SemCall, MboxCall, QCall, TimeCall, KernelWake, Sched, SemISR, MsgISR, Tick, vars
    <2>2. Quiet \/ EventStep \/ TimeStep \/ SchedStep
      <3>1. (\E t \in Task : SemCall(t) \/ MboxCall(t) \/ QCall(t)) \/ SemISR \/ MsgISR => Quiet \/ EventStep
        BY SemSteps, MboxSteps, QSteps, SemISRSteps, MsgISRSteps, SilentIs
      <3>2. (\E t \in Task : TimeCall(t)) => TimeStep
        BY TimeSteps
      <3>3. (\E t \in Task : KernelWake(t) \/ Sched(t)) \/ Tick => SchedStep
        BY DEF KernelWake, Sched, Tick, SchedStep, Listed, flagVars
      <3>4. UNCHANGED vars => Quiet
        BY DEF vars, Quiet, coreVars, flagVars
      <3>5. QED
        BY <1>3, <3>1, <3>2, <3>3, <3>4
    <2>3. QED
      BY <2>1, <2>2, OthersServe
  <1>4. CASE FlagISR \/ \E t \in Task : FlagCall(t) \/ FlagReturn(t)
    BY <1>4, FlagCallHolds, FlagPostHolds, FlagWakeHolds DEF FlagISR, FlagReturn
  <1>5. CASE \E t \in Task : MutexCall(t)
    BY <1>5, MutexServes
  <1>6. QED
    BY CasesAre, <1>3, <1>4, <1>5

\* What the services hold agrees with who waits.
LEMMA ServicesHold == Spec /\ Disciplined => [](KernelInv /\ HeldInv /\ FlagInv)
  <1>1. Init /\ Disciplined => KernelInv /\ HeldInv /\ FlagInv
    BY KernelStart, HeldAtStart, FlagsAtStart
  <1>2. KernelInv /\ HeldInv /\ FlagInv /\ [Next]_vars => (KernelInv /\ HeldInv /\ FlagInv)'
    BY KernelKept, HeldKept, FlagKept
  <1>3. QED
    BY <1>1, <1>2, PTL DEF Spec

\* Nobody waits for a unit, a message, a mutex or flags that are there: no
\* post falls between the look at the count, the mailbox, the queue, the owner
\* or the flags and the entry in the wait list.  Flags that one request takes must not be those that
\* another one waits for to be set the other way.
THEOREM NothingIsMissed ==
  Spec /\ Disciplined /\ OneSense => []NothingMissed
  <1>1. KernelInv /\ HeldInv /\ FlagInv /\ OneSense => NothingMissed
    <2> SUFFICES ASSUME KernelInv, HeldInv, FlagInv, OneSense PROVE NothingMissed
      OBVIOUS
    <2>1. ASSUME NEW e \in Event, cnt[e] > 0 PROVE waiting[e] = {}
      BY <2>1 DEF HeldInv, CountsInv
    <2>2. ASSUME NEW e \in Event, Contents(e) # <<>> PROVE waiting[e] = {}
      <3>1. CASE IsMbox(e)
        <4>1. Contents(e) = IF mail[e] = None THEN <<>> ELSE <<mail[e]>>
          BY <3>1 DEF Contents, IsMbox, IsQ
        <4>2. mail[e] # None
          BY <2>2, <4>1
        <4>3. QED
          BY <4>2 DEF HeldInv, MailInv
      <3>2. CASE IsQ(e)
        <4>1. Contents(e) = [i \in 1 .. entries[e] |-> ring[e][(qOut[e] + i - 1) % Size]]
          BY <3>2 DEF Contents, IsMbox, IsQ
        <4>2. entries[e] \in Nat
          BY QAssumption DEF HeldInv, RingInv
        <4>3. entries[e] # 0
          <5>1. SUFFICES ASSUME entries[e] = 0 PROVE FALSE
            OBVIOUS
          <5>2. Contents(e) \in Seq(Msg \cup {None}) /\ Len(Contents(e)) = 0
            BY <4>1, <5>1
          <5>3. Len(Contents(e)) \in Nat \ {0}
            <6>1. \A seq \in Seq(Msg \cup {None}) : seq # <<>> => Len(seq) \in Nat \ {0}
              BY EmptySeq, Zenon
            <6>2. QED
              BY <2>2, <5>2, <6>1, Zenon
          <5>4. QED
            BY <5>2, <5>3
        <4>4. entries[e] > 0
          BY <4>2, <4>3
        <4>5. QED
          BY <3>2, <4>4, Zenon DEF HeldInv, RingInv
      <3>3. IsMbox(e) \/ IsQ(e)
        <4>1. ~IsMbox(e) /\ ~IsQ(e) => Contents(e) = <<>>
          BY Zenon DEF Contents
        <4>2. QED
          BY <2>2, <4>1, Zenon
      <3>4. QED
        BY <3>1, <3>2, <3>3
    <2>3. ASSUME NEW e \in Event, IsMutex(e), owner[e] = None PROVE waiting[e] = {}
      BY <2>3 DEF KernelInv, MutexInv, Owners, Owned
    <2>4. \A g \in Group : Satisfied(g, flags[g]) = {}
      BY DEF FlagInv, NoneSatisfied, Satisfied
    <2>5. QED
      BY <2>1, <2>2, <2>3, <2>4 DEF NothingMissed
  <1>2. KernelInv /\ OneSense /\ [Next]_vars => OneSense'
    <2>1. KernelInv /\ [Next]_vars => app' = app
      BY StepsAre, MutexKept DEF PlainStep, MutexStep
    <2>2. QED
      BY <2>1 DEF OneSense
  <1>3. QED
    BY <1>1, <1>2, ServicesHold, PTL DEF Spec

-----------------------------------------------------------------------------
\* What posts have granted.

LEMMA TasksAreFinite ==
  ASSUME KernelInv
  PROVE  IsFiniteSet(AppTasks)
  <1> DEFINE f == [t \in AppTasks |-> tcb[t].prio]
  <1>1. f \in Injection(AppTasks, 0 .. LowestPrio)
    BY OwnPriority DEF Injection, IsInjective, Prio
  <1>2. IsFiniteSet(0 .. LowestPrio)
    BY FS_Interval, CoreAssumption
  <1> HIDE DEF f
  <1>3. QED
    BY <1>1, <1>2, FS_Injection

\* The tasks that have been granted the event, and have not run yet.
Holders(e) == {t \in AppTasks : HasGrant(t, e)}

LEMMA HoldersAre ==
  ASSUME KernelInv, NEW e \in Event
  PROVE  Granted(e) = Holders(e) /\ Cardinality(Holders(e)) \in Nat /\ IsFiniteSet(Holders(e))
  <1>1. IsFiniteSet(AppTasks) /\ Holders(e) \in SUBSET AppTasks
    BY TasksAreFinite DEF Holders
  <1>2. IsFiniteSet(Holders(e))
    BY <1>1, FS_Subset
  <1>3. Cardinality(Holders(e)) \in Nat
    BY <1>2, FS_CardinalityType
  <1>4. QED
    BY <1>2, <1>3, AliveAre DEF Granted, Holders, HasGrant

\* A step that leaves the event, its wait list and the TCBs of whoever waits
\* for something else alone grants nobody the event.
LEMMA GrantsStay ==
  ASSUME KernelInv, app' = app, EventStep, NEW f \in Event,
         evType'[f] = evType[f] /\ waiting'[f] = waiting[f]
  PROVE  Holders(f)' = Holders(f)
  <1>1. AppTasks' = AppTasks
    BY DEF AppTasks
  <1>2. SUFFICES \A u \in AppTasks : HasGrant(u, f)' <=> HasGrant(u, f)
    BY <1>1 DEF Holders
  <1>3. ASSUME NEW t \in Task, NEW e \in Event, NEW type \in Kinds, Create(t, e, type) PROVE AllGo
    BY <1>3, CreateKeeps
  <1>4. ASSUME NEW t \in Task, NEW e \in Event, NEW ticks \in Nat, BlockOn(t, e, ticks) PROVE AllGo
    BY <1>4, BlockKeeps
  <1>5. ASSUME NEW t \in Task, NEW e \in Event, NEW always \in BOOLEAN, Delete(t, e, always)
        PROVE  f # e /\ Answers(e, Waiters(e), "ok")
    <2>1. evType[e] \in Kinds /\ evType' = [evType EXCEPT ![e] = "unused"]
      BY <1>5 DEF Delete, EventDel
    <2>2. f # e
      BY <2>1, Now DEF Kinds
    <2>3. QED
      BY <1>5, <2>2, DeleteKeeps
  <1>6. ASSUME NEW e \in Event, NEW ts \in SUBSET AppTasks, NEW m \in Msg \cup {None},
               NEW st \in {"ok", "abort"}, Answer(e, ts, m, st)
        PROVE  f # e /\ Answers(e, ts, st)
    <2>1. ts \in SUBSET Waiters(e) /\ ts # {} /\ evType[e] \in PendAny
          /\ OS_EventTaskRdy(e, ts, m, evType[e], st)
      BY <1>6, WaitersAre, Now DEF Answer, Kinds, PendAny
    <2>2. ReadiedAs(e, ts, m, evType[e], st)
      BY <2>1, Readied
    <2>3. PICK u \in ts : u \in AppTasks /\ tcb[u].prio \in waiting[e]
      BY <2>1, WaitersAre
    <2>4. tcb[u].prio \notin waiting'[e]
      BY <2>2, <2>3 DEF ReadiedAs
    <2>5. QED
      BY <1>6, <2>3, <2>4, AnswerKeeps
  <1>7. QED
    BY <1>3, <1>4, <1>5, <1>6 DEF EventStep, AllGo, Goes, GrantSame, Answers

\* A step in which no task gets or uses a grant.
LEMMA HoldersStay ==
  ASSUME KernelInv, app' = app, \A u \in AppTasks : GrantSame(u)
  PROVE  \A f \in Event : Holders(f)' = Holders(f)
  <1>1. AppTasks' = AppTasks
    BY DEF AppTasks
  <1>2. QED
    BY <1>1 DEF Holders, GrantSame

LEMMA QuietOrGrants ==
  ASSUME KernelInv, app' = app, Quiet \/ EventStep, NEW f \in Event,
         evType'[f] = evType[f] /\ waiting'[f] = waiting[f]
  PROVE  Holders(f)' = Holders(f)
  <1>1. CASE Quiet
    BY <1>1, QuietKeeps, HoldersStay DEF AllGo, Goes
  <1>2. CASE EventStep
    BY <1>2, GrantsStay
  <1>3. QED
    BY <1>1, <1>2

HoldersRight == \A e \in Event : Granted(e) = Holders(e)

LEMMA GrantedNext == KernelInv' => HoldersRight'
  <1>1. KernelInv => HoldersRight
    BY HoldersAre DEF HoldersRight
  <1>2. QED
    BY <1>1, PTL

\* The account of a semaphore is its count and the tasks that hold a unit of
\* it and have not run yet.
Balanced(e) == IsSem(e) => account[e] = cnt[e] + Cardinality(Holders(e))
AccountInv == account \in [Event -> Int] /\ \A e \in Event : Balanced(e)

\* A step that is about no semaphore.
LEMMA BalanceStays ==
  ASSUME KernelInv, AccountInv, app' = app, UNCHANGED semState,
         \/ (\A f \in Event : Calm(f)) /\ \A u \in AppTasks : GrantSame(u)
         \/ (Quiet \/ EventStep) /\ \E e \in Event, kind \in {"mbox", "q"} : Concerns(e, kind)
  PROVE  AccountInv'
  <1>1. account' = account /\ cnt' = cnt
    BY DEF semState
  <1>2. ASSUME NEW f \in Event, IsSem(f)' PROVE IsSem(f) /\ Holders(f)' = Holders(f)
    <2>1. CASE (\A g \in Event : Calm(g)) /\ \A u \in AppTasks : GrantSame(u)
      BY <1>2, <2>1, HoldersStay DEF Calm, IsSem
    <2>2. CASE (Quiet \/ EventStep) /\ \E e \in Event, kind \in {"mbox", "q"} : Concerns(e, kind)
      <3>1. PICK e \in Event, kind \in {"mbox", "q"} : Concerns(e, kind)
        BY <2>2
      <3>2. f # e
        BY <1>2, <3>1 DEF IsSem, Concerns
      <3>3. evType'[f] = evType[f] /\ waiting'[f] = waiting[f]
        BY <3>1, <3>2 DEF Concerns
      <3>4. QED
        BY <1>2, <2>2, <3>3, QuietOrGrants DEF IsSem
    <2>3. QED
      BY <2>1, <2>2
  <1>3. QED
    BY <1>1, <1>2 DEF AccountInv, Balanced

\* The semaphores.
LEMMA SemBalances ==
  ASSUME KernelInv, KernelInv', CountsInv, AccountInv,
         SemISR \/ \E t \in Task : SemCall(t)
  PROVE  AccountInv'
  <1>1. PICK e \in Event :
          \/ /\ \/ \E t \in Task, c \in Counts : OSSemCreate(t, e, c)
                \/ \E t \in Task, c \in Counts : OSSemSet(t, e, c)
                \/ \E t \in Task, always \in BOOLEAN : OSSemDel(t, e, always)
             /\ Reopen(e)
          \/ ((\E t \in Task : Take(t, e)) \/ OSSemAcceptISR(e)) /\ Takes(e)
          \/ /\ \/ \E t \in Task, ticks \in Nat : MayPend(t) /\ OSSemPend(t, e, ticks)
                \/ \E t \in Task, broadcast \in BOOLEAN : OSSemPendAbort(t, e, broadcast)
             /\ Keeps
          \/ ((\E t \in Task : OSSemPost(t, e)) \/ OSSemPostISR(e)) /\ Gives(e)
    <2>1. app.events \subseteq Event /\ app.ticks \subseteq Nat
      BY AppIs DEF KernelInv, Settings
    <2>2. ASSUME NEW t \in Task, SemCall(t)
          PROVE  \E e \in Event :
                   \/ (\E c \in Counts : OSSemCreate(t, e, c)) /\ Reopen(e)
                   \/ (\E c \in Counts : OSSemSet(t, e, c)) /\ Reopen(e)
                   \/ (\E always \in BOOLEAN : OSSemDel(t, e, always)) /\ Reopen(e)
                   \/ Take(t, e) /\ Takes(e)
                   \/ (\E ticks \in Nat : MayPend(t) /\ OSSemPend(t, e, ticks)) /\ Keeps
                   \/ (\E broadcast \in BOOLEAN : OSSemPendAbort(t, e, broadcast)) /\ Keeps
                   \/ OSSemPost(t, e) /\ Gives(e)
      BY <2>1, <2>2 DEF SemCall
    <2>3. QED
      BY <2>1, <2>2 DEF SemISR
  <1>2. app' = app /\ (Quiet \/ EventStep)
    BY SemSteps, SemISRSteps, SilentIs DEF SemCall, SemISR
  <1>3. Concerns(e, "sem")
    BY <1>1, SemKeepsCounts
  <1>4. /\ cnt \in [Event -> 0 .. MaxCnt] /\ account \in [Event -> Int] /\ 0 .. MaxCnt \subseteq Int
        /\ cnt' \in [Event -> 0 .. MaxCnt]
    BY <1>1, SemKeepsCounts, SemAssumption DEF CountsInv, AccountInv
  <1>5. /\ Cardinality(Holders(e)) \in Nat /\ IsFiniteSet(Holders(e))
        /\ Cardinality(Holders(e)') \in Nat /\ Granted(e)' = Holders(e)'
    <2>1. Holders(e)' \in SUBSET AppTasks /\ IsFiniteSet(AppTasks)
      BY <1>2, TasksAreFinite DEF Holders, AppTasks
    <2>2. IsFiniteSet(Holders(e)')
      BY <2>1, FS_Subset
    <2>3. QED
      BY <2>2, FS_CardinalityType, HoldersAre, GrantedNext DEF HoldersRight
  <1> DEFINE To(n) == account' = [account EXCEPT ![e] = n] /\ n \in Int /\ Balanced(e)'
  <1>6. ASSUME \/ \E t \in Task, c \in Counts : OSSemCreate(t, e, c)
               \/ \E t \in Task, c \in Counts : OSSemSet(t, e, c)
               \/ \E t \in Task, always \in BOOLEAN : OSSemDel(t, e, always),
               Reopen(e)
        PROVE  To(cnt'[e] + Cardinality(Holders(e)'))
    <2>1. cnt'[e] + Cardinality(Holders(e)') \in Int
      BY <1>4, <1>5
    <2>2. account' = [account EXCEPT ![e] = cnt'[e] + Cardinality(Holders(e)')]
      BY <1>5, <1>6 DEF Reopen
    <2>3. QED
      BY <1>4, <2>1, <2>2 DEF Balanced
  <1>7. ASSUME (\E t \in Task : Take(t, e)) \/ OSSemAcceptISR(e), Takes(e)
        PROVE  To(account[e] - 1)
    <2>1. /\ IsSem(e) /\ cnt' = [cnt EXCEPT ![e] = cnt[e] - 1]
          /\ UNCHANGED <<evType, waiting>>
      BY <1>7 DEF Take, OSSemAcceptISR, coreVars
    <2>2. Holders(e)' = Holders(e)
      BY <1>2, <2>1, QuietOrGrants
    <2>3. account' = [account EXCEPT ![e] = account[e] - 1]
      BY <1>7 DEF Takes
    <2>4. account[e] = cnt[e] + Cardinality(Holders(e))
      BY <2>1 DEF AccountInv, Balanced
    <2>5. QED
      BY <1>4, <1>5, <2>1, <2>2, <2>3, <2>4 DEF Balanced
  <1>8. ASSUME NEW t \in Task, NEW ticks \in Nat, MayPend(t), OSSemPend(t, e, ticks), Keeps
        PROVE  To(account[e])
    <2>1. IsSem(e) /\ cnt' = cnt /\ BlockOn(t, e, ticks)
      <3>1. UNCHANGED <<inUse, nodes>> /\ ~Owns(t)
        BY <1>8, RulesKept DEF SemISR, SemCall, flagVars
      <3>2. QED
        BY <1>8, <3>1 DEF OSSemPend, IsSem, BlockOn, Kinds, Listed
    <2>2. Holders(e)' = Holders(e)
      BY <1>2, <2>1, BlockKeeps, HoldersStay DEF AllGo, Goes
    <2>3. account' = [account EXCEPT ![e] = account[e]]
      BY <1>4, <1>8 DEF Keeps
    <2>4. account[e] = cnt[e] + Cardinality(Holders(e))
      BY <2>1 DEF AccountInv, Balanced
    <2>5. QED
      BY <1>4, <2>1, <2>2, <2>3, <2>4 DEF Balanced
  <1>9. ASSUME NEW t \in Task, NEW broadcast \in BOOLEAN, OSSemPendAbort(t, e, broadcast), Keeps
        PROVE  To(account[e])
    <2>1. PICK ts \in SUBSET AppTasks : Answer(e, ts, None, "abort")
      <3>1. UNCHANGED <<inUse, nodes>>
        BY DEF SemISR, SemCall, flagVars
      <3>2. QED
        BY <1>9, <3>1, ChosenAre DEF OSSemPendAbort, IsSem, PendAbort, Answer, Ends, Kinds, Listed
    <2>2. IsSem(e) /\ cnt' = cnt
      BY <1>9 DEF OSSemPendAbort
    <2>3. Answers(e, ts, "abort")
      BY <1>2, <2>1, AnswerKeeps
    <2>4. Holders(e)' = Holders(e)
      <3>1. \A u \in AppTasks : GrantSame(u)
        BY <2>3 DEF Answers, GrantSame
      <3>2. QED
        BY <1>2, <3>1, HoldersStay
    <2>5. account' = [account EXCEPT ![e] = account[e]]
      BY <1>4, <1>9 DEF Keeps
    <2>6. account[e] = cnt[e] + Cardinality(Holders(e))
      BY <2>2 DEF AccountInv, Balanced
    <2>7. QED
      BY <1>4, <2>2, <2>4, <2>5, <2>6 DEF Balanced
  <1>10. ASSUME (\E t \in Task : OSSemPost(t, e)) \/ OSSemPostISR(e), Gives(e)
         PROVE  To(account[e] + 1)
    <2>1. IsSem(e) /\ account' = [account EXCEPT ![e] = account[e] + 1]
      BY <1>10 DEF OSSemPost, OSSemPostISR, PostWakes, PostCounts, Gives
    <2>2. account[e] = cnt[e] + Cardinality(Holders(e))
      BY <2>1 DEF AccountInv, Balanced
    <2>3. CASE PostCounts(e)
      <3>1. cnt' = [cnt EXCEPT ![e] = cnt[e] + 1] /\ UNCHANGED <<evType, waiting>>
        BY <2>3 DEF PostCounts, coreVars
      <3>2. Holders(e)' = Holders(e)
        BY <1>2, <3>1, QuietOrGrants
      <3>3. QED
        BY <1>4, <1>5, <2>1, <2>2, <3>1, <3>2 DEF Balanced
    <2>4. CASE PostWakes(e) /\ (PostedByISR \/ \E t \in Task : Runs(t) /\ PostedByTask(t))
      <3> DEFINE h == HighestWaiter(e)
      <3>1. /\ Answer(e, {h}, None, "ok") /\ cnt' = cnt
            /\ h \in AppTasks /\ tcb[h].prio \in waiting[e]
        <4>1. UNCHANGED <<inUse, nodes>>
          BY DEF SemISR, SemCall, flagVars
        <4>2. QED
          BY <2>4, <4>1, WaitersAre DEF PostWakes, IsSem, Answer, Ends, Kinds, Listed
      <3> HIDE DEF h
      <3>2. Answers(e, {h}, "ok")
        BY <1>2, <3>1, AnswerKeeps
      <3>3. Holders(e)' = Holders(e) \cup {h}
        <4>1. AppTasks' = AppTasks
          BY <1>2 DEF AppTasks
        <4>2. QED
          BY <3>1, <3>2, <4>1 DEF Answers, Holders
      <3>4. h \notin Holders(e)
        BY <3>1 DEF Holders, HasGrant
      <3>5. Cardinality(Holders(e)') = Cardinality(Holders(e)) + 1
        BY <1>5, <3>3, <3>4, FS_AddElement
      <3>6. QED
        BY <1>4, <1>5, <2>1, <2>2, <3>1, <3>5 DEF Balanced
    <2>5. QED
      BY <1>10, <2>3, <2>4 DEF OSSemPost, OSSemPostISR
  <1>11. \E n : To(n)
    <2> HIDE DEF To
    <2>1. QED
      BY <1>1, <1>6, <1>7, <1>8, <1>9, <1>10
  <1>12. \A f \in Event \ {e} : Balanced(f)'
    <2> SUFFICES ASSUME NEW f \in Event \ {e} PROVE Balanced(f)'
      OBVIOUS
    <2>1. cnt'[f] = cnt[f] /\ account'[f] = account[f]
      BY <1>1, <1>4 DEF OSSemCreate, OSSemSet, OSSemDel, Take, OSSemAcceptISR, OSSemPend, OSSemPendAbort,
         OSSemPost, OSSemPostISR, PostWakes, PostCounts, Reopen, Takes, Keeps, Gives
    <2>2. evType'[f] = evType[f] /\ waiting'[f] = waiting[f]
      BY <1>3 DEF Concerns
    <2>3. Holders(f)' = Holders(f)
      BY <1>2, <2>2, QuietOrGrants
    <2>4. QED
      BY <2>1, <2>2, <2>3 DEF AccountInv, Balanced, IsSem
  <1>13. QED
    BY <1>4, <1>11, <1>12 DEF AccountInv

\* A task that comes back from a wait takes its unit with it.
LEMMA WakeBalances ==
  ASSUME KernelInv, CountsInv, AccountInv, NEW t \in Task, KernelWake(t)
  PROVE  AccountInv'
  <1>1. /\ Wake(t) /\ app' = app /\ cnt' = cnt /\ Listed
        /\ IF IsSem(arg[t]) /\ tcb[t].pend = "ok" THEN Takes(arg[t]) ELSE Keeps
    BY DEF KernelWake, Listed, flagVars
  <1>2. /\ t \in AppTasks /\ arg[t] \in Event /\ OnEvent(t) /\ Unheld(tcb[t])
        /\ evType' = evType
    <2>1. /\ t \in AppTasks /\ arg[t] \in Event /\ Unheld(tcb[t]) /\ pc[t] = "wake" /\ evType' = evType
      BY <1>1, Awake DEF Wake
    <2>2. TaskInv(t) /\ arg[t] \notin app.waits
      BY <2>1, Now, RequestAssumption, AppIs DEF KernelInv, Settings
    <2>3. QED
      BY <2>1, <2>2 DEF TaskInv, Pends, OnFlags
  <1>3. \A f \in Event : t \in Holders(f) <=> f = arg[t] /\ tcb[t].pend = "ok"
    BY <1>2 DEF Holders, HasGrant, OnEvent, PendsFor, Unheld
  <1>4. \A f \in Event : Holders(f)' = Holders(f) \ {t}
    <2>1. AppTasks' = AppTasks
      BY <1>1 DEF AppTasks
    <2>2. \A u \in AppTasks, f \in Event : HasGrant(u, f)' <=> HasGrant(u, f) /\ u # t
      BY <1>1, WakeKeeps
    <2>3. QED
      BY <2>1, <2>2 DEF Holders
  <1>5. account' = [f \in Event |-> IF t \in Holders(f) /\ IsSem(f) THEN account[f] - 1 ELSE account[f]]
    BY <1>1, <1>2, <1>3 DEF AccountInv, Takes, Keeps
  <1>6. cnt' = cnt /\ \A f \in Event : IsSem(f)' <=> IsSem(f)
    BY <1>1, <1>2 DEF IsSem
  <1>7. ASSUME NEW f \in Event, IsSem(f)
        PROVE  account'[f] = cnt'[f] + Cardinality(Holders(f)')
    <2>1. account[f] = cnt[f] + Cardinality(Holders(f)) /\ Cardinality(Holders(f)) \in Nat
      BY <1>7, HoldersAre DEF AccountInv, Balanced
    <2>2. Cardinality(Holders(f)') = IF t \in Holders(f) THEN Cardinality(Holders(f)) - 1
                                     ELSE Cardinality(Holders(f))
      BY <1>4, HoldersAre, FS_RemoveElement
    <2>3. cnt[f] \in Int /\ account[f] \in Int
      BY SemAssumption DEF CountsInv, AccountInv
    <2>4. QED
      BY <1>5, <1>6, <1>7, <2>1, <2>2, <2>3
  <1>8. account' \in [Event -> Int]
    BY <1>5 DEF AccountInv
  <1>9. QED
    BY <1>6, <1>7, <1>8 DEF AccountInv, Balanced

\* The calls of the mutexes.
LEMMA MutexBalances ==
  ASSUME KernelInv, AccountInv, NEW t \in Task, MutexCall(t)
  PROVE  AccountInv'
  <1>1. PICK e \in Event : \E ts \in SUBSET Waiters(e) : MutexStep(e, ts)
    BY MutexKept
  <1>2. PICK ts \in SUBSET Waiters(e) : MutexStep(e, ts)
    BY <1>1
  <1>3. account' = account /\ cnt' = cnt /\ AppTasks' = AppTasks
    BY <1>2 DEF MutexStep, semState, AppTasks
  <1>4. ASSUME NEW f \in Event, IsSem(f)' PROVE IsSem(f) /\ Holders(f)' = Holders(f)
    <2>1. f # e /\ IsSem(f)
      BY <1>2, <1>4 DEF MutexStep, IsSem
    <2>2. \A u \in AppTasks : HasGrant(u, f)' <=> HasGrant(u, f)
      BY <1>2, <2>1 DEF MutexStep, Answers
    <2>3. QED
      BY <1>3, <2>1, <2>2 DEF Holders
  <1>5. QED
    BY <1>3, <1>4 DEF AccountInv, Balanced

LEMMA BalancedAtStart ==
  ASSUME Init
  PROVE  AccountInv
  <1>1. account \in [Event -> Int] /\ \A e \in Event : evType[e] = "unused"
    BY DEF Init, CoreInit, EventsInit
  <1>2. QED
    BY <1>1 DEF AccountInv, Balanced, IsSem

LEMMA AccountKept ==
  ASSUME KernelInv, HeldInv, AccountInv, [Next]_vars
  PROVE  AccountInv'
  <1>3. KernelInv'
    BY KernelKept
  <1>4. CASE SemISR \/ \E t \in Task : SemCall(t)
    BY <1>3, <1>4, SemBalances DEF HeldInv
  <1>5. CASE (\E t \in Task : MboxCall(t) \/ QCall(t)) \/ MsgISR
    <2>1. app' = app /\ UNCHANGED semState /\ (Quiet \/ EventStep)
      BY <1>5, MboxSteps, QSteps, MsgISRSteps DEF MboxCall, QCall, MsgISR
    <2>2. \E e \in Event, kind \in {"mbox", "q"} : Concerns(e, kind)
      BY <1>5, MboxCallKeeps, QCallKeeps, MsgISRKeeps DEF HeldInv
    <2>3. QED
      BY <2>1, <2>2, BalanceStays
  <1>6. CASE \/ \E t \in Task : FlagCall(t) \/ TimeCall(t) \/ FlagReturn(t) \/ Sched(t)
             \/ FlagISR \/ Tick \/ UNCHANGED vars
    <2>1. app' = app /\ UNCHANGED semState
      BY <1>6 DEF FlagCall, TimeCall, FlagReturn, Sched, FlagISR, Tick, vars
    <2>2. \/ Quiet \/ FlagStep \/ TimeStep
          \/ ((\E t \in Task : OS_Sched(t)) \/ OSTimeTick) /\ Listed
      <3>1. (\E t \in Task : FlagCall(t) \/ FlagReturn(t)) \/ FlagISR => Quiet \/ FlagStep
        BY FlagSteps
      <3>2. (\E t \in Task : TimeCall(t)) => TimeStep
        BY TimeSteps
      <3>3. (\E t \in Task : Sched(t)) \/ Tick => ((\E t \in Task : OS_Sched(t)) \/ OSTimeTick) /\ Listed
        BY DEF Sched, Tick, Listed, flagVars
      <3>4. UNCHANGED vars => Quiet
        BY DEF vars, Quiet, coreVars, flagVars
      <3>5. QED
        BY <1>6, <3>1, <3>2, <3>3, <3>4
    <2>3. \A u \in AppTasks : GrantSame(u)
      BY <2>1, <2>2, QuietKeeps, FlagStepKeeps, TimeStepKeeps, SchedKeeps, TickKeeps DEF AllGo, Goes
    <2>4. \A f \in Event : Calm(f)
      BY <2>2, OthersAreCalm DEF SchedStep
    <2>5. QED
      BY <2>1, <2>3, <2>4, BalanceStays
  <1>7. ASSUME NEW t \in Task, KernelWake(t) PROVE AccountInv'
    BY <1>7, WakeBalances DEF HeldInv
  <1>8. CASE \E t \in Task : MutexCall(t)
    BY <1>8, MutexBalances
  <1>9. QED
    BY CasesAre, <1>4, <1>5, <1>6, <1>7, <1>8

\* What a post has granted reaches the task that was chosen: no timeout, abort,
\* deletion of another event, suspension or tick loses a unit of a semaphore or
\* makes one, and a pend that reports the flags has them.
THEOREM GrantsAreKept == Spec /\ Disciplined => []GrantsKept
  <1>1. Init => AccountInv
    BY BalancedAtStart
  <1>2. KernelInv /\ HeldInv /\ AccountInv /\ [Next]_vars => AccountInv'
    BY AccountKept
  <1>3. KernelInv /\ FlagInv /\ AccountInv => GrantsKept
    <2> SUFFICES ASSUME KernelInv, FlagInv, AccountInv PROVE GrantsKept
      OBVIOUS
    <2>1. UnitsConserved
      BY HoldersAre DEF UnitsConserved, AccountInv, Balanced
    <2>2. NoneMeansReady
      BY AliveAre DEF NoneMeansReady, FlagInv, Served, HasFlags
    <2>3. QED
      BY <2>1, <2>2 DEF GrantsKept
  <1>4. QED
    BY <1>1, <1>2, <1>3, ServicesHold, PTL DEF Spec

-----------------------------------------------------------------------------
\* What is left of the tables.
EpochInv == epoch \in [Event -> {0, 1}]

LEMMA EpochAtStart ==
  ASSUME Init
  PROVE  EpochInv
  BY DEF EpochInv, Init

LEMMA EpochKept ==
  ASSUME KernelInv, EpochInv, [Next]_vars
  PROVE  EpochInv'
  <1>1. epoch' = epoch \/ \E e \in Event : Restarts(e)
    <2>1. app.events \subseteq Event
      BY AppIs DEF KernelInv, Settings
    <2>2. \A t \in Task : MboxCall(t) \/ QCall(t) => epoch' = epoch \/ \E e \in Event : Restarts(e)
      BY <2>1 DEF MboxCall, QCall
    <2>3. \A t \in Task :
            \/ SemCall(t) \/ MutexCall(t) \/ FlagCall(t) \/ TimeCall(t)
            \/ KernelWake(t) \/ FlagReturn(t) \/ Sched(t)
            => epoch' = epoch
      BY DEF SemCall, MutexCall, FlagCall, TimeCall, KernelWake, FlagReturn, Sched, msgState
    <2>4. SemISR \/ MsgISR \/ FlagISR \/ Tick \/ UNCHANGED vars => epoch' = epoch
      BY DEF SemISR, MsgISR, FlagISR, Tick, vars, msgState
    <2>5. QED
      BY CasesAre, <2>2, <2>3, <2>4
  <1>2. QED
    BY <1>1 DEF EpochInv, Restarts

\* The tables of the kernel agree with each other between any two critical
\* sections: priorities, TCBs, event control blocks, the reservations of the
\* mutexes, lists and rings.
THEOREM TablesAreConsistent == Spec /\ Disciplined => []TablesConsistent
  <1>1. Init => EpochInv
    BY EpochAtStart
  <1>2. Init => AccountInv
    BY BalancedAtStart
  <1>3. KernelInv /\ EpochInv /\ [Next]_vars => EpochInv'
    BY EpochKept
  <1>4. KernelInv /\ HeldInv /\ AccountInv /\ [Next]_vars => AccountInv'
    BY AccountKept
  <1>5. KernelInv /\ HeldInv /\ FlagInv /\ AccountInv /\ EpochInv => TablesConsistent
    <2> SUFFICES ASSUME KernelInv, HeldInv, FlagInv, AccountInv, EpochInv PROVE TablesConsistent
      OBVIOUS
    <2>1. TypeOK
      <3>1. AppTasks \subseteq Task
        BY AppIs DEF KernelInv, Settings
      <3>2. free \subseteq Task /\ nodes \in [Group -> SUBSET Task] /\ inUse \in [Group -> BOOLEAN]
        BY <3>1 DEF KernelInv, Settings, Lists
      <3>3. CoreTypeOK /\ app \in Apps
        BY DEF KernelInv, Settings
      <3>4. /\ pip \in [Event -> Prio] /\ ownPrio \in [Event -> Prio \cup {None}]
            /\ owner \in [Event -> Task \cup {None}] /\ inside \in [Event -> SUBSET Task] /\ orphans \subseteq Task
        BY <3>1 DEF KernelInv, MutexInv, MutexTypes
      <3>5. QED
        BY <3>2, <3>3, <3>4
           DEF TypeOK, HeldInv, CountsInv, MailInv, RingInv, FlagInv, FlagsTyped, AccountInv, EpochInv
    <2>2. ReadyTasksExist
      <3> SUFFICES ASSUME NEW p \in rdy PROVE prioTbl[p] \in AllTasks /\ tcb[prioTbl[p]].prio = p
        BY DEF ReadyTasksExist
      <3>1. CASE p = LowestPrio
        <4>1. NewTCB(LowestPrio).prio = LowestPrio
          BY DEF NewTCB
        <4>2. prioTbl[p] = Idle /\ Idle \in AllTasks
          BY <3>1, OwnPriority DEF KernelInv, Settings, AllTasks
        <4>3. QED
          BY <3>1, <4>1, <4>2, OwnPriority
      <3>2. CASE p # LowestPrio
        <4>1. PICK t \in AppTasks : p = tcb[t].prio
          BY <3>2 DEF KernelInv, Lists
        <4>2. prioTbl[p] = t /\ t \in AllTasks
          BY <4>1, AppIs DEF KernelInv, Settings
        <4>3. QED
          BY <4>1, <4>2
      <3>3. QED
        BY <3>1, <3>2
    <2>3. FreeEventsEmpty
      BY DEF FreeEventsEmpty, KernelInv
    <2>4. ReservedByCreator
      BY DEF ReservedByCreator, KernelInv, MutexInv, Priorities
    <2>5. PipConsistent
      <3> SUFFICES ASSUME NEW e \in Event, IsMutex(e)
                   PROVE  IF Raised(e) THEN prioTbl[pip[e]] = owner[e] /\ prioTbl[ownPrio[e]] = owner[e]
                          ELSE prioTbl[pip[e]] = Reserved
        BY DEF PipConsistent
      <3>1. prioTbl[pip[e]] = IF Raised(e) THEN owner[e] ELSE Reserved
        BY DEF KernelInv, MutexInv, Priorities
      <3>2. Raised(e) => owner[e] \in AppTasks /\ ownPrio[e] = app.start[owner[e]]
        BY OwnerIs DEF Raised, Owned
      <3>3. QED
        BY <3>1, <3>2 DEF KernelInv, MutexInv, Priorities
    <2>6. TCBsConserved
      <3>1. \A t \in AppTasks : pc[t] \in {"user", "yield", "block", "wake"} /\ prioTbl[tcb[t].prio] = t
        BY DEF KernelInv, Settings
      <3>2. \A t \in Task \ AppTasks : pc[t] = "dormant" /\ prioTbl[tcb[t].prio] # t
        <4>1. \A t \in Task \ AppTasks : tcb[t].prio = LowestPrio /\ t # Idle
          BY CoreAssumption DEF KernelInv, Settings, AllTasks, NewTCB
        <4>2. QED
          BY <4>1, OwnPriority DEF KernelInv, Settings
      <3>3. free = Task \ AppTasks /\ AppTasks \subseteq Task
        BY AppIs DEF KernelInv, Settings
      <3>4. free = {t \in Task : pc[t] \in {"exit", "dormant"}} /\ {v \in Task : pc[v] = "link"} = {}
        BY <3>1, <3>2, <3>3
      <3>5. QED
        BY <3>1, <3>2, <3>4 DEF TCBsConserved
    <2>7. RingConsistent
      BY Zenon DEF RingConsistent, HeldInv, RingInv
    <2>8. QED
      BY <2>1, <2>2, <2>3, <2>4, <2>5, <2>6, <2>7 DEF TablesConsistent
  <1>6. QED
    BY <1>1, <1>2, <1>3, <1>4, <1>5, ServicesHold, PTL DEF Spec

-----------------------------------------------------------------------------
\* The messages on their way.

\* Who has a message has been chosen by a post, and has not run yet.
MsgInv == \A u \in AppTasks : tcb[u].msg # None => \E f \in Event : HasGrant(u, f)

SameMessages == \A u \in AllTasks : tcb'[u].msg = tcb[u].msg

LEMMA MessagesStay ==
  ASSUME KernelInv,
         \/ Quiet \/ FlagStep \/ TimeStep
         \/ \E t \in Task, e \in Event :
              \/ \E type \in Kinds : Create(t, e, type)
              \/ \E ticks \in Nat : BlockOn(t, e, ticks)
         \/ (\E t \in Task : OS_Sched(t)) \/ OSTimeTick
  PROVE  SameMessages
  <1> tcb \in [AllTasks -> TCB]
    BY DEF KernelInv, CoreTypeOK
  <1> USE DEF SameMessages
  <1>1. CASE Quiet \/ (\E t \in Task, e \in Event, type \in Kinds : Create(t, e, type)) \/ \E t \in Task : OS_Sched(t)
    BY <1>1 DEF Quiet, coreVars, Create, EventCreate, OS_Sched
  <1>2. ASSUME NEW t \in Task, NEW e \in Event, NEW ticks \in Nat, BlockOn(t, e, ticks) PROVE SameMessages
    <2>1. tcb' = [tcb EXCEPT ![t] = [[tcb[t] EXCEPT !.stat = @ \cup {evType[e]}, !.pend = "ok", !.dly = ticks]
                                       EXCEPT !.eptr = e]]
      BY <1>2 DEF BlockOn, Block, OS_EventTaskWait
    <2>2. \A u \in AllTasks : tcb[u] \in TCB
      OBVIOUS
    <2>3. QED
      BY <2>1, <2>2 DEF TCB
  <1>3. ASSUME NEW u, NEW c, u \in AllTasks => c.msg = tcb[u].msg, tcb' = [tcb EXCEPT ![u] = c] PROVE SameMessages
    BY <1>3
  <1>4. \A u \in AllTasks : tcb[u] \in TCB
    OBVIOUS
  <1> HIDE DEF SameMessages
  <1>5. CASE OSTimeTick
    <2>1. tcb' = [t \in AllTasks |-> Ticked(tcb[t])]
      BY <1>5 DEF OSTimeTick
    <2>2. \A c \in TCB : Ticked(c).msg = c.msg
      BY DEF Ticked, TCB
    <2>3. QED
      BY <1>4, <2>1, <2>2 DEF SameMessages
  <1>6. ASSUME NEW t \in Task, NEW ticks \in Nat, OSTimeDly(t, ticks) PROVE SameMessages
    <2> DEFINE c == [tcb[t] EXCEPT !.dly = ticks]
    <2>1. tcb' = [tcb EXCEPT ![t] = c]
      BY <1>6 DEF OSTimeDly
    <2>2. t \in AllTasks => c.msg = tcb[t].msg
      BY <1>4 DEF TCB
    <2> HIDE DEF c
    <2>3. QED
      BY <1>3, <2>1, <2>2
  <1>7. ASSUME NEW t \in Task, NEW p \in Prio, OSTimeDlyResume(t, p) PROVE SameMessages
    <2> DEFINE u == prioTbl[p]
               c == [tcb[u] EXCEPT !.dly = 0, !.stat = @ \ PendAny,
                                   !.pend = IF tcb[u].stat \cap PendAny # {} THEN "to" ELSE "ok"]
    <2>1. tcb' = [tcb EXCEPT ![u] = c]
      BY <1>7 DEF OSTimeDlyResume
    <2>2. u \in AllTasks => c.msg = tcb[u].msg
      BY <1>4 DEF TCB
    <2> HIDE DEF c, u
    <2>3. QED
      BY <1>3, <2>1, <2>2
  <1>8. ASSUME NEW t \in Task, NEW p \in Prio, OSTaskSuspend(t, p) PROVE SameMessages
    <2> DEFINE u == prioTbl[p]
               c == [tcb[u] EXCEPT !.stat = @ \cup {"suspend"}]
    <2>1. tcb' = [tcb EXCEPT ![u] = c]
      BY <1>8 DEF OSTaskSuspend
    <2>2. u \in AllTasks => c.msg = tcb[u].msg
      BY <1>4 DEF TCB
    <2> HIDE DEF c, u
    <2>3. QED
      BY <1>3, <2>1, <2>2
  <1>9. ASSUME NEW t \in Task, NEW p \in Prio, OSTaskResume(t, p) PROVE SameMessages
    <2> DEFINE u == prioTbl[p]
               c == [tcb[u] EXCEPT !.stat = @ \ {"suspend"}]
    <2>1. tcb' = [tcb EXCEPT ![u] = c]
      BY <1>9 DEF OSTaskResume
    <2>2. u \in AllTasks => c.msg = tcb[u].msg
      BY <1>4 DEF TCB
    <2> HIDE DEF c, u
    <2>3. QED
      BY <1>3, <2>1, <2>2
  <1>10. CASE TimeStep
    <2>1. \A t \in Task : OSSchedLock(t) \/ OSSchedUnlock(t) => SameMessages
      BY DEF OSSchedLock, OSSchedUnlock, SameMessages
    <2>2. QED
      BY <1>6, <1>7, <1>8, <1>9, <1>10, <2>1 DEF TimeStep
  <1>11. ASSUME NEW g, NEW ts, NEW got, OS_FlagTaskRdy(g, ts, got) PROVE SameMessages
    <2>1. \A c \in TCB : [c EXCEPT !.dly = 0, !.stat = @ \ {"flag"}, !.pend = "ok"].msg = c.msg
      BY DEF TCB
    <2>2. QED
      BY <1>4, <1>11, <2>1 DEF OS_FlagTaskRdy, SameMessages
  <1>12. ASSUME NEW t \in Task, NEW r, NEW ticks \in Nat, FlagBlock(t, r, ticks) PROVE SameMessages
    <2> DEFINE c == [tcb[t] EXCEPT !.stat = @ \cup {"flag"}, !.pend = "ok", !.dly = ticks]
    <2>1. tcb' = [tcb EXCEPT ![t] = c]
      BY <1>12 DEF FlagBlock, OS_FlagBlock
    <2>2. t \in AllTasks => c.msg = tcb[t].msg
      BY <1>4 DEF TCB
    <2> HIDE DEF c
    <2>3. QED
      BY <1>3, <2>1, <2>2
  <1>13. ASSUME NEW t \in Task, FlagWake(t) PROVE SameMessages
    <2> DEFINE c == [tcb[t] EXCEPT !.pend = "ok", !.stat = {}]
    <2>1. tcb' = [tcb EXCEPT ![t] = c] \/ tcb' = tcb
      BY <1>13 DEF FlagWake
    <2>2. t \in AllTasks => c.msg = tcb[t].msg
      BY <1>4 DEF TCB
    <2> HIDE DEF c
    <2>3. tcb' = tcb => SameMessages
      BY DEF SameMessages
    <2>4. QED
      BY <1>3, <2>1, <2>2, <2>3
  <1>14. CASE FlagStep
    <2>1. \A t \in Task, g \in Group, fs \in SUBSET Flag : OSFlagCreate(t, g, fs) => SameMessages
      BY DEF OSFlagCreate, coreVars, SameMessages
    <2>2. \A t \in Task, g \in Group, fs \in SUBSET Flag, set \in BOOLEAN :
            OSFlagPost(t, g, fs, set) => SameMessages
      BY <1>11 DEF OSFlagPost, Posted, Readies
    <2>3. \A t \in Task, g \in Group, always \in BOOLEAN : OSFlagDel(t, g, always) => SameMessages
      BY <1>11 DEF OSFlagDel
    <2>4. (\E t \in Task, r \in app.waits, ticks \in Nat : FlagBlock(t, r, ticks)) => SameMessages
      BY <1>12
    <2>5. (\E t \in Task : FlagWake(t)) => SameMessages
      BY <1>13
    <2>6. (\E t \in Task, g \in Group, fs \in SUBSET Flag :
             OSFlagCreate(t, g, fs) \/ (\E set \in BOOLEAN : OSFlagPost(t, g, fs, set))) => SameMessages
      BY <2>1, <2>2
    <2>7. (\E g \in Group, fs \in SUBSET Flag, set \in BOOLEAN : OSFlagPostISR(g, fs, set)) => SameMessages
      <3>1. \A g, ts, got : OS_FlagTaskRdy(g, ts, got) => SameMessages
        BY <1>11
      <3>2. QED
        BY <3>1 DEF OSFlagPostISR, Posted, Readies
    <2>8. QED
      BY <1>14, <2>3, <2>4, <2>5, <2>6, <2>7 DEF FlagStep
  <1>15. QED
    BY <1>1, <1>2, <1>5, <1>10, <1>14

\* Where nobody gets a message, and a task that comes back has it taken.
LEMMA MsgStays ==
  ASSUME KernelInv, MsgInv, app' = app, SameMessages, \A u \in AppTasks : GrantSame(u)
  PROVE  MsgInv'
  <1>1. AppTasks' = AppTasks /\ AppTasks \subseteq AllTasks
    BY AppIs DEF AppTasks, KernelInv, Settings
  <1>2. QED
    BY <1>1 DEF MsgInv, SameMessages, GrantSame

\* Who waits has no message yet.
LEMMA WaitersHaveNone ==
  ASSUME KernelInv, MsgInv, NEW e \in Event, NEW u \in Waiters(e)
  PROVE  tcb[u].msg = None
  <1>1. u \in AppTasks /\ tcb[u].prio \in waiting[e]
    BY WaitersAre
  <1>2. OnEvent(u)
    BY <1>1, Now DEF TaskInv, InNoPend, OnFlags
  <1>3. \A f \in Event : ~HasGrant(u, f)
    BY <1>1, <1>2 DEF OnEvent, HasGrant
  <1>4. QED
    BY <1>1, <1>3 DEF MsgInv

\* The message of a post goes to the tasks that it chooses.
LEMMA MsgsGiven ==
  ASSUME KernelInv, MsgInv, app' = app, NEW e \in Event, NEW ts \in SUBSET Waiters(e), NEW m \in Msg \cup {None},
         NEW st \in {"ok", "abort"}, evType[e] \in Kinds, OS_EventTaskRdy(e, ts, m, evType[e], st),
         st = "ok" \/ m = None,
         Answers(e, ts, st)
  PROVE  /\ MsgInv'
         /\ \A u \in AllTasks : tcb'[u].msg = IF u \in ts THEN m ELSE tcb[u].msg
  <1>1. AppTasks' = AppTasks /\ AppTasks \subseteq AllTasks
    BY AppIs DEF AppTasks, KernelInv, Settings
  <1>2. ReadiedAs(e, ts, m, evType[e], st)
    BY Readied DEF Kinds, PendAny
  <1>3. ts \subseteq AppTasks
    BY WaitersAre
  <1>4. \A u \in AllTasks : tcb'[u].msg = IF u \in ts THEN m ELSE tcb[u].msg
    BY <1>2, <1>3 DEF ReadiedAs, TcbKept
  <1>5. ASSUME NEW u \in AppTasks, tcb'[u].msg # None PROVE \E f \in Event : HasGrant(u, f)'
    <2>1. CASE u \in ts
      BY <1>4, <1>5, <1>1, <2>1 DEF Answers
    <2>2. CASE u \notin ts
      BY <1>4, <1>5, <1>1, <2>2 DEF Answers, MsgInv
    <2>3. QED
      BY <2>1, <2>2
  <1>6. QED
    BY <1>1, <1>4, <1>5 DEF MsgInv

\* A task that comes back takes its message.
LEMMA MsgTaken ==
  ASSUME KernelInv, MsgInv, app' = app, NEW t \in Task, Wake(t), Listed
  PROVE  MsgInv' /\ \A u \in AllTasks : tcb'[u].msg = IF u = t THEN None ELSE tcb[u].msg
  <1>1. AppTasks' = AppTasks /\ AppTasks \subseteq AllTasks /\ t \in AppTasks
    BY AppIs, WakeKeeps DEF AppTasks, KernelInv, Settings
  <1>2. tcb \in [AllTasks -> TCB] /\ tcb' = [tcb EXCEPT ![t] = Cleared(tcb[t])]
    BY DEF KernelInv, CoreTypeOK, Wake
  <1>3. Cleared(tcb[t]).msg = None
    BY <1>1, <1>2 DEF Cleared, TCB
  <1>4. \A u \in AllTasks : tcb'[u].msg = IF u = t THEN None ELSE tcb[u].msg
    BY <1>1, <1>2, <1>3
  <1>5. \A u \in AppTasks, f \in Event : HasGrant(u, f)' <=> HasGrant(u, f) /\ u # t
    BY WakeKeeps
  <1>6. QED
    BY <1>1, <1>4, <1>5 DEF MsgInv

-----------------------------------------------------------------------------
\* The messages in a ring, as the sequence that OSQAccept takes from.
Queued(n, o, r) == [i \in 1 .. n |-> r[(o + i - 1) % Size]]

Place == 0 .. Size - 1
Mail == Msg \cup {None}

LEMMA QueuedIs ==
  ASSUME NEW n \in 0 .. Size, NEW o \in Place, NEW r \in [Place -> Mail]
  PROVE  /\ Queued(n, o, r) \in Seq(Mail) /\ Len(Queued(n, o, r)) = n
         /\ \A i \in 1 .. n : Queued(n, o, r)[i] = r[Behind(o, i - 1)]
  <1>1. Size \in Nat \ {0} /\ n \in Nat
    BY QAssumption
  <1>2. \A i \in 1 .. n : (o + i - 1) % Size = Behind(o, i - 1) /\ Behind(o, i - 1) \in Place
    <2> SUFFICES ASSUME NEW i \in 1 .. n
                 PROVE  (o + i - 1) % Size = Behind(o, i - 1) /\ Behind(o, i - 1) \in Place
      OBVIOUS
    <2>1. i - 1 \in 0 .. Size /\ i - 1 < Size /\ o \in 0 .. Size - 1
      BY <1>1 DEF Place
    <2>2. (o + (i - 1)) % Size = Behind(o, i - 1)
      BY <2>1, BehindIs
    <2>3. o + i - 1 = o + (i - 1)
      BY <1>1, <2>1
    <2>4. Behind(o, i - 1) \in Place
      BY <1>1, <2>1 DEF Behind, Place
    <2>5. QED
      BY <2>2, <2>3, <2>4
  <1>3. \A i \in 1 .. n : Queued(n, o, r)[i] = r[Behind(o, i - 1)]
    BY <1>2 DEF Queued
  <1>4. \A i \in 1 .. n : r[(o + i - 1) % Size] \in Mail
    BY <1>2
  <1>5. Queued(n, o, r) \in [1 .. n -> Mail]
    BY <1>4 DEF Queued
  <1>6. Queued(n, o, r) \in Seq(Mail)
    BY <1>1, <1>5
  <1>7. Len(Queued(n, o, r)) = n
    BY <1>1, <1>5, <1>6, LenProperties
  <1>8. QED
    BY <1>3, <1>6, <1>7

\* A message written behind the last one.
LEMMA QueuedAtEnd ==
  ASSUME NEW n \in 0 .. Size, n < Size, NEW o \in Place, NEW r \in [Place -> Mail], NEW m \in Msg
  PROVE  Queued(n + 1, o, [r EXCEPT ![Behind(o, n)] = m]) = Append(Queued(n, o, r), m)
  <1> DEFINE s == [r EXCEPT ![Behind(o, n)] = m]
             a == Queued(n + 1, o, s)
             b == Queued(n, o, r)
  <1>1. Size \in Nat \ {0} /\ n \in Nat /\ n + 1 \in 0 .. Size /\ m \in Mail
    BY QAssumption DEF Mail
  <1>2. s \in [Place -> Mail] /\ Behind(o, n) \in Place
    BY <1>1 DEF Behind, Place
  <1>3. \A i \in 1 .. n + 1 : s[Behind(o, i - 1)] = IF i = n + 1 THEN m ELSE r[Behind(o, i - 1)]
    <2> SUFFICES ASSUME NEW i \in 1 .. n + 1
                 PROVE  s[Behind(o, i - 1)] = IF i = n + 1 THEN m ELSE r[Behind(o, i - 1)]
      OBVIOUS
    <2>1. Behind(o, i - 1) \in Place /\ (Behind(o, i - 1) = Behind(o, n) <=> i = n + 1)
      BY <1>1 DEF Behind, Place
    <2>2. QED
      BY <1>2, <2>1
  <1> HIDE DEF s
  <1>4. /\ a \in Seq(Mail) /\ Len(a) = n + 1
        /\ \A i \in 1 .. n + 1 : a[i] = s[Behind(o, i - 1)]
    BY <1>1, <1>2, QueuedIs
  <1>5. /\ b \in Seq(Mail) /\ Len(b) = n
        /\ \A i \in 1 .. n : b[i] = r[Behind(o, i - 1)]
    BY QueuedIs
  <1> HIDE DEF a, b
  <1>6. /\ Append(b, m) \in Seq(Mail) /\ Len(Append(b, m)) = n + 1
        /\ \A i \in 1 .. n : Append(b, m)[i] = b[i]
        /\ Append(b, m)[n + 1] = m
    BY <1>1, <1>5, AppendProperties
  <1>7. \A i \in 1 .. Len(a) : a[i] = Append(b, m)[i]
    <2> SUFFICES ASSUME NEW i \in 1 .. n + 1 PROVE a[i] = Append(b, m)[i]
      BY <1>4
    <2>1. CASE i = n + 1
      BY <1>3, <1>4, <1>6, <2>1
    <2>2. CASE i # n + 1
      <3>1. i \in 1 .. n
        BY <1>1, <2>2
      <3>2. QED
        BY <1>3, <1>4, <1>5, <1>6, <2>2, <3>1
    <2>3. QED
      BY <2>1, <2>2
  <1>8. a = Append(b, m)
    BY <1>4, <1>6, <1>7, SeqEqual
  <1>9. QED
    BY <1>8 DEF a, b, s

\* And before the first one.
LEMMA QueuedAtFront ==
  ASSUME NEW n \in 0 .. Size, n < Size, NEW o \in Place, NEW r \in [Place -> Mail], NEW m \in Msg
  PROVE  Queued(n + 1, Prev1(o), [r EXCEPT ![Prev1(o)] = m]) = <<m>> \o Queued(n, o, r)
  <1> DEFINE p == Prev1(o)
             s == [r EXCEPT ![p] = m]
             a == Queued(n + 1, p, s)
             b == Queued(n, o, r)
             one == <<m>>
  <1>1. Size \in Nat \ {0} /\ n \in Nat /\ n + 1 \in 0 .. Size /\ m \in Mail
    BY QAssumption DEF Mail
  <1>2. p \in Place
    BY <1>1 DEF Prev1, Place
  <1>3. s \in [Place -> Mail]
    BY <1>1, <1>2
  <1>4. \A i \in 1 .. n + 1 : s[Behind(p, i - 1)] = IF i = 1 THEN m ELSE r[Behind(o, i - 2)]
    <2> SUFFICES ASSUME NEW i \in 1 .. n + 1
                 PROVE  s[Behind(p, i - 1)] = IF i = 1 THEN m ELSE r[Behind(o, i - 2)]
      OBVIOUS
    <2>1. /\ Behind(p, i - 1) \in Place /\ (Behind(p, i - 1) = p <=> i = 1)
          /\ i # 1 => Behind(p, i - 1) = Behind(o, i - 2)
      BY <1>1 DEF Behind, Prev1, Place
    <2>2. QED
      BY <1>2, <2>1
  <1> HIDE DEF s, p
  <1>5. /\ a \in Seq(Mail) /\ Len(a) = n + 1
        /\ \A i \in 1 .. n + 1 : a[i] = s[Behind(p, i - 1)]
    BY <1>1, <1>2, <1>3, QueuedIs
  <1>6. /\ b \in Seq(Mail) /\ Len(b) = n
        /\ \A i \in 1 .. n : b[i] = r[Behind(o, i - 1)]
    BY QueuedIs
  <1>7. one \in Seq(Mail) /\ Len(one) = 1 /\ one[1] = m
    BY <1>1
  <1> HIDE DEF a, b, one
  <1> DEFINE c == one \o b
  <1>8. /\ c \in Seq(Mail) /\ Len(c) = n + 1
        /\ c[1] = m /\ \A i \in 2 .. n + 1 : c[i] = b[i - 1]
    <2>1. /\ c \in Seq(Mail) /\ Len(c) = Len(one) + Len(b)
          /\ \A i \in 1 .. Len(one) + Len(b) : c[i] = IF i <= Len(one) THEN one[i] ELSE b[i - Len(one)]
      BY <1>6, <1>7, ConcatProperties
    <2> HIDE DEF c
    <2>2. Len(one) = 1 /\ Len(one) + Len(b) = n + 1
      BY <1>1, <1>6, <1>7
    <2>3. \A i \in 1 .. n + 1 : c[i] = IF i <= 1 THEN one[i] ELSE b[i - 1]
      BY <2>1, <2>2
    <2>4. QED
      BY <1>1, <1>7, <2>1, <2>2, <2>3
  <1> HIDE DEF c
  <1>9. \A i \in 1 .. Len(a) : a[i] = c[i]
    <2> SUFFICES ASSUME NEW i \in 1 .. n + 1 PROVE a[i] = c[i]
      BY <1>5
    <2>1. CASE i = 1
      BY <1>1, <1>4, <1>5, <1>7, <1>8, <2>1
    <2>2. CASE i # 1
      <3>1. i - 1 \in 1 .. n /\ (i - 1) - 1 = i - 2 /\ i \in 2 .. n + 1
        BY <1>1, <2>2
      <3>2. b[i - 1] = r[Behind(o, i - 2)]
        BY <1>6, <3>1
      <3>3. QED
        BY <1>4, <1>5, <1>8, <2>2, <3>1, <3>2
    <2>3. QED
      BY <2>1, <2>2
  <1>10. a = c
    BY <1>5, <1>8, <1>9, SeqEqual
  <1>11. QED
    BY <1>10 DEF a, b, c, s, p, one

\* The first message taken.
LEMMA QueuedTaken ==
  ASSUME NEW n \in 1 .. Size, NEW o \in Place, NEW r \in [Place -> Mail]
  PROVE  Queued(n, o, r) # <<>> /\ Queued(n - 1, Next1(o), r) = Tail(Queued(n, o, r))
  <1> DEFINE q == Next1(o)
             a == Queued(n - 1, q, r)
             b == Queued(n, o, r)
  <1>1. Size \in Nat \ {0} /\ n \in Nat /\ n \in 0 .. Size /\ n - 1 \in 0 .. Size
    BY QAssumption
  <1>2. q \in Place
    BY <1>1 DEF Next1, Place
  <1>3. \A i \in 1 .. n - 1 : Behind(q, i - 1) = Behind(o, i)
    BY <1>1 DEF Behind, Next1, Place
  <1> HIDE DEF q
  <1>4. /\ a \in Seq(Mail) /\ Len(a) = n - 1
        /\ \A i \in 1 .. n - 1 : a[i] = r[Behind(q, i - 1)]
    BY <1>1, <1>2, QueuedIs
  <1>5. /\ b \in Seq(Mail) /\ Len(b) = n
        /\ \A i \in 1 .. n : b[i] = r[Behind(o, i - 1)]
    BY <1>1, QueuedIs
  <1> HIDE DEF a, b
  <1>6. b # <<>>
    <2>1. Len(<<>>) = 0
      BY EmptySeq, Zenon
    <2>2. b = <<>> => n = 0
      BY <1>5, <2>1, Zenon
    <2>3. QED
      BY <2>2
  <1>7. /\ Tail(b) \in Seq(Mail) /\ Len(Tail(b)) = n - 1
        /\ \A i \in 1 .. Len(Tail(b)) : Tail(b)[i] = b[i + 1]
    BY <1>5, <1>6, HeadTailProperties
  <1>8. \A i \in 1 .. n - 1 : a[i] = Tail(b)[i]
    <2> SUFFICES ASSUME NEW i \in 1 .. n - 1 PROVE a[i] = Tail(b)[i]
      OBVIOUS
    <2>1. i + 1 \in 1 .. n /\ (i + 1) - 1 = i
      BY <1>1
    <2>2. b[i + 1] = r[Behind(o, i)]
      BY <1>5, <2>1
    <2>3. QED
      BY <1>3, <1>4, <1>7, <2>2
  <1>9. a = Tail(b)
    BY <1>4, <1>7, <1>8, SeqEqual
  <1>10. QED
    BY <1>6, <1>9 DEF a, b, q

-----------------------------------------------------------------------------
\* The channels of module Channel that the mailboxes and queues implement.

\* What a channel holds, by the kind of the event.
LEMMA ContentsAre ==
  ASSUME NEW e \in Event
  PROVE  /\ IsMbox(e) => Contents(e) = IF mail[e] = None THEN <<>> ELSE <<mail[e]>>
         /\ IsQ(e) => Contents(e) = Queued(entries[e], qOut[e], ring[e])
         /\ ~IsMbox(e) /\ ~IsQ(e) => Contents(e) = <<>>
  BY DEF Contents, Queued, IsMbox, IsQ

LEMMA ContentsNext ==
  ASSUME NEW e \in Event
  PROVE  /\ IsMbox(e)' => Contents(e)' = IF mail'[e] = None THEN <<>> ELSE <<mail'[e]>>
         /\ IsQ(e)' => Contents(e)' = Queued(entries'[e], qOut'[e], ring'[e])
         /\ ~IsMbox(e)' /\ ~IsQ(e)' => Contents(e)' = <<>>
  BY DEF Contents, Queued, IsMbox, IsQ

\* The state of an event that its messages depend on.
SameChannel(f) ==
  /\ evType'[f] = evType[f] /\ mail'[f] = mail[f]
  /\ ring'[f] = ring[f] /\ qOut'[f] = qOut[f] /\ entries'[f] = entries[f]

LEMMA ChannelStays ==
  ASSUME NEW f \in Event, SameChannel(f)
  PROVE  Contents(f)' = Contents(f)
  BY DEF Contents, SameChannel, IsMbox, IsQ

OthersStay(e) == \A f \in Event \ {e} : Contents(f)' = Contents(f)

LEMMA OthersOf ==
  ASSUME NEW e \in Event, NEW kind, Concerns(e, kind),
         \A f \in Event \ {e} : /\ mail'[f] = mail[f] /\ ring'[f] = ring[f]
                                /\ qOut'[f] = qOut[f] /\ entries'[f] = entries[f]
  PROVE  OthersStay(e)
  BY ChannelStays DEF OthersStay, SameChannel, Concerns

\* A step of the channels, or none.
ChannelStep ==
  \/ UNCHANGED Promise!vars
  \/ \E c \in Event : Promise!Keep(c) \/ Promise!Hand(c) \/ Promise!Restart(c)
  \/ \E cs \in SUBSET Event : Promise!Take(cs)
  \/ \E r \in Task : Promise!Receive(r)

\* The tasks as receivers.
LEMMA HandsStay ==
  ASSUME SameMessages
  PROVE  [t \in Task |-> tcb[t].msg]' = [t \in Task |-> tcb[t].msg]
  BY DEF SameMessages, AllTasks

LEMMA NothingHappens ==
  ASSUME SameMessages, epoch' = epoch, \A f \in Event : Contents(f)' = Contents(f)
  PROVE  ChannelStep
  <1>1. [e \in Event |-> Contents(e)]' = [e \in Event |-> Contents(e)]
    OBVIOUS
  <1>2. QED
    BY <1>1, HandsStay DEF ChannelStep, Promise!vars

LEMMA KeepsOne ==
  ASSUME SameMessages, epoch' = epoch, NEW e \in Event, NEW m \in Msg, OthersStay(e),
         Len(Contents(e)) < Size,
         Contents(e)' = Append(Contents(e), m) \/ Contents(e)' = <<m>> \o Contents(e)
  PROVE  ChannelStep
  <1> DEFINE chan == [f \in Event |-> Contents(f)]
  <1>1. \/ chan' = [chan EXCEPT ![e] = Append(chan[e], m)]
        \/ chan' = [chan EXCEPT ![e] = <<m>> \o chan[e]]
    BY DEF OthersStay
  <1>2. Len(chan[e]) < Size
    OBVIOUS
  <1>3. Promise!Keep(e)
    BY <1>1, <1>2, HandsStay DEF Promise!Keep
  <1>4. QED
    BY <1>3 DEF ChannelStep

LEMMA TakesOne ==
  ASSUME SameMessages, epoch' = epoch, NEW e \in Event, OthersStay(e),
         Contents(e) # <<>>, Contents(e)' = Tail(Contents(e))
  PROVE  ChannelStep
  <1> DEFINE chan == [f \in Event |-> Contents(f)]
  <1>1. chan' = [f \in Event |-> IF f \in {e} THEN Tail(chan[f]) ELSE chan[f]]
    BY DEF OthersStay
  <1>2. \A f \in {e} : chan[f] # <<>>
    OBVIOUS
  <1>3. Promise!Take({e})
    BY <1>1, <1>2, HandsStay DEF Promise!Take
  <1>4. QED
    BY <1>3 DEF ChannelStep

LEMMA StartsAnew ==
  ASSUME SameMessages, NEW e \in Event, Restarts(e), OthersStay(e),
         Contents(e)' = <<>> \/ \E m \in Msg : Contents(e)' = <<m>>
  PROVE  ChannelStep
  <1> DEFINE chan == [f \in Event |-> Contents(f)]
  <1>1. PICK s \in {<<>>} \cup {<<m>> : m \in Msg} : Contents(e)' = s
    OBVIOUS
  <1>2. chan' = [chan EXCEPT ![e] = s]
    BY <1>1 DEF OthersStay
  <1>3. Promise!Restart(e)
    BY <1>2, HandsStay DEF Promise!Restart, Restarts
  <1>4. QED
    BY <1>3 DEF ChannelStep

LEMMA HandsOver ==
  ASSUME epoch' = epoch, \A f \in Event : Contents(f)' = Contents(f),
         NEW e \in Event, Contents(e) = <<>>,
         NEW m \in Msg, NEW ts \in SUBSET Task, ts # {}, \A u \in ts : tcb[u].msg = None,
         \A u \in AllTasks : tcb'[u].msg = IF u \in ts THEN m ELSE tcb[u].msg
  PROVE  ChannelStep
  <1> DEFINE chan == [f \in Event |-> Contents(f)]
             hand == [t \in Task |-> tcb[t].msg]
  <1>1. chan' = chan /\ chan[e] = <<>>
    OBVIOUS
  <1>2. hand' = [t \in Task |-> IF t \in ts THEN m ELSE hand[t]] /\ \A t \in ts : hand[t] = None
    BY DEF AllTasks
  <1>3. Promise!Hand(e)
    BY <1>1, <1>2 DEF Promise!Hand
  <1>4. QED
    BY <1>3 DEF ChannelStep

\* The messages of the tasks after a call.
LEMMA SilentHands ==
  ASSUME KernelInv, MsgInv, app' = app, Quiet \/ SilentStep
  PROVE  MsgInv' /\ SameMessages
  <1>1. CASE Quiet \/ \E t \in Task, e \in Event :
                        (\E type \in Kinds : Create(t, e, type)) \/ \E ticks \in Nat : BlockOn(t, e, ticks)
    <2>1. SameMessages
      BY <1>1, MessagesStay
    <2>2. \A u \in AppTasks : GrantSame(u)
      BY <1>1, QuietKeeps, CreateKeeps, BlockKeeps DEF AllGo, Goes
    <2>3. QED
      BY <2>1, <2>2, MsgStays
  <1>2. ASSUME NEW e \in Event, NEW ts \in SUBSET Waiters(e), NEW st \in {"ok", "abort"}, evType[e] \in Kinds,
               OS_EventTaskRdy(e, ts, None, evType[e], st), Answers(e, ts, st)
        PROVE  MsgInv' /\ SameMessages
    <2> DEFINE m == None
    <2>1. MsgInv' /\ \A u \in AllTasks : tcb'[u].msg = IF u \in ts THEN m ELSE tcb[u].msg
      <3>1. m \in Msg \cup {None} /\ m = None /\ OS_EventTaskRdy(e, ts, m, evType[e], st)
        BY <1>2
      <3> HIDE DEF m
      <3>2. CASE st = "ok"
        BY <1>2, <3>1, <3>2, MsgsGiven
      <3>3. CASE st = "abort"
        BY <1>2, <3>1, <3>3, MsgsGiven
      <3>4. QED
        BY <3>2, <3>3
    <2>2. \A u \in ts : tcb[u].msg = None
      BY WaitersHaveNone
    <2>3. QED
      BY <2>1, <2>2 DEF SameMessages
  <1>3. ASSUME NEW t \in Task, NEW e \in Event, NEW always \in BOOLEAN, Delete(t, e, always)
        PROVE  MsgInv' /\ SameMessages
    <2>1. evType[e] \in Kinds /\ OS_EventTaskRdy(e, Waiters(e), None, evType[e], "ok")
      BY <1>3 DEF Delete, EventDel
    <2>2. Answers(e, Waiters(e), "ok")
      BY <1>3, DeleteKeeps
    <2>3. QED
      BY <1>2, <2>1, <2>2
  <1>4. ASSUME NEW e \in Event, NEW ts \in SUBSET AppTasks, NEW st \in {"ok", "abort"}, Answer(e, ts, None, st)
        PROVE  MsgInv' /\ SameMessages
    <2>1. ts \in SUBSET Waiters(e) /\ evType[e] \in Kinds /\ OS_EventTaskRdy(e, ts, None, evType[e], st)
      BY <1>4, WaitersAre DEF Answer
    <2>2. Answers(e, ts, st)
      BY <1>4, AnswerKeeps
    <2>3. QED
      BY <1>2, <2>1, <2>2
  <1>5. QED
    BY <1>1, <1>3, <1>4 DEF SilentStep

LEMMA PostHands ==
  ASSUME KernelInv, MsgInv, app' = app, NEW e \in Event, NEW ts \in SUBSET AppTasks, NEW m \in Msg,
         Answer(e, ts, m, "ok")
  PROVE  /\ MsgInv' /\ ts # {} /\ \A u \in ts : tcb[u].msg = None
         /\ \A u \in AllTasks : tcb'[u].msg = IF u \in ts THEN m ELSE tcb[u].msg
  <1>1. /\ ts \in SUBSET Waiters(e) /\ ts # {} /\ evType[e] \in Kinds
        /\ OS_EventTaskRdy(e, ts, m, evType[e], "ok")
    BY WaitersAre DEF Answer
  <1>2. Answers(e, ts, "ok")
    BY AnswerKeeps
  <1>3. MsgInv' /\ \A u \in AllTasks : tcb'[u].msg = IF u \in ts THEN m ELSE tcb[u].msg
    BY <1>1, <1>2, MsgsGiven
  <1>4. \A u \in ts : tcb[u].msg = None
    BY <1>1, WaitersHaveNone
  <1>5. QED
    BY <1>1, <1>3, <1>4

\* A post that wakes hands its message over.
LEMMA PostWakesChannel ==
  ASSUME KernelInv, MsgInv, app' = app, epoch' = epoch, UNCHANGED <<mail, qVars>>,
         NEW e \in Event, NEW ts \in SUBSET AppTasks, NEW m \in Msg, Answer(e, ts, m, "ok"), Contents(e) = <<>>
  PROVE  MsgInv' /\ ChannelStep
  <1>1. /\ MsgInv' /\ ts # {} /\ \A u \in ts : tcb[u].msg = None
        /\ \A u \in AllTasks : tcb'[u].msg = IF u \in ts THEN m ELSE tcb[u].msg
    BY PostHands
  <1>2. \A f \in Event : Contents(f)' = Contents(f)
    BY ChannelStays DEF Answer, SameChannel, qVars
  <1>3. ts \in SUBSET Task
    BY AppIs DEF KernelInv, Settings
  <1>4. QED
    BY <1>1, <1>2, <1>3, HandsOver

\* The mailboxes.
LEMMA MboxPosts ==
  ASSUME KernelInv, MailInv, MsgInv, app' = app, Listed, UNCHANGED <<qVars, epoch>>, NEW e \in Event, NEW m \in Msg,
         MboxKeeps(e, m) \/ \E broadcast \in BOOLEAN : MboxWakes(e, m, broadcast) /\ Ends
  PROVE  MsgInv' /\ ChannelStep
  <1>1. CASE MboxKeeps(e, m)
    <2>1. /\ IsMbox(e) /\ mail[e] = None /\ mail' = [mail EXCEPT ![e] = m] /\ Quiet
      BY <1>1 DEF MboxKeeps, Quiet, Listed
    <2>2. MsgInv' /\ SameMessages
      BY <2>1, SilentHands
    <2>3. evType' = evType /\ mail \in [Event -> Msg \cup {None}] /\ m # None
      BY <2>1, CoreAssumption DEF Quiet, coreVars, MailInv
    <2>4. Contents(e) = <<>> /\ Contents(e)' = <<m>>
      BY <2>1, <2>3, ContentsAre, ContentsNext DEF IsMbox
    <2>5. <<m>> \in Seq(Msg) /\ <<>> \in Seq(Msg) /\ Len(<<>>) = 0
      OBVIOUS
    <2>6. <<m>> \o <<>> = <<m>>
      BY <2>5, ConcatEmptySeq
    <2>7. OthersStay(e)
      BY <2>1, <2>3, ChannelStays DEF OthersStay, SameChannel, qVars
    <2>8. Len(Contents(e)) < Size
      BY <2>4, <2>5, QAssumption
    <2>9. QED
      BY <2>2, <2>4, <2>6, <2>7, <2>8, KeepsOne
  <1>2. ASSUME NEW broadcast \in BOOLEAN, MboxWakes(e, m, broadcast), Ends
        PROVE  MsgInv' /\ ChannelStep
    <2>1. /\ IsMbox(e) /\ waiting[e] # {} /\ UNCHANGED <<evType, mail>>
          /\ OS_EventTaskRdy(e, IF broadcast THEN Waiters(e) ELSE {HighestWaiter(e)}, m, evType[e], "ok")
      BY <1>2 DEF MboxWakes, IsMbox
    <2>2. PICK ts \in SUBSET AppTasks : Answer(e, ts, m, "ok")
      BY <1>2, <2>1, ChosenAre DEF Answer, Kinds, IsMbox
    <2>3. mail[e] = None
      BY <2>1 DEF MailInv
    <2>4. Contents(e) = <<>>
      BY <2>1, <2>3, ContentsAre
    <2>5. QED
      BY <2>1, <2>2, <2>4, PostWakesChannel
  <1>3. QED
    BY <1>1, <1>2

LEMMA MboxOthers ==
  ASSUME KernelInv, MailInv, MsgInv, app' = app, Listed, UNCHANGED qVars, NEW t \in Task, NEW e \in Event,
         \/ /\ \/ \E m \in Msg \cup {None} : OSMboxCreate(t, e, m)
               \/ \E always \in BOOLEAN : OSMboxDel(t, e, always)
            /\ Restarts(e)
         \/ /\ \/ TakeMail(t, e)
               \/ MayPend(t) /\ \E ticks \in Nat : OSMboxPend(t, e, ticks)
               \/ \E broadcast \in BOOLEAN : OSMboxPendAbort(t, e, broadcast)
            /\ epoch' = epoch
  PROVE  MsgInv' /\ ChannelStep
  <1> mail \in [Event -> Msg \cup {None}] /\ evType \in [Event -> Kinds \cup {"mutex", "unused"}] /\ "mbox" \in Kinds
    BY Now DEF MailInv, Kinds
  <1>1. ASSUME NEW m \in Msg \cup {None}, OSMboxCreate(t, e, m), Restarts(e) PROVE MsgInv' /\ ChannelStep
    <2>1. Create(t, e, "mbox") /\ mail' = [mail EXCEPT ![e] = m] /\ EventCreate(t, e, "mbox")
      BY <1>1 DEF OSMboxCreate, Create
    <2>2. MsgInv' /\ SameMessages
      BY <2>1, SilentHands DEF SilentStep
    <2>3. Concerns(e, "mbox")
      BY <2>1, CallConcerns
    <2>4. OthersStay(e)
      BY <2>1, <2>3, OthersOf DEF qVars
    <2>5. IsMbox(e)' /\ mail'[e] = m
      BY <2>1 DEF IsMbox, EventCreate
    <2>6. Contents(e)' = <<>> \/ \E x \in Msg : Contents(e)' = <<x>>
      BY <2>5, ContentsNext
    <2>7. QED
      BY <1>1, <2>2, <2>4, <2>6, StartsAnew
  <1>2. ASSUME NEW always \in BOOLEAN, OSMboxDel(t, e, always), Restarts(e) PROVE MsgInv' /\ ChannelStep
    <2>1. evType[e] = "mbox" /\ EventDel(t, e, "mbox", always) /\ mail' = [mail EXCEPT ![e] = None]
      BY <1>2 DEF OSMboxDel, IsMbox
    <2>2. MsgInv' /\ SameMessages
      BY <2>1, SilentHands DEF SilentStep, Delete
    <2>3. Concerns(e, "mbox")
      BY <2>1, CallConcerns
    <2>4. OthersStay(e)
      BY <2>1, <2>3, OthersOf DEF qVars
    <2>5. ~IsMbox(e)' /\ ~IsQ(e)'
      BY <2>1 DEF IsMbox, IsQ, EventDel
    <2>6. Contents(e)' = <<>>
      BY <2>5, ContentsNext
    <2>7. QED
      BY <1>2, <2>2, <2>4, <2>6, StartsAnew
  <1>3. ASSUME TakeMail(t, e), epoch' = epoch PROVE MsgInv' /\ ChannelStep
    <2>1. /\ IsMbox(e) /\ mail[e] # None /\ mail' = [mail EXCEPT ![e] = None] /\ Quiet
      BY <1>3 DEF TakeMail, Quiet, Listed
    <2>2. MsgInv' /\ SameMessages
      BY <2>1, SilentHands
    <2>3. evType' = evType
      BY <2>1 DEF Quiet, coreVars
    <2>4. OthersStay(e)
      BY <2>1, <2>3, ChannelStays DEF OthersStay, SameChannel, qVars
    <2> DEFINE one == <<mail[e]>>
    <2>5. Contents(e) = one /\ Contents(e)' = <<>>
      BY <2>1, <2>3, ContentsAre, ContentsNext DEF IsMbox
    <2>6. one # <<>> /\ Tail(one) = <<>>
      OBVIOUS
    <2>7. QED
      BY <1>3, <2>2, <2>4, <2>5, <2>6, TakesOne
  <1>4. ASSUME NEW ticks \in Nat, MayPend(t), OSMboxPend(t, e, ticks), epoch' = epoch
        PROVE  MsgInv' /\ ChannelStep
    <2>1. BlockOn(t, e, ticks) /\ UNCHANGED <<evType, mail>>
      BY <1>4, RulesKept DEF OSMboxPend, BlockOn, IsMbox, Kinds
    <2>2. MsgInv' /\ SameMessages
      BY <2>1, SilentHands DEF SilentStep
    <2>3. \A f \in Event : Contents(f)' = Contents(f)
      BY <2>1, ChannelStays DEF SameChannel, qVars
    <2>4. QED
      BY <1>4, <2>2, <2>3, NothingHappens
  <1>5. ASSUME NEW broadcast \in BOOLEAN, OSMboxPendAbort(t, e, broadcast), epoch' = epoch
        PROVE  MsgInv' /\ ChannelStep
    <2>1. UNCHANGED <<evType, mail>>
      BY <1>5 DEF OSMboxPendAbort, PendAbort
    <2>2. PICK ts \in SUBSET AppTasks : Answer(e, ts, None, "abort")
      BY <1>5, ChosenAre DEF OSMboxPendAbort, IsMbox, PendAbort, Answer, Ends, Kinds
    <2>3. MsgInv' /\ SameMessages
      BY <2>2, SilentHands DEF SilentStep
    <2>4. \A f \in Event : Contents(f)' = Contents(f)
      BY <2>1, ChannelStays DEF SameChannel, qVars
    <2>5. QED
      BY <1>5, <2>3, <2>4, NothingHappens
  <1>6. QED
    BY <1>1, <1>2, <1>3, <1>4, <1>5

\* The queues.
LEMMA QueueIs ==
  ASSUME RingInv, NEW e \in Event, IsQ(e)
  PROVE  /\ entries[e] \in 0 .. Size /\ qOut[e] \in Place /\ ring[e] \in [Place -> Mail]
         /\ qIn[e] = Behind(qOut[e], entries[e])
         /\ Contents(e) = Queued(entries[e], qOut[e], ring[e])
         /\ Contents(e) \in Seq(Mail) /\ Len(Contents(e)) = entries[e]
         /\ entries[e] = 0 => Contents(e) = <<>>
  <1>1. entries[e] \in 0 .. Size /\ qOut[e] \in Place /\ ring[e] \in [Place -> Mail]
    BY DEF RingInv, Place, Mail
  <1>2. qIn[e] = Behind(qOut[e], entries[e])
    <2>1. (qOut[e] + entries[e]) % Size = qIn[e]
      BY DEF RingInv
    <2>2. (qOut[e] + entries[e]) % Size = Behind(qOut[e], entries[e])
      BY <1>1, BehindIs DEF Place
    <2>3. QED
      BY <2>1, <2>2
  <1>3. Contents(e) = Queued(entries[e], qOut[e], ring[e])
    BY ContentsAre
  <1>4. Contents(e) \in Seq(Mail) /\ Len(Contents(e)) = entries[e]
    BY <1>1, <1>3, QueuedIs
  <1>5. ASSUME entries[e] = 0 PROVE Contents(e) = <<>>
    <2>1. Contents(e) # <<>> => Len(Contents(e)) \in Nat \ {0}
      BY <1>4, EmptySeq, Zenon
    <2>2. QED
      BY <1>4, <1>5, <2>1
  <1>6. QED
    BY <1>1, <1>2, <1>3, <1>4, <1>5

LEMMA QPosts ==
  ASSUME KernelInv, RingInv, MsgInv, app' = app, Listed, UNCHANGED <<mail, epoch>>, NEW e \in Event, NEW m \in Msg,
         \/ AtEnd(e, m) \/ AtFront(e, m)
         \/ \E broadcast \in BOOLEAN : QWakes(e, m, broadcast) /\ Ends
  PROVE  MsgInv' /\ ChannelStep
  <1>1. ASSUME AtEnd(e, m) \/ AtFront(e, m),
               Contents(e)' = Append(Contents(e), m) \/ Contents(e)' = <<m>> \o Contents(e)
        PROVE  MsgInv' /\ ChannelStep
    <2>1. /\ IsQ(e) /\ entries[e] < Size /\ Quiet
          /\ \A f \in Event \ {e} : ring'[f] = ring[f] /\ qOut'[f] = qOut[f] /\ entries'[f] = entries[f]
      BY <1>1 DEF AtEnd, AtFront, HasRoom, Quiet, Listed, RingInv
    <2>2. MsgInv' /\ SameMessages
      BY <2>1, SilentHands
    <2>3. OthersStay(e)
      BY <2>1, ChannelStays DEF OthersStay, SameChannel, Quiet, coreVars
    <2>4. Len(Contents(e)) < Size
      BY <2>1, QueueIs
    <2>5. QED
      BY <1>1, <2>2, <2>3, <2>4, KeepsOne
  <1>2. CASE AtEnd(e, m)
    <2> DEFINE n == entries[e]
               o == qOut[e]
               r == ring[e]
    <2>1. /\ IsQ(e) /\ n < Size /\ UNCHANGED <<evType, qOut>>
          /\ ring' = [ring EXCEPT ![e][qIn[e]] = m] /\ entries' = [entries EXCEPT ![e] = n + 1]
      BY <1>2 DEF AtEnd, HasRoom, coreVars
    <2>2. /\ n \in 0 .. Size /\ o \in Place /\ r \in [Place -> Mail]
          /\ qIn[e] = Behind(o, n) /\ Contents(e) = Queued(n, o, r)
      BY <2>1, QueueIs
    <2>3. entries'[e] = n + 1 /\ qOut'[e] = o /\ ring'[e] = [r EXCEPT ![Behind(o, n)] = m] /\ IsQ(e)'
      BY <2>1, <2>2 DEF RingInv, IsQ
    <2> HIDE DEF n, o, r
    <2>4. Contents(e)' = Queued(n + 1, o, [r EXCEPT ![Behind(o, n)] = m])
      BY <2>3, ContentsNext
    <2>5. Contents(e)' = Append(Contents(e), m)
      <3>1. Queued(n + 1, o, [r EXCEPT ![Behind(o, n)] = m]) = Append(Queued(n, o, r), m)
        BY <2>1, <2>2, QueuedAtEnd
      <3>2. QED
        BY <2>2, <2>4, <3>1, Zenon
    <2>6. QED
      BY <1>1, <1>2, <2>5
  <1>3. CASE AtFront(e, m)
    <2> DEFINE n == entries[e]
               o == qOut[e]
               r == ring[e]
    <2>1. /\ IsQ(e) /\ n < Size /\ UNCHANGED evType /\ qOut' = [qOut EXCEPT ![e] = Prev1(o)]
          /\ ring' = [ring EXCEPT ![e][Prev1(o)] = m] /\ entries' = [entries EXCEPT ![e] = n + 1]
      BY <1>3 DEF AtFront, HasRoom, coreVars
    <2>2. /\ n \in 0 .. Size /\ o \in Place /\ r \in [Place -> Mail]
          /\ Contents(e) = Queued(n, o, r)
      BY <2>1, QueueIs
    <2>3. entries'[e] = n + 1 /\ qOut'[e] = Prev1(o) /\ ring'[e] = [r EXCEPT ![Prev1(o)] = m] /\ IsQ(e)'
      BY <2>1, <2>2 DEF RingInv, IsQ
    <2> HIDE DEF n, o, r
    <2>4. Contents(e)' = Queued(n + 1, Prev1(o), [r EXCEPT ![Prev1(o)] = m])
      BY <2>3, ContentsNext
    <2>5. Contents(e)' = <<m>> \o Contents(e)
      BY <2>1, <2>2, <2>4, QueuedAtFront
    <2>6. QED
      BY <1>1, <1>3, <2>5
  <1>4. ASSUME NEW broadcast \in BOOLEAN, QWakes(e, m, broadcast), Ends
        PROVE  MsgInv' /\ ChannelStep
    <2>1. /\ IsQ(e) /\ waiting[e] # {} /\ UNCHANGED <<evType, qVars>>
          /\ OS_EventTaskRdy(e, IF broadcast THEN Waiters(e) ELSE {HighestWaiter(e)}, m, evType[e], "ok")
      BY <1>4 DEF QWakes, IsQ
    <2>2. PICK ts \in SUBSET AppTasks : Answer(e, ts, m, "ok")
      BY <1>4, <2>1, ChosenAre DEF Answer, Kinds, IsQ
    <2>3. entries[e] = 0
      <3>1. entries[e] \in Nat /\ ~(entries[e] > 0)
        BY <2>1, QueueIs, QAssumption DEF RingInv
      <3>2. QED
        BY <3>1
    <2>4. Contents(e) = <<>>
      BY <2>1, <2>3, QueueIs
    <2>5. QED
      BY <2>1, <2>2, <2>4, PostWakesChannel
  <1>5. QED
    BY <1>2, <1>3, <1>4

LEMMA QOthers ==
  ASSUME KernelInv, RingInv, MsgInv, app' = app, Listed, UNCHANGED mail, NEW t \in Task, NEW e \in Event,
         \/ /\ \/ OSQCreate(t, e)
               \/ OSQFlush(t, e)
               \/ \E always \in BOOLEAN : OSQDel(t, e, always)
            /\ Restarts(e)
         \/ /\ \/ TakeMsg(t, e)
               \/ MayPend(t) /\ \E ticks \in Nat : OSQPend(t, e, ticks)
               \/ \E broadcast \in BOOLEAN : OSQPendAbort(t, e, broadcast)
            /\ epoch' = epoch
  PROVE  MsgInv' /\ ChannelStep
  <1> evType \in [Event -> Kinds \cup {"mutex", "unused"}] /\ "q" \in Kinds
    BY Now DEF Kinds
  <1>1. ASSUME OSQCreate(t, e) \/ OSQFlush(t, e), Restarts(e) PROVE MsgInv' /\ ChannelStep
    <2>1. /\ \/ Create(t, e, "q") /\ EventCreate(t, e, "q")
             \/ Quiet /\ evType[e] = "q" /\ UNCHANGED <<evType, waiting>>
          /\ qOut' = [qOut EXCEPT ![e] = 0] /\ entries' = [entries EXCEPT ![e] = 0] /\ ring' = ring
      BY <1>1 DEF OSQCreate, OSQFlush, Create, Quiet, Listed, IsQ, coreVars
    <2>2. MsgInv' /\ SameMessages
      BY <2>1, SilentHands DEF SilentStep
    <2>3. Concerns(e, "q")
      BY <2>1, CallConcerns
    <2>4. OthersStay(e)
      BY <2>1, <2>3, OthersOf
    <2>5. IsQ(e)' /\ entries'[e] = 0
      BY <2>1 DEF IsQ, EventCreate, RingInv
    <2>6. Contents(e)' = Queued(0, qOut'[e], ring'[e])
      BY <2>5, ContentsNext
    <2>7. qOut'[e] \in Place /\ ring'[e] \in [Place -> Mail] /\ 0 \in 0 .. Size
      BY <2>1, QAssumption DEF RingInv, Place, Mail
    <2>8. Contents(e)' \in Seq(Mail) /\ Len(Contents(e)') = 0
      BY <2>6, <2>7, QueuedIs
    <2> DEFINE s == Contents(e)'
    <2>9. s = <<>>
      <3>1. s \in Seq(Mail) /\ Len(s) = 0
        BY <2>8
      <3> HIDE DEF s
      <3>2. s # <<>> => Len(s) \in Nat \ {0}
        BY <3>1, EmptySeq, Zenon
      <3>3. QED
        BY <3>1, <3>2
    <2>10. QED
      BY <1>1, <2>2, <2>4, <2>9, StartsAnew
  <1>2. ASSUME NEW always \in BOOLEAN, OSQDel(t, e, always), Restarts(e) PROVE MsgInv' /\ ChannelStep
    <2>1. evType[e] = "q" /\ EventDel(t, e, "q", always) /\ UNCHANGED <<ring, qOut, entries>>
      BY <1>2 DEF OSQDel, IsQ, qVars
    <2>2. MsgInv' /\ SameMessages
      BY <2>1, SilentHands DEF SilentStep, Delete
    <2>3. Concerns(e, "q")
      BY <2>1, CallConcerns
    <2>4. OthersStay(e)
      BY <2>1, <2>3, OthersOf
    <2>5. ~IsMbox(e)' /\ ~IsQ(e)'
      BY <2>1 DEF IsMbox, IsQ, EventDel
    <2>6. Contents(e)' = <<>>
      BY <2>5, ContentsNext
    <2>7. QED
      BY <1>2, <2>2, <2>4, <2>6, StartsAnew
  <1>3. ASSUME TakeMsg(t, e), epoch' = epoch PROVE MsgInv' /\ ChannelStep
    <2> DEFINE n == entries[e]
               o == qOut[e]
               r == ring[e]
    <2>1. /\ IsQ(e) /\ n > 0 /\ Quiet /\ UNCHANGED <<evType, ring>>
          /\ qOut' = [qOut EXCEPT ![e] = Next1(o)] /\ entries' = [entries EXCEPT ![e] = n - 1]
      BY <1>3 DEF TakeMsg, Quiet, Listed, coreVars
    <2>2. MsgInv' /\ SameMessages
      BY <2>1, SilentHands
    <2>3. OthersStay(e)
      BY <2>1, ChannelStays DEF OthersStay, SameChannel, RingInv
    <2>4. /\ n \in 0 .. Size /\ o \in Place /\ r \in [Place -> Mail]
          /\ Contents(e) = Queued(n, o, r)
      BY <2>1, QueueIs
    <2>5. entries'[e] = n - 1 /\ qOut'[e] = Next1(o) /\ ring'[e] = r /\ IsQ(e)'
      BY <2>1 DEF RingInv, IsQ
    <2>6. n \in 1 .. Size
      BY <2>1, <2>4, QAssumption
    <2> HIDE DEF n, o, r
    <2>7. Contents(e)' = Queued(n - 1, Next1(o), r)
      BY <2>5, ContentsNext
    <2>8. Contents(e) # <<>> /\ Contents(e)' = Tail(Contents(e))
      BY <2>4, <2>6, <2>7, QueuedTaken
    <2>9. QED
      BY <1>3, <2>2, <2>3, <2>8, TakesOne
  <1>4. ASSUME NEW ticks \in Nat, MayPend(t), OSQPend(t, e, ticks), epoch' = epoch
        PROVE  MsgInv' /\ ChannelStep
    <2>1. BlockOn(t, e, ticks) /\ UNCHANGED <<evType, qVars>>
      BY <1>4, RulesKept DEF OSQPend, BlockOn, IsQ, Kinds
    <2>2. MsgInv' /\ SameMessages
      BY <2>1, SilentHands DEF SilentStep
    <2>3. \A f \in Event : Contents(f)' = Contents(f)
      BY <2>1, ChannelStays DEF SameChannel, qVars
    <2>4. QED
      BY <1>4, <2>2, <2>3, NothingHappens
  <1>5. ASSUME NEW broadcast \in BOOLEAN, OSQPendAbort(t, e, broadcast), epoch' = epoch
        PROVE  MsgInv' /\ ChannelStep
    <2>1. UNCHANGED <<evType, qVars>>
      BY <1>5 DEF OSQPendAbort, PendAbort
    <2>2. PICK ts \in SUBSET AppTasks : Answer(e, ts, None, "abort")
      BY <1>5, ChosenAre DEF OSQPendAbort, IsQ, PendAbort, Answer, Ends, Kinds
    <2>3. MsgInv' /\ SameMessages
      BY <2>2, SilentHands DEF SilentStep
    <2>4. \A f \in Event : Contents(f)' = Contents(f)
      BY <2>1, ChannelStays DEF SameChannel, qVars
    <2>5. QED
      BY <1>5, <2>3, <2>4, NothingHappens
  <1>6. QED
    BY <1>1, <1>2, <1>3, <1>4, <1>5

\* The calls of the services that send and receive messages.
LEMMA MboxCallChannels ==
  ASSUME KernelInv, MailInv, MsgInv, NEW t \in Task, MboxCall(t)
  PROVE  MsgInv' /\ ChannelStep
  <1>1. app.events \subseteq Event /\ app.ticks \subseteq Nat /\ app.msgs \subseteq Msg
    BY AppIs DEF KernelInv, Settings
  <1>2. app' = app /\ Listed /\ UNCHANGED qVars
    BY DEF MboxCall, Listed, flagVars
  <1>3. PICK e \in app.events :
          \/ /\ \/ \E m \in app.msgs \cup {None} : OSMboxCreate(t, e, m)
                \/ \E always \in BOOLEAN : OSMboxDel(t, e, always)
             /\ Restarts(e)
          \/ /\ \/ TakeMail(t, e)
                \/ MayPend(t) /\ \E ticks \in app.ticks : OSMboxPend(t, e, ticks)
                \/ \E broadcast \in BOOLEAN : OSMboxPendAbort(t, e, broadcast)
                \/ \E m \in app.msgs : OSMboxPost(t, e, m)
                \/ \E m \in app.msgs, broadcast, noSched \in BOOLEAN :
                     (Rule("posts schedule") => ~noSched) /\ OSMboxPostOpt(t, e, m, broadcast, noSched)
             /\ UNCHANGED epoch
    BY DEF MboxCall
  <1>4. ASSUME NEW m \in app.msgs,
               \/ OSMboxPost(t, e, m)
               \/ \E broadcast, noSched \in BOOLEAN :
                    (Rule("posts schedule") => ~noSched) /\ OSMboxPostOpt(t, e, m, broadcast, noSched),
               UNCHANGED epoch
        PROVE  MsgInv' /\ ChannelStep
    <2>1. MboxKeeps(e, m) \/ \E broadcast \in BOOLEAN : MboxWakes(e, m, broadcast) /\ Ends
      BY <1>4 DEF OSMboxPost, OSMboxPostOpt, Ends, PostedByTask
    <2>2. QED
      BY <1>1, <1>2, <1>4, <2>1, MboxPosts
  <1>5. QED
    BY <1>1, <1>2, <1>3, <1>4, MboxOthers

LEMMA QCallChannels ==
  ASSUME KernelInv, RingInv, MsgInv, NEW t \in Task, QCall(t)
  PROVE  MsgInv' /\ ChannelStep
  <1>1. app.events \subseteq Event /\ app.ticks \subseteq Nat /\ app.msgs \subseteq Msg
    BY AppIs DEF KernelInv, Settings
  <1>2. app' = app /\ Listed /\ UNCHANGED mail
    BY DEF QCall, Listed, flagVars
  <1>3. PICK e \in app.events :
          \/ /\ \/ OSQCreate(t, e)
                \/ OSQFlush(t, e)
                \/ \E always \in BOOLEAN : OSQDel(t, e, always)
             /\ Restarts(e)
          \/ /\ \/ TakeMsg(t, e)
                \/ MayPend(t) /\ \E ticks \in app.ticks : OSQPend(t, e, ticks)
                \/ \E broadcast \in BOOLEAN : OSQPendAbort(t, e, broadcast)
                \/ \E m \in app.msgs : OSQPost(t, e, m) \/ OSQPostFront(t, e, m)
                \/ \E m \in app.msgs, front, broadcast, noSched \in BOOLEAN :
                     (Rule("posts schedule") => ~noSched) /\ OSQPostOpt(t, e, m, front, broadcast, noSched)
             /\ UNCHANGED epoch
    BY DEF QCall
  <1>4. ASSUME NEW m \in app.msgs,
               \/ OSQPost(t, e, m) \/ OSQPostFront(t, e, m)
               \/ \E front, broadcast, noSched \in BOOLEAN :
                    (Rule("posts schedule") => ~noSched) /\ OSQPostOpt(t, e, m, front, broadcast, noSched),
               UNCHANGED epoch
        PROVE  MsgInv' /\ ChannelStep
    <2>1. \/ AtEnd(e, m) \/ AtFront(e, m)
          \/ \E broadcast \in BOOLEAN : QWakes(e, m, broadcast) /\ Ends
      BY <1>4 DEF OSQPost, OSQPostFront, OSQPostOpt, Ends, PostedByTask
    <2>2. QED
      BY <1>1, <1>2, <1>4, <2>1, QPosts
  <1>5. QED
    BY <1>1, <1>2, <1>3, <1>4, QOthers

LEMMA MsgISRChannels ==
  ASSUME KernelInv, HeldInv, MsgInv, MsgISR
  PROVE  MsgInv' /\ ChannelStep
  <1>1. PICK e \in Event, m \in Msg : \/ OSMboxPostISR(e, m) /\ UNCHANGED qVars
                                      \/ OSQPostISR(e, m) /\ UNCHANGED mail
    BY AppIs DEF MsgISR, KernelInv, Settings
  <1>2. app' = app /\ Listed /\ UNCHANGED epoch
    BY DEF MsgISR, Listed, flagVars
  <1>3. CASE OSMboxPostISR(e, m) /\ UNCHANGED qVars
    BY <1>2, <1>3, MboxPosts DEF OSMboxPostISR, Ends, HeldInv
  <1>4. CASE OSQPostISR(e, m) /\ UNCHANGED mail
    BY <1>2, <1>4, QPosts DEF OSQPostISR, Ends, HeldInv
  <1>5. QED
    BY <1>1, <1>3, <1>4

\* The semaphores are no channels.
LEMMA SemChannels ==
  ASSUME KernelInv, HeldInv, MsgInv, SemISR \/ \E t \in Task : SemCall(t)
  PROVE  MsgInv' /\ ChannelStep
  <1>1. app' = app /\ UNCHANGED msgState /\ (Quiet \/ SilentStep)
    BY SemSteps, SemISRSteps DEF SemCall, SemISR
  <1>2. MsgInv' /\ SameMessages
    BY <1>1, SilentHands
  <1>3. PICK e \in Event : Concerns(e, "sem")
    BY SemKeeps DEF HeldInv
  <1>4. OthersStay(e)
    BY <1>1, <1>3, OthersOf DEF Kinds, msgState, qVars
  <1>5. Contents(e)' = Contents(e)
    BY <1>3, ContentsAre, ContentsNext DEF Concerns, IsMbox, IsQ
  <1>6. QED
    BY <1>1, <1>2, <1>4, <1>5, NothingHappens DEF OthersStay, msgState

\* Nor is a task that comes back, but it receives what was handed to it.
LEMMA WakeChannels ==
  ASSUME KernelInv, MsgInv, NEW t \in Task, KernelWake(t)
  PROVE  MsgInv' /\ ChannelStep
  <1>1. Wake(t) /\ app' = app /\ Listed /\ UNCHANGED <<evType, mail, qVars, epoch>>
    BY DEF KernelWake, Wake, Listed, flagVars, msgState
  <1>2. MsgInv' /\ \A u \in AllTasks : tcb'[u].msg = IF u = t THEN None ELSE tcb[u].msg
    BY <1>1, MsgTaken
  <1>3. \A f \in Event : Contents(f)' = Contents(f)
    BY <1>1, ChannelStays DEF SameChannel, qVars
  <1>4. CASE tcb[t].msg = None
    BY <1>1, <1>2, <1>3, <1>4, NothingHappens DEF SameMessages
  <1>5. CASE tcb[t].msg # None
    <2> DEFINE chan == [f \in Event |-> Contents(f)]
               hand == [u \in Task |-> tcb[u].msg]
    <2>1. chan' = chan
      BY <1>3
    <2>2. hand' = [hand EXCEPT ![t] = None] /\ hand[t] # None
      BY <1>2, <1>5 DEF AllTasks
    <2>3. Promise!Receive(t)
      BY <1>1, <2>1, <2>2 DEF Promise!Receive
    <2>4. QED
      BY <1>2, <2>3 DEF ChannelStep
  <1>6. QED
    BY <1>4, <1>5

\* Nor are the mutexes.
LEMMA MutexChannels ==
  ASSUME KernelInv, MsgInv, NEW t \in Task, MutexCall(t)
  PROVE  MsgInv' /\ ChannelStep
  <1>1. PICK e \in Event : KernelInv' /\ \E ts \in SUBSET Waiters(e) : MutexStep(e, ts)
    BY MutexKept
  <1>2. PICK ts \in SUBSET Waiters(e) : MutexStep(e, ts)
    BY <1>1
  <1>3. app' = app /\ UNCHANGED msgState /\ AppTasks' = AppTasks
    BY <1>2 DEF MutexStep, AppTasks
  <1>4. SameMessages
    <2>1. \A u \in AppTasks : tcb'[u].msg = tcb[u].msg
      BY <1>2, WaitersHaveNone DEF MutexStep
    <2>2. \A u \in AllTasks \ AppTasks : tcb'[u] = tcb[u]
      BY <1>1, <1>3 DEF KernelInv, Settings
    <2>3. QED
      BY <2>1, <2>2 DEF SameMessages
  <1>5. MsgInv'
    <2>1. \A u \in AppTasks, f \in Event : HasGrant(u, f) => HasGrant(u, f)'
      BY <1>2 DEF MutexStep, Answers
    <2>2. \A u \in AppTasks : tcb'[u].msg = tcb[u].msg
      BY <1>4, AppIs DEF SameMessages, KernelInv, Settings
    <2>3. QED
      BY <1>3, <2>1, <2>2 DEF MsgInv
  <1>6. Concerns(e, "mutex")
    BY <1>2 DEF MutexStep, Concerns
  <1>7. OthersStay(e)
    BY <1>3, <1>6, OthersOf DEF msgState, qVars
  <1>8. Contents(e)' = Contents(e)
    BY <1>6, ContentsAre, ContentsNext DEF Concerns, IsMbox, IsQ
  <1>9. QED
    BY <1>3, <1>4, <1>5, <1>7, <1>8, NothingHappens DEF OthersStay, msgState

LEMMA ChannelsKept ==
  ASSUME KernelInv, HeldInv, MsgInv, [Next]_vars
  PROVE  MsgInv' /\ ChannelStep
  <1>3. CASE \/ \E t \in Task : FlagCall(t) \/ TimeCall(t) \/ FlagReturn(t) \/ Sched(t)
             \/ FlagISR \/ Tick \/ UNCHANGED vars
    <2>1. app' = app /\ UNCHANGED msgState
      BY <1>3 DEF FlagCall, TimeCall, FlagReturn, Sched, FlagISR, Tick, vars
    <2>2. \/ Quiet \/ FlagStep \/ TimeStep
          \/ ((\E t \in Task : OS_Sched(t)) \/ OSTimeTick) /\ Listed
      <3>1. (\E t \in Task : FlagCall(t) \/ FlagReturn(t)) \/ FlagISR => Quiet \/ FlagStep
        BY FlagSteps
      <3>2. (\E t \in Task : TimeCall(t)) => TimeStep
        BY TimeSteps
      <3>3. (\E t \in Task : Sched(t)) \/ Tick => ((\E t \in Task : OS_Sched(t)) \/ OSTimeTick) /\ Listed
        BY DEF Sched, Tick, Listed, flagVars
      <3>4. UNCHANGED vars => Quiet
        BY DEF vars, Quiet, coreVars, flagVars
      <3>5. QED
        BY <1>3, <3>1, <3>2, <3>3, <3>4
    <2>3. \A u \in AppTasks : GrantSame(u)
      BY <2>1, <2>2, QuietKeeps, FlagStepKeeps, TimeStepKeeps, SchedKeeps, TickKeeps DEF AllGo, Goes
    <2>4. SameMessages
      BY <2>2, MessagesStay
    <2>5. MsgInv'
      BY <2>1, <2>3, <2>4, MsgStays
    <2>6. \A f \in Event : Contents(f)' = Contents(f)
      <3>1. \A f \in Event : Calm(f)
        BY <2>2, OthersAreCalm DEF SchedStep
      <3>2. QED
        BY <2>1, <3>1, ChannelStays DEF Calm, SameChannel, msgState, qVars
    <2>7. QED
      BY <2>1, <2>4, <2>5, <2>6, NothingHappens DEF msgState
  <1>4. QED
    BY CasesAre, <1>3, MboxCallChannels, QCallChannels, MsgISRChannels, SemChannels, MutexChannels, WakeChannels
       DEF HeldInv

LEMMA ChannelsAtStart ==
  ASSUME Init
  PROVE  MsgInv /\ Promise!Init
  <1>1. \A u \in AllTasks : tcb[u].msg = None
    BY DEF Init, CoreInit, TasksInit, NewTCB
  <1>2. \A e \in Event : evType[e] = "unused"
    BY DEF Init, CoreInit, EventsInit
  <1>3. \A e \in Event : Contents(e) = <<>>
    BY <1>2, ContentsAre DEF IsMbox, IsQ
  <1>4. epoch = [e \in Event |-> 0] /\ app \in Apps
    BY DEF Init
  <1>5. MsgInv
    BY <1>1, <1>4, AppIs DEF MsgInv
  <1>6. Promise!Init
    BY <1>1, <1>3, <1>4 DEF Promise!Init, AllTasks
  <1>7. QED
    BY <1>5, <1>6

\* Mailboxes and queues implement channels: with any mixture of calls, posts of
\* interrupt handlers, timeouts, aborts, suspensions and deletions, no message
\* is lost, invented, given twice or out of order between the mailbox or the
\* ring, the TCB of the task that waits and the task.
THEOREM ChannelsAreImplemented == Spec /\ Disciplined => ImplementsChannel
  <1>1. Init => MsgInv /\ Promise!Init
    BY ChannelsAtStart
  <1>2. KernelInv /\ HeldInv /\ MsgInv /\ [Next]_vars => MsgInv' /\ [Promise!Next]_(Promise!vars)
    <2>1. ChannelStep => [Promise!Next]_(Promise!vars)
      BY DEF ChannelStep, Promise!Next
    <2>2. QED
      BY <2>1, ChannelsKept
  <1>3. QED
    BY <1>1, <1>2, ServicesHold, PTL DEF Spec, ImplementsChannel, Promise!Spec

=============================================================================
