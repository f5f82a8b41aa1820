------------------------------- MODULE OSCore -------------------------------
(***************************************************************************)
(* The core of uC/OS-II as the Lab5 board support package builds it        *)
(* (os_core.c): task control blocks, the ready list, the wait lists of the *)
(* event control blocks, the scheduler and the tick interrupt.             *)
(*                                                                         *)
(* One action is one critical section (OS_ENTER_CRITICAL to                *)
(* OS_EXIT_CRITICAL), so interrupts, and with them other tasks, come in    *)
(* between the sections of a call.  The HAL runs interrupt handlers with   *)
(* interrupts disabled, so a handler with its OSIntEnter and OSIntExit is  *)
(* one action.  A bit table is the set of the priorities whose bit is set. *)
(***************************************************************************)
EXTENDS Naturals, FiniteSets

CONSTANTS
  Task,         \* the task control blocks of the application
  Idle,         \* the one of the idle task
  Event,        \* the event control blocks
  LowestPrio,   \* OS_LOWEST_PRIO, the priority of the idle task
  MaxNesting,   \* 255, the limit of OSLockNesting
  Ticks,        \* the delays and timeouts that calls are given
  Msg,          \* the messages
  None,         \* the null pointer
  Reserved      \* OS_TCB_RESERVED: the priority is taken, but not by a task

Prio == 0 .. LowestPrio

ASSUME CoreAssumption ==
  /\ LowestPrio \in Nat \ {0}
  /\ MaxNesting \in Nat \ {0}
  /\ Ticks \subseteq Nat
  /\ Idle \notin Task
  /\ None \notin Task \cup {Idle} \cup Event \cup Msg
  /\ Reserved \notin Task \cup {Idle, None}

VARIABLES
  prioTbl,      \* OSTCBPrioTbl
  tcb,          \* the task control blocks
  rdy,          \* OSRdyGrp and OSRdyTbl
  evType,       \* OSEventType of each event control block
  waiting,      \* OSEventGrp and OSEventTbl of each event control block
  cur,          \* OSTCBCur
  prioCur,      \* OSPrioCur
  lockNesting,  \* OSLockNesting
  pc,           \* where a task is: in its own code or inside a call
  arg           \* the object of the call a task is inside of: an event, several
                \* of them, a request for flags, a priority, or a TCB

coreVars == <<prioTbl, tcb, rdy, evType, waiting, cur, prioCur, lockNesting, pc, arg>>

AllTasks == Task \cup {Idle}

\* OS_STAT_PEND_ANY: it does not hold OS_STAT_MULTI.
PendAny == {"sem", "mbox", "q", "mutex", "flag"}
Stat == PendAny \cup {"suspend", "multi"}

TCB == [prio  : Prio,                    \* OSTCBPrio
        stat  : SUBSET Stat,             \* OSTCBStat, OS_STAT_RDY is {}
        pend  : {"ok", "to", "abort"},   \* OSTCBStatPend
        dly   : Nat,                     \* OSTCBDly
        eptr  : Event \cup {None},       \* OSTCBEventPtr
        multi : SUBSET Event,            \* what OSTCBEventMultiPtr lists
        msg   : Msg \cup {None}]         \* OSTCBMsg

\* What a pend on several events is called with.
Several == [events : SUBSET Event]

\* An event is not taken for several of them.
ASSUME SeveralAssumption == \A e \in Event : e \notin Several

\* What OS_TCBInit gives a new task.
NewTCB(p) == [prio |-> p, stat |-> {}, pend |-> "ok", dly |-> 0,
              eptr |-> None, multi |-> {}, msg |-> None]

\* A task is in its own code, about to call OS_Sched at the end of a call,
\* inside a pend before or after the wait, inside OSTaskCreate or OSTaskDel
\* between two critical sections, or does not exist.
PC == {"user", "yield", "block", "wake", "create", "link", "undo", "del", "exit", "dormant"}

-----------------------------------------------------------------------------
\* The highest priority (the smallest number) of a bit table.
HighRdy(S) == CHOOSE p \in S : \A q \in S : p <= q

\* Priority p of a table is replaced by q, if it is there.
Moved(S, p, q) == IF p \in S THEN (S \ {p}) \cup {q} ELSE S

\* The task that has the processor, in its own code.
Runs(t) == cur = t /\ pc[t] = "user" /\ t # Idle

\* A call of t that returns at once, that ends in OS_Sched, or that waits.
Returns == UNCHANGED <<pc, arg>>
Yields(t) == pc' = [pc EXCEPT ![t] = "yield"] /\ UNCHANGED arg

\* OS_SchedNew and the switch, with the ready list r.
Dispatch(r) ==
  IF lockNesting = 0 /\ HighRdy(r) # prioCur
  THEN prioCur' = HighRdy(r) /\ cur' = prioTbl[HighRdy(r)]
  ELSE UNCHANGED <<cur, prioCur>>

\* Where a task goes on after OS_Sched: "exit" is a task that has deleted
\* itself.
AfterSched == [yield |-> "user", block |-> "wake", exit |-> "dormant"]

\* The call of OS_Sched that a task has come to.  A task that loses the
\* processor here goes on from here when it gets it back.
OS_Sched(t) ==
  /\ cur = t
  /\ pc[t] \in DOMAIN AfterSched
  /\ pc' = [pc EXCEPT ![t] = AfterSched[@]]
  /\ Dispatch(rdy)
  /\ UNCHANGED <<prioTbl, tcb, rdy, evType, waiting, lockNesting, arg>>

\* Mutant: a handler returns to the task that it has interrupted.
NoIntExit == UNCHANGED <<cur, prioCur>>

\* The end of an interrupt handler, with the ready list it has left.
OSIntExit == Dispatch(rdy')

\* OSLockNesting one level deeper.
Nested == IF lockNesting < MaxNesting THEN lockNesting + 1 ELSE lockNesting

OSSchedLock(t) ==
  /\ Runs(t)
  /\ lockNesting' = Nested
  /\ Returns
  /\ UNCHANGED <<prioTbl, tcb, rdy, evType, waiting, cur, prioCur>>

OSSchedUnlock(t) ==
  /\ Runs(t)
  /\ lockNesting > 0
  /\ lockNesting' = lockNesting - 1
  /\ IF lockNesting = 1 THEN Yields(t) ELSE Returns
  /\ UNCHANGED <<prioTbl, tcb, rdy, evType, waiting, cur, prioCur>>

-----------------------------------------------------------------------------

\* One task in the loop of OSTimeTick.
Ticked(c) ==
  IF c.dly # 1
  THEN [c EXCEPT !.dly = IF @ = 0 THEN 0 ELSE @ - 1]
  ELSE [c EXCEPT !.dly = 0,
                 !.stat = @ \ PendAny,
                 !.pend = IF c.stat \cap PendAny # {} THEN "to" ELSE "ok"]

\* Mutant: a suspended task, too.
ExpiredAll == {t \in Task : tcb[t].dly = 1}

\* The tasks that this tick makes ready.
Expired == {t \in Task : tcb[t].dly = 1 /\ "suspend" \notin tcb[t].stat}

\* The tick interrupt: OSIntEnter, OSTimeTick, OSIntExit.  A timed-out task
\* stays in the wait list until it runs.
OSTimeTick ==
  /\ tcb' = [t \in AllTasks |-> Ticked(tcb[t])]
  /\ rdy' = rdy \cup {tcb[t].prio : t \in Expired}
  /\ OSIntExit
  /\ UNCHANGED <<prioTbl, evType, waiting, lockNesting, pc, arg>>

-----------------------------------------------------------------------------

\* The tasks that wait for e, and the one of them that a post goes to.
Waiters(e) == {prioTbl[p] : p \in waiting[e]}
HighestWaiter(e) == prioTbl[HighRdy(waiting[e])]

\* The tasks of ts that a post makes ready.
NotSuspended(ts) == {u \in ts : "suspend" \notin tcb[u].stat}

\* Mutant: a task that waits for several events stays in the other lists.
LeavesOne(u, e) == {e}

\* OS_EventTaskRemove and OS_EventTaskRemoveMulti: the wait lists that u leaves
\* when e is posted.
Leaves(u, e) == {e} \cup tcb[u].multi

\* OS_EventTaskRdy for each task of ts: it gets the message m and the pend
\* status st, and is ready unless it is suspended.
OS_EventTaskRdy(e, ts, m, bit, st) ==
  /\ tcb' = [t \in AllTasks |->
               IF t \in ts
               THEN [tcb[t] EXCEPT !.dly = 0, !.msg = m, !.stat = @ \ {bit}, !.pend = st,
                                   !.eptr = IF tcb[t].multi # {} THEN e ELSE @]
               ELSE tcb[t]]
  /\ rdy' = rdy \cup {tcb[t].prio : t \in NotSuspended(ts)}
  /\ waiting' = [f \in Event |->
                   waiting[f] \ {tcb[t].prio : t \in {u \in ts : f \in Leaves(u, e)}}]

\* OS_EventTaskWait for a task whose TCB is now c.
OS_EventTaskWait(t, e, c) ==
  /\ tcb' = [tcb EXCEPT ![t] = [c EXCEPT !.eptr = e]]
  /\ waiting' = [waiting EXCEPT ![e] = @ \cup {tcb[t].prio}]
  /\ rdy' = rdy \ {tcb[t].prio}

\* The end of the first critical section of a pend that has to wait.
Block(t, e, bit, ticks) ==
  /\ OS_EventTaskWait(t, e, [tcb[t] EXCEPT !.stat = @ \cup {bit}, !.pend = "ok", !.dly = ticks])
  /\ pc' = [pc EXCEPT ![t] = "block"]
  /\ arg' = [arg EXCEPT ![t] = e]
  /\ UNCHANGED <<prioTbl, evType, cur, prioCur, lockNesting>>

\* The wait lists without a task that has timed out.
LeaveTimedOut(t) ==
  IF tcb[t].pend = "to" THEN [waiting EXCEPT ![arg[t]] = @ \ {tcb[t].prio}] ELSE waiting

\* What the end of a pend leaves in the TCB.  OSSemPend and OSMutexPend leave
\* OSTCBMsg, in which their posts have put the null pointer.
Cleared(c) == [c EXCEPT !.stat = {}, !.pend = "ok", !.eptr = None, !.multi = {}, !.msg = None]

\* The second critical section, when the task has the processor again.
Wake(t) ==
  /\ cur = t
  /\ pc[t] = "wake"
  /\ arg[t] \in Event
  /\ tcb' = [tcb EXCEPT ![t] = Cleared(@)]
  /\ waiting' = LeaveTimedOut(t)
  /\ pc' = [pc EXCEPT ![t] = "user"]
  /\ arg' = [arg EXCEPT ![t] = None]
  /\ UNCHANGED <<prioTbl, rdy, evType, cur, prioCur, lockNesting>>

\* The end of a call or handler that has made tasks ready by OS_EventTaskRdy.
PostedByTask(t) == Yields(t) /\ UNCHANGED <<prioTbl, cur, prioCur, lockNesting>>
PostedByISR == OSIntExit /\ UNCHANGED <<prioTbl, lockNesting, pc, arg>>

\* What the PendAbort calls of the services have in common.
PendAbort(t, e, bit, broadcast) ==
  /\ Runs(t)
  /\ waiting[e] # {}
  /\ OS_EventTaskRdy(e, IF broadcast THEN Waiters(e) ELSE {HighestWaiter(e)}, None, bit, "abort")
  /\ PostedByTask(t)
  /\ UNCHANGED evType

\* What the Create calls of the services have in common: a free event control
\* block; the free list is not kept in order.  The block is initialised after
\* the critical section that takes it, but nobody else can see it yet.
EventCreate(t, e, type) ==
  /\ Runs(t)
  /\ evType[e] = "unused"
  /\ evType' = [evType EXCEPT ![e] = type]
  /\ waiting' = [waiting EXCEPT ![e] = {}]
  /\ Returns
  /\ UNCHANGED <<prioTbl, tcb, rdy, cur, prioCur, lockNesting>>

\* What the Del calls have in common.  OS_DEL_NO_PEND does nothing while
\* tasks wait; OS_DEL_ALWAYS makes them ready as a post would.
EventDel(t, e, bit, always) ==
  /\ Runs(t)
  /\ always \/ waiting[e] = {}
  /\ evType' = [evType EXCEPT ![e] = "unused"]
  /\ OS_EventTaskRdy(e, Waiters(e), None, bit, "ok")
  /\ IF waiting[e] # {} THEN Yields(t) ELSE Returns
  /\ UNCHANGED <<prioTbl, cur, prioCur, lockNesting>>

-----------------------------------------------------------------------------
\* The priority tables and the ready list after OSInit and the creation of
\* tasks at the priorities that start, an injective function on some of the
\* tasks, gives them.
TasksInit(start) ==
  /\ prioTbl = [p \in Prio |-> IF p = LowestPrio THEN Idle
                               ELSE IF \E t \in DOMAIN start : start[t] = p
                                    THEN CHOOSE t \in DOMAIN start : start[t] = p
                                    ELSE None]
  /\ tcb = [t \in AllTasks |-> NewTCB(IF t \in DOMAIN start THEN start[t] ELSE LowestPrio)]
  /\ rdy = {start[t] : t \in DOMAIN start} \cup {LowestPrio}

\* OS_InitEventList
EventsInit ==
  /\ evType = [e \in Event |-> "unused"]
  /\ waiting = [e \in Event |-> {}]

\* The state after OSStart.
CoreInit(start) ==
  /\ TasksInit(start)
  /\ EventsInit
  /\ prioCur = HighRdy(rdy)
  /\ cur = prioTbl[prioCur]
  /\ lockNesting = 0
  /\ pc = [t \in AllTasks |-> IF t \in DOMAIN start \cup {Idle} THEN "user" ELSE "dormant"]
  /\ arg = [t \in AllTasks |-> None]

CoreTypeOK ==
  /\ prioTbl \in [Prio -> AllTasks \cup {None, Reserved}]
  /\ tcb \in [AllTasks -> TCB]
  /\ rdy \subseteq Prio
  /\ evType \in [Event -> {"unused", "sem", "mbox", "q", "mutex"}]
  /\ waiting \in [Event -> SUBSET Prio]
  /\ cur \in AllTasks
  /\ prioCur \in Prio
  /\ lockNesting \in 0 .. MaxNesting
  /\ pc \in [AllTasks -> PC]
  /\ DOMAIN arg = AllTasks

-----------------------------------------------------------------------------
\* The tasks that exist and that nobody is deleting.
Alive == {t \in Task : /\ prioTbl[tcb[t].prio] = t
                       /\ ~ \E u \in Task : pc[u] = "del" /\ arg[u] = tcb[t].prio}

\* The tasks inside a pend, and those inside a pend on several events.
Pends(t) == pc[t] \in {"block", "wake"}
MultiPends(t) == Pends(t) /\ arg[t] \in Several
=============================================================================
