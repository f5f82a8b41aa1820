------------------------------- MODULE OSTask -------------------------------
(***************************************************************************)
(* Delays, suspension, creation, deletion and change of priority of tasks  *)
(* (os_time.c and os_task.c).  OSTaskCreate and OSTaskDel let interrupts   *)
(* in between their critical sections, OSTaskDel with the scheduler        *)
(* locked.                                                                 *)
(***************************************************************************)
EXTENDS OSCore

VARIABLE
  free          \* OSTCBFreeList

\* OSTimeDly(0) does nothing.  There is no look at OSLockNesting.
OSTimeDly(t, ticks) ==
  /\ Runs(t)
  /\ ticks > 0
  /\ rdy' = rdy \ {tcb[t].prio}
  /\ tcb' = [tcb EXCEPT ![t].dly = ticks]
  /\ Yields(t)
  /\ UNCHANGED <<prioTbl, evType, waiting, cur, prioCur, lockNesting, free>>

\* Task t ends the delay of the task of priority p; a task that pends with a
\* timeout looks as if the timeout had come.
OSTimeDlyResume(t, p) ==
  LET u == prioTbl[p] IN
  /\ Runs(t)
  /\ u \in Task
  /\ tcb[u].dly # 0
  /\ tcb' = [tcb EXCEPT ![u] =
               [tcb[u] EXCEPT !.dly = 0,
                              !.stat = @ \ PendAny,
                              !.pend = IF tcb[u].stat \cap PendAny # {} THEN "to" ELSE "ok"]]
  /\ IF "suspend" \notin tcb[u].stat
     THEN rdy' = rdy \cup {tcb[u].prio} /\ Yields(t)
     ELSE UNCHANGED rdy /\ Returns
  /\ UNCHANGED <<prioTbl, evType, waiting, cur, prioCur, lockNesting, free>>

\* Only a task that suspends itself calls OS_Sched.
OSTaskSuspend(t, p) ==
  LET u == prioTbl[p] IN
  /\ Runs(t)
  /\ u \in Task
  /\ rdy' = rdy \ {tcb[u].prio}
  /\ tcb' = [tcb EXCEPT ![u].stat = @ \cup {"suspend"}]
  /\ IF p = tcb[t].prio THEN Yields(t) ELSE Returns
  /\ UNCHANGED <<prioTbl, evType, waiting, cur, prioCur, lockNesting, free>>

\* The task is ready when nothing else holds it: no other bit of the status
\* and no delay.
OSTaskResume(t, p) ==
  LET u == prioTbl[p] IN
  /\ Runs(t)
  /\ u \in Task
  /\ "suspend" \in tcb[u].stat
  /\ tcb' = [tcb EXCEPT ![u].stat = @ \ {"suspend"}]
  /\ IF tcb[u].stat = {"suspend"} /\ tcb[u].dly = 0
     THEN rdy' = rdy \cup {tcb[u].prio} /\ Yields(t)
     ELSE UNCHANGED rdy /\ Returns
  /\ UNCHANGED <<prioTbl, evType, waiting, cur, prioCur, lockNesting, free>>

-----------------------------------------------------------------------------
\* The first section reserves the priority.
OSTaskCreate(t, p) ==
  /\ Runs(t)
  /\ prioTbl[p] = None
  /\ prioTbl' = [prioTbl EXCEPT ![p] = Reserved]
  /\ pc' = [pc EXCEPT ![t] = "create"]
  /\ arg' = [arg EXCEPT ![t] = p]
  /\ UNCHANGED <<tcb, rdy, evType, waiting, cur, prioCur, lockNesting, free>>

\* The first section of OS_TCBInit, and the initialisation of the TCB, which
\* nobody else can see yet.
TakeTCB(t) ==
  /\ cur = t
  /\ pc[t] = "create"
  /\ \/ \E u \in free :
          /\ free' = free \ {u}
          /\ tcb' = [tcb EXCEPT ![u] = NewTCB(arg[t])]
          /\ pc' = [pc EXCEPT ![t] = "link"]
          /\ arg' = [arg EXCEPT ![t] = u]
     \/ /\ free = {}
        /\ pc' = [pc EXCEPT ![t] = "undo"]
        /\ UNCHANGED <<free, tcb, arg>>
  /\ UNCHANGED <<prioTbl, rdy, evType, waiting, cur, prioCur, lockNesting>>

\* The second section of OS_TCBInit.
LinkTCB(t) ==
  LET u == arg[t] IN
  /\ cur = t
  /\ pc[t] = "link"
  /\ prioTbl' = [prioTbl EXCEPT ![tcb[u].prio] = u]
  /\ rdy' = rdy \cup {tcb[u].prio}
  /\ pc' = [pc EXCEPT ![t] = "yield", ![u] = "user"]
  /\ arg' = [arg EXCEPT ![t] = None, ![u] = None]
  /\ UNCHANGED <<tcb, evType, waiting, cur, prioCur, lockNesting, free>>

\* Without a TCB the priority is given back.
UndoCreate(t) ==
  /\ cur = t
  /\ pc[t] = "undo"
  /\ prioTbl' = [prioTbl EXCEPT ![arg[t]] = None]
  /\ pc' = [pc EXCEPT ![t] = "user"]
  /\ arg' = [arg EXCEPT ![t] = None]
  /\ UNCHANGED <<tcb, rdy, evType, waiting, cur, prioCur, lockNesting, free>>

-----------------------------------------------------------------------------
\* The wait lists that name the task u, through OSTCBEventPtr and through
\* OSTCBEventMultiPtr.
ListedIn(u) == {tcb[u].eptr} \cup tcb[u].multi

\* The first section: the task can no longer become ready.
OSTaskDel(t, p) ==
  LET u == prioTbl[p] IN
  /\ Runs(t)
  /\ u \in Task
  /\ rdy' = rdy \ {p}
  /\ waiting' = [e \in Event |-> IF e \in ListedIn(u) THEN waiting[e] \ {p} ELSE waiting[e]]
  /\ tcb' = [tcb EXCEPT ![u] = [tcb[u] EXCEPT !.dly = 0, !.stat = {}, !.pend = "ok"]]
  /\ lockNesting' = Nested
  /\ pc' = [pc EXCEPT ![t] = "del"]
  /\ arg' = [arg EXCEPT ![t] = p]
  /\ UNCHANGED <<prioTbl, evType, cur, prioCur, free>>

\* Mutant: the TCB is not given back.
NotReturned(u) == free

\* OSTCBFreeList with the TCB u.
Returned(u) == free \cup {u}

\* The second section: the task is unlinked, and the TCB is free.
UnlinkTCB(t) ==
  LET u == prioTbl[arg[t]] IN
  /\ cur = t
  /\ pc[t] = "del"
  /\ lockNesting' = IF lockNesting > 0 THEN lockNesting - 1 ELSE lockNesting
  /\ prioTbl' = [prioTbl EXCEPT ![arg[t]] = None]
  /\ free' = Returned(u)
  /\ pc' = IF u = t THEN [pc EXCEPT ![t] = "exit"]
           ELSE [pc EXCEPT ![t] = "yield", ![u] = "dormant"]
  /\ arg' = [arg EXCEPT ![t] = None, ![u] = None]
  /\ UNCHANGED <<tcb, rdy, evType, waiting, cur, prioCur>>

-----------------------------------------------------------------------------
\* The priority of a task is changed in the ready list, and in the wait list
\* of OSTCBEventPtr whether the task is still in that list or not.
OSTaskChangePrio(t, p, q) ==
  LET u == prioTbl[p] IN
  /\ Runs(t)
  /\ p # LowestPrio /\ q # LowestPrio
  /\ prioTbl[q] = None
  /\ u \in Task
  /\ prioTbl' = [prioTbl EXCEPT ![p] = None, ![q] = u]
  /\ rdy' = Moved(rdy, p, q)
  /\ waiting' = [e \in Event |-> IF e \in ListedIn(u)
                                 THEN (waiting[e] \ {p}) \cup {q}
                                 ELSE waiting[e]]
  /\ tcb' = [tcb EXCEPT ![u].prio = q]
  /\ Yields(t)
  /\ UNCHANGED <<evType, cur, prioCur, lockNesting, free>>

TaskInit(start) == free = Task \ DOMAIN start
=============================================================================
