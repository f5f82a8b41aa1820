------------------------------- MODULE OSSem --------------------------------
(***************************************************************************)
(* The counting semaphores of uC/OS-II (os_sem.c).                         *)
(***************************************************************************)
EXTENDS OSCore

CONSTANTS
  MaxCnt,       \* 65535, the limit of OSEventCnt
  Counts        \* the counts that OSSemCreate and OSSemSet are given

ASSUME SemAssumption == MaxCnt \in Nat \ {0} /\ Counts \subseteq 0 .. MaxCnt

VARIABLE
  cnt           \* OSEventCnt of each semaphore

IsSem(e) == evType[e] = "sem"

OSSemCreate(t, e, c) ==
  /\ EventCreate(t, e, "sem")
  /\ cnt' = [cnt EXCEPT ![e] = c]

\* OSSemAccept, and OSSemPend when there is a unit.
Take(t, e) ==
  /\ Runs(t)
  /\ IsSem(e)
  /\ cnt[e] > 0
  /\ cnt' = [cnt EXCEPT ![e] = @ - 1]
  /\ Returns
  /\ UNCHANGED <<prioTbl, tcb, rdy, evType, waiting, cur, prioCur, lockNesting>>

\* An interrupt handler may call OSSemAccept.
OSSemAcceptISR(e) ==
  /\ IsSem(e)
  /\ cnt[e] > 0
  /\ cnt' = [cnt EXCEPT ![e] = @ - 1]
  /\ UNCHANGED coreVars

OSSemPend(t, e, timeout) ==
  /\ Runs(t)
  /\ lockNesting = 0
  /\ IsSem(e)
  /\ cnt[e] = 0
  /\ Block(t, e, "sem", timeout)
  /\ UNCHANGED <<evType, cnt>>

OSSemPendAbort(t, e, broadcast) ==
  IsSem(e) /\ PendAbort(t, e, "sem", broadcast) /\ UNCHANGED cnt

\* Mutant: the post goes on to the counter.
PostFallsThrough(e) ==
  /\ IsSem(e)
  /\ waiting[e] # {}
  /\ OS_EventTaskRdy(e, {HighestWaiter(e)}, None, "sem", "ok")
  /\ cnt' = [cnt EXCEPT ![e] = IF @ < MaxCnt THEN @ + 1 ELSE @]
  /\ UNCHANGED evType

\* The part of OSSemPost that is the same for a task and for a handler.
PostWakes(e) ==
  /\ IsSem(e)
  /\ waiting[e] # {}
  /\ OS_EventTaskRdy(e, {HighestWaiter(e)}, None, "sem", "ok")
  /\ UNCHANGED <<evType, cnt>>

\* A post at the limit is refused: OS_ERR_SEM_OVF.
PostCounts(e) ==
  /\ IsSem(e)
  /\ waiting[e] = {}
  /\ cnt[e] < MaxCnt
  /\ cnt' = [cnt EXCEPT ![e] = @ + 1]
  /\ UNCHANGED coreVars

OSSemPost(t, e) ==
  /\ Runs(t)
  /\ \/ PostWakes(e) /\ PostedByTask(t)
     \/ PostCounts(e)

OSSemPostISR(e) ==
  \/ PostWakes(e) /\ PostedByISR
  \/ PostCounts(e)

\* OS_ERR_TASK_WAITING when tasks wait.
OSSemSet(t, e, c) ==
  /\ Runs(t)
  /\ IsSem(e)
  /\ cnt[e] > 0 \/ waiting[e] = {}
  /\ cnt' = [cnt EXCEPT ![e] = c]
  /\ UNCHANGED coreVars

OSSemDel(t, e, always) ==
  /\ IsSem(e)
  /\ EventDel(t, e, "sem", always)
  /\ cnt' = [cnt EXCEPT ![e] = 0]

SemInit == cnt = [e \in Event |-> 0]
=============================================================================
