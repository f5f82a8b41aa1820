--------------------------- MODULE RecursiveLock ---------------------------
(***************************************************************************)
(* The locks that newlib takes around the environment and around the heap   *)
(* (alt_env_lock.c, alt_malloc_lock.c): a semaphore, the priority of its     *)
(* owner as an identifier, and a count of the nested calls.  The two differ *)
(* in what they look at to see whether the semaphore is taken.  Tasks       *)
(* interleave at every call of the kernel; the priority of a task changes   *)
(* while another one waits for a mutex that it owns (OSMutexPend).          *)
(***************************************************************************)
EXTENDS Integers

CONSTANTS
  Task,        \* the tasks, by their priorities; smaller is more urgent
  Pip,         \* the priority that an owner of a mutex is raised to
  Raises,      \* whether priorities are raised
  ByWaiters,   \* alt_env_lock.c looks at OSEventGrp, alt_malloc_lock.c at OSCnt
  MaxDepth     \* bound: how deep calls are nested

ASSUME LockAssumption ==
  /\ Task \subseteq Nat
  /\ \A t \in Task : Pip < t
  /\ Pip \in Nat /\ MaxDepth \in Nat \ {0}
  /\ Raises \in BOOLEAN /\ ByWaiters \in BOOLEAN

VARIABLES
  cnt, waiters,    \* the semaphore: OSEventCnt, and the tasks in its wait list
  lockid, locks,   \* the identifier of the owner (-1: none), and its count
  pc, id, seen,    \* where each task is, its identifier, and what it has seen of
                   \* the semaphore
  depth,           \* how many of its calls of lock each task has to undo
  raised           \* the task that runs at Pip, if any

own == <<pc, id, seen, depth>>
vars == <<cnt, waiters, lockid, locks, own, raised>>

OSTCBPrio(t) == IF raised = {t} THEN Pip ELSE t

Goto(t, l) == pc' = [pc EXCEPT ![t] = l]

-----------------------------------------------------------------------------

\* OSTaskQuery and OSSemQuery: is the semaphore taken, as far as the lock looks?
Taken == IF ByWaiters THEN waiters # {} ELSE cnt = 0

Query(t) ==
  /\ pc[t] = "out" /\ depth[t] < MaxDepth
  /\ id' = [id EXCEPT ![t] = OSTCBPrio(t)]
  /\ seen' = [seen EXCEPT ![t] = Taken]
  /\ Goto(t, "decide")
  /\ UNCHANGED <<cnt, waiters, lockid, locks, depth, raised>>

\* Mutant: whose lock it is does not matter.
MineOrNot(t) == seen[t]

Mine(t) == seen[t] /\ id[t] = lockid

Decide(t) ==
  /\ pc[t] = "decide"
  /\ IF Mine(t)
     THEN /\ locks' = locks + 1
          /\ depth' = [depth EXCEPT ![t] = @ + 1]
          /\ Goto(t, "out")
     ELSE Goto(t, "pend") /\ UNCHANGED <<locks, depth>>
  /\ UNCHANGED <<cnt, waiters, lockid, id, seen, raised>>

\* OSSemPend without a timeout.
OSSemPend(t) ==
  /\ pc[t] = "pend"
  /\ IF cnt > 0
     THEN cnt' = cnt - 1 /\ Goto(t, "claim") /\ UNCHANGED waiters
     ELSE waiters' = waiters \cup {t} /\ Goto(t, "wait") /\ UNCHANGED cnt
  /\ UNCHANGED <<lockid, locks, id, seen, depth, raised>>

\* Mutant: the first call is not counted.
ClaimUncounted(t) ==
  /\ pc[t] \in {"claim", "wait"} /\ t \notin waiters
  /\ lockid' = id[t]
  /\ locks' = 0
  /\ depth' = [depth EXCEPT ![t] = 1]
  /\ Goto(t, "out")
  /\ UNCHANGED <<cnt, waiters, id, seen, raised>>

\* A task whose OSSemPend has returned.
Claim(t) ==
  /\ pc[t] \in {"claim", "wait"} /\ t \notin waiters
  /\ lockid' = id[t]
  /\ locks' = 1
  /\ depth' = [depth EXCEPT ![t] = 1]
  /\ Goto(t, "out")
  /\ UNCHANGED <<cnt, waiters, id, seen, raised>>

\* Calls are paired: a task unlocks what it has locked.
Unlock(t) ==
  /\ pc[t] = "out" /\ depth[t] > 0
  /\ depth' = [depth EXCEPT ![t] = @ - 1]
  /\ IF locks = 0 THEN UNCHANGED <<locks, lockid, pc>>
     ELSE /\ locks' = locks - 1
          /\ lockid' = IF locks = 1 THEN -1 ELSE lockid
          /\ Goto(t, IF locks = 1 THEN "post" ELSE "out")
  /\ UNCHANGED <<cnt, waiters, id, seen, raised>>

\* OSSemPost gives the semaphore to the most urgent waiting task.
OSSemPost(t) ==
  /\ pc[t] = "post"
  /\ IF waiters = {} THEN cnt' = cnt + 1 /\ UNCHANGED waiters
     ELSE /\ waiters' = waiters \ {CHOOSE u \in waiters :
                                     \A w \in waiters : OSTCBPrio(u) <= OSTCBPrio(w)}
          /\ UNCHANGED cnt
  /\ Goto(t, "out")
  /\ UNCHANGED <<lockid, locks, id, seen, depth, raised>>

\* Another task begins to wait for the mutex of a task; the task gives it up
\* itself, so outside the lock.
Raise ==
  /\ Raises
  /\ \/ raised = {} /\ \E t \in Task : raised' = {t}
     \/ /\ \E t \in raised : pc[t] = "out" /\ depth[t] = 0
        /\ raised' = {}
  /\ UNCHANGED <<cnt, waiters, lockid, locks, own>>

Init ==
  /\ cnt = 1 /\ waiters = {}
  /\ lockid = -1 /\ locks = 0
  /\ pc = [t \in Task |-> "out"]
  /\ id = [t \in Task |-> -1]
  /\ seen = [t \in Task |-> FALSE]
  /\ depth = [t \in Task |-> 0]
  /\ raised = {}

Next ==
  \/ \E t \in Task :
       Query(t) \/ Decide(t) \/ OSSemPend(t) \/ Claim(t) \/ Unlock(t) \/ OSSemPost(t)
  \/ Raise

Spec == Init /\ [][Next]_vars

-----------------------------------------------------------------------------
TypeOK ==
  /\ cnt \in 0 .. 1 /\ waiters \subseteq Task
  /\ locks \in Nat /\ lockid \in Nat \cup {-1}
  /\ id \in [Task -> Nat \cup {-1}] /\ seen \in [Task -> BOOLEAN]
  /\ depth \in [Task -> 0 .. MaxDepth]

Inside == {t \in Task : depth[t] > 0}

\* One task at a time has the lock, although the semaphore is looked at before and
\* taken after the decision.
MutualExclusion == \A t, u \in Inside : t = u

\* The count is that of the calls the owner has to undo, and the lock is free when
\* there are none: the semaphore is given back exactly with the last of them.
Counted ==
  /\ Inside = {} => locks = 0 /\ lockid = -1
  /\ \A t \in Inside : locks = depth[t]
=============================================================================
