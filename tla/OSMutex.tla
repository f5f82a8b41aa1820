------------------------------ MODULE OSMutex -------------------------------
(***************************************************************************)
(* The mutual exclusion semaphores of uC/OS-II (os_mutex.c).  A mutex has  *)
(* a priority of its own, the PIP, to which its owner is raised while a    *)
(* task of higher priority waits.  Only the raised owner's TCB has the     *)
(* PIP; OSTCBPrioTbl has the owner under both priorities.                  *)
(***************************************************************************)
EXTENDS OSCore

VARIABLES
  pip,          \* the upper byte of OSEventCnt
  ownPrio,      \* the lower byte: the owner's priority, None when available
  owner         \* OSEventPtr

\* OS_MUTEX_AVAILABLE, in the place of the owner's priority, is not a priority.
ASSUME MutexAssumption == None \notin Prio

mutexVars == <<pip, ownPrio, owner>>

IsMutex(e) == evType[e] = "mutex"

OSMutexCreate(t, e, p) ==
  /\ Runs(t)
  /\ evType[e] = "unused"
  /\ prioTbl[p] = None
  /\ prioTbl' = [prioTbl EXCEPT ![p] = Reserved]
  /\ evType' = [evType EXCEPT ![e] = "mutex"]
  /\ waiting' = [waiting EXCEPT ![e] = {}]
  /\ pip' = [pip EXCEPT ![e] = p]
  /\ ownPrio' = [ownPrio EXCEPT ![e] = None]
  /\ owner' = [owner EXCEPT ![e] = None]
  /\ Returns
  /\ UNCHANGED <<tcb, rdy, cur, prioCur, lockNesting>>

\* OSMutexAccept, and OSMutexPend when the mutex is available.
Acquire(t, e) ==
  /\ Runs(t)
  /\ IsMutex(e)
  /\ ownPrio[e] = None
  /\ ownPrio' = [ownPrio EXCEPT ![e] = tcb[t].prio]
  /\ owner' = [owner EXCEPT ![e] = t]
  /\ Returns
  /\ UNCHANGED <<prioTbl, tcb, rdy, evType, waiting, cur, prioCur, lockNesting, pip>>

\* Mutant: an owner that is not ready is forgotten.
RaiseReady(t, e) ==
  /\ tcb[owner[e]].prio > pip[e]
  /\ ownPrio[e] > tcb[t].prio
  /\ tcb[owner[e]].prio \in rdy

\* The owner is raised when it is below the PIP and was below the caller when
\* it took the mutex.
MustRaise(t, e) == tcb[owner[e]].prio > pip[e] /\ ownPrio[e] > tcb[t].prio

\* The owner o gets the PIP, in the ready list or in the list of the event
\* that its OSTCBEventPtr points to, whether it is in that list or not; then
\* the caller waits.
OSMutexPend(t, e, timeout) ==
  LET o == owner[e]
      r == MustRaise(t, e)
      ready == tcb[o].prio \in rdy
      list == [f \in Event |->
                 IF r /\ ~ready /\ f = tcb[o].eptr
                 THEN (waiting[f] \ {tcb[o].prio}) \cup {pip[e]}
                 ELSE waiting[f]]
  IN
  /\ Runs(t)
  /\ lockNesting = 0
  /\ IsMutex(e)
  /\ ownPrio[e] # None
  /\ prioTbl' = IF r THEN [prioTbl EXCEPT ![pip[e]] = o] ELSE prioTbl
  /\ tcb' = [tcb EXCEPT ![o].prio = IF r THEN pip[e] ELSE @,
                        ![t].stat = @ \cup {"mutex"}, ![t].pend = "ok",
                        ![t].dly = timeout, ![t].eptr = e]
  /\ rdy' = (IF r THEN Moved(rdy, tcb[o].prio, pip[e]) ELSE rdy) \ {tcb[t].prio}
  /\ waiting' = [list EXCEPT ![e] = @ \cup {tcb[t].prio}]
  /\ pc' = [pc EXCEPT ![t] = "block"]
  /\ arg' = [arg EXCEPT ![t] = e]
  /\ UNCHANGED <<evType, cur, prioCur, lockNesting, mutexVars>>

\* OSMutex_RdyAtPrio for the owner of e when it has been raised, and e is
\* handed to the waiters ts: one of them for a post, all for a deletion.
Raised(e) == owner[e] # None /\ tcb[owner[e]].prio = pip[e]

HandOver(e, ts) ==
  /\ tcb' = [t \in AllTasks |->
               IF t \in ts
               THEN [tcb[t] EXCEPT !.dly = 0, !.msg = None, !.stat = @ \ {"mutex"}, !.pend = "ok"]
               ELSE IF Raised(e) /\ t = owner[e] THEN [tcb[t] EXCEPT !.prio = ownPrio[e]]
               ELSE tcb[t]]
  /\ rdy' = (IF Raised(e) THEN (rdy \ {pip[e]}) \cup {ownPrio[e]} ELSE rdy)
            \cup {tcb[t].prio : t \in NotSuspended(ts)}
  /\ waiting' = [waiting EXCEPT ![e] = @ \ {tcb[t].prio : t \in ts}]

\* Mutant: any task may post.
AnyPoster(t, e) == owner[e] # None

\* Only the owner may post.
IsOwner(t, e) == owner[e] = t

Wanted(e) == waiting[e] # {}

\* OSTCBPrioTbl with the PIP reserved again.
PipReserved(e) == [prioTbl EXCEPT ![pip[e]] = Reserved]

\* With nobody waiting there is no OS_Sched.
OSMutexPost(t, e) ==
  /\ Runs(t)
  /\ IsMutex(e)
  /\ IsOwner(t, e)
  /\ prioTbl' = PipReserved(e)
  /\ IF Wanted(e)
     THEN LET w == HighestWaiter(e) IN
          /\ HandOver(e, {w})
          /\ ownPrio' = [ownPrio EXCEPT ![e] = tcb[w].prio]
          /\ owner' = [owner EXCEPT ![e] = w]
          /\ Yields(t)
     ELSE /\ HandOver(e, {})
          /\ ownPrio' = [ownPrio EXCEPT ![e] = None]
          /\ owner' = [owner EXCEPT ![e] = None]
          /\ Returns
  /\ UNCHANGED <<evType, cur, prioCur, lockNesting, pip>>

Freed(e) ==
  /\ prioTbl' = [prioTbl EXCEPT ![pip[e]] = None]
  /\ evType' = [evType EXCEPT ![e] = "unused"]
  /\ ownPrio' = [ownPrio EXCEPT ![e] = None]
  /\ owner' = [owner EXCEPT ![e] = None]
  /\ UNCHANGED <<cur, prioCur, lockNesting, pip>>

\* OSMutexDel with OS_DEL_NO_PEND does not look at the owner.
DelNoPend(t, e) ==
  /\ Runs(t)
  /\ IsMutex(e)
  /\ waiting[e] = {}
  /\ Freed(e)
  /\ Returns
  /\ UNCHANGED <<tcb, rdy, waiting>>

\* With OS_DEL_ALWAYS it gives the owner its priority back and makes it and
\* all waiters ready.
DelAlways(t, e) ==
  /\ Runs(t)
  /\ IsMutex(e)
  /\ Freed(e)
  /\ HandOver(e, Waiters(e))
  /\ IF waiting[e] # {} THEN Yields(t) ELSE Returns

MutexInit ==
  /\ pip = [e \in Event |-> 0]
  /\ ownPrio = [e \in Event |-> None]
  /\ owner = [e \in Event |-> None]
=============================================================================
