-------------------------------- MODULE OSMsg --------------------------------
(***************************************************************************)
(* The mailboxes (os_mbox.c) and the message queues (os_q.c) of uC/OS-II,  *)
(* and the pend on several semaphores and mailboxes (OSEventPendMulti of   *)
(* os_core.c).  A mailbox is an event with room for one message, a queue   *)
(* one with a ring of Size entries.  An OS_Q is known by the event it      *)
(* belongs to; OSQIn and OSQOut are offsets from OSQStart.                 *)
(***************************************************************************)
EXTENDS OSSem

CONSTANTS
  Size,         \* OSQSize
  MaxQs         \* OS_MAX_QS, the number of the OS_Q

ASSUME QAssumption == Size \in Nat \ {0} /\ MaxQs \in Nat

VARIABLES
  mail,         \* OSEventPtr of each mailbox
  ring,         \* OSQStart, the entries
  qIn,          \* OSQIn
  qOut,         \* OSQOut
  entries       \* OSQEntries

qVars == <<ring, qIn, qOut, entries>>

IsMbox(e) == evType[e] = "mbox"

OSMboxCreate(t, e, m) ==
  /\ EventCreate(t, e, "mbox")
  /\ mail' = [mail EXCEPT ![e] = m]

\* OSMboxAccept, and OSMboxPend when there is a message.
TakeMail(t, e) ==
  /\ Runs(t)
  /\ IsMbox(e)
  /\ mail[e] # None
  /\ mail' = [mail EXCEPT ![e] = None]
  /\ UNCHANGED coreVars

OSMboxPend(t, e, timeout) ==
  /\ Runs(t)
  /\ lockNesting = 0
  /\ IsMbox(e)
  /\ mail[e] = None
  /\ Block(t, e, "mbox", timeout)
  /\ UNCHANGED <<evType, mail>>

OSMboxPendAbort(t, e, broadcast) ==
  IsMbox(e) /\ PendAbort(t, e, "mbox", broadcast) /\ UNCHANGED mail

\* With tasks waiting the message goes to the highest one, or to all of them.
MboxWakes(e, m, broadcast) ==
  /\ IsMbox(e)
  /\ waiting[e] # {}
  /\ OS_EventTaskRdy(e, IF broadcast THEN Waiters(e) ELSE {HighestWaiter(e)}, m, "mbox", "ok")
  /\ UNCHANGED <<evType, mail>>

\* A full mailbox refuses the message: OS_ERR_MBOX_FULL.
MboxKeeps(e, m) ==
  /\ IsMbox(e)
  /\ waiting[e] = {}
  /\ mail[e] = None
  /\ mail' = [mail EXCEPT ![e] = m]
  /\ UNCHANGED coreVars

OSMboxPost(t, e, m) ==
  /\ Runs(t)
  /\ (MboxWakes(e, m, FALSE) /\ PostedByTask(t)) \/ MboxKeeps(e, m)

OSMboxPostISR(e, m) == (MboxWakes(e, m, FALSE) /\ PostedByISR) \/ MboxKeeps(e, m)

\* OS_POST_OPT_NO_SCHED leaves OS_Sched out.
OSMboxPostOpt(t, e, m, broadcast, noSched) ==
  /\ Runs(t)
  /\ \/ /\ MboxWakes(e, m, broadcast)
        /\ IF noSched THEN Returns ELSE Yields(t)
        /\ UNCHANGED <<prioTbl, cur, prioCur, lockNesting>>
     \/ MboxKeeps(e, m)

OSMboxDel(t, e, always) ==
  /\ IsMbox(e)
  /\ EventDel(t, e, "mbox", always)
  /\ mail' = [mail EXCEPT ![e] = None]

MboxInit == mail = [e \in Event |-> None]

-----------------------------------------------------------------------------
IsQ(e) == evType[e] = "q"

\* The two steps forward, over OSQEnd, and the one back, over OSQStart.
Next1(i) == IF i + 1 = Size THEN 0 ELSE i + 1
Prev1(i) == (IF i = 0 THEN Size ELSE i) - 1

\* Without an OS_Q the event control block, which was taken in a section of its
\* own, is given back.
OSQCreate(t, e) ==
  /\ Cardinality({f \in Event : IsQ(f)}) < MaxQs
  /\ EventCreate(t, e, "q")
  /\ qIn' = [qIn EXCEPT ![e] = 0]
  /\ qOut' = [qOut EXCEPT ![e] = 0]
  /\ entries' = [entries EXCEPT ![e] = 0]
  /\ UNCHANGED ring

\* OSQAccept, and OSQPend when there is a message.
TakeMsg(t, e) ==
  /\ Runs(t)
  /\ IsQ(e)
  /\ entries[e] > 0
  /\ qOut' = [qOut EXCEPT ![e] = Next1(@)]
  /\ entries' = [entries EXCEPT ![e] = @ - 1]
  /\ UNCHANGED <<coreVars, ring, qIn>>

OSQPend(t, e, timeout) ==
  /\ Runs(t)
  /\ lockNesting = 0
  /\ IsQ(e)
  /\ entries[e] = 0
  /\ Block(t, e, "q", timeout)
  /\ UNCHANGED <<evType, qVars>>

OSQPendAbort(t, e, broadcast) ==
  IsQ(e) /\ PendAbort(t, e, "q", broadcast) /\ UNCHANGED qVars

QWakes(e, m, broadcast) ==
  /\ IsQ(e)
  /\ waiting[e] # {}
  /\ OS_EventTaskRdy(e, IF broadcast THEN Waiters(e) ELSE {HighestWaiter(e)}, m, "q", "ok")
  /\ UNCHANGED <<evType, qVars>>

\* A full queue refuses the message: OS_ERR_Q_FULL.
HasRoom(e) == IsQ(e) /\ waiting[e] = {} /\ entries[e] < Size

AtEnd(e, m) ==
  /\ HasRoom(e)
  /\ ring' = [ring EXCEPT ![e][qIn[e]] = m]
  /\ qIn' = [qIn EXCEPT ![e] = Next1(@)]
  /\ entries' = [entries EXCEPT ![e] = @ + 1]
  /\ UNCHANGED <<coreVars, qOut>>

\* Mutant: the message is written before OSQOut steps back.
AtFrontLate(e, m) ==
  /\ HasRoom(e)
  /\ ring' = [ring EXCEPT ![e][qOut[e]] = m]
  /\ qOut' = [qOut EXCEPT ![e] = Prev1(@)]
  /\ entries' = [entries EXCEPT ![e] = @ + 1]
  /\ UNCHANGED <<coreVars, qIn>>

AtFront(e, m) ==
  /\ HasRoom(e)
  /\ ring' = [ring EXCEPT ![e][Prev1(qOut[e])] = m]
  /\ qOut' = [qOut EXCEPT ![e] = Prev1(@)]
  /\ entries' = [entries EXCEPT ![e] = @ + 1]
  /\ UNCHANGED <<coreVars, qIn>>

OSQPost(t, e, m) ==
  Runs(t) /\ ((QWakes(e, m, FALSE) /\ PostedByTask(t)) \/ AtEnd(e, m))

OSQPostISR(e, m) == (QWakes(e, m, FALSE) /\ PostedByISR) \/ AtEnd(e, m)

OSQPostFront(t, e, m) ==
  Runs(t) /\ ((QWakes(e, m, FALSE) /\ PostedByTask(t)) \/ AtFront(e, m))

OSQPostOpt(t, e, m, front, broadcast, noSched) ==
  /\ Runs(t)
  /\ \/ /\ QWakes(e, m, broadcast)
        /\ IF noSched THEN Returns ELSE Yields(t)
        /\ UNCHANGED <<prioTbl, cur, prioCur, lockNesting>>
     \/ IF front THEN AtFront(e, m) ELSE AtEnd(e, m)

OSQFlush(t, e) ==
  /\ Runs(t)
  /\ IsQ(e)
  /\ qIn' = [qIn EXCEPT ![e] = 0]
  /\ qOut' = [qOut EXCEPT ![e] = 0]
  /\ entries' = [entries EXCEPT ![e] = 0]
  /\ UNCHANGED <<coreVars, ring>>

OSQDel(t, e, always) ==
  /\ IsQ(e)
  /\ EventDel(t, e, "q", always)
  /\ UNCHANGED qVars

QInit ==
  /\ ring = [e \in Event |-> [i \in 0 .. Size - 1 |-> None]]
  /\ qIn = [e \in Event |-> 0]
  /\ qOut = [e \in Event |-> 0]
  /\ entries = [e \in Event |-> 0]

-----------------------------------------------------------------------------
Available(e) == (IsSem(e) /\ cnt[e] > 0) \/ (IsMbox(e) /\ mail[e] # None)

\* OS_EventTaskWaitMulti for a task whose TCB is now c.
OS_EventTaskWaitMulti(t, es, c) ==
  /\ tcb' = [tcb EXCEPT ![t] = [c EXCEPT !.eptr = None, !.multi = es]]
  /\ waiting' = [e \in Event |-> IF e \in es THEN waiting[e] \cup {tcb[t].prio} ELSE waiting[e]]
  /\ rdy' = rdy \ {tcb[t].prio}

\* What is available of all the events is taken at once; if nothing is, the
\* task waits for all of them.
OSEventPendMulti(t, es, timeout) ==
  /\ Runs(t)
  /\ lockNesting = 0
  /\ \A e \in es : IsSem(e) \/ IsMbox(e)
  /\ IF \E e \in es : Available(e)
     THEN /\ cnt' = [e \in Event |-> IF e \in es /\ IsSem(e) /\ cnt[e] > 0 THEN cnt[e] - 1 ELSE cnt[e]]
          /\ mail' = [e \in Event |-> IF e \in es /\ IsMbox(e) THEN None ELSE mail[e]]
          /\ UNCHANGED coreVars
     ELSE /\ OS_EventTaskWaitMulti(t, es,
                  [tcb[t] EXCEPT !.stat = @ \cup {evType[e] : e \in es} \cup {"multi"},
                                 !.pend = "ok", !.dly = timeout])
          /\ pc' = [pc EXCEPT ![t] = "block"]
          /\ arg' = [arg EXCEPT ![t] = [events |-> es]]
          /\ UNCHANGED <<prioTbl, evType, cur, prioCur, lockNesting, cnt, mail>>

\* The event that has ended the wait is gone: the call returns
\* OS_ERR_EVENT_TYPE and leaves the TCB as it is.
Stale(t) == tcb[t].pend = "ok" /\ tcb[t].eptr # None /\ evType[tcb[t].eptr] = "unused"

TimedOut(t) == tcb[t].pend = "to" \/ tcb[t].eptr = None

\* OS_EventTaskRemoveMulti.
LeaveAll(t) ==
  [e \in Event |-> IF e \in arg[t].events THEN waiting[e] \ {tcb[t].prio} ELSE waiting[e]]

\* The second critical section.
MultiWake(t) ==
  /\ cur = t
  /\ pc[t] = "wake"
  /\ arg[t] \in Several
  /\ waiting' = IF TimedOut(t) THEN LeaveAll(t) ELSE waiting
  /\ tcb' = IF Stale(t) THEN tcb
            ELSE [tcb EXCEPT ![t] = Cleared(@)]
  /\ pc' = [pc EXCEPT ![t] = "user"]
  /\ arg' = [arg EXCEPT ![t] = None]
  /\ UNCHANGED <<prioTbl, rdy, evType, cur, prioCur, lockNesting, cnt, mail>>
=============================================================================
