------------------------ MODULE RecursiveLockProofs -------------------------
(***************************************************************************)
(* The locks of newlib keep two tasks apart, whatever they look at before  *)
(* they decide and however often priorities are raised, for every set of   *)
(* tasks.  What decides is the unit of the semaphore: it is in the count,  *)
(* or one task holds it, from OSSemPend to OSSemPost.                      *)
(***************************************************************************)
EXTENDS RecursiveLock, TLAPS

Places == {"out", "decide", "pend", "claim", "wait", "post"}

\* The unit of the semaphore is with t.
Holding(t) == pc[t] \in {"claim", "post"} \/ (pc[t] = "wait" /\ t \notin waiters) \/ depth[t] > 0

\* What t calls itself is its own priority, or that of a mutex that only t can
\* run at.
IsOf(name, t) == name = t \/ (name = Pip /\ raised = {t})

LockTypes ==
  /\ TypeOK
  /\ pc \in [Task -> Places]
  /\ \A t \in raised : t \in Task /\ raised = {t}

OneHolder ==
  /\ \A t, u \in Task : Holding(t) /\ Holding(u) => t = u
  /\ cnt > 0 => \A t \in Task : ~Holding(t)

AtPlaces ==
  \A t \in Task :
    /\ t \in waiters => pc[t] = "wait"
    /\ pc[t] \in {"claim", "post"} => depth[t] = 0
    /\ (pc[t] = "wait" /\ t \notin waiters) => depth[t] = 0
    /\ pc[t] = "decide" => depth[t] < MaxDepth

Names ==
  /\ \A t \in Task : pc[t] \in {"decide", "pend", "claim", "wait"} => IsOf(id[t], t)
  /\ \A t \in Inside : IsOf(lockid, t)

LockInv == LockTypes /\ OneHolder /\ AtPlaces /\ Names /\ Counted

-----------------------------------------------------------------------------
(* Facts about names: a task's name is its own.                             *)

LEMMA NameOfOne ==
  ASSUME LockTypes, NEW n, NEW t \in Task, NEW u \in Task, IsOf(n, t), IsOf(n, u)
  PROVE  t = u
BY LockAssumption DEF IsOf, LockTypes

LEMMA NameNat ==
  ASSUME NEW n, NEW t \in Task, IsOf(n, t)
  PROVE  n \in Nat /\ n # -1
<1>1. n \in Nat
  BY LockAssumption DEF IsOf
<1> QED
  BY <1>1

\* The count is at zero while somebody holds the unit.
LEMMA HeldIsZero ==
  ASSUME LockInv, NEW t \in Task, Holding(t)
  PROVE  cnt = 0
BY DEF LockInv, LockTypes, TypeOK, OneHolder

-----------------------------------------------------------------------------
LEMMA InitInv == Init => LockInv
<1> SUFFICES ASSUME Init
             PROVE  LockInv
  OBVIOUS
<1>1. LockTypes
  BY LockAssumption DEF Init, LockTypes, TypeOK, Places
<1>2. \A t \in Task : ~Holding(t)
  <2>1. ASSUME NEW t \in Task
        PROVE  pc[t] = "out" /\ ~(depth[t] > 0)
    <3>1. pc[t] = "out" /\ depth[t] = 0
      BY DEF Init
    <3> QED
      BY <3>1, 0 <= 0
  <2> QED
    BY <2>1 DEF Holding
<1>3. OneHolder
  BY <1>2 DEF OneHolder
<1>4. AtPlaces
  BY DEF Init, AtPlaces
<1>5. Names
  BY DEF Init, Names, Inside
<1>6. Counted
  BY DEF Init, Counted, Inside
<1> QED
  BY <1>1, <1>3, <1>4, <1>5, <1>6 DEF LockInv

LEMMA QueryInv == ASSUME LockInv, NEW t \in Task, Query(t) PROVE LockInv'
<1> USE DEF LockInv
<1>1. /\ pc[t] = "out" /\ depth[t] < MaxDepth
      /\ id' = [id EXCEPT ![t] = OSTCBPrio(t)] /\ pc' = [pc EXCEPT ![t] = "decide"]
      /\ UNCHANGED <<cnt, waiters, lockid, locks, depth, raised>>
  BY DEF Query, Goto
<1>2. IsOf(OSTCBPrio(t), t)
  BY DEF OSTCBPrio, IsOf
<1>3. LockTypes'
  <2>1. id' \in [Task -> Nat \cup {-1}]
    BY <1>1, <1>2, NameNat DEF LockTypes, TypeOK
  <2>2. seen' \in [Task -> BOOLEAN]
    BY DEF Query, LockTypes, TypeOK, Taken
  <2>3. pc' \in [Task -> Places]
    BY <1>1 DEF LockTypes, Places
  <2> QED
    BY <1>1, <2>1, <2>2, <2>3 DEF LockTypes, TypeOK
<1>4. \A u \in Task : Holding(u)' => Holding(u)
  BY <1>1 DEF Holding, LockTypes
<1>5. OneHolder'
  BY <1>1, <1>4 DEF OneHolder
<1>6. AtPlaces'
  BY <1>1 DEF AtPlaces, LockTypes
<1>7. Names'
  BY <1>1, <1>2 DEF Names, Inside, IsOf, LockTypes, TypeOK
<1>8. Counted'
  BY <1>1 DEF Counted, Inside
<1> QED
  BY <1>3, <1>5, <1>6, <1>7, <1>8

LEMMA DecideInv == ASSUME LockInv, NEW t \in Task, Decide(t) PROVE LockInv'
<1> USE DEF LockInv
<1>1. pc[t] = "decide" /\ UNCHANGED <<cnt, waiters, lockid, id, seen, raised>>
  BY DEF Decide
<1>2. depth[t] < MaxDepth /\ IsOf(id[t], t) /\ t \notin waiters
  BY <1>1 DEF AtPlaces, Names
<1>3. CASE Mine(t)
  <2>1. /\ locks' = locks + 1 /\ depth' = [depth EXCEPT ![t] = @ + 1]
        /\ pc' = [pc EXCEPT ![t] = "out"] /\ id[t] = lockid
    BY <1>3 DEF Decide, Goto, Mine
  <2>2. Inside # {}
    BY <1>2, <2>1, NameNat DEF Counted
  <2>3. PICK u \in Inside : TRUE
    BY <2>2
  <2>4. u = t
    BY <1>2, <2>1, <2>3, NameOfOne DEF Names, Inside
  <2>5. depth[t] > 0 /\ locks = depth[t]
    BY <2>3, <2>4 DEF Inside, Counted
  <2>6. LockTypes'
    BY <1>1, <1>2, <2>1, LockAssumption DEF LockTypes, TypeOK, Places
  <2>7. \A w \in Task : Holding(w)' => Holding(w)
    BY <1>1, <2>1, <2>5 DEF Holding, LockTypes, TypeOK
  <2>8. OneHolder'
    BY <1>1, <2>7 DEF OneHolder
  <2>9. AtPlaces'
    BY <1>1, <2>1 DEF AtPlaces, LockTypes, TypeOK
  <2>10. Inside' = Inside
    BY <2>1, <2>5 DEF Inside, LockTypes, TypeOK
  <2>11. Names'
    BY <1>1, <2>1, <2>10 DEF Names, IsOf, LockTypes
  <2>12. \A w \in Inside : w = t
    BY <2>3, <2>4 DEF OneHolder, Holding, Inside
  <2>13. Counted'
    BY <2>1, <2>2, <2>5, <2>10, <2>12 DEF Counted, Inside, LockTypes, TypeOK
  <2> QED
    BY <2>6, <2>8, <2>9, <2>11, <2>13
<1>4. CASE ~Mine(t)
  <2>1. pc' = [pc EXCEPT ![t] = "pend"] /\ UNCHANGED <<locks, depth>>
    BY <1>4 DEF Decide, Goto
  <2>2. LockTypes'
    BY <1>1, <2>1 DEF LockTypes, TypeOK, Places
  <2>3. \A w \in Task : Holding(w)' => Holding(w)
    BY <1>1, <2>1 DEF Holding, LockTypes
  <2>4. OneHolder'
    BY <1>1, <2>3 DEF OneHolder
  <2>5. AtPlaces'
    BY <1>1, <1>2, <2>1 DEF AtPlaces, LockTypes
  <2>6. Names'
    BY <1>1, <2>1 DEF Names, IsOf, LockTypes, Inside
  <2>7. Counted'
    BY <1>1, <2>1 DEF Counted, Inside
  <2> QED
    BY <2>2, <2>4, <2>5, <2>6, <2>7
<1> QED
  BY <1>3, <1>4

LEMMA PendInv == ASSUME LockInv, NEW t \in Task, OSSemPend(t) PROVE LockInv'
<1> USE DEF LockInv
<1>1. pc[t] = "pend" /\ UNCHANGED <<lockid, locks, id, seen, depth, raised>>
  BY DEF OSSemPend
<1>2. Names' /\ Counted'
  <2>1. pc' = [pc EXCEPT ![t] = "claim"] \/ pc' = [pc EXCEPT ![t] = "wait"]
    BY DEF OSSemPend, Goto
  <2> QED
    BY <1>1, <2>1 DEF Names, IsOf, LockTypes, Inside, Counted
<1>3. CASE cnt > 0
  <2>1. cnt' = cnt - 1 /\ pc' = [pc EXCEPT ![t] = "claim"] /\ UNCHANGED waiters
    BY <1>3 DEF OSSemPend, Goto
  <2>2. cnt' = 0
    BY <1>3, <2>1 DEF LockTypes, TypeOK
  <2>3. \A u \in Task : ~Holding(u)
    BY <1>3 DEF OneHolder
  <2>4. \A u \in Task : Holding(u)' => u = t
    BY <1>1, <2>1, <2>3 DEF Holding, LockTypes
  <2>5. LockTypes'
    BY <1>1, <2>1, <2>2 DEF LockTypes, TypeOK, Places
  <2>6. OneHolder'
    BY <2>2, <2>4 DEF OneHolder
  <2>7. depth[t] = 0
    BY <2>3 DEF Holding, LockTypes, TypeOK
  <2>8. AtPlaces'
    BY <1>1, <2>1, <2>7 DEF AtPlaces, LockTypes
  <2> QED
    BY <1>2, <2>5, <2>6, <2>8
<1>4. CASE ~(cnt > 0)
  <2>1. waiters' = waiters \cup {t} /\ pc' = [pc EXCEPT ![t] = "wait"] /\ cnt' = cnt
    BY <1>4 DEF OSSemPend, Goto
  <2>2. LockTypes'
    BY <1>1, <2>1 DEF LockTypes, TypeOK, Places
  <2>3. \A u \in Task : Holding(u)' => Holding(u)
    BY <1>1, <2>1 DEF Holding, LockTypes
  <2>4. OneHolder'
    BY <2>1, <2>3 DEF OneHolder
  <2>5. AtPlaces'
    BY <1>1, <2>1 DEF AtPlaces, LockTypes
  <2> QED
    BY <1>2, <2>2, <2>4, <2>5
<1> QED
  BY <1>3, <1>4

LEMMA ClaimInv == ASSUME LockInv, NEW t \in Task, Claim(t) PROVE LockInv'
<1> USE DEF LockInv
<1>1. /\ pc[t] \in {"claim", "wait"} /\ t \notin waiters
      /\ lockid' = id[t] /\ locks' = 1 /\ depth' = [depth EXCEPT ![t] = 1]
      /\ pc' = [pc EXCEPT ![t] = "out"] /\ UNCHANGED <<cnt, waiters, id, seen, raised>>
  BY DEF Claim, Goto
<1>2. Holding(t)
  BY <1>1 DEF Holding
<1>3. \A u \in Task : Holding(u)' => Holding(u)
  BY <1>1, <1>2 DEF Holding, LockTypes, TypeOK
<1>4. IsOf(id[t], t)
  BY <1>1 DEF Names
<1>5. LockTypes'
  <2>1. lockid' \in Nat \cup {-1}
    BY <1>1 DEF LockTypes, TypeOK
  <2>2. depth' \in [Task -> 0 .. MaxDepth]
    BY <1>1, LockAssumption DEF LockTypes, TypeOK
  <2> QED
    BY <1>1, <2>1, <2>2 DEF LockTypes, TypeOK, Places
<1>6. OneHolder'
  BY <1>1, <1>3 DEF OneHolder
<1>7. AtPlaces'
  BY <1>1 DEF AtPlaces, LockTypes, TypeOK
<1>8. Inside' = {t}
  <2>1. \A u \in Inside : u = t
    BY <1>2 DEF OneHolder, Holding, Inside
  <2> QED
    BY <1>1, <2>1 DEF Inside, LockTypes, TypeOK
<1>9. Names'
  BY <1>1, <1>4, <1>8 DEF Names, IsOf, LockTypes
<1>10. Counted'
  BY <1>1, <1>8 DEF Counted, LockTypes, TypeOK
<1> QED
  BY <1>5, <1>6, <1>7, <1>9, <1>10

LEMMA UnlockInv == ASSUME LockInv, NEW t \in Task, Unlock(t) PROVE LockInv'
<1> USE DEF LockInv
<1>1. /\ pc[t] = "out" /\ depth[t] > 0
      /\ depth' = [depth EXCEPT ![t] = @ - 1]
      /\ UNCHANGED <<cnt, waiters, id, seen, raised>>
  BY DEF Unlock
<1>2. t \in Inside /\ Holding(t)
  BY <1>1 DEF Inside, Holding
<1>3. locks = depth[t]
  BY <1>2 DEF Counted
<1>4. \A u \in Inside : u = t
  BY <1>2 DEF OneHolder, Holding, Inside
<1>5. depth[t] \in Nat /\ locks \in Nat
  BY <1>3 DEF LockTypes, TypeOK
<1>6. /\ locks' = locks - 1
      /\ lockid' = IF locks = 1 THEN -1 ELSE lockid
      /\ pc' = [pc EXCEPT ![t] = IF locks = 1 THEN "post" ELSE "out"]
  BY <1>1, <1>3, <1>5 DEF Unlock, Goto
<1>7. LockTypes'
  <2>1. locks' \in Nat
    BY <1>1, <1>3, <1>5, <1>6
  <2>2. lockid' \in Nat \cup {-1}
    BY <1>6 DEF LockTypes, TypeOK
  <2>3. pc' \in [Task -> Places]
    BY <1>6 DEF LockTypes, Places
  <2>4. depth' \in [Task -> 0 .. MaxDepth]
    BY <1>1, LockAssumption DEF LockTypes, TypeOK
  <2> QED
    BY <1>1, <2>1, <2>2, <2>3, <2>4 DEF LockTypes, TypeOK
<1>8. \A u \in Task : Holding(u)' => Holding(u)
  BY <1>1, <1>2, <1>6 DEF Holding, LockTypes, TypeOK
<1>9. OneHolder'
  BY <1>1, <1>8 DEF OneHolder
<1>10. AtPlaces'
  BY <1>1, <1>3, <1>5, <1>6 DEF AtPlaces, LockTypes, TypeOK
<1>11. Inside' = IF locks = 1 THEN {} ELSE {t}
  BY <1>1, <1>2, <1>3, <1>4, <1>5 DEF Inside, LockTypes, TypeOK
<1>12. Names'
  BY <1>1, <1>2, <1>6, <1>11 DEF Names, IsOf, LockTypes
<1>13. Counted'
  BY <1>1, <1>3, <1>5, <1>6, <1>11 DEF Counted, LockTypes, TypeOK
<1> QED
  BY <1>7, <1>9, <1>10, <1>12, <1>13

LEMMA PostInv == ASSUME LockInv, NEW t \in Task, OSSemPost(t) PROVE LockInv'
<1> USE DEF LockInv
<1>1. /\ pc[t] = "post" /\ pc' = [pc EXCEPT ![t] = "out"]
      /\ UNCHANGED <<lockid, locks, id, seen, depth, raised>>
  BY DEF OSSemPost, Goto
<1>2. Holding(t) /\ depth[t] = 0
  BY <1>1 DEF Holding, AtPlaces
<1>3. cnt = 0
  BY <1>2, HeldIsZero
<1>4. \A u \in Task \ {t} : ~Holding(u)
  BY <1>2 DEF OneHolder
<1>5. Names' /\ Counted'
  BY <1>1 DEF Names, IsOf, LockTypes, Inside, Counted
<1>6. CASE waiters = {}
  <2>1. cnt' = 1 /\ waiters' = waiters
    BY <1>3, <1>6 DEF OSSemPost
  <2>2. LockTypes'
    BY <1>1, <2>1 DEF LockTypes, TypeOK, Places
  <2>3. \A u \in Task : ~Holding(u)'
    BY <1>1, <1>2, <1>4, <2>1 DEF Holding, LockTypes
  <2>4. OneHolder'
    BY <2>3 DEF OneHolder
  <2>5. AtPlaces'
    BY <1>1, <1>2, <2>1 DEF AtPlaces, LockTypes
  <2> QED
    BY <1>5, <2>2, <2>4, <2>5
<1>7. CASE waiters # {}
  <2> DEFINE v == CHOOSE u \in waiters : \A w \in waiters : OSTCBPrio(u) <= OSTCBPrio(w)
  <2>1. cnt' = 0 /\ waiters' = waiters \ {v}
    BY <1>3, <1>7 DEF OSSemPost
  <2> HIDE DEF v
  <2>2. LockTypes'
    BY <1>1, <2>1 DEF LockTypes, TypeOK, Places
  <2>3. \A u \in Task : Holding(u)' => u = v
    BY <1>1, <1>2, <1>4, <2>1 DEF Holding, LockTypes
  <2>4. OneHolder'
    BY <2>1, <2>3 DEF OneHolder
  <2>5. AtPlaces'
    <3> SUFFICES ASSUME NEW u \in Task
                 PROVE  /\ u \in waiters' => pc'[u] = "wait"
                        /\ pc'[u] \in {"claim", "post"} => depth'[u] = 0
                        /\ (pc'[u] = "wait" /\ u \notin waiters') => depth'[u] = 0
                        /\ pc'[u] = "decide" => depth'[u] < MaxDepth
      BY DEF AtPlaces
    <3>1. CASE u = t
      BY <1>1, <2>1, <3>1 DEF AtPlaces, LockTypes
    <3>2. CASE u # t
      <4>1. pc'[u] = pc[u] /\ depth'[u] = depth[u] /\ ~Holding(u)
        BY <1>1, <1>4, <3>2 DEF LockTypes
      <4>2. depth[u] = 0
        BY <4>1 DEF Holding, LockTypes, TypeOK
      <4> QED
        BY <2>1, <4>1, <4>2 DEF AtPlaces
    <3> QED
      BY <3>1, <3>2
  <2> QED
    BY <1>5, <2>2, <2>4, <2>5
<1> QED
  BY <1>6, <1>7

LEMMA RaiseInv == ASSUME LockInv, Raise PROVE LockInv'
<1> USE DEF LockInv
<1>1. UNCHANGED <<cnt, waiters, lockid, locks, pc, id, seen, depth>>
  BY DEF Raise, own
<1>2. OneHolder' /\ AtPlaces' /\ Counted'
  BY <1>1 DEF OneHolder, AtPlaces, Counted, Holding, Inside
<1>3. CASE raised = {} /\ \E t \in Task : raised' = {t}
  <2>1. LockTypes'
    BY <1>1, <1>3 DEF LockTypes, TypeOK
  <2>2. \A n, u : IsOf(n, u) => IsOf(n, u)'
    BY <1>3 DEF IsOf
  <2>3. Names'
    BY <1>1, <2>2 DEF Names, Inside, IsOf
  <2> QED
    BY <1>2, <2>1, <2>3
<1>4. CASE raised' = {} /\ \E t \in raised : pc[t] = "out" /\ depth[t] = 0
  <2>1. PICK t \in raised : pc[t] = "out" /\ depth[t] = 0
    BY <1>4
  <2>2. t \in Task /\ raised = {t}
    BY <2>1 DEF LockTypes
  <2>3. LockTypes'
    BY <1>1, <1>4 DEF LockTypes, TypeOK
  <2>4. \A u \in Task : u # t => raised # {u}
    BY <2>2
  <2>5. Names'
    <3>1. \A u \in Task : pc[u] \in {"decide", "pend", "claim", "wait"} => id[u] = u
      BY <2>1, <2>4 DEF Names, IsOf
    <3>2. \A u \in Inside : lockid = u
      <4>1. \A u \in Inside : u \in Task /\ u # t
        BY <2>1, <2>2 DEF Inside
      <4> QED
        BY <2>4, <4>1 DEF Names, IsOf
    <3> QED
      BY <1>1, <3>1, <3>2 DEF Names, Inside, IsOf
  <2> QED
    BY <1>2, <2>3, <2>5
<1> QED
  BY <1>3, <1>4 DEF Raise

LEMMA StepInv == LockInv /\ [Next]_vars => LockInv'
<1> SUFFICES ASSUME LockInv, [Next]_vars
             PROVE  LockInv'
  OBVIOUS
<1>1. ASSUME NEW t \in Task, Query(t)
      PROVE  LockInv'
  BY <1>1, QueryInv
<1>2. ASSUME NEW t \in Task, Decide(t)
      PROVE  LockInv'
  BY <1>2, DecideInv
<1>3. ASSUME NEW t \in Task, OSSemPend(t)
      PROVE  LockInv'
  BY <1>3, PendInv
<1>4. ASSUME NEW t \in Task, Claim(t)
      PROVE  LockInv'
  BY <1>4, ClaimInv
<1>5. ASSUME NEW t \in Task, Unlock(t)
      PROVE  LockInv'
  BY <1>5, UnlockInv
<1>6. ASSUME NEW t \in Task, OSSemPost(t)
      PROVE  LockInv'
  BY <1>6, PostInv
<1>7. CASE Raise
  BY <1>7, RaiseInv
<1>8. CASE UNCHANGED vars
  BY <1>8 DEF vars, own, LockInv, LockTypes, TypeOK, OneHolder, AtPlaces, Names, Counted,
              Holding, IsOf, Inside
<1> QED
  BY <1>1, <1>2, <1>3, <1>4, <1>5, <1>6, <1>7, <1>8 DEF Next

LEMMA LockInvariant == Spec => []LockInv
BY InitInv, StepInv, PTL DEF Spec

-----------------------------------------------------------------------------
\* The variables of the lock keep their types: the count of the semaphore never goes
\* above one, although OSSemPost has no limit of its own.
THEOREM LockTypeOK == Spec => []TypeOK
<1>1. LockInv => TypeOK
  BY DEF LockInv, LockTypes
<1> QED
  BY <1>1, LockInvariant, PTL

\* Two tasks are never inside the environment or the heap together, whichever field
\* of the semaphore the lock looks at before it decides.
THEOREM LockExcludes == Spec => []MutualExclusion
<1>1. LockInv => MutualExclusion
  BY DEF LockInv, OneHolder, Holding, MutualExclusion, Inside
<1> QED
  BY <1>1, LockInvariant, PTL

\* The count of nested calls is the one that the owner has to undo: the semaphore is
\* given back with the last call and never before.
THEOREM LockCounts == Spec => []Counted
<1>1. LockInv => Counted
  BY DEF LockInv
<1> QED
  BY <1>1, LockInvariant, PTL
=============================================================================
