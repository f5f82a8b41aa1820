----------------------------- MODULE MCOSKernel -----------------------------
EXTENDS OSKernel, TLC

CONSTANTS high, mid, low, e1, e2, g1, f1, f2, m1, m2

Usual == {"posts schedule"}

Empty == [calls |-> {}, rules |-> Usual, start |-> high :> 2 @@ low :> 4,
          prios |-> {}, events |-> {e1}, ticks |-> {0, 1}, msgs |-> {}, waits |-> {}]

Three == high :> 2 @@ mid :> 3 @@ low :> 4

Semaphores == [Empty EXCEPT !.calls = {"sem", "lock"}, !.start = Three]

TaskRules == Usual \cup {"prio settled", "delete settled"}

\* Two tasks with a third TCB, and tasks that may find no TCB left.
Tasks == [Empty EXCEPT
  !.calls = {"sem", "create", "delete"},
  !.start = high :> 2 @@ low :> 3, !.prios = {1}, !.ticks = {1},
  !.rules = TaskRules]

Crowded == [Empty EXCEPT
  !.calls = {"lock", "create", "delete"},
  !.start = Three, !.prios = {1}, !.ticks = {1},
  !.rules = TaskRules]

Mutexes == [Empty EXCEPT
  !.calls = {"mutex"},
  !.start = Three,
  !.events = {e1, e2}, !.ticks = {1},
  !.rules = Usual \cup {"one object", "owner ready", "delete unraised", "suspend settled",
                        "name self", "delay unlocked"}]

\* Tasks that lock the scheduler and whose event blocks are a semaphore at one
\* time and a mutex at another.  There is one PIP, hence one mutex at a time.
Mixed == [Empty EXCEPT
  !.calls = {"sem", "mutex", "lock"},
  !.start = high :> 1 @@ low :> 4,
  !.events = {e1, e2}, !.ticks = {1},
  !.rules = Mutexes.rules]

\* Posts that do not schedule are theirs alone.
Queues == [Empty EXCEPT
  !.calls = {"q"}, !.msgs = {m1, m2}, !.ticks = {1}, !.rules = {}]

Mailboxes == [Empty EXCEPT
  !.calls = {"mbox"}, !.msgs = {m1, m2}, !.start = Three, !.ticks = {1}, !.rules = {}]

OfSeveral == [Empty EXCEPT
  !.calls = {"sem", "mbox", "multi"}, !.events = {e1, e2}, !.msgs = {m1}, !.ticks = {1},
  !.rules = Usual \cup {"multi kept", "multi resumed"}]

Wait(want, all, set, consume) ==
  [grp |-> g1, want |-> want, all |-> all, set |-> set, consume |-> consume]

\* Tasks that consume flags that are set.
Signals == [Empty EXCEPT
  !.calls = {"flag", "delete"},
  !.waits = {Wait({f1, f2}, all, TRUE, TRUE) : all \in BOOLEAN}
            \cup {Wait({f1}, FALSE, TRUE, TRUE)},
  !.ticks = {1},
  !.rules = Usual]

\* Tasks that wait for both values of a flag and consume neither.
Levels == [Empty EXCEPT
  !.calls = {"flag"},
  !.waits = {Wait({f1}, TRUE, set, FALSE) : set \in BOOLEAN}
            \cup {Wait({f1, f2}, FALSE, set, FALSE) : set \in BOOLEAN},
  !.ticks = {1},
  !.rules = Usual \cup {"waiters kept"}]

AllApps == {Semaphores, Tasks, Crowded, Mutexes, Mixed, Queues, Mailboxes, OfSeveral, Signals, Levels}

\* Tasks that are suspended while they pend on several events.
Suspended == {[OfSeveral EXCEPT !.rules = Usual \cup {"multi kept"}]}
=============================================================================
