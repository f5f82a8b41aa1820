------------------------------- MODULE OSFlag -------------------------------
(***************************************************************************)
(* The event flag groups of uC/OS-II (os_flag.c).  A task waits with a     *)
(* node on its own stack, which is linked to the group; the order of the   *)
(* nodes has no effect.  A set of bits is a set of flags.                  *)
(***************************************************************************)
EXTENDS OSTask

CONSTANTS
  Group,        \* the event flag groups
  Flag          \* the bits of a group

VARIABLES
  inUse,        \* OSFlagType is OS_EVENT_TYPE_FLAG
  flags,        \* OSFlagFlags
  nodes,        \* OSFlagWaitList: the tasks whose OSTCBFlagNode is linked
  flagsRdy      \* OSTCBFlagsRdy

flagVars == <<inUse, flags, nodes, flagsRdy>>

\* What a pend asks for: for all or for any of the flags in want, to be set
\* or to be clear; with consume they are cleared or set when it gets them.
Request == [grp : Group, want : SUBSET Flag, all : BOOLEAN, set : BOOLEAN, consume : BOOLEAN]

\* A request is not taken for an event.
ASSUME RequestAssumption == \A r \in Request : r \notin Event

\* The wanted flags that are there when the group holds fs, and whether they
\* are enough.
Present(r, fs) == IF r.set THEN r.want \cap fs ELSE r.want \ fs
Enough(r, got) == IF r.all THEN got = r.want ELSE got # {}
Holds(r, fs) == Enough(r, Present(r, fs))

Consumed(r, got, fs) ==
  IF ~r.consume THEN fs ELSE IF r.set THEN fs \ got ELSE fs \cup got

OSFlagCreate(t, g, fs) ==
  /\ Runs(t)
  /\ ~inUse[g]
  /\ inUse' = [inUse EXCEPT ![g] = TRUE]
  /\ flags' = [flags EXCEPT ![g] = fs]
  /\ nodes' = [nodes EXCEPT ![g] = {}]
  /\ UNCHANGED <<coreVars, free, flagsRdy>>

\* A consuming call does not look at the tasks that wait.
OSFlagAccept(t, r) ==
  /\ Runs(t)
  /\ inUse[r.grp]
  /\ Holds(r, flags[r.grp])
  /\ flags' = [flags EXCEPT ![r.grp] = Consumed(r, Present(r, @), @)]
  /\ UNCHANGED <<coreVars, free, inUse, nodes, flagsRdy>>

\* OS_FlagBlock
OS_FlagBlock(t, r, timeout) ==
  /\ tcb' = [tcb EXCEPT ![t] = [tcb[t] EXCEPT !.stat = @ \cup {"flag"}, !.pend = "ok",
                                              !.dly = timeout]]
  /\ nodes' = [nodes EXCEPT ![r.grp] = @ \cup {t}]
  /\ rdy' = rdy \ {tcb[t].prio}

\* The first critical section of OSFlagPend.
OSFlagPend(t, r, timeout) ==
  LET got == Present(r, flags[r.grp]) IN
  /\ Runs(t)
  /\ lockNesting = 0
  /\ inUse[r.grp]
  /\ IF Enough(r, got)
     THEN /\ flags' = [flags EXCEPT ![r.grp] = Consumed(r, got, @)]
          /\ flagsRdy' = [flagsRdy EXCEPT ![t] = got]
          /\ UNCHANGED <<coreVars, nodes>>
     ELSE /\ OS_FlagBlock(t, r, timeout)
          /\ pc' = [pc EXCEPT ![t] = "block"]
          /\ arg' = [arg EXCEPT ![t] = r]
          /\ UNCHANGED <<prioTbl, evType, waiting, cur, prioCur, lockNesting, flags, flagsRdy>>
  /\ UNCHANGED <<free, inUse>>

\* The second one.  The flags are consumed here, at a time when others may
\* have taken or set them, and when the group may have gone.
FlagWake(t) ==
  LET r == arg[t] IN
  /\ cur = t
  /\ pc[t] = "wake"
  /\ r \in Request
  /\ IF tcb[t].pend # "ok"
     THEN /\ tcb' = [tcb EXCEPT ![t] = [tcb[t] EXCEPT !.pend = "ok", !.stat = {}]]
          /\ nodes' = [nodes EXCEPT ![r.grp] = @ \ {t}]
          /\ UNCHANGED flags
     ELSE /\ flags' = [flags EXCEPT ![r.grp] = Consumed(r, flagsRdy[t], @)]
          /\ UNCHANGED <<tcb, nodes>>
  /\ pc' = [pc EXCEPT ![t] = "user"]
  /\ arg' = [arg EXCEPT ![t] = None]
  /\ UNCHANGED <<prioTbl, rdy, evType, waiting, cur, prioCur, lockNesting, free, inUse, flagsRdy>>

\* OS_FlagTaskRdy for the tasks ts: each gets the flags that got says, and
\* those that nobody has suspended become ready.
Given(ts, got) == [t \in Task |-> IF t \in ts THEN got[t] ELSE flagsRdy[t]]

ReadiedBy(ts) == {u \in ts : tcb[u].stat \subseteq {"flag"}}

OS_FlagTaskRdy(g, ts, got) ==
  /\ tcb' = [t \in AllTasks |->
               IF t \in ts
               THEN [tcb[t] EXCEPT !.dly = 0, !.stat = @ \ {"flag"}, !.pend = "ok"]
               ELSE tcb[t]]
  /\ flagsRdy' = Given(ts, got)
  /\ rdy' = rdy \cup {tcb[u].prio : u \in ReadiedBy(ts)}
  /\ nodes' = [nodes EXCEPT ![g] = @ \ ts]

\* Every task whose condition holds with the new flags fs becomes ready.
Satisfied(g, fs) == {t \in nodes[g] : Holds(arg[t], fs)}

\* A post that leaves the flags fs and readies the tasks ts.
Readies(g, fs, ts) ==
  /\ inUse[g]
  /\ flags' = [flags EXCEPT ![g] = fs]
  /\ OS_FlagTaskRdy(g, ts, [t \in ts |-> Present(arg[t], fs)])
  /\ UNCHANGED <<prioTbl, evType, waiting, lockNesting, arg, free, inUse>>

\* Mutant: the walk through the nodes ends at the first task.
PostedFirst(g, fs) ==
  \E ts \in SUBSET Satisfied(g, fs) :
    /\ IF Satisfied(g, fs) = {} THEN ts = {} ELSE Cardinality(ts) = 1
    /\ Readies(g, fs, ts)

Posted(g, fs) == Readies(g, fs, Satisfied(g, fs))

Changed(g, fs, set) == IF set THEN flags[g] \cup fs ELSE flags[g] \ fs

OSFlagPost(t, g, fs, set) ==
  /\ Runs(t)
  /\ Posted(g, Changed(g, fs, set))
  /\ IF ReadiedBy(Satisfied(g, Changed(g, fs, set))) # {} THEN Yields(t) ELSE Returns
  /\ UNCHANGED <<cur, prioCur>>

OSFlagPostISR(g, fs, set) == Posted(g, Changed(g, fs, set)) /\ OSIntExit /\ UNCHANGED pc

\* OSFlagDel; with OS_DEL_ALWAYS the tasks that wait get no flags, and no
\* error.
OSFlagDel(t, g, always) ==
  /\ Runs(t)
  /\ inUse[g]
  /\ always \/ nodes[g] = {}
  /\ inUse' = [inUse EXCEPT ![g] = FALSE]
  /\ flags' = [flags EXCEPT ![g] = {}]
  /\ OS_FlagTaskRdy(g, nodes[g], [u \in nodes[g] |-> {}])
  /\ IF nodes[g] # {} THEN Yields(t) ELSE Returns
  /\ UNCHANGED <<prioTbl, evType, waiting, cur, prioCur, lockNesting, free>>

\* What OSTaskDel does about the node of the task that it deletes.
UnlinkNode(u) ==
  /\ nodes' = [g \in Group |-> nodes[g] \ {u}]
  /\ UNCHANGED <<inUse, flags, flagsRdy>>

FlagInit ==
  /\ inUse = [g \in Group |-> FALSE]
  /\ flags = [g \in Group |-> {}]
  /\ nodes = [g \in Group |-> {}]
  /\ flagsRdy = [t \in Task |-> {}]
=============================================================================
