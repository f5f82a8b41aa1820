------------------------------ MODULE Channel -------------------------------
(***************************************************************************)
(* What the mailboxes and the queues promise: channels of a bounded        *)
(* capacity.  A message that is sent is kept in the channel, or handed to  *)
(* receivers when the channel is empty; each message kept is received once *)
(* and in order, and a receiver gets what was handed to it.                *)
(***************************************************************************)
EXTENDS Naturals, Sequences

CONSTANTS Chan, Receiver, Message, Nothing, Capacity

VARIABLES
  chan,         \* the messages in each channel, the next one first
  hand,         \* the message that was handed to a receiver that waits
  epoch         \* changed whenever somebody asks for a new start of a channel

vars == <<chan, hand, epoch>>

Keep(c) ==
  \E m \in Message :
    /\ Len(chan[c]) < Capacity
    /\ \/ chan' = [chan EXCEPT ![c] = Append(@, m)]
       \/ chan' = [chan EXCEPT ![c] = <<m>> \o @]
    /\ UNCHANGED <<hand, epoch>>

\* One call may receive from several channels at once.
Take(cs) ==
  /\ \A c \in cs : chan[c] # <<>>
  /\ chan' = [c \in Chan |-> IF c \in cs THEN Tail(chan[c]) ELSE chan[c]]
  /\ UNCHANGED <<hand, epoch>>

\* Receivers to which nothing has been handed.
Hand(c) ==
  \E m \in Message, rs \in SUBSET Receiver :
    /\ rs # {}
    /\ chan[c] = <<>>
    /\ \A r \in rs : hand[r] = Nothing
    /\ hand' = [r \in Receiver |-> IF r \in rs THEN m ELSE hand[r]]
    /\ UNCHANGED <<chan, epoch>>

Receive(r) ==
  /\ hand[r] # Nothing
  /\ hand' = [hand EXCEPT ![r] = Nothing]
  /\ UNCHANGED <<chan, epoch>>

\* A channel is flushed, or deleted, or created with a message in it: the only
\* step that loses messages.
Restart(c) ==
  \E s \in {<<>>} \cup {<<m>> : m \in Message} :
    /\ chan' = [chan EXCEPT ![c] = s]
    /\ epoch' = [epoch EXCEPT ![c] = 1 - @]
    /\ UNCHANGED hand

Init ==
  /\ chan = [c \in Chan |-> <<>>]
  /\ hand = [r \in Receiver |-> Nothing]
  /\ epoch = [c \in Chan |-> 0]

\* Every step of a channel is one that can be seen.
Next ==
  /\ vars' # vars
  /\ \/ \E c \in Chan : Keep(c) \/ Hand(c) \/ Restart(c)
     \/ \E cs \in SUBSET Chan : Take(cs)
     \/ \E r \in Receiver : Receive(r)

Spec == Init /\ [][Next]_vars
=============================================================================
