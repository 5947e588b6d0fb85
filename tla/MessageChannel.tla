--------------------------- MODULE MessageChannel ---------------------------
(***************************************************************************)
(* What the reliable sender of h3ntun/reliability.py promises to the       *)
(* application, without timers, windows, retransmissions or packets: a     *)
(* bounded channel. A message offered is refused only when the channel is  *)
(* full; the others are taken in the order in which they were offered, and *)
(* each one taken is in the end acknowledged or lost, never both.          *)
(***************************************************************************)
EXTENDS Integers, Sequences, FiniteSets

CONSTANTS
    Capacity,    \* messages the channel holds
    MaxMessages  \* bound: messages the application offers

VARIABLES
    offered,  \* how many messages were offered
    waiting,  \* the messages accepted and not yet taken, in order
    taken,    \* the messages being transmitted
    acked,    \* the messages known to have arrived
    lost      \* the messages given up

vars == <<offered, waiting, taken, acked, lost>>

Init ==
    /\ offered = 0 /\ waiting = <<>>
    /\ taken = {} /\ acked = {} /\ lost = {}

Offer ==
    /\ offered < MaxMessages
    /\ offered' = offered + 1
    /\ waiting' = IF Len(waiting) + Cardinality(taken) < Capacity
                  THEN Append(waiting, offered + 1) ELSE waiting
    /\ UNCHANGED <<taken, acked, lost>>

\* Some transmissions are given up and the first n messages taken.
Turn(gone, n) ==
    /\ waiting' = SubSeq(waiting, n + 1, Len(waiting))
    /\ taken' = (taken \ gone) \cup {waiting[i] : i \in 1 .. n}
    /\ lost' = lost \cup gone
    /\ UNCHANGED <<offered, acked>>

Arrives(m) ==
    /\ taken' = taken \ {m}
    /\ acked' = acked \cup {m}
    /\ UNCHANGED <<offered, waiting, lost>>

Next ==
    \/ Offer
    \/ \E gone \in SUBSET taken, n \in 0 .. Len(waiting) : Turn(gone, n)
    \/ \E m \in taken : Arrives(m)

Spec == Init /\ [][Next]_vars

=============================================================================
