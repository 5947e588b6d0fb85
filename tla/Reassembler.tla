----------------------------- MODULE Reassembler -----------------------------
(***************************************************************************)
(* The tables of h3ntun/reliability.py, class Reassembler: open assemblies *)
(* with a timeout and a capacity, and the ordered table of completed       *)
(* messages with a time to live and a capacity.                            *)
(*                                                                         *)
(* Every method runs under the lock and first purges both tables at the    *)
(* current time. A message of n data fragments comes with a parity when n  *)
(* is above one and is complete with any n of them (Fragmentation). Each   *)
(* frame reaches add once, the replay window sees to that, but late ones   *)
(* still come after completion.                                            *)
(***************************************************************************)
EXTENDS Integers, FiniteSets, SequencesExt

CONSTANTS
    Message,      \* (session_id, message_id) pairs
    Need,         \* fragment_count of each message
    Timeout,      \* timeout_seconds
    TTL,          \* completed_ttl_seconds
    MaxMessages,  \* max_messages
    MaxTime       \* bound: the clock

ASSUME ReassemblerAssumption ==
    /\ Need \in [Message -> Nat \ {0}]
    /\ Timeout \in Nat \ {0} /\ TTL \in Nat \ {0}
    /\ MaxMessages \in Nat \ {0} /\ MaxTime \in Nat

VARIABLES
    now,         \* time.monotonic()
    assemblies,  \* _assemblies: message -> frames held, time of the last one
    completed,   \* _completed: an ordered dictionary, oldest first
    arrived,     \* the frames the replay window let through
    delivered    \* history: how often a message was returned complete

vars == <<now, assemblies, completed, arrived, delivered>>

\* The frames of a message, by index.
Frames(k) == 0 .. (IF Need[k] > 1 THEN Need[k] ELSE 0)

Keys(c) == {c[i].key : i \in DOMAIN c}

\* Every entry belongs to a message and to a time not after now, and an open
\* assembly has some of its frames, one at least short of completion.
TypeOK ==
    /\ now \in 0 .. MaxTime
    /\ DOMAIN assemblies \subseteq Message
    /\ \A k \in DOMAIN assemblies :
           /\ assemblies[k] \in [parts : SUBSET Frames(k), updated : 0 .. now]
           /\ Cardinality(assemblies[k].parts) \in 1 .. Need[k] - 1
    /\ completed \in Seq([key : Message, at : 0 .. now])
    /\ delivered \in [Message -> Nat]

Init ==
    /\ now = 0
    /\ assemblies = << >>
    /\ completed = << >>
    /\ arrived = {}
    /\ delivered = [k \in Message |-> 0]

-----------------------------------------------------------------------------
(* _purge.                                                                 *)

Only(f, S) == [k \in S |-> f[k]]

Alive == {k \in DOMAIN assemblies : now - assemblies[k].updated <= Timeout}

\* Mutant: the entry at the front goes, expired or not.
PurgedFront == IF completed = << >> THEN completed ELSE Tail(completed)

\* Entries leave from the front of the order, up to the first that has not
\* expired: one behind it stays, expired or not.
Purged ==
    LET expired(i) == now - completed[i].at > TTL
        gone == {n \in 0 .. Len(completed) : \A i \in 1 .. n : expired(i)}
    IN SubSeq(completed, Max(gone) + 1, Len(completed))

-----------------------------------------------------------------------------
(* add.                                                                    *)

\* move_to_end: the order changes, the time does not.
MovedToEnd(c, k) ==
    LET i == CHOOSE j \in DOMAIN c : c[j].key = k
    IN Append(RemoveAt(c, i), c[i])

\* Mutant: the most recently updated one goes.
VictimsNewest(live) ==
    {k \in live : \A j \in live : assemblies[j].updated <= assemblies[k].updated}

\* Those that go when a new assembly comes to a full table: the one updated
\* longest ago. Of several such, min takes the first inserted: any, here.
Victims(live) ==
    {k \in live : \A j \in live : assemblies[k].updated <= assemblies[j].updated}

\* Mutant: room is only made once the table is above its limit.
RoomLate(live) ==
    IF Cardinality(live) <= MaxMessages THEN {live}
    ELSE {live \ {k} : k \in Victims(live)}

Room(live) ==
    IF Cardinality(live) < MaxMessages THEN {live}
    ELSE {live \ {k} : k \in Victims(live)}

\* popitem while more than 2 * max_messages are remembered.
Capped(c) ==
    SubSeq(c, Max({1, Len(c) - 2 * MaxMessages + 1}), Len(c))

\* Mutant: all fragments but one are enough, without the parity too.
CompletesEarly(k, parts) == Cardinality(parts) >= Need[k] - 1

Completes(k, parts) == Cardinality(parts) >= Need[k]

\* A frame of a message that is remembered as completed.
AddDuplicate(k, p) ==
    /\ k \in Keys(Purged)
    /\ assemblies' = Only(assemblies, Alive)
    /\ completed' = MovedToEnd(Purged, k)
    /\ UNCHANGED delivered

\* Any other frame: room is made for a new assembly before it is known
\* whether the frame completes it.
AddFragment(k, p) ==
    \E room \in IF k \in Alive THEN {Alive} ELSE Room(Alive) :
        LET parts == {p} \cup IF k \in Alive THEN assemblies[k].parts ELSE {}
        IN
        /\ k \notin Keys(Purged)
        /\ IF Completes(k, parts)
           THEN /\ assemblies' = Only(assemblies, room \ {k})
                /\ completed' = Capped(Append(Purged, [key |-> k, at |-> now]))
                /\ delivered' = [delivered EXCEPT ![k] = @ + 1]
           ELSE /\ assemblies' = [j \in room \cup {k} |->
                                    IF j = k THEN [parts |-> parts, updated |-> now]
                                    ELSE assemblies[j]]
                /\ completed' = Purged
                /\ UNCHANGED delivered

Add(k, p) ==
    /\ <<k, p>> \notin arrived
    /\ arrived' = arrived \cup {<<k, p>>}
    /\ AddDuplicate(k, p) \/ AddFragment(k, p)
    /\ UNCHANGED now

\* cleanup of the reliability loop, and is_completed of the receive loop.
Cleanup ==
    /\ assemblies' = Only(assemblies, Alive)
    /\ completed' = Purged
    /\ UNCHANGED <<now, arrived, delivered>>

Tick ==
    /\ now < MaxTime
    /\ now' = now + 1
    /\ UNCHANGED <<assemblies, completed, arrived, delivered>>

Next ==
    \/ \E k \in Message : \E p \in Frames(k) : Add(k, p)
    \/ Cleanup
    \/ Tick

Spec == Init /\ [][Next]_vars

-----------------------------------------------------------------------------
(* Properties.                                                             *)

\* A message is returned complete at most once, also when its entry in the
\* completed table expired or was displaced before its last frame came.
DeliveredOnce == \A k \in Message : delivered[k] <= 1

\* The tables stay within their limits, remember a message once, and never
\* have it both open and completed.
TablesBounded ==
    /\ TypeOK
    /\ Cardinality(DOMAIN assemblies) <= MaxMessages
    /\ Len(completed) <= 2 * MaxMessages
    /\ Cardinality(Keys(completed)) = Len(completed)
    /\ DOMAIN assemblies \cap Keys(completed) = {}

\* An assembly is given up only when it was idle for longer than the timeout,
\* or as the least recently updated one of a full table.
DropsAreJustified ==
    [][\A k \in DOMAIN assemblies \ DOMAIN assemblies' :
          \/ now - assemblies[k].updated > Timeout
          \/ delivered'[k] > delivered[k]
          \/ /\ Cardinality(Alive) = MaxMessages
             /\ \A j \in DOMAIN assemblies' \cap DOMAIN assemblies :
                    assemblies[k].updated <= assemblies[j].updated]_vars

\* A completed message is forgotten before its time to live only when the
\* table is full: until then a retransmission is answered by an ACK.
ForgetsOnlyWhenFull ==
    [][\A i \in DOMAIN completed :
          completed[i].key \notin Keys(completed') =>
              \/ now - completed[i].at > TTL
              \/ Len(completed') = 2 * MaxMessages]_vars

-----------------------------------------------------------------------------
(* The inductive invariant behind them.                                    *)

\* The frames of a message that came, and those of them that are held.
Arrived(k) == {p \in Frames(k) : <<k, p>> \in arrived}
Parts(k) == IF k \in DOMAIN assemblies THEN assemblies[k].parts ELSE {}

\* A message that was returned used up as many frames as it needs, and what
\* is held of it came besides: there are too few frames for another time.
Accounted ==
    \A k \in Message :
        /\ Parts(k) \subseteq Arrived(k)
        /\ delivered[k] \in {0, 1}
        /\ delivered[k] = 1 =>
               Need[k] + Cardinality(Parts(k)) <= Cardinality(Arrived(k))

\* A message is remembered once.
RememberedOnce(c) ==
    \A i, j \in DOMAIN c : c[i].key = c[j].key => i = j

TablesInvariant ==
    /\ TypeOK /\ Accounted /\ RememberedOnce(completed)
    /\ IsFiniteSet(DOMAIN assemblies)
    /\ Cardinality(DOMAIN assemblies) <= MaxMessages
    /\ Len(completed) <= 2 * MaxMessages
    /\ DOMAIN assemblies \cap Keys(completed) = {}

=============================================================================
