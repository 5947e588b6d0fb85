---------------------------- MODULE Fragmentation ----------------------------
(***************************************************************************)
(* Fragmentation and forward error correction: fragment_message and        *)
(* Reassembler._assemble of h3ntun/reliability.py, and the metadata checks *)
(* of FrameCodec.encode and decode that every fragment has to pass.        *)
(*                                                                         *)
(* One message of one session is cut, its fragments arrive in any order,   *)
(* repeatedly or not at all. A payload is a sequence of bits: the code     *)
(* works on bytes, each bit position of which behaves alike.               *)
(***************************************************************************)
EXTENDS Integers, SequencesExt

CONSTANTS
    FragmentSize,    \* fragment_payload_bytes
    MaxMessageSize,  \* MAX_MESSAGE_SIZE
    MaxFragments,    \* MAX_FRAGMENTS
    MaxLen           \* bound: length of the payloads tried

ASSUME FragmentationAssumption ==
    /\ FragmentSize \in Nat \ {0}
    /\ MaxMessageSize \in Nat /\ MaxFragments \in Nat \ {0} /\ MaxLen \in Nat
    /\ MaxMessageSize <= FragmentSize * MaxFragments

VARIABLES
    payload,    \* the application's datagram
    fec,        \* config.fec_enabled
    frames,     \* the fragments on the path
    assembly,   \* the receiver's _Assembly
    result,     \* {} or {what add returned}
    raised,     \* a ProtocolError was raised
    seen        \* history: the indices that arrived

fragVars == <<payload, fec, frames, assembly, result, raised, seen>>

Payloads == UNION {[1 .. n -> {0, 1}] : n \in 0 .. MaxLen}

-----------------------------------------------------------------------------
(* fragment_message.                                                       *)

\* max(1, ceil(len / size))
FragmentCount(len) ==
    IF len = 0 THEN 1 ELSE (len + FragmentSize - 1) \div FragmentSize

\* payload[index * size : (index + 1) * size]
Piece(p, index) ==
    SubSeq(p, index * FragmentSize + 1, Min({(index + 1) * FragmentSize, Len(p)}))

\* Mutant: the pieces shorter than a fragment are left out.
XorFull(pieces, offset) ==
    Cardinality({i \in DOMAIN pieces :
        Len(pieces[i]) = FragmentSize /\ pieces[i][offset] = 1}) % 2

\* The exclusive or of the pieces at one offset, those that reach it.
Xor(pieces, offset) ==
    Cardinality({i \in DOMAIN pieces :
        offset <= Len(pieces[i]) /\ pieces[i][offset] = 1}) % 2

HasParity(count) == fec /\ count > 1

Pieces(p) == [i \in 0 .. FragmentCount(Len(p)) - 1 |-> Piece(p, i)]
Parity(p) == [k \in 1 .. FragmentSize |-> Xor(Pieces(p), k)]

Fragments(p) ==
    LET count == FragmentCount(Len(p))
        spec(body, index, isParity) ==
            [payload |-> body, len |-> Len(p), index |-> index,
             count |-> count, parity |-> isParity]
    IN {spec(Pieces(p)[i], i, FALSE) : i \in 0 .. count - 1}
       \cup IF HasParity(count) THEN {spec(Parity(p), count, TRUE)} ELSE {}

Refused(p) ==
    Len(p) > MaxMessageSize \/ FragmentCount(Len(p)) > MaxFragments

\* What encode demands of a data frame, and decode again.
Encodable(f) ==
    /\ Len(f.payload) <= FragmentSize
    /\ f.len \in 0 .. MaxMessageSize
    /\ f.count \in 1 .. MaxFragments
    /\ IF f.parity THEN f.count >= 2 /\ f.index = f.count
       ELSE f.index \in 0 .. f.count - 1

-----------------------------------------------------------------------------
(* Reassembler.add and _assemble for the one message.                      *)

\* The outcomes of _assemble: a payload, None, or a ProtocolError.
Done(whole) == [outcome |-> "payload", payload |-> whole]
Waiting     == [outcome |-> "none"]
Error       == [outcome |-> "error"]

\* What the receiver knows of the message: its fragments so far.
NewAssembly(f) ==
    [len |-> f.len, count |-> f.count, fragments |-> << >>, parity |-> {}]

\* An assembly with one more fragment or the parity.
Store(a, f) ==
    IF f.parity THEN [a EXCEPT !.parity = {f.payload}]
    ELSE [a EXCEPT !.fragments =
             [i \in DOMAIN @ \cup {f.index} |->
                 IF i = f.index THEN f.payload ELSE @[i]]]

\* The metadata and conflict checks of add.
Conflicts(a, f) ==
    \/ a.len # f.len \/ a.count # f.count
    \/ f.parity /\ \E p \in a.parity : p # f.payload
    \/ /\ ~f.parity /\ f.index \in DOMAIN a.fragments
       /\ a.fragments[f.index] # f.payload

Joined(a, pieces) ==
    LET whole == FlattenSeq([i \in 1 .. a.count |-> pieces[i - 1]])
    IN IF Len(whole) # a.len THEN Error ELSE Done(whole)

\* Mutant: the recovered last piece keeps its padding.
RecoveredLengthFull(a, missing, size) == size

\* How much of the recovered piece is data: the last one may be short.
RecoveredLength(a, missing, size) ==
    IF missing < a.count - 1 THEN size ELSE a.len - size * (a.count - 1)

\* The one missing piece is the exclusive or of parity and all the others.
Recovered(a, parity) ==
    LET size    == Len(parity)
        missing == CHOOSE i \in 0 .. a.count - 1 : i \notin DOMAIN a.fragments
        len     == RecoveredLength(a, missing, size)
        piece   == [k \in 1 .. len |-> (parity[k] + Xor(a.fragments, k)) % 2]
        pieces  == [i \in 0 .. a.count - 1 |->
                       IF i = missing THEN piece ELSE a.fragments[i]]
    IN IF \/ size = 0
          \/ \E i \in DOMAIN a.fragments : Len(a.fragments[i]) > size
          \/ len \notin 0 .. size
       THEN Error ELSE Joined(a, pieces)

\* Mutant: the parity is never used.
AssembleWithoutFec(a) ==
    IF Cardinality(DOMAIN a.fragments) = a.count THEN Joined(a, a.fragments)
    ELSE Waiting

Assemble(a) ==
    CASE Cardinality(DOMAIN a.fragments) = a.count -> Joined(a, a.fragments)
      [] /\ Cardinality(DOMAIN a.fragments) = a.count - 1
         /\ a.parity # {} -> Recovered(a, CHOOSE p \in a.parity : TRUE)
      [] OTHER -> Waiting

-----------------------------------------------------------------------------

FragInit ==
    /\ payload \in Payloads /\ fec \in BOOLEAN
    /\ frames = {} /\ assembly = {} /\ result = {}
    /\ raised = FALSE /\ seen = {}

\* send_data, or oversize_drops.
Send ==
    /\ frames = {}
    /\ IF Refused(payload) THEN raised' = TRUE /\ UNCHANGED frames
       ELSE frames' = Fragments(payload) /\ UNCHANGED raised
    /\ UNCHANGED <<payload, fec, assembly, result, seen>>

\* add, until the message is complete; from then on a fragment is a duplicate.
AddContent(f) ==
    LET a == IF assembly = {} THEN NewAssembly(f)
             ELSE CHOOSE x \in assembly : TRUE
        b == Store(a, f)
        r == Assemble(b)
    IN
    /\ result = {} /\ ~raised
    /\ IF Conflicts(a, f) \/ r = Error
       THEN raised' = TRUE /\ UNCHANGED <<assembly, result, seen>>
       ELSE /\ seen' = seen \cup {f.index}
            /\ IF r = Waiting
               THEN assembly' = {b} /\ UNCHANGED result
               ELSE assembly' = {} /\ result' = {r.payload}
            /\ UNCHANGED raised
    /\ UNCHANGED <<payload, fec, frames>>

FragNext == Send \/ \E f \in frames : AddContent(f)

FragSpec == FragInit /\ [][FragNext]_fragVars

-----------------------------------------------------------------------------
(* Properties.                                                             *)

\* Whatever the length of the datagram, the order of arrival, the losses and
\* whichever piece the parity stands in for, what is delivered is what was
\* sent, the empty datagram and the short last piece included.
DeliversTheOriginal == \A p \in result : p = payload

\* A message is delivered with its last missing piece, and no earlier: one
\* lost data fragment is made up for by the parity, two are not.
DeliversWhenPossible ==
    frames # {} /\ ~raised =>
        LET n    == FragmentCount(Len(payload))
            data == seen \ {n}
        IN result # {} <=> \/ Cardinality(data) = n
                           \/ n \in seen /\ Cardinality(data) = n - 1

\* Only a datagram above the limit raises a ProtocolError: no honest fragment
\* is refused, and every one of them passes the checks of encode and decode.
HonestIsNeverRefused ==
    /\ raised => Len(payload) > MaxMessageSize
    /\ \A f \in frames : Encodable(f)

-----------------------------------------------------------------------------
(* The inductive invariant behind them.                                    *)

Count == FragmentCount(Len(payload))

\* The indices that the fragments bear, that of the parity included.
Indices == 0 .. Count - 1 \cup IF HasParity(Count) THEN {Count} ELSE {}

\* What the receiver knows when the fragments with these indices have come.
Holding(indices) ==
    [len |-> Len(payload), count |-> Count,
     fragments |-> [i \in indices \ {Count} |-> Pieces(payload)[i]],
     parity |-> IF Count \in indices THEN {Parity(payload)} ELSE {}]

\* All pieces, or all but one and the parity.
Enough(indices) ==
    LET data == indices \ {Count}
    IN  \/ Cardinality(data) = Count
        \/ Count \in indices /\ Cardinality(data) = Count - 1

\* The state is determined by the fragments that have come.
ContentInvariant ==
    /\ payload \in Payloads /\ fec \in BOOLEAN /\ raised \in BOOLEAN
    /\ raised => Refused(payload)
    /\ seen \subseteq Indices
    /\ \/ frames = {} /\ seen = {}
       \/ frames = Fragments(payload) /\ ~Refused(payload)
    /\ IF Enough(seen)
       THEN assembly = {} /\ result = {payload}
       ELSE /\ assembly = IF seen = {} THEN {} ELSE {Holding(seen)}
            /\ result = {}

=============================================================================
