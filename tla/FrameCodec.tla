----------------------------- MODULE FrameCodec -----------------------------
(***************************************************************************)
(* The wire format of h3ntun/protocol.py, class FrameCodec, and the        *)
(* sequence counter of h3ntun/agent.py that feeds it. The threads of one   *)
(* agent number and encode frames concurrently, the path delays them or    *)
(* damages one header field, the codec of the peer decodes what arrives.   *)
(*                                                                         *)
(* The AEAD is symbolic: a box opens only under the nonce and the          *)
(* associated data it was sealed with. The 32-bit digest in the nonce is   *)
(* any function, so nothing may depend on it to tell nonces apart.         *)
(***************************************************************************)
EXTENDS Integers, FiniteSets

CONSTANTS
    Thread,              \* the threads that send: inner, receive, keepalive
    Digest(_, _, _),     \* blake2s of kind, flags and index in one session
    MaxFragmentPayload,  \* MAX_FRAGMENT_PAYLOAD
    MaxMessageSize,      \* MAX_MESSAGE_SIZE
    MaxMessageId,        \* 0xFFFFFFFFFFFFFFFF
    MaxFragments,        \* MAX_FRAGMENTS
    MaxSkew,             \* max_clock_skew_ms
    MaxFrames,           \* bound: sequences taken
    MaxTime              \* bound: the clock

ASSUME CodecAssumption ==
    /\ MaxFragmentPayload \in Nat /\ MaxMessageSize \in Nat
    /\ MaxMessageId \in Nat
    /\ MaxFragments \in Nat \ {0}
    /\ MaxSkew \in Nat /\ MaxFrames \in Nat /\ MaxTime \in Nat

VARIABLES
    sequence,  \* _sequence of the sending agent, from 0
    taken,     \* thread -> the sequence it has taken and not encoded, or 0
    now,       \* the clock of both hosts
    sent,      \* packets encode returned
    damaged,   \* packets the path changed
    decoded    \* history: the packet decode last took for a frame, with the time

vars == <<sequence, taken, now, sent, damaged, decoded>>

DataKinds == {"data_up", "data_down"}
ValidKinds == DataKinds \cup {"ping", "pong", "ack_up", "ack_down"}

\* What a caller passes to encode: Python integers, which may be negative. A
\* flag word is a set of bits, a payload its size; a message_len of None is the
\* size, one of the values of len.
Inputs ==
    [kind  : {"data_up", "ping", "ack_up", "unknown"},
     flags : {{}, {"parity"}, {"parity", "other"}},
     size  : 0 .. MaxFragmentPayload + 1,
     msg   : {-1, 0, MaxMessageId, MaxMessageId + 1},
     len   : -1 .. MaxMessageSize + 1,
     index : -1 .. MaxFragments + 1,
     count : -1 .. MaxFragments + 1]

-----------------------------------------------------------------------------
(* encode, its refusals in the order of the code.                          *)

\* Mutant: the length of the message is not limited from above.
EncodeRefusesNegativeOnly(i) ==
    \/ i.kind \notin ValidKinds \/ i.flags \ {"parity"} # {}
    \/ i.size > MaxFragmentPayload
    \/ i.msg \notin 0 .. MaxMessageId
    \/ i.len < 0
    \/ ~ (1 <= i.count /\ i.count <= MaxFragments)
    \/ "parity" \in i.flags /\ (i.count < 2 \/ i.index # i.count)
    \/ "parity" \notin i.flags /\ ~ (0 <= i.index /\ i.index < i.count)
    \/ /\ i.kind \notin DataKinds
       /\ \/ i.flags # {} \/ i.msg # 0 \/ i.index # 0
          \/ i.count # 1 \/ i.len # i.size

\* encode raises a ProtocolError for the caller's arguments.
EncodeRefuses(i) ==
    \/ i.kind \notin ValidKinds
    \/ i.flags \ {"parity"} # {}
    \/ i.size > MaxFragmentPayload
    \/ ~ (0 <= i.msg /\ i.msg <= MaxMessageId)
    \/ ~ (0 <= i.len /\ i.len <= MaxMessageSize)
    \/ ~ (1 <= i.count /\ i.count <= MaxFragments)
    \/ "parity" \in i.flags /\ (i.count < 2 \/ i.index # i.count)
    \/ "parity" \notin i.flags /\ ~ (0 <= i.index /\ i.index < i.count)
    \/ /\ i.kind \notin DataKinds
       /\ \/ i.flags # {} \/ i.msg # 0 \/ i.index # 0
          \/ i.count # 1 \/ i.len # i.size

Encodable == {input \in Inputs : ~ EncodeRefuses(input)}

\* Mutant: the sequence is left out.
NonceOfContext(h) == <<Digest(h.kind, h.flags, h.index), 0>>

\* _nonce: the digest of the context, then the sequence.
Nonce(h) == <<Digest(h.kind, h.flags, h.index), h.seq>>

\* The packed header, with payload_len in size. Magic, tunnel and version are
\* all right or not; every other field is unsigned on the wire.
Header(input, seq, time) ==
    [ours |-> TRUE, seq |-> seq, time |-> time, kind |-> input.kind,
     flags |-> input.flags, size |-> input.size, msg |-> input.msg,
     len |-> input.len, index |-> input.index, count |-> input.count]

Seal(h) == [nonce |-> Nonce(h), aad |-> h, size |-> h.size]

-----------------------------------------------------------------------------
(* decode, in the order of the code.                                       *)

\* Mutant: the parity index is checked like any other.
DecodeRefusesParity(packet) ==
    LET h == packet.header
    IN
    \/ ~ h.ours \/ h.kind \notin ValidKinds \/ ~ h.flags \subseteq {"parity"}
    \/ h.size > MaxFragmentPayload \/ packet.box.size # h.size
    \/ h.len > MaxMessageSize \/ h.count \notin 1 .. MaxFragments
    \/ h.index >= h.count
    \/ /\ h.kind \notin DataKinds
       /\ \/ h.flags # {} \/ h.msg # 0 \/ h.index # 0
          \/ h.count # 1 \/ h.len # h.size

\* What decode refuses of an unpacked header before it decrypts: it bounds the
\* unsigned fields from above, and demands that the packet ends with the box.
DecodeRefuses(packet) ==
    LET h == packet.header
    IN
    \/ ~ h.ours
    \/ h.kind \notin ValidKinds
    \/ ~ h.flags \subseteq {"parity"}
    \/ h.size > MaxFragmentPayload
    \/ packet.box.size # h.size
    \/ h.len > MaxMessageSize
    \/ h.count \notin 1 .. MaxFragments
    \/ IF "parity" \in h.flags THEN h.count < 2 \/ h.index # h.count
       ELSE h.index >= h.count
    \/ /\ h.kind \notin DataKinds
       /\ \/ h.flags # {} \/ h.msg # 0 \/ h.index # 0
          \/ h.count # 1 \/ h.len # h.size

\* Mutant: the header is not authenticated.
OpensWithoutHeader(packet) == packet.box.nonce = Nonce(packet.header)

\* _aead.decrypt succeeds.
Opens(packet) ==
    /\ packet.box.nonce = Nonce(packet.header)
    /\ packet.box.aad = packet.header

Recent(h, time) == time - h.time \in -MaxSkew .. MaxSkew

Decodes(packet, time) ==
    /\ ~ DecodeRefuses(packet)
    /\ Opens(packet)
    /\ Recent(packet.header, time)

-----------------------------------------------------------------------------

Init ==
    /\ sequence = 0
    /\ taken = [t \in Thread |-> 0]
    /\ now = 0
    /\ sent = {} /\ damaged = {} /\ decoded = {}

\* next_sequence, under _counter_lock.
NextSequence(t) ==
    /\ taken[t] = 0 /\ sequence < MaxFrames
    /\ sequence' = sequence + 1
    /\ taken' = [taken EXCEPT ![t] = sequence + 1]
    /\ UNCHANGED <<now, sent, damaged, decoded>>

\* encode returns a packet ...
Encode(t, input) ==
    LET header == Header(input, taken[t], now)
    IN
    /\ taken[t] # 0
    /\ taken' = [taken EXCEPT ![t] = 0]
    /\ sent' = sent \cup {[header |-> header, box |-> Seal(header)]}
    /\ UNCHANGED <<sequence, now, damaged, decoded>>

\* ... or raises a ProtocolError: the sequence is spent.
EncodeRaises(t) ==
    /\ taken[t] # 0 /\ Inputs # Encodable
    /\ taken' = [taken EXCEPT ![t] = 0]
    /\ UNCHANGED <<sequence, now, sent, damaged, decoded>>

\* One field of a header changes on the way.
Damage(packet) ==
    /\ damaged = {}
    /\ \E other \in {[packet.header EXCEPT !.ours = FALSE],
                     [packet.header EXCEPT !.seq = @ + 1],
                     [packet.header EXCEPT !.time = now],
                     [packet.header EXCEPT !.msg = IF @ = 0 THEN 1 ELSE 0],
                     [packet.header EXCEPT !.kind = "data_down"],
                     [packet.header EXCEPT !.index = IF @ = 0 THEN 1 ELSE 0],
                     [packet.header EXCEPT !.size = @ + 1]} :
           /\ other # packet.header
           /\ damaged' = {[packet EXCEPT !.header = other]}
    /\ UNCHANGED <<sequence, taken, now, sent, decoded>>

\* decode returns a frame; anything it refuses is an auth_failure.
Decode(packet) ==
    /\ Decodes(packet, now)
    /\ decoded' = {[packet |-> packet, at |-> now]}
    /\ UNCHANGED <<sequence, taken, now, sent, damaged>>

Tick ==
    /\ now < MaxTime
    /\ now' = now + 1
    /\ UNCHANGED <<sequence, taken, sent, damaged, decoded>>

Next ==
    \/ \E t \in Thread : NextSequence(t)
    \/ \E t \in Thread, input \in Encodable : Encode(t, input)
    \/ \E t \in Thread : EncodeRaises(t)
    \/ \E packet \in sent : Damage(packet)
    \/ \E packet \in sent \cup damaged : Decode(packet)
    \/ Tick

Spec == Init /\ [][Next]_vars

-----------------------------------------------------------------------------
(* Properties.                                                             *)

\* The class comment: the counter makes every nonce of a process unique, no
\* matter how its threads interleave and whatever the digest does. Two packets
\* under one nonce would break the cipher.
NonceNeverReused ==
    \A p, q \in sent : p.box.nonce = q.box.nonce => p = q

\* What decode returns was encoded by the peer, unchanged, at most the allowed
\* skew ago: a damaged header never becomes a frame.
DecodedWasSent ==
    \A d \in decoded : d.packet \in sent /\ Recent(d.packet.header, d.at)

\* encode and decode agree, which check the same fields in two places: what
\* encode lets out, control frames, parity and empty payloads included, decode
\* lets in while its timestamp is recent.
EncodedIsDecodable ==
    \A p \in sent : Recent(p.header, now) => Decodes(p, now)

-----------------------------------------------------------------------------
(* The inductive invariant behind NonceNeverReused, DecodedWasSent and     *)
(* EncodedIsDecodable.                                                     *)

\* What encode makes of a header.
Packet(h) == [header |-> h, box |-> Seal(h)]

\* A sequence is taken by one thread, and leaves in one packet at most.
Numbered ==
    /\ sequence \in Nat /\ taken \in [Thread -> 0 .. sequence]
    /\ \A t, u \in Thread : taken[t] = taken[u] => t = u \/ taken[t] = 0
    /\ \A p \in sent : \A t \in Thread : p.header.seq # taken[t]
    /\ \A p, q \in sent : p.header.seq = q.header.seq => p = q

\* Packets are what encode returned, and a damaged one does not bear the
\* header that it was sealed with.
Sealed ==
    /\ now \in Nat
    /\ \A p \in sent :
           \E input \in Encodable, n \in 1 .. sequence, time \in 0 .. now :
               p = Packet(Header(input, n, time))
    /\ \A d \in damaged : d.box.aad # d.header

CodecInvariant == Numbered /\ Sealed /\ DecodedWasSent

=============================================================================
