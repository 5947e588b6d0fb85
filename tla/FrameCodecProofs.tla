-------------------------- MODULE FrameCodecProofs --------------------------
(***************************************************************************)
(* Proofs about FrameCodec, for any number of sending threads, any limits  *)
(* and any digest in the nonce, one that always collides included.         *)
(***************************************************************************)
EXTENDS FrameCodec, TLAPS

-----------------------------------------------------------------------------
(* Packets.                                                                *)

\* The fields of a header are those of the input, with a sequence and a time.
LEMMA HeaderFields ==
    \A input, n, time :
        LET h == Header(input, n, time)
        IN  /\ h.ours /\ h.seq = n /\ h.time = time
            /\ h.kind = input.kind /\ h.flags = input.flags
            /\ h.size = input.size /\ h.msg = input.msg /\ h.len = input.len
            /\ h.index = input.index /\ h.count = input.count
BY DEF Header

\* A packet opens under its own header, and no two under one nonce differ in
\* their sequence.
LEMMA PacketOpens ==
    \A h : /\ Packet(h).header = h /\ Packet(h).box.aad = h
           /\ Packet(h).box.size = h.size
           /\ Packet(h).box.nonce = Nonce(h)
           /\ Opens(Packet(h))
BY DEF Packet, Seal, Opens

\* decode refuses no packet made of what encode does not refuse: each of its
\* checks is one that encode makes, of the input or of the default length.
LEMMA ChecksAgree ==
    ASSUME NEW input \in Encodable, NEW n, NEW time
    PROVE  ~ DecodeRefuses(Packet(Header(input, n, time)))
<1> DEFINE h == Header(input, n, time)
           packet == Packet(h)
<1>1. /\ h.ours /\ h.kind = input.kind /\ h.flags = input.flags
      /\ h.size = input.size /\ h.msg = input.msg /\ h.len = input.len
      /\ h.index = input.index /\ h.count = input.count
  BY HeaderFields
<1>2. packet.header = h /\ packet.box.size = h.size
  BY PacketOpens
<1>3. input \in Inputs /\ ~ EncodeRefuses(input)
  BY DEF Encodable
<1>4. /\ input.size \in Int /\ input.len \in Int
      /\ input.index \in Int /\ input.count \in Int
  BY <1>3, CodecAssumption DEF Inputs
<1> HIDE DEF h, packet
<1>5. /\ ~ (h.size > MaxFragmentPayload) /\ ~ (h.len > MaxMessageSize)
      /\ h.count \in 1 .. MaxFragments
  BY <1>1, <1>3, <1>4, CodecAssumption DEF EncodeRefuses
<1>6. h.kind \in ValidKinds /\ h.flags \subseteq {"parity"}
  BY <1>1, <1>3 DEF EncodeRefuses
<1>7. ~ (IF "parity" \in h.flags THEN h.count < 2 \/ h.index # h.count
         ELSE h.index >= h.count)
  BY <1>1, <1>3, <1>4 DEF EncodeRefuses
<1>8. h.kind \notin DataKinds =>
          /\ h.flags = {} /\ h.msg = 0 /\ h.index = 0
          /\ h.count = 1 /\ h.len = h.size
  BY <1>1, <1>3 DEF EncodeRefuses
<1>9. ~ DecodeRefuses(packet)
  BY <1>1, <1>2, <1>5, <1>6, <1>7, <1>8 DEF DecodeRefuses
<1> QED BY <1>9 DEF packet, h

-----------------------------------------------------------------------------
(* Steps.                                                                  *)

\* Nothing sent, nothing taken.
LEMMA InitCodec == Init => CodecInvariant
BY DEF Init, CodecInvariant, Numbered, Sealed, DecodedWasSent

\* next_sequence gives a thread a sequence that no other has or had.
LEMMA NextSequenceStep ==
    ASSUME CodecInvariant, NEW t \in Thread, NextSequence(t)
    PROVE  CodecInvariant'
<1> USE DEF CodecInvariant
<1>1. /\ sequence \in Nat /\ sequence' = sequence + 1
      /\ taken' = [taken EXCEPT ![t] = sequence + 1]
      /\ UNCHANGED <<now, sent, damaged, decoded>>
  BY DEF NextSequence, Numbered
<1>2. \A p \in sent : p.header.seq \in 1 .. sequence
  BY HeaderFields, PacketOpens DEF Sealed
<1>3. Numbered'
  BY <1>1, <1>2 DEF Numbered
<1>4. Sealed'
  BY <1>1 DEF Sealed
<1>5. DecodedWasSent'
  BY <1>1 DEF DecodedWasSent
<1> QED BY <1>3, <1>4, <1>5

\* encode puts a taken sequence into a packet.
LEMMA EncodeStep ==
    ASSUME CodecInvariant, NEW t \in Thread, NEW input \in Encodable,
           Encode(t, input)
    PROVE  CodecInvariant'
<1> USE DEF CodecInvariant
<1> DEFINE h == Header(input, taken[t], now)
<1>1. /\ taken[t] # 0 /\ taken' = [taken EXCEPT ![t] = 0]
      /\ sent' = sent \cup {Packet(h)}
      /\ UNCHANGED <<sequence, now, damaged, decoded>>
  BY DEF Encode, Packet
<1>2. /\ Packet(h).header.seq = taken[t]
      /\ taken[t] \in 1 .. sequence /\ now \in Nat
  BY <1>1, HeaderFields, PacketOpens DEF Numbered, Sealed
<1>3. Numbered'
  <2>1. /\ sequence' \in Nat /\ taken' \in [Thread -> 0 .. sequence']
        /\ \A u \in Thread : taken'[u] = (IF u = t THEN 0 ELSE taken[u])
    BY <1>1 DEF Numbered
  <2>2. \A p \in sent' : \A u \in Thread : p.header.seq # taken'[u]
    <3>1. ASSUME NEW p \in sent, NEW u \in Thread
          PROVE  p.header.seq # taken'[u]
      <4>1. p.header.seq \in 1 .. sequence
        BY HeaderFields, PacketOpens DEF Sealed
      <4> QED BY <2>1, <4>1 DEF Numbered
    <3>2. \A u \in Thread : Packet(h).header.seq # taken'[u]
      BY <1>1, <1>2, <2>1 DEF Numbered
    <3> QED BY <1>1, <3>1, <3>2
  <2>3. \A p, q \in sent' : p.header.seq = q.header.seq => p = q
    <3> HIDE DEF h
    <3> QED BY <1>1, <1>2 DEF Numbered
  <2> QED BY <2>1, <2>2, <2>3 DEF Numbered
<1>4. Sealed'
  <2>1. ASSUME NEW p \in sent'
        PROVE  \E i \in Encodable, n \in 1 .. sequence, time \in 0 .. now :
                   p = Packet(Header(i, n, time))
    BY <1>1, <1>2 DEF Sealed
  <2> QED BY <1>1, <2>1 DEF Sealed
<1>5. DecodedWasSent'
  BY <1>1 DEF DecodedWasSent
<1> QED BY <1>3, <1>4, <1>5

\* A sequence spent on an error is in no packet.
LEMMA EncodeRaisesStep ==
    ASSUME CodecInvariant, NEW t \in Thread, EncodeRaises(t)
    PROVE  CodecInvariant'
<1> USE DEF CodecInvariant
<1>1. /\ taken' = [taken EXCEPT ![t] = 0]
      /\ UNCHANGED <<sequence, now, sent, damaged, decoded>>
  BY DEF EncodeRaises
<1>2. \A p \in sent : p.header.seq \in 1 .. sequence
  BY HeaderFields, PacketOpens DEF Sealed
<1>3. Numbered'
  BY <1>1, <1>2 DEF Numbered
<1>4. Sealed' /\ DecodedWasSent'
  BY <1>1 DEF Sealed, DecodedWasSent
<1> QED BY <1>3, <1>4

\* The path changes a header, and cannot change what it was sealed with.
LEMMA DamageStep ==
    ASSUME CodecInvariant, NEW packet \in sent, Damage(packet)
    PROVE  CodecInvariant'
<1> USE DEF CodecInvariant
<1>1. PICK other : /\ other # packet.header
                   /\ damaged' = {[packet EXCEPT !.header = other]}
  BY DEF Damage
<1>2. UNCHANGED <<sequence, taken, now, sent, decoded>>
  BY DEF Damage
<1>3. \A d \in damaged' : d.box.aad # d.header
  <2>1. PICK input \in Encodable, n \in 1 .. sequence, time \in 0 .. now :
            packet = Packet(Header(input, n, time))
    BY DEF Sealed
  <2>2. packet.box.aad = packet.header
    BY <2>1, PacketOpens
  <2>3. /\ [packet EXCEPT !.header = other].header = other
        /\ [packet EXCEPT !.header = other].box = packet.box
    BY <2>1 DEF Packet
  <2> QED BY <1>1, <2>2, <2>3
<1>4. Numbered' /\ DecodedWasSent'
  BY <1>2 DEF Numbered, DecodedWasSent
<1>5. Sealed'
  BY <1>2, <1>3 DEF Sealed
<1> QED BY <1>4, <1>5

\* decode opens no packet that was damaged.
LEMMA DecodeStep ==
    ASSUME CodecInvariant, NEW packet \in sent \cup damaged, Decode(packet)
    PROVE  CodecInvariant'
<1> USE DEF CodecInvariant
<1>1. /\ Decodes(packet, now)
      /\ decoded' = {[packet |-> packet, at |-> now]}
      /\ UNCHANGED <<sequence, taken, now, sent, damaged>>
  BY DEF Decode
<1>2. packet \in sent
  BY <1>1 DEF Decodes, Opens, Sealed
<1>3. DecodedWasSent'
  BY <1>1, <1>2 DEF Decodes, DecodedWasSent
<1>4. Numbered' /\ Sealed'
  BY <1>1 DEF Numbered, Sealed
<1> QED BY <1>3, <1>4

\* The clock changes no packet.
LEMMA TickStep == CodecInvariant /\ Tick => CodecInvariant'
BY DEF CodecInvariant, Tick, Numbered, Sealed, DecodedWasSent

\* The invariant holds of every interleaving of the threads.
THEOREM CodecInvariance == Spec => []CodecInvariant
<1>1. CodecInvariant /\ UNCHANGED vars => CodecInvariant'
  BY DEF vars, CodecInvariant, Numbered, Sealed, DecodedWasSent
<1>2. CodecInvariant /\ [Next]_vars => CodecInvariant'
  BY <1>1, NextSequenceStep, EncodeStep, EncodeRaisesStep, DamageStep,
     DecodeStep, TickStep DEF Next
<1> QED BY <1>2, InitCodec, PTL DEF Spec

-----------------------------------------------------------------------------
(* Theorems.                                                               *)

\* No two packets of a process go out under one nonce (_nonce), whatever the
\* digest in it does: the sequence tells them apart.
THEOREM NoncesAreUnique == Spec => []NonceNeverReused
<1>1. CodecInvariant => NonceNeverReused
  <2> SUFFICES ASSUME CodecInvariant, NEW p \in sent, NEW q \in sent,
                      p.box.nonce = q.box.nonce
               PROVE  p = q
    BY DEF NonceNeverReused
  <2>1. \A r \in sent : r.box.nonce = Nonce(r.header)
    BY PacketOpens DEF CodecInvariant, Sealed
  <2>2. p.header.seq = q.header.seq
    BY <2>1 DEF Nonce
  <2> QED BY <2>2 DEF CodecInvariant, Numbered
<1> QED BY <1>1, CodecInvariance, PTL

\* decode returns only what encode of the peer returned, unchanged and recent.
THEOREM OnlyTheSentIsDecoded == Spec => []DecodedWasSent
<1>1. CodecInvariant => DecodedWasSent
  BY DEF CodecInvariant
<1> QED BY <1>1, CodecInvariance, PTL

\* decode takes whatever encode returned, as long as it is recent: none of its
\* own checks is stricter than those of encode.
THEOREM TheSentIsDecodable == Spec => []EncodedIsDecodable
<1>1. CodecInvariant => EncodedIsDecodable
  <2> SUFFICES ASSUME CodecInvariant, NEW p \in sent, Recent(p.header, now)
               PROVE  Decodes(p, now)
    BY DEF EncodedIsDecodable
  <2>1. PICK input \in Encodable, n \in 1 .. sequence, time \in 0 .. now :
            p = Packet(Header(input, n, time))
    BY DEF CodecInvariant, Sealed
  <2>2. ~ DecodeRefuses(p)
    BY <2>1, ChecksAgree
  <2>3. Opens(p)
    BY <2>1, PacketOpens
  <2> QED BY <2>2, <2>3 DEF Decodes
<1> QED BY <1>1, CodecInvariance, PTL

=============================================================================
