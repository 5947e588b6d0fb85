---------------------------- MODULE TunnelProofs ----------------------------
(***************************************************************************)
(* Proofs about Tunnel, for every window size, retry budget, capacity and  *)
(* set of sessions, and for every scenario: with and without reliability   *)
(* and parity, any number of messages, fragments, restarts and crashes.    *)
(***************************************************************************)
EXTENDS Tunnel, ReplayWindowProofs, FiniteSetTheorems, SequenceTheorems

-----------------------------------------------------------------------------
(* Frames and agents.                                                      *)

\* The two agents are each other's peers.
LEMMA Peers ==
    \A a \in Agent : Other(a) \in Agent /\ Other(a) # a /\ Other(Other(a)) = a
BY DEF Agent, Other

\* What kind of record a frame is shows in its kind.
LEMMA Kinds ==
    /\ \A f \in Frame : f.to \in Agent /\ f.session \in Session /\ f.seq \in Nat
    /\ \A f \in Frame : f.kind = "data" => f \in Fragment
    /\ \A f \in Frame : f.kind = "ack" => f.ackSession \in Session /\ f.msg \in Nat
    /\ \A f \in Fragment :
           /\ f.kind = "data" /\ f.msg \in Nat /\ f.index \in Nat
           /\ f.count \in Nat \ {0} /\ KeyOf(f) \in Session \X Nat
BY DEF Frame, Fragment, KeyOf

\* The frames an agent makes are frames.
LEMMA Built ==
    ASSUME TypeOK, NEW a \in Agent
    PROVE  /\ \A kind \in {"ping", "pong"} : ControlFrame(a, kind) \in Frame
           /\ \A key \in Session \X Nat : AckFrame(a, key) \in Frame
           /\ \A n \in Nat \ {0} : DataFrames(a, n) \subseteq Fragment
<1>1. /\ session[a] \in Session /\ sequence[a] \in Nat /\ made[a] \in Nat
      /\ Other(a) \in Agent
  BY Peers DEF TypeOK
<1>2. \A kind \in {"ping", "pong"} : ControlFrame(a, kind) \in Frame
  BY <1>1 DEF ControlFrame, Frame
<1>3. \A key \in Session \X Nat : AckFrame(a, key) \in Frame
  BY <1>1 DEF AckFrame, Frame
<1>4. ASSUME NEW n \in Nat \ {0} PROVE DataFrames(a, n) \subseteq Fragment
  BY <1>1 DEF DataFrames, Fragment
<1> QED BY <1>2, <1>3, <1>4

\* A frame sent takes the next sequence and reaches the path.
LEMMA EmitTypes ==
    ASSUME TypeOK, NEW a \in Agent, NEW frame \in Frame, Emits(a, frame)
    PROVE  sequence' \in [Agent -> Nat] /\ net' \subseteq Frame
BY DEF Emits, TypeOK

\* A frame accepted leaves a window behind that knows it.
LEMMA Recorded ==
    ASSUME TypeOK, NEW b \in Agent, NEW f \in net, Records(b, f)
    PROVE  /\ f \in Frame /\ f.to = b
           /\ replay' \in [Agent -> Windows]
           /\ \A c \in Agent : WellFormed(replay'[c])
           /\ \A c \in Agent \ {b} : replay'[c] = replay[c]
           /\ ~Accepts(replay'[b], f.session, f.seq)
           /\ \A g \in Frame : ~Accepts(replay[b], g.session, g.seq)
                                   => ~Accepts(replay'[b], g.session, g.seq)
<1>1. f \in Frame /\ f.to = b /\ f.session \in Session /\ f.seq \in Nat
  BY Kinds DEF TypeOK, Records
<1>2. WellFormed(replay[b]) /\ Accepts(replay[b], f.session, f.seq)
  BY DEF TypeOK, Records
<1> DEFINE u == AfterAccept(replay[b], f.session, f.seq)
<1>3. replay' = [replay EXCEPT ![b] = u]
  BY DEF Records
<1>4. u \in Windows /\ u.session = f.session
  BY <1>1, <1>2, AfterAcceptWellFormed
<1>5. WellFormed(u)
  BY <1>1, <1>4, WindowAssumption DEF WellFormed
<1>6. ~Accepts(u, f.session, f.seq)
  BY <1>1, <1>2, AcceptedIsRejected
<1>7. \A g \in Frame : ~Accepts(replay[b], g.session, g.seq)
                           => ~Accepts(u, g.session, g.seq)
  BY <1>1, <1>2, RejectionIsStable, Kinds
<1> HIDE DEF u
<1>8. replay'[b] = u /\ \A c \in Agent \ {b} : replay'[c] = replay[c]
  BY <1>3 DEF TypeOK
<1>9. replay' \in [Agent -> Windows]
  BY <1>3, <1>4 DEF TypeOK
<1>10. \A c \in Agent : WellFormed(replay'[c])
  BY <1>5, <1>8 DEF TypeOK
<1> QED BY <1>1, <1>6, <1>7, <1>8, <1>9, <1>10

\* Counting one more at k.
LEMMA CountedUp ==
    ASSUME NEW K, NEW d \in [K -> Nat], NEW k
    PROVE  /\ [d EXCEPT ![k] = @ + 1] \in [K -> Nat]
           /\ \A x \in K : [d EXCEPT ![k] = @ + 1][x]
                                = IF x = k THEN d[x] + 1 ELSE d[x]
<1> DEFINE e == [x \in K |-> IF x = k THEN d[x] + 1 ELSE d[x]]
<1>1. e \in [K -> Nat]
  OBVIOUS
<1>2. [d EXCEPT ![k] = @ + 1] = e
  <2>1. CASE k \in K
    BY <2>1
  <2>2. CASE k \notin K
    BY <2>2, Zenon
  <2> QED BY <2>1, <2>2
<1> QED BY <1>1, <1>2

-----------------------------------------------------------------------------
(* Types.                                                                  *)

\* Two new processes, with nothing sent and nothing received, satisfy the
\* invariant.
LEMMA InitTunnel == Init => TunnelInvariant
<1> SUFFICES ASSUME Init PROVE TunnelInvariant
  OBVIOUS
<1>1. NewWindow \in Windows /\ WellFormed(NewWindow)
  BY DEF NewWindow, WellFormed, Windows
<1>2. session \in [Agent -> Session]
  BY TunnelAssumption DEF Init
<1>3. queue \in [Agent -> Seq(SUBSET Fragment)]
  BY DEF Init
<1>4. scenario \in Scenario
  BY TunnelAssumption DEF Init
<1>5. deliveries \in [Agent \X Keys -> Nat]
  BY DEF Init
<1>6. TypeOK
  BY <1>1, <1>2, <1>3, <1>4, <1>5 DEF Init, TypeOK
<1>7. Fragments = {}
  BY DEF Init, Fragments
<1>8. Named
  BY <1>7 DEF Init, Named, Agent
<1>9. \A b \in Agent, k \in Keys :
          deliveries[<<b, k>>] = 0 /\ crashes[b] = 0
  BY DEF Init
<1>10. Truthful /\ UsedUp /\ DuplicateNeedsCrash
  BY <1>9 DEF Init, Truthful, UsedUp, DuplicateNeedsCrash
<1> QED BY <1>6, <1>8, <1>10 DEF TunnelInvariant

\* Every step keeps the types.
LEMMA TypeStep == TypeOK /\ Next => TypeOK'
<1> SUFFICES ASSUME TypeOK, Next PROVE TypeOK'
  OBVIOUS
<1>0. scenario' = scenario /\ Keys' = Keys
  BY DEF Next, Keys, MaxMessages
<1>1. scenario.counts \subseteq Nat \ {0}
  BY DEF TypeOK, Scenario
<1>2. ASSUME NEW a \in Agent, NEW n \in scenario.counts, SendData(a, n),
             peer' \in [Agent -> BOOLEAN]
      PROVE  TypeOK'
  <2>1. DataFrames(a, n) \subseteq Fragment
    BY <1>1, Built
  <2>2. Cardinality(DataFrames(a, n)) \in Nat
    <3>1. IsFiniteSet(0 .. (IF scenario.fec /\ n > 1 THEN n ELSE n - 1))
      BY <1>1, FS_Interval
    <3> DEFINE frame(i) ==
            [kind |-> "data", to |-> Other(a), session |-> session[a],
             seq |-> sequence[a] + i + 1, msg |-> made[a] + 1, index |-> i,
             count |-> n]
               S == 0 .. (IF scenario.fec /\ n > 1 THEN n ELSE n - 1)
    <3>2. DataFrames(a, n) = {frame(i) : i \in S}
      BY DEF DataFrames
    <3>3. [i \in S |-> frame(i)] \in Surjection(S, {frame(i) : i \in S})
      <4> HIDE DEF frame, S
      <4> QED BY DEF Surjection
    <3>4. IsFiniteSet({frame(i) : i \in S})
      <4> HIDE DEF frame
      <4> QED BY <3>1, <3>3, FS_Surjection
    <3> QED BY <3>2, <3>4, FS_CardinalityType
  <2>3. /\ made' \in [Agent -> Nat] /\ sequence' \in [Agent -> Nat]
        /\ net' \subseteq Frame
    BY <1>2, <2>1, <2>2 DEF SendData, TypeOK, Frame
  <2>4. queue' \in [Agent -> Seq(SUBSET Fragment)]
    <3>1. Append(queue[a], DataFrames(a, n)) \in Seq(SUBSET Fragment)
      BY <2>1 DEF TypeOK
    <3> QED BY <1>2, <3>1 DEF SendData, TypeOK
  <2> QED BY <1>0, <1>2, <2>3, <2>4
          DEF SendData, TypeOK, receiver, bounds, history
<1>3. ASSUME NEW a \in Agent, Pump(a) PROVE TypeOK'
  <2>1. PICK expired \in SUBSET flight[a], n \in 0 .. Len(queue[a]) :
            LET retried  == {t \in expired : t.attempts <= MaxRetries}
                again    == {[t EXCEPT !.attempts = @ + 1] : t \in retried}
                admitted == {[packets |-> queue[a][i], attempts |-> 1] :
                                i \in 1 .. n}
            IN
            /\ flight' = [flight EXCEPT ![a] =
                              (@ \ expired) \cup again \cup admitted]
            /\ queue' = [queue EXCEPT ![a] = SubSeq(@, n + 1, Len(@))]
            /\ net' = net \cup UNION {t.packets : t \in again \cup admitted}
    BY <1>3 DEF Pump
  <2> DEFINE Flight == [packets : SUBSET Fragment, attempts : Nat]
             again == {[t EXCEPT !.attempts = @ + 1] :
                           t \in {t \in expired : t.attempts <= MaxRetries}}
             admitted == {[packets |-> queue[a][i], attempts |-> 1] :
                              i \in 1 .. n}
  <2>2. again \subseteq Flight
    <3>1. expired \subseteq Flight
      BY DEF TypeOK
    <3>2. \A t \in Flight : [t EXCEPT !.attempts = @ + 1] \in Flight
      OBVIOUS
    <3> QED BY <3>1, <3>2
  <2>3. queue[a] \in Seq(SUBSET Fragment)
    BY DEF TypeOK
  <2>4. admitted \subseteq Flight
    <3>1. \A i \in 1 .. n : queue[a][i] \in SUBSET Fragment
      BY <2>3
    <3> QED BY <3>1
  <2>5. SubSeq(queue[a], n + 1, Len(queue[a])) \in Seq(SUBSET Fragment)
    BY <2>3
  <2>6. flight' \in [Agent -> SUBSET Flight]
        /\ queue' \in [Agent -> Seq(SUBSET Fragment)]
        /\ net' \subseteq Frame
    <3>1. /\ flight' = [flight EXCEPT ![a] =
                            (@ \ expired) \cup again \cup admitted]
          /\ queue' = [queue EXCEPT ![a] = SubSeq(@, n + 1, Len(@))]
          /\ net' = net \cup UNION {t.packets : t \in again \cup admitted}
      BY <2>1
    <3> HIDE DEF again, admitted
    <3>2. flight' \in [Agent -> SUBSET Flight]
      BY <2>2, <2>4, <3>1 DEF TypeOK
    <3>3. queue' \in [Agent -> Seq(SUBSET Fragment)]
      BY <2>5, <3>1 DEF TypeOK
    <3>4. net' \subseteq Frame
      <4>1. \A t \in again \cup admitted : t.packets \subseteq Frame
        BY <2>2, <2>4 DEF Frame
      <4> QED BY <3>1, <4>1 DEF TypeOK
    <3> QED BY <3>2, <3>3, <3>4
  <2> QED BY <1>0, <1>3, <2>6 DEF Pump, TypeOK, receiver, bounds, history
<1>4. CASE Keepalive
  <2>1. "iran" \in Agent /\ ControlFrame("iran", "ping") \in Frame
    BY Built DEF Agent
  <2>2. sequence' \in [Agent -> Nat] /\ net' \subseteq Frame
    BY <1>4, <2>1, EmitTypes DEF Keepalive
  <2> QED BY <1>0, <1>4, <2>2
          DEF Keepalive, TypeOK, sender, receiver, history
<1>5. ASSUME NEW b \in Agent, NEW f \in net, ReceiveReplay(b, f) PROVE TypeOK'
  <2>1. AckFrame(b, KeyOf(f)) \in Frame
    BY <1>5, Built, Kinds DEF ReceiveReplay, TypeOK
  <2>2. sequence' \in [Agent -> Nat] /\ net' \subseteq Frame
    BY <1>5, <2>1, EmitTypes DEF ReceiveReplay
  <2> QED BY <1>0, <1>5, <2>2
          DEF ReceiveReplay, TypeOK, sender, receiver, bounds, history
<1>6. ASSUME NEW b \in Agent, NEW f \in net, ReceiveAck(b, f) PROVE TypeOK'
  <2>1. /\ replay' \in [Agent -> Windows]
        /\ \A c \in Agent : WellFormed(replay'[c])
    BY <1>6, Recorded DEF ReceiveAck
  <2>2. <<f.ackSession, f.msg>> \in Session \X Nat
    BY <1>6, Kinds DEF ReceiveAck, TypeOK
  <2> QED BY <1>0, <1>6, <2>1, <2>2
          DEF ReceiveAck, TypeOK, receiver, bounds
<1>7. ASSUME NEW f \in net, ReceivePing(f) PROVE TypeOK'
  <2>1. "foreign" \in Agent /\ ControlFrame("foreign", "pong") \in Frame
    BY Built DEF Agent
  <2>2. sequence' \in [Agent -> Nat] /\ net' \subseteq Frame
    BY <1>7, <2>1, EmitTypes DEF ReceivePing
  <2>3. /\ replay' \in [Agent -> Windows]
        /\ \A c \in Agent : WellFormed(replay'[c])
    BY <1>7, <2>1, Recorded DEF ReceivePing
  <2> QED BY <1>0, <1>7, <2>2, <2>3
          DEF ReceivePing, TypeOK, sender, receiver, bounds, history
<1>8. ASSUME NEW f \in net, ReceivePong(f) PROVE TypeOK'
  <2>1. /\ replay' \in [Agent -> Windows]
        /\ \A c \in Agent : WellFormed(replay'[c])
    BY <1>8, Recorded DEF ReceivePong, Agent
  <2> QED BY <1>0, <1>8, <2>1
          DEF ReceivePong, TypeOK, sender, receiver, bounds, history
<1>9. ASSUME NEW b \in Agent, NEW f \in net, ReceiveFragment(b, f) PROVE TypeOK'
  <2>1. /\ replay' \in [Agent -> Windows]
        /\ \A c \in Agent : WellFormed(replay'[c])
    BY <1>9, Recorded DEF ReceiveFragment
  <2>2. KeyOf(f) \in Session \X Nat /\ f.index \in Nat
    BY <1>9, Kinds DEF ReceiveFragment, TypeOK
  <2>3. held' \in [Agent -> SUBSET ((Session \X Nat) \X Nat)]
    BY <1>9, <2>2 DEF ReceiveFragment, TypeOK
  <2> QED BY <1>0, <1>9, <2>1, <2>3
          DEF ReceiveFragment, TypeOK, sender, bounds, history
<1>10. ASSUME NEW b \in Agent, NEW f \in net, ReceiveLast(b, f) PROVE TypeOK'
  <2>1. /\ replay' \in [Agent -> Windows]
        /\ \A c \in Agent : WellFormed(replay'[c])
    BY <1>10, Recorded DEF ReceiveLast
  <2>2. KeyOf(f) \in Session \X Nat
    BY <1>10, Kinds DEF ReceiveLast, TypeOK
  <2>3. /\ held' \in [Agent -> SUBSET ((Session \X Nat) \X Nat)]
        /\ completed' \in [Agent -> SUBSET (Session \X Nat)]
        /\ finished' \subseteq Session \X Nat
    BY <1>10, <2>2 DEF ReceiveLast, Discard, TypeOK
  <2>4. AckFrame(b, KeyOf(f)) \in Frame
    BY <2>2, Built
  <2>5. /\ sequence' \in [Agent -> Nat] /\ net' \subseteq Frame
        /\ deliveries' \in [Agent \X Keys -> Nat]
    <3>0. [deliveries EXCEPT ![<<b, KeyOf(f)>>] = @ + 1]
              \in [Agent \X Keys -> Nat]
      BY CountedUp DEF TypeOK
    <3>1. HandToApplication(b, KeyOf(f))
      BY <1>10 DEF ReceiveLast
    <3>2. CASE UNCHANGED <<sequence, net, deliveries>>
      BY <3>2 DEF TypeOK
    <3>3. CASE deliveries' = [deliveries EXCEPT ![<<b, KeyOf(f)>>] = @ + 1]
               /\ UNCHANGED <<sequence, net>>
      BY <3>0, <3>3 DEF TypeOK
    <3>4. CASE deliveries' = [deliveries EXCEPT ![<<b, KeyOf(f)>>] = @ + 1]
               /\ Emits(b, AckFrame(b, KeyOf(f)))
      <4>1. sequence' \in [Agent -> Nat] /\ net' \subseteq Frame
        BY <2>4, <3>4, EmitTypes
      <4> QED BY <3>0, <3>4, <4>1
    <3> QED BY <3>1, <3>2, <3>3, <3>4 DEF HandToApplication
  <2> QED BY <1>0, <1>10, <2>1, <2>3, <2>5
          DEF ReceiveLast, TypeOK, sender, bounds
<1>11. ASSUME NEW b \in Agent, NEW k \in Keys,
              AssemblyExpires(b, k) \/ CompletedExpires(b, k)
       PROVE  TypeOK'
  <2>1. CASE AssemblyExpires(b, k)
    <3>1. held' \in [Agent -> SUBSET ((Session \X Nat) \X Nat)]
      BY <2>1 DEF AssemblyExpires, Discard, TypeOK
    <3> QED BY <1>0, <2>1, <3>1
            DEF AssemblyExpires, TypeOK, sender, bounds, history
  <2>2. CASE CompletedExpires(b, k)
    <3>1. completed' \in [Agent -> SUBSET (Session \X Nat)]
      BY <2>2 DEF CompletedExpires, TypeOK
    <3> QED BY <1>0, <2>2, <3>1
            DEF CompletedExpires, TypeOK, sender, bounds, history
  <2> QED BY <1>11, <2>1, <2>2
<1>12. ASSUME NEW b \in Agent, Checkpoints(b) PROVE TypeOK'
  BY <1>0, <1>12 DEF Checkpoints, TypeOK, sender, receiver, bounds, history
<1>13. ASSUME NEW a \in Agent, NEW w \in Windows, WellFormed(w), Starts(a, w),
              restarts' \in Nat, crashes' \in [Agent -> Nat]
       PROVE  TypeOK'
  <2>1. started' \in Nat /\ session' \in [Agent -> Session]
    BY <1>13 DEF Starts, TypeOK
  <2>2. queue' \in [Agent -> Seq(SUBSET Fragment)]
    BY <1>13 DEF Starts, TypeOK
  <2>3. /\ replay' \in [Agent -> Windows] /\ saved' \in [Agent -> Windows]
        /\ \A b \in Agent : WellFormed(replay'[b]) /\ WellFormed(saved'[b])
    BY <1>13 DEF Starts, TypeOK
  <2> QED BY <1>0, <1>13, <2>1, <2>2, <2>3 DEF Starts, TypeOK, history
<1>14. ASSUME NEW a \in Agent, Restart(a) \/ Crash(a) PROVE TypeOK'
  <2>1. /\ replay[a] \in Windows /\ saved[a] \in Windows
        /\ WellFormed(replay[a]) /\ WellFormed(saved[a])
        /\ restarts \in Nat /\ crashes \in [Agent -> Nat]
    BY DEF TypeOK
  <2>2. CASE Restart(a)
    <3>1. /\ Starts(a, replay[a])
          /\ restarts' \in Nat /\ crashes' \in [Agent -> Nat]
      BY <2>1, <2>2 DEF Restart
    <3> QED BY <1>13, <2>1, <3>1
  <2>3. CASE Crash(a)
    <3>1. /\ Starts(a, saved[a])
          /\ restarts' \in Nat /\ crashes' \in [Agent -> Nat]
      BY <2>1, <2>3 DEF Crash
    <3> QED BY <1>13, <2>1, <3>1
  <2> QED BY <1>14, <2>2, <2>3
<1>15. ASSUME NEW n \in scenario.counts, IranInner(n) \/ ForeignInner(n)
       PROVE  TypeOK'
  <2>1. "iran" \in Agent /\ "foreign" \in Agent /\ peer' \in [Agent -> BOOLEAN]
    BY <1>15 DEF IranInner, ForeignInner, TypeOK, Agent
  <2> QED BY <1>2, <1>15, <2>1 DEF IranInner, ForeignInner
<1>16. ASSUME NEW f \in net, DownlinkRound(f) \/ UplinkRound(f) PROVE TypeOK'
  <2>1. "iran" \in Agent /\ "foreign" \in Agent
    BY DEF Agent
  <2> QED BY <1>5, <1>6, <1>7, <1>8, <1>9, <1>10, <1>16, <2>1
          DEF DownlinkRound, UplinkRound, Receive
<1> QED BY <1>3, <1>4, <1>11, <1>12, <1>14, <1>15, <1>16 DEF Next

-----------------------------------------------------------------------------
(* Names.                                                                  *)

\* Where a fragment can be, before and after a step.
LEMMA FragmentPlaces ==
    /\ \A f : f \in Fragments <=>
           \/ f \in net /\ f.kind = "data"
           \/ \E a \in Agent : \E i \in DOMAIN queue[a] : f \in queue[a][i]
           \/ \E a \in Agent : \E t \in flight[a] : f \in t.packets
    /\ \A f : f \in Fragments' <=>
           \/ f \in net' /\ f.kind = "data"
           \/ \E a \in Agent : \E i \in DOMAIN queue'[a] : f \in queue'[a][i]
           \/ \E a \in Agent : \E t \in flight'[a] : f \in t.packets
<1> DEFINE Q(a) == UNION {queue[a][i] : i \in DOMAIN queue[a]}
           F(a) == UNION {t.packets : t \in flight[a]}
<1>1. \A f, a : f \in Q(a) <=> \E i \in DOMAIN queue[a] : f \in queue[a][i]
  OBVIOUS
<1>2. \A f, a : f \in F(a) <=> \E t \in flight[a] : f \in t.packets
  OBVIOUS
<1>3. \A f, a : f \in Q(a)' <=> \E i \in DOMAIN queue'[a] : f \in queue'[a][i]
  OBVIOUS
<1>4. \A f, a : f \in F(a)' <=> \E t \in flight'[a] : f \in t.packets
  OBVIOUS
<1> DEFINE QU == UNION {Q(a) : a \in Agent}
           FU == UNION {F(a) : a \in Agent}
           D  == {f \in net : f.kind = "data"}
<1>5. Fragments = D \cup QU \cup FU /\ Fragments' = D' \cup QU' \cup FU'
  BY DEF Fragments
<1> HIDE DEF Q, F
<1>6. \A f : /\ f \in UNION {Q(a) : a \in Agent} <=> \E a \in Agent : f \in Q(a)
             /\ f \in UNION {F(a) : a \in Agent} <=> \E a \in Agent : f \in F(a)
  OBVIOUS
<1>7. \A f : /\ f \in UNION {Q(a)' : a \in Agent}
                    <=> \E a \in Agent : f \in Q(a)'
             /\ f \in UNION {F(a)' : a \in Agent}
                    <=> \E a \in Agent : f \in F(a)'
  OBVIOUS
<1>8. /\ \A f : f \in Fragments <=> f \in D \/ f \in QU \/ f \in FU
      /\ \A f : f \in Fragments' <=> f \in D' \/ f \in QU' \/ f \in FU'
  <2> HIDE DEF D, QU, FU
  <2> QED BY <1>5
<1>9. \A f : /\ f \in D <=> f \in net /\ f.kind = "data"
             /\ f \in D' <=> f \in net' /\ f.kind = "data"
  OBVIOUS
<1>10. \A f : /\ f \in QU <=> \E a \in Agent : f \in Q(a)
              /\ f \in FU <=> \E a \in Agent : f \in F(a)
              /\ f \in QU' <=> \E a \in Agent : f \in Q(a)'
              /\ f \in FU' <=> \E a \in Agent : f \in F(a)'
  BY <1>6, <1>7
<1> HIDE DEF D, QU, FU
<1> QED BY <1>1, <1>2, <1>3, <1>4, <1>8, <1>9, <1>10

\* They are fragments.
LEMMA FragmentsTyped == TypeOK => Fragments \subseteq Fragment
<1> SUFFICES ASSUME TypeOK, NEW f \in Fragments PROVE f \in Fragment
  OBVIOUS
<1>1. CASE f \in net /\ f.kind = "data"
  BY <1>1, Kinds DEF TypeOK
<1>2. ASSUME NEW a \in Agent, NEW i \in DOMAIN queue[a], f \in queue[a][i]
      PROVE  f \in Fragment
  <2>1. queue[a] \in Seq(SUBSET Fragment)
    BY DEF TypeOK
  <2> HIDE DEF Fragment
  <2>2. queue[a][i] \in SUBSET Fragment
    BY <2>1
  <2> QED BY <1>2, <2>2
<1>3. ASSUME NEW a \in Agent, NEW t \in flight[a], f \in t.packets
      PROVE  f \in Fragment
  BY <1>3 DEF TypeOK
<1> QED BY <1>1, <1>2, <1>3, FragmentPlaces

\* A step that sends control frames at most, with fewer flights at most, makes
\* no fragment.
LEMMA NoNewFragments ==
    ASSUME queue' = queue,
           \A a \in Agent : flight'[a] \subseteq flight[a],
           \A f \in net' : f.kind = "data" => f \in net
    PROVE  Fragments' \subseteq Fragments
<1> SUFFICES ASSUME NEW f \in Fragments' PROVE f \in Fragments
  OBVIOUS
<1>1. \/ f \in net' /\ f.kind = "data"
      \/ \E a \in Agent : \E i \in DOMAIN queue'[a] : f \in queue'[a][i]
      \/ \E a \in Agent : \E t \in flight'[a] : f \in t.packets
  BY FragmentPlaces
<1> QED BY <1>1, FragmentPlaces

\* A control frame is no fragment.
LEMMA EmitsNoFragment ==
    ASSUME NEW a, NEW frame, Emits(a, frame), frame.kind # "data"
    PROVE  \A f \in net' : f.kind = "data" => f \in net
BY DEF Emits

\* The frames an agent emits one at a time are control frames.
LEMMA ControlKinds ==
    \A a : /\ \A kind \in {"ping", "pong"} : ControlFrame(a, kind).kind = kind
           /\ \A key : AckFrame(a, key).kind = "ack"
BY DEF ControlFrame, AckFrame

\* Resending and admitting move fragments, and make none.
LEMMA PumpFragments ==
    ASSUME TypeOK, NEW a \in Agent, Pump(a)
    PROVE  Fragments' \subseteq Fragments /\ net' \subseteq net \cup Fragments
<1>1. PICK expired \in SUBSET flight[a], n \in 0 .. Len(queue[a]) :
          LET retried  == {t \in expired : t.attempts <= MaxRetries}
              again    == {[t EXCEPT !.attempts = @ + 1] : t \in retried}
              admitted == {[packets |-> queue[a][i], attempts |-> 1] :
                              i \in 1 .. n}
          IN
          /\ flight' = [flight EXCEPT ![a] =
                            (@ \ expired) \cup again \cup admitted]
          /\ queue' = [queue EXCEPT ![a] = SubSeq(@, n + 1, Len(@))]
          /\ net' = net \cup UNION {t.packets : t \in again \cup admitted}
  BY DEF Pump
<1> DEFINE again == {[t EXCEPT !.attempts = @ + 1] :
                         t \in {t \in expired : t.attempts <= MaxRetries}}
           admitted == {[packets |-> queue[a][i], attempts |-> 1] :
                            i \in 1 .. n}
<1>2. queue[a] \in Seq(SUBSET Fragment) /\ DOMAIN queue[a] = 1 .. Len(queue[a])
  BY DEF TypeOK
<1>3. \A t \in again : \A f \in t.packets : f \in Fragments
  <2>1. \A t \in expired : t \in flight[a]
                          /\ t \in [packets : SUBSET Fragment, attempts : Nat]
    BY DEF TypeOK
  <2>2. \A t \in expired : [t EXCEPT !.attempts = @ + 1].packets = t.packets
    BY <2>1
  <2> QED BY <2>1, <2>2, FragmentPlaces
<1>4. \A t \in admitted : \A f \in t.packets : f \in Fragments
  <2>1. \A i \in 1 .. n : i \in DOMAIN queue[a]
    BY <1>2
  <2> QED BY <2>1, FragmentPlaces
<1>5. /\ flight' = [flight EXCEPT ![a] =
                        (@ \ expired) \cup again \cup admitted]
      /\ queue' = [queue EXCEPT ![a] = SubSeq(@, n + 1, Len(@))]
      /\ net' = net \cup UNION {t.packets : t \in again \cup admitted}
  BY <1>1
<1> HIDE DEF again, admitted
<1>6. ASSUME NEW c \in Agent, NEW i \in DOMAIN queue'[c]
      PROVE  \E j \in DOMAIN queue[c] : queue'[c][i] = queue[c][j]
  <2>1. CASE c = a
    <3>1. queue'[c] = SubSeq(queue[c], n + 1, Len(queue[c]))
      BY <1>5, <2>1 DEF TypeOK
    <3>2. /\ i \in 1 .. Len(queue[c]) - n
          /\ queue'[c][i] = queue[c][i + n]
      BY <1>2, <2>1, <3>1
    <3> QED BY <1>2, <2>1, <3>2
  <2>2. CASE c # a
    BY <1>5, <2>2 DEF TypeOK
  <2> QED BY <2>1, <2>2
<1>7. \A c \in Agent : \A t \in flight'[c] :
          t \in flight[c] \/ t \in again \/ t \in admitted
  BY <1>5 DEF TypeOK
<1>12. net' \subseteq net \cup Fragments
  BY <1>3, <1>4, <1>5
<1> SUFFICES ASSUME NEW f \in Fragments' PROVE f \in Fragments
  BY <1>12
<1>8. \/ f \in net' /\ f.kind = "data"
      \/ \E c \in Agent : \E i \in DOMAIN queue'[c] : f \in queue'[c][i]
      \/ \E c \in Agent : \E t \in flight'[c] : f \in t.packets
  BY FragmentPlaces
<1>9. CASE f \in net' /\ f.kind = "data"
  BY <1>3, <1>4, <1>5, <1>9, FragmentPlaces
<1>10. CASE \E c \in Agent : \E i \in DOMAIN queue'[c] : f \in queue'[c][i]
  BY <1>6, <1>10, FragmentPlaces
<1>11. CASE \E c \in Agent : \E t \in flight'[c] : f \in t.packets
  BY <1>3, <1>4, <1>7, <1>11, FragmentPlaces
<1> QED BY <1>8, <1>9, <1>10, <1>11

\* A new process starts with nothing queued and nothing in flight.
LEMMA StartFragments ==
    ASSUME TypeOK, NEW a \in Agent, NEW w, Starts(a, w)
    PROVE  Fragments' \subseteq Fragments
<1> SUFFICES ASSUME NEW f \in Fragments' PROVE f \in Fragments
  OBVIOUS
<1>1. \/ f \in net' /\ f.kind = "data"
      \/ \E c \in Agent : \E i \in DOMAIN queue'[c] : f \in queue'[c][i]
      \/ \E c \in Agent : \E t \in flight'[c] : f \in t.packets
  BY FragmentPlaces
<1>2. \A c \in Agent : queue'[c] = (IF c = a THEN <<>> ELSE queue[c])
                       /\ flight'[c] = (IF c = a THEN {} ELSE flight[c])
  BY DEF Starts, TypeOK
<1>3. net' = net /\ DOMAIN <<>> = {}
  BY DEF Starts
<1> QED BY <1>1, <1>2, <1>3, FragmentPlaces

\* The new fragments of a datagram are all that send_data makes.
LEMMA SendFragments ==
    ASSUME TypeOK, NEW a \in Agent, NEW n \in Nat \ {0}, SendData(a, n)
    PROVE  Fragments' \subseteq Fragments \cup DataFrames(a, n)
<1> SUFFICES ASSUME NEW f \in Fragments', f \notin DataFrames(a, n)
             PROVE  f \in Fragments
  OBVIOUS
<1>1. \/ f \in net' /\ f.kind = "data"
      \/ \E c \in Agent : \E i \in DOMAIN queue'[c] : f \in queue'[c][i]
      \/ \E c \in Agent : \E t \in flight'[c] : f \in t.packets
  BY FragmentPlaces
<1>2. flight' = flight
  BY DEF SendData
<1>3. f \in net' => f \in net
  BY DEF SendData
<1>4. ASSUME NEW c \in Agent, NEW i \in DOMAIN queue'[c], f \in queue'[c][i]
      PROVE  i \in DOMAIN queue[c] /\ f \in queue[c][i]
  <2>1. CASE queue' = queue
    BY <1>4, <2>1
  <2>2. CASE queue' = [queue EXCEPT ![a] = Append(@, DataFrames(a, n))]
    <3>1. CASE c # a
      BY <1>4, <2>2, <3>1 DEF TypeOK
    <3>2. CASE c = a
      <4>1. queue'[c] = Append(queue[c], DataFrames(a, n))
        BY <2>2, <3>2 DEF TypeOK
      <4>2. queue[c] \in Seq(SUBSET Fragment)
        BY DEF TypeOK
      <4>3. DataFrames(a, n) \in SUBSET Fragment
        BY Built
      <4> HIDE DEF Fragment
      <4>4. /\ DOMAIN queue[c] = 1 .. Len(queue[c])
            /\ i \in 1 .. Len(queue[c]) + 1
            /\ queue'[c][i] = (IF i = Len(queue[c]) + 1 THEN DataFrames(a, n)
                               ELSE queue[c][i])
        BY <4>1, <4>2, <4>3
      <4> QED BY <1>4, <4>2, <4>4
    <3> QED BY <3>1, <3>2
  <2> QED BY <2>1, <2>2 DEF SendData
<1> QED BY <1>1, <1>2, <1>3, <1>4, FragmentPlaces

\* A step makes no fragment, unless an application hands over a datagram; no
\* session begins, unless a process starts; and message numbers stay.
LEMMA MakesFragments ==
    ASSUME TypeOK, Next
    PROVE  \/ /\ Fragments' \subseteq Fragments
              /\ UNCHANGED <<session, started, made>>
           \/ \E a \in Agent, n \in Nat \ {0} : SendData(a, n)
           \/ \E a \in Agent, w \in Windows : Starts(a, w)
<1> DEFINE Quiet == /\ Fragments' \subseteq Fragments
                    /\ UNCHANGED <<session, started, made>>
           Sends == \E a \in Agent, n \in Nat \ {0} : SendData(a, n)
           Begins == \E a \in Agent, w \in Windows : Starts(a, w)
<1>0. "iran" \in Agent /\ "foreign" \in Agent
  BY DEF Agent
<1>1. ASSUME NEW n \in scenario.counts, IranInner(n) \/ ForeignInner(n)
      PROVE  Sends
  BY <1>0, <1>1 DEF IranInner, ForeignInner, TypeOK, Scenario
<1>2. ASSUME NEW a \in Agent, Pump(a) PROVE Quiet
  BY <1>2, PumpFragments DEF Pump
<1>3. ASSUME Keepalive PROVE Quiet
  BY <1>3, EmitsNoFragment, ControlKinds, NoNewFragments DEF Keepalive, sender
<1>4. ASSUME NEW b \in Agent, NEW f \in net, ReceiveReplay(b, f) PROVE Quiet
  BY <1>4, EmitsNoFragment, ControlKinds, NoNewFragments
     DEF ReceiveReplay, sender
<1>5. ASSUME NEW b \in Agent, NEW f \in net, ReceiveAck(b, f) PROVE Quiet
  <2>1. \A a \in Agent : flight'[a] \subseteq flight[a]
    BY <1>5 DEF ReceiveAck, TypeOK
  <2> QED BY <1>5, <2>1, NoNewFragments DEF ReceiveAck
<1>6. ASSUME NEW f \in net, ReceivePing(f) PROVE Quiet
  BY <1>6, EmitsNoFragment, ControlKinds, NoNewFragments
     DEF ReceivePing, sender
<1>7. ASSUME NEW f \in net, ReceivePong(f) PROVE Quiet
  BY <1>7, NoNewFragments DEF ReceivePong, sender
<1>8. ASSUME NEW b \in Agent, NEW f \in net, ReceiveFragment(b, f) PROVE Quiet
  BY <1>8, NoNewFragments DEF ReceiveFragment, sender
<1>9. ASSUME NEW b \in Agent, NEW f \in net, ReceiveLast(b, f) PROVE Quiet
  <2>1. net' = net \/ Emits(b, AckFrame(b, KeyOf(f)))
    BY <1>9 DEF ReceiveLast, HandToApplication
  <2>2. \A g \in net' : g.kind = "data" => g \in net
    BY <2>1, EmitsNoFragment, ControlKinds
  <2> QED BY <1>9, <2>2, NoNewFragments DEF ReceiveLast, sender
<1>10. ASSUME NEW b \in Agent, NEW k \in Keys,
              AssemblyExpires(b, k) \/ CompletedExpires(b, k)
       PROVE  Quiet
  BY <1>10, NoNewFragments DEF AssemblyExpires, CompletedExpires, sender
<1>11. ASSUME NEW b \in Agent, Checkpoints(b) PROVE Quiet
  BY <1>11, NoNewFragments DEF Checkpoints, sender
<1>12. ASSUME NEW a \in Agent, Restart(a) \/ Crash(a) PROVE Begins
  BY <1>12 DEF Restart, Crash, TypeOK
<1>13. ASSUME NEW f \in net, DownlinkRound(f) \/ UplinkRound(f) PROVE Quiet
  BY <1>0, <1>4, <1>5, <1>6, <1>7, <1>8, <1>9, <1>13
     DEF DownlinkRound, UplinkRound, Receive
<1> HIDE DEF Quiet, Sends, Begins
<1>14. Quiet \/ Sends \/ Begins
  BY <1>1, <1>2, <1>3, <1>10, <1>11, <1>12, <1>13 DEF Next
<1> QED BY <1>14 DEF Quiet, Sends, Begins

\* Every step keeps sessions apart and the names of fragments unique.
LEMMA NamedStep == TypeOK /\ Named /\ Next => Named'
<1> SUFFICES ASSUME TypeOK, Named, Next PROVE Named'
  OBVIOUS
<1> USE DEF KeyOf
<1>1. CASE /\ Fragments' \subseteq Fragments
           /\ UNCHANGED <<session, started, made>>
  BY <1>1 DEF Named
<1>2. ASSUME NEW a \in Agent, NEW n \in Nat \ {0}, SendData(a, n) PROVE Named'
  <2> DEFINE New == DataFrames(a, n)
  <2>1. Fragments' \subseteq Fragments \cup New
    BY <1>2, SendFragments
  <2>2. /\ session' = session /\ started' = started
        /\ \A c \in Agent : /\ made[c] \in Nat /\ made'[c] \in Nat
                             /\ made[c] <= made'[c]
        /\ made'[a] = made[a] + 1
    BY <1>2 DEF SendData, TypeOK
  <2>3. \A p \in New :
            /\ p.to = Other(a) /\ p.session = session[a]
            /\ p.msg = made[a] + 1 /\ p.count = n
            /\ p.index \in 0 .. n /\ (n = 1 => p.index = 0)
    BY DEF DataFrames
  <2>4. \A p, q \in New : p.index = q.index => p = q
    BY DEF DataFrames
  <2> HIDE DEF New
  <2>5. \A c \in Agent : session[c] = session[a] => c = a
    BY DEF Named, Agent
  <2>6. \A p \in Fragments, q \in New : KeyOf(p) # KeyOf(q)
    BY <2>2, <2>3 DEF Named, TypeOK
  <2>7. \A p \in Fragments' :
            /\ p.session <= started'
            /\ p.index \in 0 .. p.count /\ (p.count = 1 => p.index = 0)
            /\ \A c \in Agent : p.session = session'[c] =>
                   p.to = Other(c) /\ p.msg <= made'[c]
    <3>1. \A p \in New :
            /\ p.session <= started'
            /\ p.index \in 0 .. p.count /\ (p.count = 1 => p.index = 0)
            /\ \A c \in Agent : p.session = session'[c] =>
                   p.to = Other(c) /\ p.msg <= made'[c]
      <4>1. session[a] <= started /\ n \in Nat
        BY DEF Named
      <4>2. ASSUME NEW p \in New, NEW c \in Agent, p.session = session'[c]
            PROVE  p.to = Other(c) /\ p.msg <= made'[c]
        BY <2>2, <2>3, <2>5, <4>2
      <4> QED BY <2>2, <2>3, <4>1, <4>2
    <3>2. ASSUME NEW p \in Fragments
          PROVE  /\ p.session <= started'
                 /\ p.index \in 0 .. p.count /\ (p.count = 1 => p.index = 0)
                 /\ \A c \in Agent : p.session = session'[c] =>
                        p.to = Other(c) /\ p.msg <= made'[c]
      <4>1. p.msg \in Nat
        BY FragmentsTyped, Kinds
      <4> QED BY <2>2, <4>1 DEF Named
    <3> QED BY <2>1, <3>1, <3>2
  <2>8. \A p, q \in Fragments' : KeyOf(p) = KeyOf(q) =>
           /\ p.to = q.to /\ p.count = q.count
           /\ p.index = q.index => p = q
    BY <2>1, <2>3, <2>4, <2>6 DEF Named
  <2> QED BY <2>2, <2>7, <2>8 DEF Named
<1>3. ASSUME NEW a \in Agent, NEW w \in Windows, Starts(a, w) PROVE Named'
  <2>1. Fragments' \subseteq Fragments
    BY <1>3, StartFragments
  <2>2. /\ started \in Nat /\ started' = started + 1
        /\ session'[a] = started + 1
        /\ \A c \in Agent \ {a} : session'[c] = session[c] /\ made'[c] = made[c]
        /\ \A c \in Agent : session[c] \in Nat
    BY <1>3, TunnelAssumption DEF Starts, TypeOK
  <2>3. \A p \in Fragments : p.session \in Nat
    BY FragmentsTyped, TunnelAssumption DEF Fragment
  <2> QED BY <2>1, <2>2, <2>3 DEF Named, Agent
<1> QED BY <1>1, <1>2, <1>3, MakesFragments

-----------------------------------------------------------------------------
(* Acknowledgements.                                                       *)

\* A step that sends at most ACKs of messages that were reassembled, and
\* remembers and acts upon no other, keeps acknowledgements true.
LEMMA TruthfulKept ==
    ASSUME Truthful, finished \subseteq finished',
           \A f \in net' : f.kind = "ack" =>
               f \in net \/ <<f.ackSession, f.msg>> \in finished',
           \A b \in Agent : completed'[b] \subseteq completed[b] \cup finished',
           acked' \subseteq acked \cup finished'
    PROVE  Truthful'
BY DEF Truthful

\* An ACK names the session and the number of a message.
LEMMA AckNames ==
    \A a \in Agent : \A key \in Session \X Nat :
        /\ AckFrame(a, key).kind = "ack"
        /\ <<AckFrame(a, key).ackSession, AckFrame(a, key).msg>> = key
BY DEF AckFrame

\* Every step keeps acknowledgements true.
LEMMA TruthfulStep == TypeOK /\ Truthful /\ Next => Truthful'
<1> SUFFICES ASSUME TypeOK, Truthful, Next PROVE Truthful'
  OBVIOUS
<1>0. "iran" \in Agent /\ "foreign" \in Agent
  BY DEF Agent
<1>1. ASSUME NEW a \in Agent, NEW n \in Nat \ {0}, SendData(a, n)
      PROVE  Truthful'
  <2>1. \A f \in DataFrames(a, n) : f.kind = "data"
    BY DEF DataFrames
  <2>2. \A f \in net' : f.kind = "ack" => f \in net
    BY <1>1, <2>1 DEF SendData
  <2> QED BY <1>1, <2>2, TruthfulKept DEF SendData, receiver, history
<1>2. ASSUME NEW a \in Agent, Pump(a) PROVE Truthful'
  <2>1. \A f \in net' : f.kind = "ack" => f \in net
    BY <1>2, PumpFragments, FragmentsTyped, Kinds
  <2> QED BY <1>2, <2>1, TruthfulKept DEF Pump, receiver, history
<1>3. CASE Keepalive
  BY <1>3, ControlKinds, TruthfulKept DEF Keepalive, Emits, receiver, history
<1>4. ASSUME NEW b \in Agent, NEW f \in net, ReceiveReplay(b, f)
      PROVE  Truthful'
  <2>1. KeyOf(f) \in Session \X Nat /\ KeyOf(f) \in finished
    BY <1>4, Kinds DEF ReceiveReplay, TypeOK, Truthful
  <2>2. net' = net \cup {AckFrame(b, KeyOf(f))}
    BY <1>4 DEF ReceiveReplay, Emits
  <2>3. \A g \in net' : g.kind = "ack" =>
            g \in net \/ <<g.ackSession, g.msg>> \in finished
    BY <2>1, <2>2, AckNames
  <2> QED BY <1>4, <2>3, TruthfulKept DEF ReceiveReplay, receiver, history
<1>5. ASSUME NEW b \in Agent, NEW f \in net, ReceiveAck(b, f) PROVE Truthful'
  <2>1. acked' \subseteq acked \cup finished
    BY <1>5 DEF ReceiveAck, Truthful
  <2> QED BY <1>5, <2>1, TruthfulKept DEF ReceiveAck, receiver
<1>6. ASSUME NEW f \in net, ReceivePing(f) PROVE Truthful'
  BY <1>6, ControlKinds, TruthfulKept DEF ReceivePing, Emits, receiver, history
<1>7. ASSUME NEW f \in net, ReceivePong(f) PROVE Truthful'
  BY <1>7, TruthfulKept DEF ReceivePong, receiver, history
<1>8. ASSUME NEW b \in Agent, NEW f \in net, ReceiveFragment(b, f)
      PROVE  Truthful'
  BY <1>8, TruthfulKept DEF ReceiveFragment, history
<1>9. ASSUME NEW b \in Agent, NEW f \in net, ReceiveLast(b, f) PROVE Truthful'
  <2>1. /\ KeyOf(f) \in Session \X Nat
        /\ finished' = finished \cup {KeyOf(f)}
        /\ completed' = [completed EXCEPT ![b] = @ \cup {KeyOf(f)}]
        /\ acked' = acked
    BY <1>9, Kinds DEF ReceiveLast, TypeOK
  <2>2. net' = net \/ net' = net \cup {AckFrame(b, KeyOf(f))}
    BY <1>9 DEF ReceiveLast, HandToApplication, Emits
  <2>3. \A g \in net' : g.kind = "ack" =>
            g \in net \/ <<g.ackSession, g.msg>> \in finished'
    BY <2>1, <2>2, AckNames
  <2>4. \A c \in Agent : completed'[c] \subseteq completed[c] \cup finished'
    BY <2>1 DEF TypeOK
  <2> QED BY <2>1, <2>3, <2>4, TruthfulKept
<1>10. ASSUME NEW b \in Agent, NEW k \in Keys,
              AssemblyExpires(b, k) \/ CompletedExpires(b, k)
       PROVE  Truthful'
  <2>1. \A c \in Agent : completed'[c] \subseteq completed[c]
    BY <1>10 DEF AssemblyExpires, CompletedExpires, TypeOK
  <2> QED BY <1>10, <2>1, TruthfulKept
          DEF AssemblyExpires, CompletedExpires, history
<1>11. ASSUME NEW b \in Agent, Checkpoints(b) PROVE Truthful'
  BY <1>11, TruthfulKept DEF Checkpoints, receiver, history
<1>12. ASSUME NEW a \in Agent, NEW w, Starts(a, w) PROVE Truthful'
  <2>1. \A c \in Agent : completed'[c] \subseteq completed[c]
    BY <1>12 DEF Starts, TypeOK
  <2> QED BY <1>12, <2>1, TruthfulKept DEF Starts, history
<1>13. ASSUME NEW n \in scenario.counts, IranInner(n) \/ ForeignInner(n)
       PROVE  Truthful'
  BY <1>0, <1>1, <1>13 DEF IranInner, ForeignInner, TypeOK, Scenario
<1>14. ASSUME NEW f \in net, DownlinkRound(f) \/ UplinkRound(f) PROVE Truthful'
  BY <1>0, <1>4, <1>5, <1>6, <1>7, <1>8, <1>9, <1>14
     DEF DownlinkRound, UplinkRound, Receive
<1>15. ASSUME NEW a \in Agent, Restart(a) \/ Crash(a) PROVE Truthful'
  BY <1>12, <1>15 DEF Restart, Crash
<1> QED BY <1>2, <1>3, <1>10, <1>11, <1>13, <1>14, <1>15 DEF Next

-----------------------------------------------------------------------------
(* At most once.                                                           *)

\* What agent c rejects before a step it rejects after it.
Remembers(c) ==
    \A g \in Frame : ~Accepts(replay[c], g.session, g.seq)
                         => ~Accepts(replay'[c], g.session, g.seq)

\* The fragments that a receiver will not take again, before and after a step.
LEMMA SpentMembers ==
    \A b, k, i :
        /\ i \in Spent(b, k) <=>
               \E g \in net : /\ g.kind = "data" /\ g.to = b /\ KeyOf(g) = k
                              /\ ~Accepts(replay[b], g.session, g.seq)
                              /\ g.index = i
        /\ i \in Spent(b, k)' <=>
               \E g \in net' : /\ g.kind = "data" /\ g.to = b /\ KeyOf(g) = k
                               /\ ~Accepts(replay'[b], g.session, g.seq)
                               /\ g.index = i
BY DEF Spent

\* The pieces that a receiver holds, before and after a step.
LEMMA PieceMembers ==
    ASSUME TypeOK, TypeOK'
    PROVE  \A b \in Agent : \A k, i :
               /\ i \in Pieces(b, k) <=> <<k, i>> \in held[b]
               /\ i \in Pieces(b, k)' <=> <<k, i>> \in held'[b]
<1>1. \A b \in Agent : /\ held[b] \subseteq (Session \X Nat) \X Nat
                       /\ held'[b] \subseteq (Session \X Nat) \X Nat
  BY DEF TypeOK
<1> QED BY <1>1 DEF Pieces

\* What a receiver will not take again it keeps from taking, as long as it
\* remembers.
LEMMA SpentGrows ==
    ASSUME TypeOK, net \subseteq net', NEW b \in Agent, Remembers(b), NEW k
    PROVE  Spent(b, k) \subseteq Spent(b, k)'
<1>1. net \subseteq Frame
  BY DEF TypeOK
<1> QED BY <1>1, SpentMembers DEF Remembers

\* A message of n fragments has n + 1 at most, and one of one has no parity.
LEMMA SpentBounded ==
    ASSUME TypeOK, Named, NEW f \in net, f.kind = "data", NEW b
    PROVE  /\ Spent(b, KeyOf(f)) \subseteq 0 .. f.count
           /\ f.count = 1 => Spent(b, KeyOf(f)) \subseteq {0}
           /\ f.count \in Nat \ {0} /\ f.index \in 0 .. f.count
           /\ f.count = 1 => f.index = 0
<1>1. \A g \in net : g.kind = "data" => g \in Fragments /\ g \in Fragment
  BY FragmentPlaces, FragmentsTyped
<1>2. ASSUME NEW g \in net, g.kind = "data", KeyOf(g) = KeyOf(f)
      PROVE  g.index \in 0 .. f.count /\ (f.count = 1 => g.index = 0)
  BY <1>1, <1>2 DEF Named
<1>3. f.count \in Nat \ {0}
  BY <1>1 DEF Fragment
<1> QED BY <1>2, <1>3, SpentMembers

\* A fragment just accepted is none of those that would not be taken, and is
\* one of them from then on.
LEMMA AcceptedIsSpent ==
    ASSUME TypeOK, Named, NEW b \in Agent, NEW f \in net, f.kind = "data",
           Records(b, f), net \subseteq net'
    PROVE  /\ f.index \notin Spent(b, KeyOf(f))
           /\ f.index \in Spent(b, KeyOf(f))'
           /\ \A c \in Agent : Remembers(c)
<1>1. \A g \in net : g.kind = "data" => g \in Fragments
  BY FragmentPlaces
<1>2. f.index \notin Spent(b, KeyOf(f))
  <2>1. ASSUME NEW g \in net, g.kind = "data", KeyOf(g) = KeyOf(f),
               g.index = f.index
        PROVE  g = f
    BY <1>1, <2>1 DEF Named
  <2> QED BY <2>1, SpentMembers DEF Records
<1>3. f.index \in Spent(b, KeyOf(f))'
  BY Recorded, SpentMembers
<1>4. \A c \in Agent : Remembers(c)
  BY Recorded DEF Remembers
<1> QED BY <1>2, <1>3, <1>4

\* Two disjoint sets of fragments that each assemble a message do not exist.
LEMMA NotTwice ==
    ASSUME NEW n \in Nat \ {0}, NEW G, NEW R, G \cap R = {},
           G \subseteq 0 .. n, R \subseteq 0 .. n,
           n = 1 => G \subseteq {0} /\ R \subseteq {0},
           Cardinality(G) >= n, Cardinality(R) >= n
    PROVE  FALSE
<1>1. IsFiniteSet(0 .. n) /\ Cardinality(0 .. n) = n + 1
  BY FS_Interval
<1>2. IsFiniteSet({0}) /\ Cardinality({0}) = 1
  BY FS_Singleton
<1>3. IsFiniteSet(G) /\ IsFiniteSet(R)
  BY <1>1, FS_Subset
<1>4. Cardinality(G) \in Nat /\ Cardinality(R) \in Nat
  BY <1>3, FS_CardinalityType
<1>5. Cardinality(G \cup R) = Cardinality(G) + Cardinality(R)
  <2>1. /\ IsFiniteSet(G \cup R)
        /\ Cardinality(G \cup R)
               = Cardinality(G) + Cardinality(R) - Cardinality(G \cap R)
    BY <1>3, FS_Union
  <2>2. Cardinality(G \cap R) = 0
    BY FS_EmptySet
  <2> QED BY <1>4, <2>1, <2>2
<1>6. G \cup R \in SUBSET (0 .. n) /\ (n = 1 => G \cup R \in SUBSET {0})
  OBVIOUS
<1> DEFINE U == G \cup R
           I == 0 .. n
           Z == {0}
<1>7. Cardinality(U) <= n + 1 /\ (n = 1 => Cardinality(U) <= 1)
  <2>1. U \in SUBSET I /\ (n = 1 => U \in SUBSET Z)
    BY <1>6
  <2>2. /\ IsFiniteSet(I) /\ Cardinality(I) = n + 1
        /\ IsFiniteSet(Z) /\ Cardinality(Z) = 1
    BY <1>1, <1>2
  <2> HIDE DEF U, I, Z
  <2>3. Cardinality(U) <= n + 1
    BY <2>1, <2>2, FS_Subset
  <2>4. n = 1 => Cardinality(U) <= 1
    BY <2>1, <2>2, FS_Subset
  <2> QED BY <2>3, <2>4
<1>8. Cardinality(U) >= 2 * n
  BY <1>4, <1>5
<1> HIDE DEF U
<1> QED BY <1>4, <1>5, <1>7, <1>8 DEF U

\* A message is assembled from as many fragments as it has, parity included.
LEMMA AssemblesEnough ==
    ASSUME NEW n \in Nat \ {0}, NEW S, IsFiniteSet(S), Assembles(S, n)
    PROVE  Cardinality(S) >= n
<1>1. /\ Cardinality(S) \in Nat /\ Cardinality(S \ {n}) <= Cardinality(S)
  BY FS_CardinalityType, FS_Subset
<1>2. n \in S => Cardinality(S \ {n}) = Cardinality(S) - 1
  BY FS_RemoveElement
<1> QED BY <1>1, <1>2 DEF Assembles

\* A message assembled was not delivered more often than its agent crashed.
LEMMA NotYetDelivered ==
    ASSUME TypeOK, Named, UsedUp, NEW b \in Agent, NEW f \in net,
           f.kind = "data", f.to = b, KeyOf(f) \in Keys,
           f.index \notin Spent(b, KeyOf(f)),
           Assembles(Gathered(b, f), f.count)
    PROVE  deliveries[<<b, KeyOf(f)>>] <= crashes[b]
<1> DEFINE k == KeyOf(f)
           G == Gathered(b, f)
           R == Spent(b, k) \ Pieces(b, k)
<1>1. G = {f.index} \cup Pieces(b, k)
  BY DEF Gathered, Pieces
<1>2. Pieces(b, k) \subseteq Spent(b, k)
  BY DEF UsedUp, Pieces
<1>3. /\ Spent(b, k) \subseteq 0 .. f.count
      /\ f.count = 1 => Spent(b, k) \subseteq {0}
      /\ f.count \in Nat \ {0} /\ f.index \in 0 .. f.count
      /\ f.count = 1 => f.index = 0
  BY SpentBounded
<1>4. /\ G \subseteq 0 .. f.count /\ R \subseteq 0 .. f.count
      /\ f.count = 1 => G \subseteq {0} /\ R \subseteq {0}
      /\ G \cap R = {}
  <2>1. f.index \notin Spent(b, k)
    OBVIOUS
  <2> HIDE DEF G, k
  <2> QED BY <1>1, <1>2, <1>3, <2>1
<1>5. IsFiniteSet(G)
  <2>1. IsFiniteSet(0 .. f.count)
    BY <1>3, FS_Interval
  <2> HIDE DEF G
  <2> QED BY <1>4, <2>1, FS_Subset
<1>6. Cardinality(G) >= f.count
  BY <1>3, <1>5, AssemblesEnough
<1>7. deliveries[<<b, k>>] \in Nat /\ crashes[b] \in Nat
  BY DEF TypeOK
<1>8. ASSUME deliveries[<<b, k>>] > crashes[b] PROVE FALSE
  <2>1. Cardinality(R) >= f.count
    BY <1>8 DEF UsedUp
  <2> HIDE DEF G, R
  <2> QED BY <1>3, <1>4, <1>6, <2>1, NotTwice
<1> QED BY <1>7, <1>8

\* What is used up of a message stays used up, as long as nothing is forgotten,
\* no crash is needed for another delivery, and only fresh fragments are held.
LEMMA UsedUpStays ==
    ASSUME TypeOK, Named, UsedUp, TypeOK', Named', net \subseteq net',
           \A c \in Agent : Remembers(c),
           NEW f \in net', f.kind = "data", KeyOf(f) \in Keys,
           deliveries[<<f.to, KeyOf(f)>>] > crashes[f.to],
           \A b \in Agent : \A i \in Spent(b, KeyOf(f)) :
               <<KeyOf(f), i>> \in held'[b] => <<KeyOf(f), i>> \in held[b]
    PROVE  Cardinality((Spent(f.to, KeyOf(f)) \ Pieces(f.to, KeyOf(f)))')
               >= f.count
<1> DEFINE k == KeyOf(f)
           R == Spent(f.to, k) \ Pieces(f.to, k)
<1>0. f.to \in Agent
  BY Kinds DEF TypeOK
<1>1. crashes[f.to] \in Nat /\ deliveries[<<f.to, k>>] \in Nat
  BY <1>0 DEF TypeOK
<1>2. PICK g \in net : g.kind = "data" /\ g.to = f.to /\ KeyOf(g) = k
  <2>1. deliveries[<<f.to, k>>] > 0
    BY <1>1
  <2> QED BY <1>0, <2>1 DEF UsedUp
<1>3. g.to = f.to /\ g.count = f.count /\ f.to \in Agent
  <2>1. g \in Fragments' /\ f \in Fragments'
    BY <1>2, FragmentPlaces
  <2> QED BY <1>0, <1>2, <2>1 DEF Named
<1>4. Cardinality(R) >= f.count
  BY <1>2, <1>3 DEF UsedUp
<1>5. R \subseteq R'
  <2>1. Spent(f.to, k) \subseteq Spent(f.to, k)'
    BY <1>3, SpentGrows
  <2>2. \A i \in R : i \notin Pieces(f.to, k)'
    BY <1>3, PieceMembers
  <2> QED BY <2>1, <2>2
<1>6. IsFiniteSet(R')
  <2>1. Spent(f.to, k)' \subseteq 0 .. f.count /\ f.count \in Nat
    <3>1. \A h \in net' : h.kind = "data" => h \in Fragments'
      BY FragmentPlaces
    <3>2. f.count \in Nat
      BY Kinds DEF TypeOK
    <3>3. \A h \in net' : h.kind = "data" /\ KeyOf(h) = k
                              => h.index \in 0 .. f.count
      BY <3>1 DEF Named
    <3> QED BY <3>2, <3>3, SpentMembers
  <2>2. f.count \in Nat
    BY <2>1
  <2>3. IsFiniteSet(0 .. f.count)
    BY <2>2, FS_Interval
  <2> QED BY <2>1, <2>3, FS_Subset
<1>7. Cardinality(R) <= Cardinality(R')
      /\ Cardinality(R) \in Nat /\ Cardinality(R') \in Nat
  <2> HIDE DEF R
  <2>1. R \in SUBSET (R')
    BY <1>5
  <2> QED BY <1>6, <2>1, FS_Subset, FS_CardinalityType
<1>8. f.count \in Nat
  BY Kinds DEF TypeOK
<1> QED BY <1>4, <1>7, <1>8

\* A step that delivers nothing, forgets nothing and holds only fresh fragments
\* keeps messages used up.
LEMMA UsedUpKept ==
    ASSUME TypeOK, Named, UsedUp, DuplicateNeedsCrash, TypeOK', Named',
           Keys' = Keys, net \subseteq net', \A c \in Agent : Remembers(c),
           UNCHANGED <<deliveries, crashes>>,
           \A b \in Agent : \A x \in held'[b] :
               \/ x \in held[b]
               \/ x[2] \in Spent(b, x[1])' /\ x[2] \notin Spent(b, x[1])
    PROVE  UsedUp' /\ DuplicateNeedsCrash'
<1>1. ASSUME NEW b \in Agent, NEW x \in held'[b]
      PROVE  x[2] \in Spent(b, x[1])'
  <2>1. x \in held[b] => x[2] \in Spent(b, x[1])
    BY DEF UsedUp
  <2>2. Spent(b, x[1]) \subseteq Spent(b, x[1])'
    BY SpentGrows
  <2> QED BY <1>1, <2>1, <2>2
<1>2. \A b \in Agent, k \in Keys' : deliveries'[<<b, k>>] > 0 =>
          \E f \in net' : f.kind = "data" /\ f.to = b /\ KeyOf(f) = k
  BY DEF UsedUp
<1>3. ASSUME NEW f \in net', f.kind = "data", KeyOf(f) \in Keys',
             deliveries'[<<f.to, KeyOf(f)>>] > crashes'[f.to]
      PROVE  Cardinality((Spent(f.to, KeyOf(f)) \ Pieces(f.to, KeyOf(f)))')
                 >= f.count
  <2>1. deliveries[<<f.to, KeyOf(f)>>] > crashes[f.to]
    BY <1>3
  <2>2. ASSUME NEW b \in Agent, NEW i \in Spent(b, KeyOf(f)),
               <<KeyOf(f), i>> \in held'[b]
        PROVE  <<KeyOf(f), i>> \in held[b]
    BY <2>2
  <2> QED BY <1>3, <2>1, <2>2, UsedUpStays
<1>4. UsedUp'
  BY <1>1, <1>2, <1>3 DEF UsedUp
<1> QED BY <1>4 DEF DuplicateNeedsCrash

\* A step that keeps the windows remembers.
LEMMA SameWindows == replay' = replay => \A c \in Agent : Remembers(c)
BY DEF Remembers

\* Taking the last fragment that a message needs keeps messages used up: it was
\* not delivered before, unless in a process that crashed since.
LEMMA UsedUpLast ==
    ASSUME TypeOK, Named, UsedUp, DuplicateNeedsCrash, TypeOK', Named',
           Keys' = Keys, NEW b \in Agent, NEW f \in net, ReceiveLast(b, f)
    PROVE  UsedUp' /\ DuplicateNeedsCrash'
<1> DEFINE k == KeyOf(f)
<1>1. /\ f.kind = "data" /\ f.to = b /\ Records(b, f)
      /\ Assembles(Gathered(b, f), f.count)
      /\ held' = [held EXCEPT ![b] = Discard(@, k)]
      /\ HandToApplication(b, k) /\ crashes' = crashes
  BY DEF ReceiveLast, Records, bounds
<1>2. net \subseteq net'
  BY <1>1 DEF HandToApplication, Emits
<1>3. /\ f.index \notin Spent(b, k) /\ f.index \in Spent(b, k)'
      /\ \A c \in Agent : Remembers(c)
  BY <1>1, <1>2, AcceptedIsSpent
<1>4. /\ \A c \in Agent : held'[c] \subseteq held[c]
      /\ \A x \in held'[b] : x[1] # k
      /\ \A c \in Agent : \A x \in held[c] : x[1] # k => x \in held'[c]
  BY <1>1 DEF Discard, TypeOK
<1>5. CASE deliveries' = deliveries
  BY <1>1, <1>2, <1>3, <1>4, <1>5, UsedUpKept
<1>6. CASE deliveries' = [deliveries EXCEPT ![<<b, k>>] = @ + 1]
  <2>1. \A c \in Agent, j \in Keys :
            deliveries'[<<c, j>>] = IF c = b /\ j = k
                                    THEN deliveries[<<c, j>>] + 1
                                    ELSE deliveries[<<c, j>>]
    <3>1. \A x \in Agent \X Keys :
              deliveries'[x] = IF x = <<b, k>> THEN deliveries[x] + 1
                               ELSE deliveries[x]
      BY <1>6, CountedUp DEF TypeOK
    <3> HIDE DEF k
    <3> QED BY <3>1
  <2>2. \A c \in Agent, j \in Keys : deliveries[<<c, j>>] \in Nat
    BY DEF TypeOK
  <2>3. \A c \in Agent : crashes[c] \in Nat
    BY DEF TypeOK
  <2>4. ASSUME NEW c \in Agent, NEW x \in held'[c]
        PROVE  x[2] \in Spent(c, x[1])'
    <3>1. x[2] \in Spent(c, x[1])
      BY <1>4 DEF UsedUp
    <3>2. Spent(c, x[1]) \subseteq Spent(c, x[1])'
      BY <1>2, <1>3, SpentGrows
    <3> QED BY <3>1, <3>2
  <2>5. ASSUME NEW c \in Agent, NEW j \in Keys, deliveries'[<<c, j>>] > 0
        PROVE  \E g \in net' : g.kind = "data" /\ g.to = c /\ KeyOf(g) = j
    <3>1. CASE c = b /\ j = k
      BY <1>1, <1>2, <3>1
    <3>2. CASE ~(c = b /\ j = k)
      <4>1. deliveries[<<c, j>>] > 0
        BY <2>1, <2>5, <3>2
      <4> HIDE DEF k
      <4> QED BY <1>2, <4>1 DEF UsedUp
    <3> QED BY <3>1, <3>2
  <2>6. ASSUME NEW g \in net', g.kind = "data", KeyOf(g) \in Keys,
               deliveries'[<<g.to, KeyOf(g)>>] > crashes'[g.to], KeyOf(g) # k
        PROVE  Cardinality((Spent(g.to, KeyOf(g)) \ Pieces(g.to, KeyOf(g)))')
                   >= g.count
    <3>1. deliveries[<<g.to, KeyOf(g)>>] > crashes[g.to]
      <4>1. g.to \in Agent
        BY <2>6, Kinds DEF TypeOK
      <4> QED BY <1>1, <2>1, <2>6, <4>1
    <3>2. \A c \in Agent : \A i \in Spent(c, KeyOf(g)) :
              <<KeyOf(g), i>> \in held'[c] => <<KeyOf(g), i>> \in held[c]
      BY <1>4
    <3> QED BY <1>2, <1>3, <2>6, <3>1, <3>2, UsedUpStays
  <2>7. ASSUME NEW g \in net', g.kind = "data", KeyOf(g) = k
        PROVE  Cardinality((Spent(g.to, k) \ Pieces(g.to, k))') >= g.count
    <3>1. g.to = b /\ g.count = f.count
      <4>1. f \in Fragments' /\ g \in Fragments'
        BY <1>1, <1>2, <2>7, FragmentPlaces
      <4> QED BY <1>1, <2>7, <4>1 DEF Named
    <3> DEFINE G == Gathered(b, f)
               R == Spent(b, k) \ Pieces(b, k)
    <3>2. \A i : i \in G => i = f.index \/ i \in Pieces(b, k)
      BY DEF Gathered, Pieces
    <3>3. Spent(b, k) \subseteq Spent(b, k)'
      BY <1>2, <1>3, SpentGrows
    <3>4. G \subseteq R'
      <4>1. \A i \in Pieces(b, k) : i \in Spent(b, k)'
        BY <3>3 DEF UsedUp, Pieces
      <4>2. ASSUME NEW i, i \in Pieces(b, k)' PROVE FALSE
        <5>1. <<k, i>> \in held'[b]
          BY <4>2, PieceMembers
        <5>2. <<k, i>>[1] = k
          OBVIOUS
        <5> HIDE DEF k
        <5> QED BY <1>4, <5>1, <5>2
      <4>3. f.index \in Spent(b, k)'
        BY <1>3
      <4> HIDE DEF G, k
      <4> QED BY <3>2, <4>1, <4>2, <4>3
    <3>5. IsFiniteSet(R') /\ f.count \in Nat \ {0}
      <4>1. Spent(b, k)' \subseteq 0 .. f.count /\ f.count \in Nat \ {0}
        <5>1. \A h \in net' : h.kind = "data" => h \in Fragments'
          BY FragmentPlaces
        <5>2. f.count \in Nat \ {0}
          BY <1>1, Kinds DEF TypeOK
        <5>3. \A h \in net' : h.kind = "data" /\ KeyOf(h) = k
                                  => h.index \in 0 .. f.count
          BY <1>1, <1>2, <5>1 DEF Named
        <5> QED BY <5>2, <5>3, SpentMembers
      <4>2. IsFiniteSet(0 .. f.count)
        BY <4>1, FS_Interval
      <4> QED BY <4>1, <4>2, FS_Subset
    <3> HIDE DEF G, R
    <3>6. G \in SUBSET (R')
      BY <3>4
    <3>7. IsFiniteSet(G) /\ Cardinality(G) <= Cardinality(R')
      BY <3>5, <3>6, FS_Subset
    <3>8. Cardinality(G) >= f.count
      BY <1>1, <3>5, <3>7, AssemblesEnough DEF G
    <3>9. Cardinality(G) \in Nat /\ Cardinality(R') \in Nat
      BY <3>5, <3>7, FS_CardinalityType
    <3> QED BY <3>1, <3>5, <3>7, <3>8, <3>9 DEF R
  <2>8. UsedUp'
    BY <2>4, <2>5, <2>6, <2>7 DEF UsedUp
  <2>9. k \in Keys => deliveries[<<b, k>>] <= crashes[b]
    BY <1>1, <1>3, NotYetDelivered
  <2>10. ASSUME NEW c \in Agent, NEW j \in Keys'
         PROVE  deliveries'[<<c, j>>] <= 1 + crashes'[c]
    <3>1. deliveries[<<c, j>>] <= 1 + crashes[c]
      BY DEF DuplicateNeedsCrash
    <3>2. CASE c = b /\ j = k
      BY <1>1, <2>1, <2>2, <2>3, <2>9, <3>2
    <3>3. CASE ~(c = b /\ j = k)
      <4> HIDE DEF k
      <4> QED BY <1>1, <2>1, <3>1, <3>3
    <3> QED BY <3>2, <3>3
  <2>11. DuplicateNeedsCrash'
    BY <2>10 DEF DuplicateNeedsCrash
  <2> QED BY <2>8, <2>11
<1> QED BY <1>1, <1>5, <1>6 DEF HandToApplication

\* A crash of an agent lets every message be delivered to it once more, and
\* changes nothing for its peer.
LEMMA UsedUpCrash ==
    ASSUME TypeOK, Named, UsedUp, DuplicateNeedsCrash, TypeOK',
           Keys' = Keys, NEW a \in Agent, Crash(a)
    PROVE  UsedUp' /\ DuplicateNeedsCrash'
<1>1. /\ crashes[a] \in Nat /\ crashes'[a] = crashes[a] + 1
      /\ \A c \in Agent \ {a} : crashes'[c] = crashes[c]
      /\ deliveries' = deliveries /\ net' = net
      /\ \A c \in Agent, k \in Keys :
             deliveries[<<c, k>>] \in Nat /\ crashes[c] \in Nat
  BY DEF Crash, Starts, TypeOK, history
<1>2. \A c \in Agent \ {a} : held'[c] = held[c] /\ replay'[c] = replay[c]
  BY DEF Crash, Starts, TypeOK
<1>3. held'[a] = {}
  BY DEF Crash, Starts, TypeOK
<1>4. DuplicateNeedsCrash'
  <2>1. ASSUME NEW c \in Agent, NEW k \in Keys'
        PROVE  deliveries'[<<c, k>>] <= 1 + crashes'[c]
    <3>1. deliveries[<<c, k>>] <= 1 + crashes[c]
      BY DEF DuplicateNeedsCrash
    <3>2. crashes[c] \in Nat /\ k \in Keys
      BY DEF TypeOK
    <3>3. crashes'[c] = crashes[c] \/ crashes'[c] = crashes[c] + 1
      BY <1>1
    <3> QED BY <1>1, <3>1, <3>2, <3>3
  <2> QED BY <2>1 DEF DuplicateNeedsCrash
<1>5. ASSUME NEW c \in Agent, NEW x \in held'[c]
      PROVE  x[2] \in Spent(c, x[1])'
  <2>1. c # a /\ held'[c] = held[c] /\ replay'[c] = replay[c]
    BY <1>2, <1>3, <1>5
  <2>2. x[2] \in Spent(c, x[1])
    BY <2>1 DEF UsedUp
  <2> QED BY <1>1, <2>1, <2>2, SpentMembers
<1>6. \A c \in Agent, k \in Keys' : deliveries'[<<c, k>>] > 0 =>
          \E f \in net' : f.kind = "data" /\ f.to = c /\ KeyOf(f) = k
  BY <1>1 DEF UsedUp
<1>7. ASSUME NEW f \in net', f.kind = "data", KeyOf(f) \in Keys',
             deliveries'[<<f.to, KeyOf(f)>>] > crashes'[f.to]
      PROVE  Cardinality((Spent(f.to, KeyOf(f)) \ Pieces(f.to, KeyOf(f)))')
                 >= f.count
  <2> DEFINE k == KeyOf(f)
  <2>1. f.to \in Agent
    BY <1>1, <1>7, Kinds DEF TypeOK
  <2>2. f.to # a
    <3>1. deliveries[<<a, k>>] <= 1 + crashes[a]
      BY <1>1, <1>7 DEF DuplicateNeedsCrash
    <3> QED BY <1>1, <1>7, <3>1
  <2>3. /\ replay'[f.to] = replay[f.to] /\ held'[f.to] = held[f.to]
        /\ deliveries[<<f.to, k>>] > crashes[f.to]
    BY <1>1, <1>2, <1>7, <2>1, <2>2
  <2>4. /\ Spent(f.to, k)' = Spent(f.to, k)
        /\ Pieces(f.to, k)' = Pieces(f.to, k)
    BY <1>1, <2>3 DEF Spent, Pieces
  <2> QED BY <1>1, <1>7, <2>3, <2>4 DEF UsedUp
<1>8. UsedUp'
  BY <1>5, <1>6, <1>7 DEF UsedUp
<1> QED BY <1>4, <1>8

\* Every step keeps the invariant.
LEMMA TunnelStep == TunnelInvariant /\ [Next]_vars => TunnelInvariant'
<1> SUFFICES ASSUME TunnelInvariant, [Next]_vars PROVE TunnelInvariant'
  OBVIOUS
<1> DEFINE Goal == UsedUp' /\ DuplicateNeedsCrash'
<1>0. TypeOK /\ Named /\ Truthful /\ UsedUp /\ DuplicateNeedsCrash
  BY DEF TunnelInvariant
<1>1. CASE UNCHANGED vars
  <2>1. TypeOK'
    BY <1>0, <1>1 DEF vars, sender, receiver, bounds, history, TypeOK, Keys,
                      MaxMessages
  <2>2. Keys' = Keys /\ replay' = replay /\ net' = net /\ held' = held
        /\ Fragments' = Fragments
    BY <1>1 DEF vars, sender, receiver, Keys, MaxMessages, Fragments
  <2>3. Named'
    BY <1>0, <1>1, <2>2 DEF vars, Named
  <2>4. Truthful'
    BY <1>0, <1>1 DEF vars, receiver, history, Truthful
  <2>5. UsedUp' /\ DuplicateNeedsCrash'
    BY <1>0, <1>1, <2>1, <2>2, <2>3, SameWindows, UsedUpKept
       DEF vars, bounds, history
  <2> QED BY <2>1, <2>3, <2>4, <2>5 DEF TunnelInvariant
<1>2. CASE Next
  <2>1. TypeOK' /\ Named' /\ Truthful'
    BY <1>0, <1>2, TypeStep, NamedStep, TruthfulStep
  <2>2. Keys' = Keys
    BY <1>2 DEF Next, Keys, MaxMessages
  <2>3. "iran" \in Agent /\ "foreign" \in Agent
    BY DEF Agent
  <2>4. ASSUME NEW n \in scenario.counts, IranInner(n) \/ ForeignInner(n)
        PROVE  Goal
    <3>1. /\ UNCHANGED <<replay, held, deliveries, crashes>>
          /\ net \subseteq net'
      BY <2>4 DEF IranInner, ForeignInner, SendData, receiver, bounds, history
    <3> QED BY <1>0, <2>1, <2>2, <3>1, SameWindows, UsedUpKept
  <2>5. ASSUME NEW a \in Agent, Pump(a) PROVE Goal
    <3>1. /\ UNCHANGED <<replay, held, deliveries, crashes>>
          /\ net \subseteq net'
      BY <2>5 DEF Pump, receiver, bounds, history
    <3> QED BY <1>0, <2>1, <2>2, <3>1, SameWindows, UsedUpKept
  <2>6. ASSUME Keepalive PROVE Goal
    <3>1. /\ UNCHANGED <<replay, held, deliveries, crashes>>
          /\ net \subseteq net'
      BY <2>6 DEF Keepalive, Emits, receiver, history
    <3> QED BY <1>0, <2>1, <2>2, <3>1, SameWindows, UsedUpKept
  <2>7. ASSUME NEW b \in Agent, NEW f \in net, ReceiveReplay(b, f) PROVE Goal
    <3>1. /\ UNCHANGED <<replay, held, deliveries, crashes>>
          /\ net \subseteq net'
      BY <2>7 DEF ReceiveReplay, Emits, receiver, bounds, history
    <3> QED BY <1>0, <2>1, <2>2, <3>1, SameWindows, UsedUpKept
  <2>8. ASSUME NEW b \in Agent, NEW f \in net, ReceiveAck(b, f) PROVE Goal
    <3>1. /\ UNCHANGED <<net, held, deliveries, crashes>>
          /\ \A c \in Agent : Remembers(c)
      BY <1>0, <2>8, Recorded DEF ReceiveAck, Remembers, receiver, bounds
    <3> QED BY <1>0, <2>1, <2>2, <3>1, UsedUpKept
  <2>9. ASSUME NEW f \in net, ReceivePing(f) PROVE Goal
    <3>1. /\ UNCHANGED <<held, deliveries, crashes>> /\ net \subseteq net'
          /\ \A c \in Agent : Remembers(c)
      BY <1>0, <2>3, <2>9, Recorded
         DEF ReceivePing, Emits, Remembers, receiver, bounds, history
    <3> QED BY <1>0, <2>1, <2>2, <3>1, UsedUpKept
  <2>10. ASSUME NEW f \in net, ReceivePong(f) PROVE Goal
    <3>1. /\ UNCHANGED <<net, held, deliveries, crashes>>
          /\ \A c \in Agent : Remembers(c)
      BY <1>0, <2>3, <2>10, Recorded
         DEF ReceivePong, Remembers, receiver, bounds, history
    <3> QED BY <1>0, <2>1, <2>2, <3>1, UsedUpKept
  <2>11. ASSUME NEW b \in Agent, NEW f \in net, ReceiveFragment(b, f) PROVE Goal
    <3>1. /\ f.kind = "data" /\ Records(b, f)
          /\ UNCHANGED <<net, deliveries, crashes>>
      BY <2>11 DEF ReceiveFragment, bounds, history
    <3>2. /\ f.index \notin Spent(b, KeyOf(f)) /\ f.index \in Spent(b, KeyOf(f))'
          /\ \A c \in Agent : Remembers(c)
      BY <1>0, <3>1, AcceptedIsSpent
    <3>3. /\ \A c \in Agent \ {b} : held'[c] = held[c]
          /\ held'[b] \subseteq held[b] \cup {<<KeyOf(f), f.index>>}
      BY <1>0, <2>11 DEF ReceiveFragment, TypeOK
    <3>4. ASSUME NEW c \in Agent, NEW x \in held'[c], x \notin held[c]
          PROVE  x[2] \in Spent(c, x[1])' /\ x[2] \notin Spent(c, x[1])
      <4>1. c = b /\ x = <<KeyOf(f), f.index>>
        BY <3>3, <3>4
      <4>2. x[1] = KeyOf(f) /\ x[2] = f.index
        BY <4>1
      <4> QED BY <3>2, <4>1, <4>2
    <3> QED BY <1>0, <2>1, <2>2, <3>1, <3>2, <3>4, UsedUpKept
  <2>12. ASSUME NEW b \in Agent, NEW f \in net, ReceiveLast(b, f) PROVE Goal
    BY <1>0, <2>1, <2>2, <2>12, UsedUpLast
  <2>13. ASSUME NEW b \in Agent, NEW k \in Keys,
                AssemblyExpires(b, k) \/ CompletedExpires(b, k)
         PROVE  Goal
    <3>1. /\ UNCHANGED <<replay, net, deliveries, crashes>>
          /\ \A c \in Agent : held'[c] \subseteq held[c]
      BY <1>0, <2>13
         DEF AssemblyExpires, CompletedExpires, Discard, TypeOK, bounds, history
    <3> QED BY <1>0, <2>1, <2>2, <3>1, SameWindows, UsedUpKept
  <2>14. ASSUME NEW b \in Agent, Checkpoints(b) PROVE Goal
    <3>1. UNCHANGED <<replay, net, held, deliveries, crashes>>
      BY <2>14 DEF Checkpoints, receiver, bounds, history
    <3> QED BY <1>0, <2>1, <2>2, <3>1, SameWindows, UsedUpKept
  <2>15. ASSUME NEW a \in Agent, Restart(a) PROVE Goal
    <3>1. /\ UNCHANGED <<replay, net, deliveries, crashes>>
          /\ \A c \in Agent : held'[c] \subseteq held[c]
      BY <1>0, <2>15 DEF Restart, Starts, TypeOK, history
    <3> QED BY <1>0, <2>1, <2>2, <3>1, SameWindows, UsedUpKept
  <2>16. ASSUME NEW a \in Agent, Crash(a) PROVE Goal
    BY <1>0, <2>1, <2>2, <2>16, UsedUpCrash
  <2>17. ASSUME NEW f \in net, DownlinkRound(f) \/ UplinkRound(f) PROVE Goal
    BY <2>3, <2>7, <2>8, <2>9, <2>10, <2>11, <2>12, <2>17
       DEF DownlinkRound, UplinkRound, Receive
  <2> HIDE DEF Goal
  <2>18. Goal
    BY <1>2, <2>4, <2>5, <2>6, <2>13, <2>14, <2>15, <2>16, <2>17 DEF Next
  <2> QED BY <2>1, <2>18 DEF Goal, TunnelInvariant
<1> QED BY <1>1, <1>2

\* The invariant holds of every behaviour of the two agents.
THEOREM TunnelInvariance == Spec => []TunnelInvariant
BY InitTunnel, TunnelStep, PTL DEF Spec

\* At most once, end to end: whatever is lost, duplicated, delayed, reordered,
\* resent, given up or forgotten, and however often either agent restarts, the
\* application has a message again only if the agent it receives from crashed
\* in between, and once per crash of that agent, whatever became of the sender;
\* with a replay_state_file configured (downlink_loop, uplink_loop,
\* accept_fragment).
THEOREM AtMostOnce == Spec => []DuplicateNeedsCrash
<1>1. TunnelInvariant => DuplicateNeedsCrash
  BY DEF TunnelInvariant
<1> QED BY <1>1, TunnelInvariance, PTL

\* ACKs are true, end to end: what a sender takes for acknowledged its peer
\* reassembled, across restarts and crashes of either and replays of both data
\* and ACKs (handle_ack, _send_ack).
THEOREM AcksAreTrue == Spec => []AckMeansReassembled
<1>1. TunnelInvariant => AckMeansReassembled
  BY DEF TunnelInvariant, Truthful, AckMeansReassembled
<1> QED BY <1>1, TunnelInvariance, PTL

=============================================================================
