------------------------ MODULE ReliableSenderProofs ------------------------
(***************************************************************************)
(* Proofs about ReliableSender, for every window, retry budget, capacity   *)
(* and number of messages, and, from "The time that attempts take" on,     *)
(* about Outage, which adds the clock and the paths to it.                 *)
(***************************************************************************)
EXTENDS Outage, FiniteSetTheorems, SequenceTheorems, WellFoundedInduction,
        TLAPS

-----------------------------------------------------------------------------
(* The congestion window.                                                  *)

\* Integer division by a positive number neither leaves the naturals nor grows.
LEMMA DivBound ==
    ASSUME NEW a \in Nat, NEW b \in Nat \ {0}
    PROVE  a \div b \in 0 .. a
  OBVIOUS

\* The ends of the congestion window's range.
LEMMA WindowRange ==
    /\ Unit \in Nat \ {0}
    /\ MaxWindow * Unit \in Nat
    /\ InitialWindow * Unit \in Unit .. MaxWindow * Unit
<1>1. Unit \in Nat \ {0} /\ InitialWindow \in Nat \ {0} /\ MaxWindow \in Nat
      /\ InitialWindow <= MaxWindow
  BY SenderAssumption
<1>2. MaxWindow * Unit \in Nat /\ InitialWindow * Unit \in Nat
  BY <1>1
<1>3. InitialWindow * Unit >= Unit
  BY <1>1
<1>4. InitialWindow * Unit <= MaxWindow * Unit
  BY <1>1
<1> QED BY <1>1, <1>2, <1>3, <1>4

\* An acknowledgement keeps the congestion window in its range.
LEMMA IncreasedType ==
    ASSUME NEW c \in Unit .. MaxWindow * Unit
    PROVE  Increased(c) \in Unit .. MaxWindow * Unit
<1> DEFINE top == MaxWindow * Unit
           step == (Unit * Unit) \div Larger(Unit, c)
<1>1. Unit \in Nat \ {0} /\ top \in Nat /\ c \in Unit .. top
  BY WindowRange
<1>2. Unit * Unit \in Nat /\ Larger(Unit, c) \in Nat \ {0}
  BY <1>1 DEF Larger
<1>3. step \in Nat
  BY <1>2, DivBound
<1>4. Increased(c) = Smaller(top, c + step)
  BY DEF Increased
<1> HIDE DEF top, step
<1>5. Smaller(top, c + step) \in Unit .. top
  BY <1>1, <1>3 DEF Smaller
<1> QED BY <1>4, <1>5 DEF top

\* So do the timeouts of a pump.
LEMMA HalvedType ==
    ASSUME NEW c \in Unit .. MaxWindow * Unit, NEW k \in 0 .. MaxMessages
    PROVE  Halved(c, k) \in Unit .. MaxWindow * Unit
<1>1. 2 ^ k \in Nat \ {0}
  BY PowersOfTwo, SenderAssumption
<1> DEFINE top == MaxWindow * Unit
           part == c \div (2 ^ k)
<1>2. c \in Unit .. top /\ Unit \in Nat /\ top \in Nat
  BY WindowRange
<1>3. part \in 0 .. c
  BY <1>1, <1>2, DivBound
<1>4. Halved(c, k) = Larger(Unit, part)
  BY DEF Halved
<1> HIDE DEF top, part
<1>5. Larger(Unit, part) \in Unit .. top
  BY <1>2, <1>3 DEF Larger
<1> QED BY <1>4, <1>5 DEF top

\* The window in messages: at least one, at most max_window.
LEMMA WindowBound ==
    ASSUME NEW c \in Unit .. MaxWindow * Unit
    PROVE  Window(c) \in 1 .. MaxWindow
<1>1. Unit \in Nat \ {0} /\ MaxWindow \in Nat \ {0} /\ c \in Nat
      /\ c <= MaxWindow * Unit
  BY WindowRange, SenderAssumption
<1>2. c \div Unit \in Nat
  BY <1>1, DivBound
<1>3. (c \div Unit) * Unit <= c
  BY <1>1
<1>4. c \div Unit <= MaxWindow
  <2>1. SUFFICES ASSUME c \div Unit >= MaxWindow + 1 PROVE FALSE
    BY <1>1, <1>2
  <2>2. (c \div Unit) * Unit >= (MaxWindow + 1) * Unit
    BY <1>1, <1>2, <2>1
  <2>3. (MaxWindow + 1) * Unit = MaxWindow * Unit + Unit
    BY <1>1
  <2> QED BY <1>1, <1>2, <1>3, <2>2, <2>3
<1> QED BY <1>1, <1>2, <1>4 DEF Window, Larger

\* The longest timeout is a number.
LEMMA TimeoutType ==
    Timeout(MaxAttempts) \in Nat
<1>1. MaxRetries \in 0 .. MaxMessages + MaxRetries /\ MaxAttempts - 1 = MaxRetries
  BY SenderAssumption DEF MaxAttempts
<1>2. Smaller(2 ^ MaxRetries, 16) \in Nat
  BY <1>1, PowersOfTwo DEF Smaller
<1> QED BY <1>1, <1>2, SenderAssumption DEF Timeout

-----------------------------------------------------------------------------
(* Sets of messages.                                                       *)

\* There are finitely many messages.
LEMMA FiniteMessages ==
    ASSUME NEW S \in SUBSET Messages
    PROVE  IsFiniteSet(S) /\ Cardinality(S) \in 0 .. MaxMessages
<1>1. MaxMessages \in Nat
  BY SenderAssumption
<1>2. IsFiniteSet(Messages) /\ Cardinality(Messages) = MaxMessages
  BY <1>1, FS_Interval DEF Messages
<1>3. IsFiniteSet(S) /\ Cardinality(S) <= Cardinality(Messages)
  BY <1>2, FS_Subset
<1> QED BY <1>1, <1>2, <1>3, FS_CardinalityType

\* The first n entries of a queue are at most n messages.
LEMMA PrefixSize ==
    ASSUME NEW q \in Seq(Messages), NEW n \in 0 .. Len(q)
    PROVE  Cardinality({q[i] : i \in 1 .. n}) <= n
<1> DEFINE S == {q[i] : i \in 1 .. n}
           f == [i \in 1 .. n |-> q[i]]
<1>1. IsFiniteSet(1 .. n) /\ Cardinality(1 .. n) = n
  BY FS_Interval, LenProperties
<1>2. f \in Surjection(1 .. n, S)
  BY DEF Surjection
<1>3. Cardinality(S) <= Cardinality(1 .. n)
  BY <1>1, <1>2, FS_Surjection
<1> QED BY <1>1, <1>3

-----------------------------------------------------------------------------
(* The invariant holds at the start.                                       *)

\* No message has been built: nothing is held, sent or settled.
LEMMA InitInvariant ==
    Init => SenderInvariant
<1> SUFFICES ASSUME Init PROVE SenderInvariant
  OBVIOUS
<1>1. queue \in Seq(Messages) /\ Len(queue) = 0 /\ Members(queue) = {}
  BY EmptySeq DEF Init, Members
<1>2. DOMAIN pending = {}
  BY DEF Init
<1>3. MaxAttempts \in Nat \ {0} /\ MaxMessages \in Nat /\ MaxPending \in Nat
      /\ MaxWindow \in Nat /\ MaxRetries \in Nat
  BY SenderAssumption DEF MaxAttempts
<1>4. TypeOK
  <2>1. pending \in [DOMAIN pending -> Flight]
    BY <1>2 DEF Init
  <2> QED BY <1>1, <1>2, <1>3, <2>1, WindowRange DEF Init, TypeOK, Fates
<1>5. Accounting
  BY <1>1, <1>2, <1>3 DEF Init, Accounting, Messages
<1>6. RetryBudget
  BY <1>3 DEF Init, RetryBudget, Messages
<1>7. Ordered
  BY <1>1 DEF Init, Ordered, Messages
<1>8. BoundedMemory
  BY <1>1, <1>2, <1>3, FS_EmptySet DEF BoundedMemory
<1> QED BY <1>4, <1>5, <1>6, <1>7, <1>8 DEF SenderInvariant

-----------------------------------------------------------------------------
(* Every step preserves it.                                                *)

\* send_data: a new message goes to the end of the queue, or is refused.
LEMMA SendDataStep ==
    ASSUME SenderInvariant, SendData
    PROVE  SenderInvariant'
<1> DEFINE m == made + 1
<1>1. TypeOK /\ Accounting /\ RetryBudget /\ Ordered /\ BoundedMemory
  BY DEF SenderInvariant
<1>2. m \in Messages /\ made \in Nat /\ MaxMessages \in Nat
  BY <1>1, SenderAssumption DEF TypeOK, SendData, Messages
<1>3. fate[m] = "none" /\ sends[m] = 0
  BY <1>1, <1>2 DEF Accounting, Ordered
<1>4. Len(queue) \in Nat /\ \A i \in 1 .. Len(queue) : queue[i] \in Messages
  BY <1>1, LenProperties, ElementOfSeq DEF TypeOK
<1>5. \A i \in 1 .. Len(queue) : queue[i] <= made /\ queue[i] \in Nat
  <2> TAKE i \in 1 .. Len(queue)
  <2>1. queue[i] \in Messages /\ fate[queue[i]] = "queued"
    BY <1>1, <1>4 DEF Accounting, Members
  <2> QED BY <1>1, <1>2, <2>1 DEF Accounting, Messages
<1>6. \A k \in Messages : sends[k] > 0 => k < m
  BY <1>1, <1>2 DEF Accounting, Ordered, TypeOK, Messages
<1>7. CASE Full
  <2>1. /\ queue' = queue /\ pending' = pending /\ cwnd' = cwnd
        /\ outbox' = outbox /\ sends' = sends /\ made' = m
        /\ fate' = [fate EXCEPT ![m] = "refused"]
    BY <1>7 DEF SendData
  <2>2. TypeOK'
    BY <1>1, <1>2, <2>1 DEF TypeOK, Fates, Messages
  <2>3. Accounting'
    BY <1>1, <1>2, <1>3, <2>1 DEF Accounting, TypeOK, Messages, Members
  <2>4. RetryBudget' /\ Ordered' /\ BoundedMemory'
    BY <1>1, <1>2, <1>3, <2>1
    DEF RetryBudget, Ordered, BoundedMemory, TypeOK
  <2> QED BY <2>2, <2>3, <2>4 DEF SenderInvariant
<1>8. CASE ~Full
  <2> DEFINE q == Append(queue, m)
  <2>1. /\ queue' = q /\ pending' = pending /\ cwnd' = cwnd
        /\ outbox' = outbox /\ sends' = sends /\ made' = m
        /\ fate' = [fate EXCEPT ![m] = "queued"]
    BY <1>8 DEF SendData, Enqueued
  <2>2. /\ q \in Seq(Messages) /\ Len(q) = Len(queue) + 1
        /\ \A i \in 1 .. Len(queue) : q[i] = queue[i]
        /\ q[Len(queue) + 1] = m
    BY <1>1, <1>2, AppendProperties DEF TypeOK
  <2> HIDE DEF q
  <2>3. TypeOK'
    BY <1>1, <1>2, <2>1, <2>2 DEF TypeOK, Fates, Messages
  <2>4. Members(q) = Members(queue) \cup {m}
    BY <1>4, <2>2 DEF Members
  <2>5. \A i, j \in 1 .. Len(q) : i < j => q[i] < q[j]
    <3> SUFFICES ASSUME NEW i \in 1 .. Len(q), NEW j \in 1 .. Len(q), i < j
                 PROVE  q[i] < q[j]
      OBVIOUS
    <3>1. i \in 1 .. Len(queue) /\ q[i] = queue[i]
      BY <1>4, <2>2
    <3>2. CASE j = Len(queue) + 1
      BY <1>2, <1>5, <2>2, <3>1, <3>2
    <3>3. CASE j # Len(queue) + 1
      <4>1. j \in 1 .. Len(queue) /\ q[j] = queue[j]
        BY <1>4, <2>2, <3>3
      <4> QED BY <1>1, <3>1, <4>1 DEF Ordered
    <3> QED BY <3>2, <3>3
  <2>6. \A i, j \in 1 .. Len(q) : i # j => q[i] # q[j]
    <3> TAKE i, j \in 1 .. Len(q)
    <3>1. q[i] \in Int /\ q[j] \in Int /\ i \in Int /\ j \in Int
      BY <1>2, <1>4, <1>5, <2>2
    <3> QED BY <2>5, <3>1
  <2>7. Accounting'
    <3>1. Members(q) = {k \in Messages : fate'[k] = "queued"}
      BY <1>1, <1>2, <2>1, <2>4 DEF Accounting, TypeOK
    <3>2. DOMAIN pending = {k \in Messages : fate'[k] = "flying"}
      BY <1>1, <1>2, <1>3, <2>1 DEF Accounting, TypeOK
    <3>3. \A k \in Messages : fate'[k] = "none" <=> k > m
      BY <1>1, <1>2, <1>3, <2>1 DEF Accounting, TypeOK, Messages
    <3> QED BY <1>1, <2>1, <2>6, <3>1, <3>2, <3>3 DEF Accounting, Members
  <2>8. Ordered'
    <3>1. \A k \in Messages, i \in 1 .. Len(q) : sends[k] > 0 => k < q[i]
      BY <1>1, <1>2, <1>4, <1>6, <2>2 DEF Ordered
    <3>2. \A k \in Messages :
              sends[k] = 0 <=> fate'[k] \in {"none", "refused", "queued"}
      BY <1>1, <1>2, <1>3, <2>1 DEF Ordered, TypeOK
    <3> QED BY <2>1, <2>5, <3>1, <3>2 DEF Ordered
  <2>9. RetryBudget'
    BY <1>1, <1>2, <1>3, <2>1 DEF RetryBudget, TypeOK
  <2>10. BoundedMemory'
    <3>1. Cardinality(DOMAIN pending) \in Nat
      BY <1>1, FiniteMessages, SenderAssumption DEF TypeOK
    <3>2. Len(queue) + Cardinality(DOMAIN pending) < MaxPending
      BY <1>4, <1>8, <3>1, SenderAssumption DEF Full
    <3> QED BY <1>1, <1>4, <2>1, <2>2, <3>1, <3>2, SenderAssumption
            DEF BoundedMemory
  <2> QED BY <2>3, <2>7, <2>8, <2>9, <2>10 DEF SenderInvariant
<1> QED BY <1>7, <1>8

\* handle_ack: one flight ends.
LEMMA AckStep ==
    ASSUME SenderInvariant, NEW m \in Messages, Acknowledge(m)
    PROVE  SenderInvariant'
<1>1. TypeOK /\ Accounting /\ RetryBudget /\ Ordered /\ BoundedMemory
  BY DEF SenderInvariant
<1>2. /\ m \in DOMAIN pending
      /\ pending' = [k \in DOMAIN pending \ {m} |-> pending[k]]
      /\ cwnd' = Increased(cwnd)
      /\ fate' = [fate EXCEPT ![m] = "acked"]
      /\ queue' = queue /\ outbox' = outbox /\ made' = made /\ sends' = sends
  BY DEF Acknowledge
<1>3. fate[m] = "flying" /\ sends[m] > 0 /\ sends[m] \in Nat
  BY <1>1, <1>2 DEF Accounting, TypeOK, Flight
<1>4. TypeOK'
  <2>1. cwnd' \in Unit .. MaxWindow * Unit
    BY <1>1, <1>2, IncreasedType DEF TypeOK
  <2>2. pending' \in [DOMAIN pending' -> Flight] /\ DOMAIN pending' \subseteq Messages
    BY <1>1, <1>2 DEF TypeOK
  <2> QED BY <1>1, <1>2, <2>1, <2>2 DEF TypeOK, Fates
<1>5. Accounting'
  BY <1>1, <1>2, <1>3 DEF Accounting, TypeOK, Members
<1>6. RetryBudget' /\ Ordered'
  BY <1>1, <1>2, <1>3 DEF RetryBudget, Ordered, TypeOK
<1>7. BoundedMemory'
  <2>1. DOMAIN pending' \in SUBSET (DOMAIN pending) /\ DOMAIN pending \in SUBSET Messages
    BY <1>1, <1>2 DEF TypeOK
  <2>2. /\ IsFiniteSet(DOMAIN pending) /\ Cardinality(DOMAIN pending) \in Nat
        /\ Cardinality(DOMAIN pending') \in Nat
    BY <2>1, FiniteMessages, SenderAssumption
  <2>3. Cardinality(DOMAIN pending') <= Cardinality(DOMAIN pending)
    BY <2>1, <2>2, FS_Subset
  <2>4. Len(queue) \in Nat
    BY <1>1, LenProperties DEF TypeOK
  <2> QED BY <1>1, <1>2, <2>2, <2>3, <2>4, SenderAssumption DEF BoundedMemory
<1> QED BY <1>4, <1>5, <1>6, <1>7 DEF SenderInvariant

\* The loop hands a packet to the transport.
LEMMA HandOverStep ==
    ASSUME SenderInvariant, NEW packet, HandOver(packet)
    PROVE  SenderInvariant'
<1>1. TypeOK'
  BY DEF SenderInvariant, HandOver, TypeOK
<1>2. Accounting' /\ RetryBudget' /\ Ordered' /\ BoundedMemory'
  BY DEF SenderInvariant, HandOver, Accounting, RetryBudget, Ordered,
         BoundedMemory, Members
<1> QED BY <1>1, <1>2 DEF SenderInvariant

\* Time passes: the flights only grow older.
LEMMA TickStep ==
    ASSUME SenderInvariant, Tick
    PROVE  SenderInvariant'
<1>1. /\ TypeOK /\ queue' = queue /\ cwnd' = cwnd /\ outbox' = outbox
      /\ made' = made /\ fate' = fate /\ sends' = sends
  BY DEF SenderInvariant, Tick
<1>2. DOMAIN pending' = DOMAIN pending
  BY DEF Tick
<1>3. \A m \in DOMAIN pending :
          /\ pending'[m] \in Flight
          /\ pending'[m].attempts = pending[m].attempts
  <2> TAKE m \in DOMAIN pending
  <2>1. pending[m] \in Flight
    BY <1>1 DEF TypeOK
  <2>2. pending'[m] = [pending[m] EXCEPT !.age =
                          Smaller(Timeout(MaxAttempts), pending[m].age + 1)]
    BY DEF Tick
  <2>3. Smaller(Timeout(MaxAttempts), pending[m].age + 1) \in Nat
    BY <2>1, TimeoutType DEF Smaller, Flight
  <2> QED BY <2>1, <2>2, <2>3 DEF Flight
<1>4. pending' \in [DOMAIN pending' -> Flight]
  BY <1>2, <1>3 DEF Tick
<1>5. TypeOK'
  BY <1>1, <1>2, <1>4 DEF TypeOK
<1>6. Accounting' /\ RetryBudget' /\ Ordered' /\ BoundedMemory'
  BY <1>1, <1>2, <1>3 DEF SenderInvariant, Accounting, RetryBudget, Ordered,
         BoundedMemory, Members
<1> QED BY <1>5, <1>6 DEF SenderInvariant

-----------------------------------------------------------------------------
(* The pump.                                                               *)

\* The parts of a pump: the flights it keeps, the congestion window it leaves,
\* and the queued messages it sends.
Kept == DOMAIN pending \ Exhausted

Slowed == Halved(cwnd, Cardinality(Expired))

AdmittedCount == Admissions(Cardinality(Kept), Window(Slowed))

Admitted == {queue[i] : i \in 1 .. AdmittedCount}

\* What pump finds: messages with retries left, messages with none, and the
\* front of the queue as far as the reduced window has room for it.
LEMMA PumpFinds ==
    ASSUME SenderInvariant
    PROVE  /\ Slowed \in Unit .. MaxWindow * Unit
           /\ Len(queue) \in Nat
           /\ AdmittedCount \in 0 .. Len(queue)
           /\ \A m \in Admitted :
                  m \in Messages /\ fate[m] = "queued" /\ sends[m] = 0
           /\ \A m \in DOMAIN pending :
                  /\ m \in Messages /\ fate[m] = "flying"
                  /\ sends[m] \in 1 .. MaxAttempts
                  /\ pending[m] \in Flight /\ pending[m].attempts = sends[m]
           /\ Exhausted \subseteq DOMAIN pending
           /\ Retried \subseteq Kept
           /\ \A m \in Exhausted : sends[m] = MaxAttempts
           /\ \A m \in Retried : sends[m] < MaxAttempts
<1>1. TypeOK /\ Accounting /\ RetryBudget /\ Ordered
  BY DEF SenderInvariant
<1>2. Expired \in SUBSET Messages /\ Exhausted \subseteq Expired
      /\ Expired \subseteq DOMAIN pending
  BY <1>1 DEF Expired, Exhausted, TypeOK
<1>3. Slowed \in Unit .. MaxWindow * Unit
  <2>1. Cardinality(Expired) \in 0 .. MaxMessages
    BY <1>2, FiniteMessages
  <2> QED BY <1>1, <2>1, HalvedType DEF Slowed, TypeOK
<1>4. Len(queue) \in Nat /\ \A i \in 1 .. Len(queue) : queue[i] \in Messages
  BY <1>1, LenProperties, ElementOfSeq DEF TypeOK
<1>5. Cardinality(Kept) \in Nat /\ Window(Slowed) \in Nat
  <2>1. Kept \in SUBSET Messages
    BY <1>1 DEF Kept, TypeOK
  <2> QED BY <1>3, <2>1, FiniteMessages, WindowBound, SenderAssumption
<1>6. AdmittedCount \in 0 .. Len(queue)
  BY <1>4, <1>5 DEF AdmittedCount, Admissions, Smaller, Larger
<1>7. \A m \in Admitted : m \in Messages /\ fate[m] = "queued" /\ sends[m] = 0
  <2> TAKE m \in Admitted
  <2>1. m \in Members(queue)
    BY <1>4, <1>6 DEF Admitted, Members
  <2> QED BY <1>1, <2>1 DEF Accounting, Ordered
<1>8. \A m \in DOMAIN pending :
          /\ m \in Messages /\ fate[m] = "flying"
          /\ sends[m] \in 1 .. MaxAttempts
          /\ pending[m] \in Flight /\ pending[m].attempts = sends[m]
  BY <1>1 DEF TypeOK, Accounting, Flight
<1>9. MaxAttempts \in Nat
  BY SenderAssumption DEF MaxAttempts
<1>10. \A m \in Exhausted : sends[m] = MaxAttempts
  BY <1>2, <1>8, <1>9 DEF Exhausted
<1>11. \A m \in Retried : sends[m] < MaxAttempts
  BY <1>2, <1>8, <1>9 DEF Retried, Exhausted
<1>12. Retried \subseteq Kept /\ Exhausted \subseteq DOMAIN pending
  BY <1>2 DEF Retried, Kept
<1> QED BY <1>3, <1>4, <1>6, <1>7, <1>8, <1>10, <1>11, <1>12

\* How many flights there are after a pump: no more than were kept and sent,
\* and if any was sent, no more than the window.
LEMMA PumpCounts ==
    ASSUME SenderInvariant
    PROVE  /\ Cardinality(Kept) \in Nat
           /\ Cardinality(Kept) <= Cardinality(DOMAIN pending)
           /\ Cardinality(DOMAIN pending) \in Nat
           /\ Cardinality(Kept \cup Admitted) \in Nat
           /\ Cardinality(Kept \cup Admitted) <= Cardinality(Kept) + AdmittedCount
           /\ AdmittedCount > 0 =>
                  Cardinality(Kept) + AdmittedCount <= Window(Slowed)
<1>1. /\ DOMAIN pending \in SUBSET Messages /\ Kept \in SUBSET DOMAIN pending
      /\ Admitted \in SUBSET Messages /\ Kept \in SUBSET Messages
      /\ Kept \cup Admitted \in SUBSET Messages
      /\ Kept \cap Admitted \in SUBSET Messages
  BY PumpFinds DEF Kept
<1>2. /\ IsFiniteSet(DOMAIN pending) /\ Cardinality(DOMAIN pending) \in Nat
      /\ IsFiniteSet(Kept) /\ Cardinality(Kept) \in Nat
      /\ IsFiniteSet(Admitted) /\ Cardinality(Admitted) \in Nat
      /\ Cardinality(Kept \cup Admitted) \in Nat
      /\ Cardinality(Kept \cap Admitted) \in Nat
  BY <1>1, FiniteMessages, SenderAssumption
<1>3. Cardinality(Kept) <= Cardinality(DOMAIN pending)
  BY <1>1, <1>2, FS_Subset
<1>4. Cardinality(Admitted) <= AdmittedCount
  BY PumpFinds, PrefixSize DEF Admitted, SenderInvariant, TypeOK
<1>5. Cardinality(Kept \cup Admitted) =
          Cardinality(Kept) + Cardinality(Admitted) - Cardinality(Kept \cap Admitted)
  BY <1>2, FS_Union
<1>6. AdmittedCount \in Nat /\ Window(Slowed) \in Nat /\ Len(queue) \in Nat
  BY PumpFinds, WindowBound, SenderAssumption
<1>7. AdmittedCount > 0 => Cardinality(Kept) + AdmittedCount <= Window(Slowed)
  BY <1>2, <1>6 DEF AdmittedCount, Admissions, Smaller, Larger
<1> QED BY <1>2, <1>3, <1>4, <1>5, <1>6, <1>7

\* What pump does, in terms of its parts.
LEMMA PumpDoes ==
    ASSUME Pump
    PROVE  /\ cwnd' = Slowed /\ made' = made
           /\ queue' = SubSeq(queue, AdmittedCount + 1, Len(queue))
           /\ pending' = [m \in Kept \cup Admitted |->
                             IF m \in Admitted THEN [attempts |-> 1, age |-> 0]
                             ELSE IF m \in Retried
                             THEN [attempts |-> pending[m].attempts + 1, age |-> 0]
                             ELSE pending[m]]
           /\ outbox' = {<<m, pending'[m].attempts>> : m \in Retried \cup Admitted}
           /\ fate' = [m \in Messages |->
                          CASE m \in Exhausted -> "exhausted"
                            [] m \in Admitted  -> "flying"
                            [] OTHER           -> fate[m]]
           /\ sends' = [m \in Messages |->
                           IF m \in Retried \cup Admitted
                           THEN sends[m] + 1 ELSE sends[m]]
  BY DEF Pump, Kept, Slowed, AdmittedCount, Admitted

\* What pump leaves of queue and flights.
LEMMA PumpLeaves ==
    ASSUME SenderInvariant, Pump
    PROVE  /\ queue' \in Seq(Messages) /\ Len(queue') = Len(queue) - AdmittedCount
           /\ \A i \in 1 .. Len(queue') : queue'[i] = queue[AdmittedCount + i]
           /\ DOMAIN pending' = Kept \cup Admitted
           /\ \A m \in Admitted : pending'[m] = [attempts |-> 1, age |-> 0]
           /\ \A m \in Retried \ Admitted :
                  pending'[m] = [attempts |-> pending[m].attempts + 1, age |-> 0]
           /\ \A m \in (Kept \ Retried) \ Admitted : pending'[m] = pending[m]
           /\ Admitted \cap DOMAIN pending = {} /\ Kept \subseteq DOMAIN pending
           /\ Kept \cap Exhausted = {} /\ Retried \cap Exhausted = {}
<1> DEFINE n == AdmittedCount
<1>1. n \in 0 .. Len(queue) /\ Len(queue) \in Nat
      /\ \A i \in 1 .. Len(queue) : queue[i] \in Messages
  BY PumpFinds, ElementOfSeq DEF SenderInvariant, TypeOK
<1>2. /\ queue' \in Seq(Messages) /\ Len(queue') = Len(queue) - n
      /\ \A i \in 1 .. Len(queue') : queue'[i] = queue[n + i]
  <2>1. \A i \in n + 1 .. Len(queue) : queue[i] \in Messages
    BY <1>1
  <2>2. /\ SubSeq(queue, n + 1, Len(queue)) \in Seq(Messages)
        /\ Len(SubSeq(queue, n + 1, Len(queue))) =
               IF n + 1 <= Len(queue) THEN Len(queue) - (n + 1) + 1 ELSE 0
        /\ \A i \in 1 .. Len(queue) - (n + 1) + 1 :
               SubSeq(queue, n + 1, Len(queue))[i] = queue[n + 1 + i - 1]
    BY <1>1, <2>1, SubSeqProperties
  <2>3. queue' = SubSeq(queue, n + 1, Len(queue))
    BY PumpDoes
  <2> HIDE DEF n
  <2> QED BY <1>1, <2>2, <2>3
<1>3. /\ DOMAIN pending' = Kept \cup Admitted
      /\ \A m \in Admitted : pending'[m] = [attempts |-> 1, age |-> 0]
      /\ \A m \in Retried \ Admitted :
             pending'[m] = [attempts |-> pending[m].attempts + 1, age |-> 0]
      /\ \A m \in (Kept \ Retried) \ Admitted : pending'[m] = pending[m]
  BY PumpDoes, PumpFinds
<1>4. Admitted \cap DOMAIN pending = {} /\ Kept \subseteq DOMAIN pending
      /\ Kept \cap Exhausted = {} /\ Retried \cap Exhausted = {}
  BY PumpFinds DEF Kept, Retried
<1> QED BY <1>2, <1>3, <1>4

\* pump: flights are given up or sent again, and the front of the queue flies.
LEMMA PumpStep ==
    ASSUME SenderInvariant, Pump
    PROVE  SenderInvariant'
<1> DEFINE n == AdmittedCount
<1>1. TypeOK /\ Accounting /\ RetryBudget /\ Ordered /\ BoundedMemory
  BY DEF SenderInvariant
<1>2. MaxAttempts = MaxRetries + 1 /\ MaxRetries \in Nat
  BY SenderAssumption DEF MaxAttempts
<1>3. n \in 0 .. Len(queue) /\ Len(queue) \in Nat
      /\ \A i \in 1 .. Len(queue) : queue[i] \in Messages
  BY <1>1, PumpFinds, ElementOfSeq DEF TypeOK
<1>4. /\ queue' \in Seq(Messages) /\ Len(queue') = Len(queue) - n
      /\ \A i \in 1 .. Len(queue') : queue'[i] = queue[n + i]
  BY PumpLeaves
<1>5. Members(queue') = Members(queue) \ Admitted
  <2> HIDE DEF n
  <2>1. ASSUME NEW x \in Members(queue') PROVE x \in Members(queue) \ Admitted
    <3>1. PICK i \in 1 .. Len(queue') : x = queue[n + i]
      BY <1>4 DEF Members
    <3>2. n + i \in 1 .. Len(queue)
      BY <1>3, <1>4
    <3>3. \A j \in 1 .. n : queue[j] # queue[n + i]
      BY <1>1, <1>3, <3>2 DEF Accounting
    <3> QED BY <3>1, <3>2, <3>3 DEF Members, Admitted, n
  <2>2. ASSUME NEW x \in Members(queue) \ Admitted PROVE x \in Members(queue')
    <3>1. PICK i \in 1 .. Len(queue) : x = queue[i]
      BY DEF Members
    <3>2. i \notin 1 .. n
      BY <3>1, <2>2 DEF Admitted, n
    <3>3. i - n \in 1 .. Len(queue') /\ n + (i - n) = i
      BY <1>3, <1>4, <3>2
    <3>4. queue'[i - n] = x
      BY <1>4, <3>1, <3>3
    <3> QED BY <3>3, <3>4 DEF Members
  <2> QED BY <2>1, <2>2
<1>6. /\ DOMAIN pending' = Kept \cup Admitted
      /\ \A m \in Admitted : pending'[m] = [attempts |-> 1, age |-> 0]
      /\ \A m \in Retried \ Admitted :
             pending'[m] = [attempts |-> pending[m].attempts + 1, age |-> 0]
      /\ \A m \in (Kept \ Retried) \ Admitted : pending'[m] = pending[m]
  BY PumpLeaves
<1>7. Admitted \cap DOMAIN pending = {} /\ Kept \subseteq DOMAIN pending
      /\ Kept \cap Exhausted = {} /\ Retried \cap Exhausted = {}
  BY PumpLeaves
<1>8. \A m \in Messages :
          /\ m \in Exhausted => fate'[m] = "exhausted"
          /\ m \in Admitted => fate'[m] = "flying"
          /\ m \notin Exhausted \cup Admitted => fate'[m] = fate[m]
  BY <1>7, PumpDoes, PumpFinds
<1>9. \A m \in Messages :
          /\ m \in Retried \cup Admitted => sends'[m] = sends[m] + 1
          /\ m \notin Retried \cup Admitted => sends'[m] = sends[m]
  BY PumpDoes
<1>10. \A m \in Kept \cup Admitted :
           pending'[m] \in Flight /\ pending'[m].attempts = sends'[m]
  <2> TAKE m \in Kept \cup Admitted
  <2>1. CASE m \in Admitted
    BY <1>2, <1>6, <1>9, <2>1, PumpFinds DEF Flight
  <2>2. CASE m \in Retried \ Admitted
    <3>1. pending[m].attempts + 1 \in 1 .. MaxAttempts
      BY <1>2, <1>7, <2>2, PumpFinds
    <3>2. pending'[m] = [attempts |-> pending[m].attempts + 1, age |-> 0]
      BY <1>6, <2>2
    <3>3. m \in Messages /\ sends'[m] = sends[m] + 1
          /\ pending[m].attempts = sends[m]
      BY <1>7, <1>9, <2>2, PumpFinds
    <3> QED BY <3>1, <3>2, <3>3 DEF Flight
  <2>3. CASE m \in (Kept \ Retried) \ Admitted
    BY <1>6, <1>7, <1>9, <2>3, PumpFinds
  <2> QED BY <2>1, <2>2, <2>3
<1>11. TypeOK'
  <2>1. DOMAIN pending' \subseteq Messages
    BY <1>6, <1>7, PumpFinds
  <2>2. pending' \in [DOMAIN pending' -> Flight]
    BY <1>6, <1>10, PumpDoes
  <2>3. cwnd' \in Unit .. MaxWindow * Unit
    BY PumpDoes, PumpFinds
  <2>4. outbox' \subseteq Messages \X (1 .. MaxAttempts)
    <3>1. \A m \in Retried \cup Admitted :
              m \in Messages /\ pending'[m].attempts \in 1 .. MaxAttempts
      BY <1>7, <1>10, PumpFinds DEF Flight
    <3> QED BY <3>1, PumpDoes
  <2>5. fate' \in [Messages -> Fates]
    <3>1. \A m \in Messages : fate'[m] \in Fates
      BY <1>1, <1>8 DEF TypeOK, Fates
    <3> QED BY <3>1, PumpDoes
  <2>6. sends' \in [Messages -> 0 .. MaxAttempts]
    <3>1. \A m \in Messages : sends'[m] \in 0 .. MaxAttempts
      BY <1>1, <1>2, <1>7, <1>9, PumpFinds DEF TypeOK
    <3> QED BY <3>1, PumpDoes
  <2>7. made' \in 0 .. MaxMessages
    BY <1>1, PumpDoes DEF TypeOK
  <2> QED BY <1>4, <2>1, <2>2, <2>3, <2>4, <2>5, <2>6, <2>7 DEF TypeOK
<1>12. Accounting'
  <2>1. Members(queue)' = {m \in Messages : fate'[m] = "queued"}
    <3>1. Members(queue) = {m \in Messages : fate[m] = "queued"}
      BY <1>1 DEF Accounting
    <3>2. \A m \in Messages : fate'[m] = "queued" <=>
              fate[m] = "queued" /\ m \notin Admitted
      BY <1>8, PumpFinds
    <3> QED BY <1>5, <3>1, <3>2 DEF Members
  <2>2. \A i, j \in 1 .. Len(queue') : i # j => queue'[i] # queue'[j]
    <3> HIDE DEF n
    <3> TAKE i, j \in 1 .. Len(queue')
    <3>1. n + i \in 1 .. Len(queue) /\ n + j \in 1 .. Len(queue)
          /\ (i # j => n + i # n + j)
      BY <1>3, <1>4
    <3> QED BY <1>1, <1>4, <3>1 DEF Accounting
  <2>3. DOMAIN pending' = {m \in Messages : fate'[m] = "flying"}
    <3>1. DOMAIN pending = {m \in Messages : fate[m] = "flying"}
      BY <1>1 DEF Accounting
    <3>2. \A m \in Messages : fate'[m] = "flying" <=>
              m \in Admitted \/ (fate[m] = "flying" /\ m \notin Exhausted)
      BY <1>7, <1>8, PumpFinds
    <3> QED BY <1>6, <3>1, <3>2, PumpFinds DEF Kept
  <2>4. \A m \in Messages : fate'[m] = "none" <=> m > made'
    <3>1. \A m \in Messages : fate'[m] = "none" <=> fate[m] = "none"
      BY <1>8, PumpFinds
    <3> QED BY <1>1, <3>1, PumpDoes DEF Accounting
  <2> QED BY <1>6, <1>10, <2>1, <2>2, <2>3, <2>4 DEF Accounting
<1>13. RetryBudget'
  <2>1. SUFFICES ASSUME NEW m \in Messages
                 PROVE  /\ sends'[m] <= MaxRetries + 1
                        /\ fate'[m] = "exhausted" => sends'[m] = MaxRetries + 1
                        /\ fate'[m] = "acked" => sends'[m] > 0
    BY DEF RetryBudget
  <2>2. sends'[m] \in 0 .. MaxAttempts /\ sends[m] \in 0 .. MaxAttempts
    BY <1>1, <1>11 DEF TypeOK
  <2>3. CASE m \in Exhausted
    BY <1>2, <1>7, <1>8, <1>9, <2>2, <2>3, PumpFinds
  <2>4. CASE m \in Retried \cup Admitted
    <3>1. fate'[m] = "flying"
      BY <1>7, <1>8, <2>4, PumpFinds
    <3> QED BY <1>2, <2>2, <3>1
  <2>5. CASE m \notin Exhausted \cup Retried \cup Admitted
    BY <1>1, <1>8, <1>9, <2>5 DEF RetryBudget
  <2> QED BY <2>3, <2>4, <2>5
<1>14. Ordered'
  <2> HIDE DEF n
  <2>1. \A i, j \in 1 .. Len(queue') : i < j => queue'[i] < queue'[j]
    <3> TAKE i, j \in 1 .. Len(queue')
    <3>1. n + i \in 1 .. Len(queue) /\ n + j \in 1 .. Len(queue)
          /\ (i < j => n + i < n + j)
      BY <1>3, <1>4
    <3> QED BY <1>1, <1>4, <3>1 DEF Ordered
  <2>2. \A m \in Messages, i \in 1 .. Len(queue') : sends'[m] > 0 => m < queue'[i]
    <3> SUFFICES ASSUME NEW m \in Messages, NEW i \in 1 .. Len(queue'),
                        sends'[m] > 0
                 PROVE  m < queue'[i]
      OBVIOUS
    <3>1. n + i \in 1 .. Len(queue) /\ queue'[i] = queue[n + i]
      BY <1>3, <1>4
    <3>2. CASE m \in Admitted
      <4>1. PICK j \in 1 .. n : m = queue[j]
        BY <3>2 DEF Admitted, n
      <4>2. j \in 1 .. Len(queue) /\ j < n + i
        BY <1>3, <3>1
      <4> QED BY <1>1, <3>1, <4>1, <4>2 DEF Ordered
    <3>3. CASE m \notin Admitted
      <4>1. sends[m] > 0
        BY <1>1, <1>7, <1>9, <3>3, PumpFinds DEF TypeOK
      <4> QED BY <1>1, <3>1, <4>1 DEF Ordered
    <3> QED BY <3>2, <3>3
  <2>3. \A m \in Messages :
            sends'[m] = 0 <=> fate'[m] \in {"none", "refused", "queued"}
    <3> TAKE m \in Messages
    <3>1. sends[m] \in Nat
      BY <1>1 DEF TypeOK
    <3>2. CASE m \in Retried \cup Admitted
      BY <1>7, <1>8, <1>9, <3>1, <3>2, PumpFinds
    <3>3. CASE m \in Exhausted
      BY <1>7, <1>8, <1>9, <3>1, <3>3, PumpFinds
    <3>4. CASE m \notin Exhausted \cup Retried \cup Admitted
      BY <1>1, <1>8, <1>9, <3>4 DEF Ordered
    <3> QED BY <3>2, <3>3, <3>4
  <2> QED BY <2>1, <2>2, <2>3 DEF Ordered
<1>15. BoundedMemory'
  <2> HIDE DEF n
  <2>1. Window(Slowed) \in 1 .. MaxWindow /\ MaxWindow \in Nat /\ MaxPending \in Nat
    BY PumpFinds, WindowBound, SenderAssumption
  <2>2. /\ Cardinality(Kept) \in Nat /\ Cardinality(DOMAIN pending) \in Nat
        /\ Cardinality(Kept \cup Admitted) \in Nat
        /\ Cardinality(Kept) <= Cardinality(DOMAIN pending)
        /\ Cardinality(Kept \cup Admitted) <= Cardinality(Kept) + n
        /\ n > 0 => Cardinality(Kept) + n <= Window(Slowed)
    BY PumpCounts DEF n
  <2>3. Len(queue') + Cardinality(Kept \cup Admitted) <= MaxPending
    BY <1>1, <1>3, <1>4, <2>1, <2>2 DEF BoundedMemory
  <2>4. Cardinality(Kept \cup Admitted) <= MaxWindow
    BY <1>1, <1>3, <2>1, <2>2 DEF BoundedMemory
  <2> QED BY <1>6, <2>3, <2>4 DEF BoundedMemory
<1> QED BY <1>11, <1>12, <1>13, <1>14, <1>15 DEF SenderInvariant

-----------------------------------------------------------------------------
(* Theorems.                                                               *)

\* Every step of the sender and of the loop that drives it preserves the
\* invariant.
LEMMA StepInvariant ==
    SenderInvariant /\ [Next]_vars => SenderInvariant'
<1> SUFFICES ASSUME SenderInvariant, [Next]_vars PROVE SenderInvariant'
  OBVIOUS
<1>1. CASE SendData
  BY <1>1, SendDataStep
<1>2. CASE \E m \in Messages : AckArrives(m)
  BY <1>2, AckStep DEF AckArrives
<1>3. CASE Pump
  BY <1>3, PumpStep
<1>4. CASE \E packet \in outbox : HandOver(packet)
  BY <1>4, HandOverStep
<1>5. CASE Tick
  BY <1>5, TickStep
<1>6. CASE UNCHANGED vars
  BY <1>6 DEF vars, SenderInvariant, TypeOK, Accounting, RetryBudget, Ordered,
              BoundedMemory, Members
<1> QED BY <1>1, <1>2, <1>3, <1>4, <1>5, <1>6 DEF Next

\* The inductive invariant of the sender, for all its parameters.
THEOREM SenderInvariance == Spec => []SenderInvariant
<1> QED BY InitInvariant, StepInvariant, PTL DEF Spec

\* Types, and with them the range of the congestion window: AIMD never takes
\* it below one message nor above max_window.
THEOREM SenderTypes == Spec => []TypeOK
<1>1. SenderInvariant => TypeOK
  BY DEF SenderInvariant
<1> QED BY <1>1, SenderInvariance, PTL

\* No message is lost, kept twice or brought back between enqueue, pump and
\* acknowledge.
THEOREM NothingLost == Spec => []Accounting
<1>1. SenderInvariant => Accounting
  BY DEF SenderInvariant
<1> QED BY <1>1, SenderInvariance, PTL

\* pump sends a message max_retries + 1 times before it gives it up, and never
\* more often.
THEOREM ExactRetries == Spec => []RetryBudget
<1>1. SenderInvariant => RetryBudget
  BY DEF SenderInvariant
<1> QED BY <1>1, SenderInvariance, PTL

\* The queue and the flight table stay within max_pending_messages, and the
\* flight table within max_window.
THEOREM Bounded == Spec => []BoundedMemory
<1>1. SenderInvariant => BoundedMemory
  BY DEF SenderInvariant
<1> QED BY <1>1, SenderInvariance, PTL

\* pump sends messages for the first time in the order send_data built them.
THEOREM InOrder == Spec => []SentInOrder
<1>1. SenderInvariant => SentInOrder
  <2> SUFFICES ASSUME SenderInvariant,
                      NEW m \in Messages, NEW k \in Messages,
                      m < k, sends[k] > 0, fate[m] = "queued"
               PROVE  FALSE
    BY DEF SentInOrder
  <2>1. PICK i \in 1 .. Len(queue) : m = queue[i]
    BY DEF SenderInvariant, Accounting, Members
  <2>2. k < m
    BY <2>1 DEF SenderInvariant, Ordered
  <2> QED BY <2>2 DEF Messages
<1> QED BY <1>1, SenderInvariance, PTL

\* What a step may do to the number of sends: only pump changes it.
LEMMA OnlyPumpSends ==
    ASSUME [Next]_vars, ~Pump
    PROVE  sends' = sends
  BY DEF Next, vars, SendData, AckArrives, Acknowledge, HandOver, Tick

\* pump never sends a new message above the congestion window it has itself
\* reduced.
THEOREM WindowRespected == Spec => WindowGates
<1> DEFINE Gate == \A m \in Messages :
               sends[m] = 0 /\ sends'[m] = 1 =>
                   Cardinality(DOMAIN pending') <= Window(cwnd')
<1>1. SenderInvariant /\ [Next]_vars => Gate
  <2> SUFFICES ASSUME SenderInvariant, [Next]_vars, NEW m \in Messages,
                      sends[m] = 0, sends'[m] = 1
               PROVE  Cardinality(DOMAIN pending') <= Window(cwnd')
    OBVIOUS
  <2>1. Pump
    BY OnlyPumpSends
  <2>2. m \in Admitted
    <3>1. m \in Retried \cup Admitted
      BY <2>1, PumpDoes
    <3>2. m \notin Retried
      BY PumpFinds DEF Kept
    <3> QED BY <3>1, <3>2
  <2>3. AdmittedCount > 0
    BY <2>2, PumpFinds DEF Admitted
  <2>4. DOMAIN pending' = Kept \cup Admitted /\ cwnd' = Slowed
    BY <2>1, PumpDoes
  <2>5. Window(Slowed) \in Nat /\ AdmittedCount \in Nat
    BY PumpFinds, WindowBound, SenderAssumption
  <2> QED BY <2>3, <2>4, <2>5, PumpCounts
<1>2. SenderInvariant /\ [Next]_vars => [Gate]_vars
  BY <1>1
<1> QED BY <1>2, SenderInvariance, PTL DEF Spec, WindowGates

\* A message acknowledged, given up or refused keeps its fate and is never
\* sent again: late and duplicate ACKs find no entry, pump no flight.
THEOREM SettledForEver == Spec => SettledIsFinal
<1> DEFINE Final == \A m \in Messages :
               fate[m] \in {"acked", "exhausted", "refused"} =>
                   fate'[m] = fate[m] /\ sends'[m] = sends[m]
<1>1. SenderInvariant /\ [Next]_vars => Final
  <2> SUFFICES ASSUME SenderInvariant, [Next]_vars, NEW m \in Messages,
                      fate[m] \in {"acked", "exhausted", "refused"}
               PROVE  fate'[m] = fate[m] /\ sends'[m] = sends[m]
    OBVIOUS
  <2>1. TypeOK /\ Accounting
    BY DEF SenderInvariant
  <2>2. CASE SendData
    <3>1. made + 1 # m
      BY <2>1, <2>2 DEF Accounting, TypeOK, SendData, Messages
    <3> QED BY <2>1, <2>2, <3>1 DEF SendData, TypeOK
  <2>3. CASE \E k \in Messages : AckArrives(k)
    <3>1. PICK k \in Messages : AckArrives(k)
      BY <2>3
    <3>2. fate[k] = "flying"
      BY <2>1, <3>1 DEF Accounting, AckArrives, Acknowledge
    <3> QED BY <2>1, <3>1, <3>2 DEF AckArrives, Acknowledge, TypeOK
  <2>4. CASE Pump
    <3>1. m \notin Exhausted /\ m \notin Retried /\ m \notin Admitted
      BY PumpFinds DEF Kept
    <3> QED BY <2>4, <3>1, PumpDoes
  <2>5. CASE (\E packet \in outbox : HandOver(packet)) \/ Tick \/ UNCHANGED vars
    BY <2>5 DEF HandOver, Tick, vars
  <2> QED BY <2>2, <2>3, <2>4, <2>5 DEF Next
<1>2. SenderInvariant /\ [Next]_vars => [Final]_vars
  BY <1>1
<1> QED BY <1>2, SenderInvariance, PTL DEF Spec, SettledIsFinal

-----------------------------------------------------------------------------
(* The sender implements the channel.                                      *)

\* What a step leaves of the settled messages when it settles none.
LEMMA SameSettled ==
    ASSUME NEW how \in {"acked", "exhausted"},
           \A m \in Messages : fate'[m] = how <=> fate[m] = how
    PROVE  Settled(how)' = Settled(how)
  BY DEF Settled

\* send_data offers a message to the channel, which is full when enqueue says so.
LEMMA SendDataOffers ==
    ASSUME SenderInvariant, SendData
    PROVE  Channel!Offer
<1>1. TypeOK /\ made + 1 \in Messages /\ made \in Nat /\ fate[made + 1] = "none"
  <2>1. TypeOK /\ Accounting
    BY DEF SenderInvariant
  <2>2. made + 1 \in Messages /\ made \in Nat
    BY <2>1, SenderAssumption DEF TypeOK, SendData, Messages
  <2> QED BY <2>1, <2>2 DEF Accounting
<1>2. \A m \in Messages : \A how \in {"acked", "exhausted"} :
          fate'[m] = how <=> fate[m] = how
  BY <1>1 DEF SendData, TypeOK
<1>3. /\ Settled("acked")' = Settled("acked")
      /\ Settled("exhausted")' = Settled("exhausted")
  BY <1>2, SameSettled
<1>4. /\ Len(queue) \in Nat /\ Cardinality(DOMAIN pending) \in Nat
      /\ MaxPending \in Nat
  BY <1>1, PumpCounts, LenProperties, SenderAssumption DEF TypeOK
<1>5. ~Full <=> Len(queue) + Cardinality(DOMAIN pending) < MaxPending
  BY <1>4 DEF Full
<1>6. queue' = IF Len(queue) + Cardinality(DOMAIN pending) < MaxPending
               THEN Append(queue, made + 1) ELSE queue
  BY <1>5 DEF SendData, Enqueued
<1>7. Channel!Cardinality(DOMAIN pending) = Cardinality(DOMAIN pending)
  BY DEF Channel!Cardinality, Cardinality
<1> QED BY <1>3, <1>6, <1>7 DEF SendData, Channel!Offer

\* The ACK of a flight tells the channel that its message arrived.
LEMMA AckSettles ==
    ASSUME SenderInvariant, NEW m \in Messages, AckArrives(m)
    PROVE  m \in DOMAIN pending /\ Channel!Arrives(m)
<1>1. /\ TypeOK /\ m \in DOMAIN pending /\ fate[m] = "flying"
      /\ fate' = [fate EXCEPT ![m] = "acked"]
      /\ DOMAIN pending' = DOMAIN pending \ {m}
      /\ queue' = queue /\ made' = made
  BY DEF SenderInvariant, Accounting, AckArrives, Acknowledge
<1>2. Settled("exhausted")' = Settled("exhausted")
  BY <1>1 DEF Settled, TypeOK
<1>3. Settled("acked")' = Settled("acked") \cup {m}
  BY <1>1 DEF Settled, TypeOK
<1> QED BY <1>1, <1>2, <1>3 DEF Channel!Arrives

\* A pump is one turn of the channel: it gives up what is exhausted and takes
\* what the window admits; retransmissions do not show.
LEMMA PumpTurns ==
    ASSUME SenderInvariant, Pump
    PROVE  Channel!Turn(Exhausted, AdmittedCount)
<1>1. DOMAIN pending' = (DOMAIN pending \ Exhausted) \cup Admitted
  BY PumpDoes DEF Kept
<1>2. \A m \in Exhausted : m \in Messages /\ fate[m] = "flying"
  BY PumpFinds
<1>3. \A m \in Admitted : fate[m] = "queued"
  BY PumpFinds
<1>4. \A m \in Messages :
          /\ m \in Exhausted => fate'[m] = "exhausted"
          /\ m \in Admitted => fate'[m] = "flying"
          /\ m \notin Exhausted \cup Admitted => fate'[m] = fate[m]
  BY <1>2, <1>3, PumpDoes
<1>5. Settled("exhausted")' = Settled("exhausted") \cup Exhausted
  BY <1>2, <1>3, <1>4 DEF Settled
<1>6. Settled("acked")' = Settled("acked")
  BY <1>2, <1>3, <1>4 DEF Settled
<1> QED BY <1>1, <1>5, <1>6, PumpDoes DEF Channel!Turn, Admitted

\* Queue, flight table, back-off and congestion window, pumped by one thread
\* and acknowledged by another, implement the bounded channel in offered order:
\* what the application may rely on whatever is lost or late.
THEOREM SenderImplementsChannel == Spec => ImplementsChannel
<1>1. Init => Channel!Init
  <2> SUFFICES ASSUME Init PROVE Channel!Init
    OBVIOUS
  <2>1. DOMAIN pending = {} /\ queue = <<>> /\ made = 0
    BY DEF Init
  <2>2. Settled("acked") = {} /\ Settled("exhausted") = {}
    BY DEF Init, Settled
  <2> QED BY <2>1, <2>2 DEF Channel!Init
<1>2. SenderInvariant /\ [Next]_vars => [Channel!Next]_(Channel!vars)
  <2> SUFFICES ASSUME SenderInvariant, [Next]_vars
               PROVE  [Channel!Next]_(Channel!vars)
    OBVIOUS
  <2>1. CASE SendData
    BY <2>1, SendDataOffers DEF Channel!Next
  <2>2. CASE \E m \in Messages : AckArrives(m)
    BY <2>2, AckSettles DEF Channel!Next
  <2>3. CASE Pump
    <3>1. Exhausted \in SUBSET DOMAIN pending /\ AdmittedCount \in 0 .. Len(queue)
      BY PumpFinds
    <3>2. Channel!Turn(Exhausted, AdmittedCount)
      BY <2>3, PumpTurns
    <3> QED BY <3>1, <3>2 DEF Channel!Next
  <2>4. CASE (\E packet \in outbox : HandOver(packet)) \/ Tick \/ UNCHANGED vars
    <3>1. /\ queue' = queue /\ made' = made /\ fate' = fate
          /\ DOMAIN pending' = DOMAIN pending
      BY <2>4 DEF HandOver, Tick, vars
    <3>2. /\ Settled("acked")' = Settled("acked")
          /\ Settled("exhausted")' = Settled("exhausted")
      BY <3>1 DEF Settled
    <3> QED BY <3>1, <3>2 DEF Channel!vars
  <2> QED BY <2>1, <2>2, <2>3, <2>4 DEF Next
<1> QED BY <1>1, <1>2, SenderInvariance, PTL DEF Spec, ImplementsChannel, Channel!Spec

-----------------------------------------------------------------------------
(* The time that attempts take.                                            *)

\* A set of natural numbers has a least element.
LEMMA LeastExists ==
    ASSUME NEW T \in SUBSET Nat, T # {}
    PROVE  \E x \in T : \A y \in T : x <= y
<1>1. PICK x \in T : \A y \in T : ~ (<<y, x>> \in OpToRel(<, Nat))
  BY WFMin, NatLessThanWellFounded
<1>2. \A y \in T : ~ (y < x)
  BY <1>1 DEF OpToRel
<1> QED BY <1>2

\* A timeout takes time.
LEMMA TimeoutTakesTime == \A n \in 1 .. MaxAttempts : Timeout(n) \in Nat \ {0}
<1> TAKE n \in 1 .. MaxAttempts
<1> DEFINE p == 2 ^ (n - 1)
<1>1. n - 1 \in 0 .. MaxMessages + MaxRetries
  BY SenderAssumption DEF MaxAttempts
<1>2. p \in Nat \ {0}
  BY <1>1, PowersOfTwo
<1>3. Timeout(n) = RTO * Smaller(p, 16)
  BY DEF Timeout
<1> HIDE DEF p
<1>4. Smaller(p, 16) \in Nat \ {0}
  BY <1>2 DEF Smaller
<1> QED BY <1>3, <1>4, SenderAssumption

\* Elapsed satisfies its recursive definition: if there were a first number of
\* attempts without a function of that kind, one more value would extend the
\* function for the number before.
LEMMA ElapsedIs ==
    /\ Elapsed[0] = 0
    /\ \A n \in 1 .. MaxAttempts : Elapsed[n] = Elapsed[n - 1] + Timeout(n)
<1> DEFINE Sums(f, n) ==
               f = [i \in 0 .. n |-> IF i = 0 THEN 0 ELSE f[i - 1] + Timeout(i)]
           without == {n \in 0 .. MaxAttempts : ~ \E f : Sums(f, n)}
<1>1. MaxAttempts \in Nat
  BY SenderAssumption DEF MaxAttempts
<1>2. \E f : Sums(f, 0)
  <2>1. Sums([i \in 0 .. 0 |-> 0], 0)
    OBVIOUS
  <2> QED BY <2>1
<1>3. ASSUME NEW n \in 1 .. MaxAttempts, NEW f, Sums(f, n - 1)
      PROVE  \E g : Sums(g, n)
  <2> DEFINE g == [i \in 0 .. n |-> IF i = n THEN f[n - 1] + Timeout(n) ELSE f[i]]
  <2>1. \A i \in 0 .. n - 1 : f[i] = IF i = 0 THEN 0 ELSE f[i - 1] + Timeout(i)
    BY <1>3
  <2>2. ASSUME NEW i \in 0 .. n
        PROVE  g[i] = IF i = 0 THEN 0 ELSE g[i - 1] + Timeout(i)
    <3>1. CASE i = n
      <4>1. g[i] = f[n - 1] + Timeout(n) /\ i # 0
        BY <3>1
      <4>2. n - 1 \in 0 .. n /\ n - 1 # n
        OBVIOUS
      <4>3. g[n - 1] = f[n - 1]
        BY <4>2
      <4> QED BY <3>1, <4>1, <4>3
    <3>2. CASE i # n /\ i # 0
      <4>1. i \in 0 .. n - 1 /\ i - 1 \in 0 .. n /\ i - 1 # n
        BY <3>2
      <4>2. g[i] = f[i] /\ g[i - 1] = f[i - 1]
        BY <3>2, <4>1
      <4> QED BY <2>1, <3>2, <4>1, <4>2
    <3>3. CASE i # n /\ i = 0
      <4>1. i \in 0 .. n - 1 /\ g[i] = f[i]
        BY <3>3
      <4> QED BY <2>1, <3>3, <4>1
    <3> QED BY <3>1, <3>2, <3>3
  <2>3. g = [i \in 0 .. n |-> IF i = 0 THEN 0 ELSE g[i - 1] + Timeout(i)]
    <3>1. g = [i \in 0 .. n |-> g[i]]
      OBVIOUS
    <3> HIDE DEF g
    <3> QED BY <2>2, <3>1
  <2>4. Sums(g, n)
    BY <2>3
  <2> QED BY <2>4
<1> HIDE DEF Sums
<1>4. without = {}
  <2>1. SUFFICES ASSUME without # {} PROVE FALSE
    OBVIOUS
  <2>2. PICK x \in without : \A y \in without : x <= y
    <3>1. without \in SUBSET Nat
      BY <1>1
    <3> HIDE DEF without
    <3> QED BY <2>1, <3>1, LeastExists
  <2>3. x \in 1 .. MaxAttempts
    BY <1>1, <1>2
  <2>4. x - 1 \in 0 .. MaxAttempts /\ ~(x <= x - 1)
    BY <1>1, <2>3
  <2>5. \E f : Sums(f, x - 1)
    BY <2>2, <2>4
  <2> QED BY <1>3, <2>3, <2>5
<1>5. \E f : Sums(f, MaxAttempts)
  BY <1>1, <1>4
<1>6. Elapsed = [i \in 0 .. MaxAttempts |->
                    IF i = 0 THEN 0 ELSE Elapsed[i - 1] + Timeout(i)]
  BY <1>5 DEF Elapsed, Sums
<1> QED BY <1>1, <1>6

\* It is a number, and at most a lifetime.
LEMMA ElapsedType ==
    /\ Lifetime \in Nat
    /\ \A n \in 0 .. MaxAttempts : Elapsed[n] \in Nat /\ Elapsed[n] <= Lifetime
<1>1. MaxAttempts \in Nat
  BY SenderAssumption DEF MaxAttempts
<1>2. \A n \in 0 .. MaxAttempts : Elapsed[n] \in Nat
  <2> DEFINE bad == {n \in 0 .. MaxAttempts : Elapsed[n] \notin Nat}
  <2>1. SUFFICES ASSUME bad # {} PROVE FALSE
    OBVIOUS
  <2>2. PICK x \in bad : \A y \in bad : x <= y
    <3>1. bad \in SUBSET Nat
      BY <1>1
    <3> HIDE DEF bad
    <3> QED BY <2>1, <3>1, LeastExists
  <2>3. x \in 1 .. MaxAttempts
    BY <1>1, ElapsedIs
  <2>4. x - 1 \in 0 .. MaxAttempts /\ ~(x <= x - 1)
    BY <1>1, <2>3
  <2>5. Elapsed[x - 1] \in Nat
    BY <2>2, <2>4
  <2>6. Elapsed[x] \in Nat
    BY <2>3, <2>5, ElapsedIs, TimeoutTakesTime
  <2> QED BY <2>6
<1>3. \A n \in 0 .. MaxAttempts : Elapsed[n] <= Lifetime
  <2> DEFINE bad == {d \in 0 .. MaxAttempts : ~(Elapsed[MaxAttempts - d] <= Lifetime)}
  <2>1. bad = {}
    <3>1. SUFFICES ASSUME bad # {} PROVE FALSE
      OBVIOUS
    <3>2. PICK x \in bad : \A y \in bad : x <= y
      <4>1. bad \in SUBSET Nat
        BY <1>1
      <4> HIDE DEF bad
      <4> QED BY <3>1, <4>1, LeastExists
    <3>3. x \in 1 .. MaxAttempts
      BY <1>1, <1>2 DEF Lifetime
    <3> DEFINE n == MaxAttempts - x
    <3>4. /\ x - 1 \in 0 .. MaxAttempts /\ ~(x <= x - 1)
          /\ MaxAttempts - (x - 1) = n + 1 /\ n + 1 \in 1 .. MaxAttempts
          /\ n \in 0 .. MaxAttempts /\ (n + 1) - 1 = n
      BY <1>1, <3>3
    <3>5. Elapsed[n + 1] <= Lifetime
      BY <3>2, <3>4
    <3>6. Elapsed[n + 1] = Elapsed[n] + Timeout(n + 1)
      BY <3>4, ElapsedIs
    <3>7. /\ Elapsed[n + 1] \in Nat /\ Elapsed[n] \in Nat
          /\ Timeout(n + 1) \in Nat /\ Lifetime \in Nat
      BY <1>1, <1>2, <3>4, TimeoutTakesTime DEF Lifetime
    <3>8. Elapsed[n] <= Lifetime
      <4> HIDE DEF n
      <4> QED BY <3>5, <3>6, <3>7
    <3> QED BY <3>8
  <2>2. ASSUME NEW n \in 0 .. MaxAttempts PROVE Elapsed[n] <= Lifetime
    <3>1. MaxAttempts - n \in 0 .. MaxAttempts
          /\ MaxAttempts - (MaxAttempts - n) = n
      BY <1>1
    <3> QED BY <2>1, <3>1
  <2> QED BY <2>2
<1> QED BY <1>1, <1>2, <1>3 DEF Lifetime

-----------------------------------------------------------------------------
(* The sender within the outage.                                           *)

\* The clock makes the flights older and changes nothing else of the sender.
LEMMA FlightsAge ==
    ASSUME SenderInvariant, TimePasses
    PROVE  /\ SenderInvariant' /\ DOMAIN pending' = DOMAIN pending
           /\ \A m \in DOMAIN pending :
                  /\ pending'[m].attempts = pending[m].attempts
                  /\ pending'[m].age = pending[m].age + 1
<1>1. /\ TypeOK /\ queue' = queue /\ cwnd' = cwnd /\ outbox' = outbox
      /\ made' = made /\ fate' = fate /\ sends' = sends
      /\ pending' = [m \in DOMAIN pending |->
                        [pending[m] EXCEPT !.age = pending[m].age + 1]]
  BY DEF SenderInvariant, TimePasses
<1>2. DOMAIN pending' = DOMAIN pending
  BY <1>1
<1>3. \A m \in DOMAIN pending :
          /\ pending'[m] \in Flight
          /\ pending'[m].attempts = pending[m].attempts
          /\ pending'[m].age = pending[m].age + 1
  <2> TAKE m \in DOMAIN pending
  <2>1. pending[m] \in Flight
    BY <1>1 DEF TypeOK
  <2>2. pending'[m] = [pending[m] EXCEPT !.age = pending[m].age + 1]
    BY <1>1
  <2> QED BY <2>1, <2>2 DEF Flight
<1>4. pending' \in [DOMAIN pending' -> Flight]
  BY <1>1, <1>2, <1>3
<1>5. TypeOK'
  BY <1>1, <1>2, <1>4 DEF TypeOK
<1>6. Accounting' /\ RetryBudget' /\ Ordered' /\ BoundedMemory'
  BY <1>1, <1>2, <1>3 DEF SenderInvariant, Accounting, RetryBudget, Ordered,
         BoundedMemory, Members
<1> QED BY <1>2, <1>3, <1>5, <1>6 DEF SenderInvariant

\* Whatever happens in the outage, the sender's invariant holds.
LEMMA SenderKept ==
    ASSUME SenderInvariant, OutageTypeOK, [OutageNext]_allVars
    PROVE  SenderInvariant'
<1>1. CASE UNCHANGED vars
  BY <1>1, StepInvariant
<1>2. CASE Offer
  BY <1>2, SendDataStep DEF Offer
<1>3. CASE Pumps
  BY <1>3, PumpStep DEF Pumps
<1>4. ASSUME NEW packet \in outbox, Transmits(packet) PROVE SenderInvariant'
  BY <1>4, HandOverStep DEF Transmits
<1>5. ASSUME NEW m \in answers, Answered(m) PROVE SenderInvariant'
  <2>1. m \in Messages
    BY DEF OutageTypeOK
  <2> QED BY <1>1, <1>5, <2>1, AckStep DEF Answered
<1>6. CASE Pings \/ DataDown \/ \E p \in Paths : Changes(p)
  <2>1. UNCHANGED vars
    BY <1>6 DEF Pings, DataDown, Changes
  <2> QED BY <1>1, <2>1
<1>7. CASE TimePasses
  BY <1>7, FlightsAge
<1>8. CASE UNCHANGED allVars
  BY <1>1, <1>8 DEF allVars
<1> QED BY <1>2, <1>3, <1>4, <1>5, <1>6, <1>7, <1>8 DEF OutageNext

-----------------------------------------------------------------------------
(* The health.                                                             *)

\* The ages that are told apart.
LEMMA OutageNumbers ==
    /\ MaxAge \in Nat /\ MaxStamp \in Nat \ {0}
    /\ Keepalive \in Nat \ {0} /\ HealthTimeout \in Nat
    /\ Keepalive <= HealthTimeout /\ HealthTimeout < MaxStamp
<1>1. /\ Skew \in Nat /\ Keepalive \in Nat \ {0} /\ HealthTimeout \in Nat
      /\ Keepalive <= HealthTimeout
  BY OutageAssumption
<1>2. MaxPending * Lifetime \in Nat
  BY ElapsedType, SenderAssumption
<1>3. MaxAge \in Nat
  BY <1>1, <1>2 DEF MaxAge, Larger
<1>4. MaxStamp \in Nat \ {0} /\ HealthTimeout < MaxStamp
  BY <1>1 DEF MaxStamp, Larger
<1> QED BY <1>1, <1>3, <1>4

\* The stamp that receiving changes, and those it leaves.
LEMMA Stamped ==
    ASSUME NEW T, 0 \in T, NEW s \in [Agents -> [Paths -> T]]
    PROVE  /\ GotDown(s) \in [Agents -> [Paths -> T]]
           /\ GotDown(s)["iran"]["downlink"] = 0
           /\ GotDown(s)["foreign"] = s["foreign"]
BY DEF GotDown, Agents, Paths

\* A step that leaves the paths and the clock alone renews a stamp only from a
\* path that works, and puts an ACK only on one.
Renews ==
    /\ UNCHANGED <<up, since, nextPing>>
    /\ stamp' \in [Agents -> [Paths -> 0 .. MaxStamp]]
    /\ \/ stamp'["iran"]["downlink"] = stamp["iran"]["downlink"]
       \/ stamp'["iran"]["downlink"] = 0 /\ "downlink" \in up
    /\ \/ stamp'["foreign"]["uplink"] = stamp["foreign"]["uplink"]
       \/ stamp'["foreign"]["uplink"] = 0 /\ "uplink" \in up
    /\ "downlink" \notin up => answers' \subseteq answers

\* That keeps the stamps true of both kinds of paths.
LEMMA RenewsKeeps ==
    ASSUME OutageTypeOK, DeadPaths, LivePaths, Renews
    PROVE  DeadPaths' /\ LivePaths'
<1>1. /\ nextPing \in 0 .. Keepalive
      /\ stamp["iran"]["downlink"] \in Nat /\ stamp["foreign"]["uplink"] \in Nat
  BY OutageNumbers DEF OutageTypeOK, Agents, Paths
<1>2. DeadPaths'
  BY DEF DeadPaths, Renews
<1>3. LivePaths'
  BY <1>1, OutageNumbers DEF LivePaths, Renews
<1> QED BY <1>2, <1>3

\* Data, ACKs and their packets are such steps.
LEMMA DataRenews ==
    ASSUME OutageTypeOK, DeadPaths,
           \/ Offer \/ Pumps \/ DataDown
           \/ \E packet \in outbox : Transmits(packet)
           \/ \E m \in answers : Answered(m)
    PROVE  Renews
<1> DEFINE T == 0 .. MaxStamp
<1>1. 0 \in T /\ stamp \in [Agents -> [Paths -> T]]
  BY OutageNumbers DEF OutageTypeOK
<1> HIDE DEF T
<1>2. CASE Offer \/ Pumps
  BY <1>1, <1>2 DEF Offer, Pumps, Renews, data, clocks, world, T
<1>3. CASE DataDown
  <2> DEFINE sent == [stamp EXCEPT !["foreign"]["downlink"] = 0]
             ok == "uplink" \in up
  <2>1. /\ sent \in [Agents -> [Paths -> T]]
        /\ sent["iran"]["downlink"] = stamp["iran"]["downlink"]
        /\ sent["foreign"]["uplink"] = stamp["foreign"]["uplink"]
    BY <1>1 DEF Agents, Paths
  <2>2. /\ stamp' = IF "downlink" \in up THEN SentUp(GotDown(sent), ok, FALSE) ELSE sent
        /\ UNCHANGED <<answers, up, since, nextPing>>
    BY <1>3 DEF DataDown, data, world
  <2> HIDE DEF sent
  <2>3. /\ GotDown(sent) \in [Agents -> [Paths -> T]]
        /\ GotDown(sent)["iran"]["downlink"] = 0
        /\ GotDown(sent)["foreign"] = sent["foreign"]
    BY <1>1, <2>1, Stamped
  <2> DEFINE g == GotDown(sent)
  <2> HIDE DEF g
  <2>4. /\ SentUp(g, ok, FALSE) \in [Agents -> [Paths -> T]]
        /\ SentUp(g, ok, FALSE)["iran"]["downlink"] = g["iran"]["downlink"]
        /\ SentUp(g, ok, FALSE)["foreign"]["uplink"] =
               IF ok /\ ~FALSE THEN 0 ELSE g["foreign"]["uplink"]
    BY <1>1, <2>3 DEF SentUp, Agents, Paths, g
  <2> QED BY <2>1, <2>2, <2>3, <2>4 DEF Renews, g, T
<1>4. ASSUME NEW packet \in outbox, Transmits(packet) PROVE Renews
  <2> DEFINE ok == /\ "uplink" \in up /\ Fresh(packet[1])
                   /\ packet[1] \notin overrun
             s == SentUp(stamp, ok, packet[1] \in got)
  <2>1. /\ stamp' = s /\ UNCHANGED <<up, since, nextPing>>
        /\ "downlink" \notin up => answers' = answers
    BY <1>4 DEF Transmits, world
  <2>2. /\ s \in [Agents -> [Paths -> T]]
        /\ s["iran"]["downlink"] = stamp["iran"]["downlink"]
        /\ s["foreign"]["uplink"] =
               IF ok /\ ~(packet[1] \in got) THEN 0 ELSE stamp["foreign"]["uplink"]
    BY <1>1 DEF SentUp, Agents, Paths
  <2> HIDE DEF s
  <2> QED BY <2>1, <2>2 DEF Renews, T
<1>5. ASSUME NEW m \in answers, Answered(m) PROVE Renews
  <2>1. /\ stamp' = GotDown(stamp) /\ answers' \subseteq answers
        /\ UNCHANGED <<up, since, nextPing>>
    BY <1>5 DEF Answered, world
  <2>2. "downlink" \in up
    BY <1>5 DEF DeadPaths
  <2>3. /\ GotDown(stamp) \in [Agents -> [Paths -> T]]
        /\ GotDown(stamp)["iran"]["downlink"] = 0
        /\ GotDown(stamp)["foreign"] = stamp["foreign"]
    BY <1>1, Stamped
  <2> QED BY <2>1, <2>2, <2>3 DEF Renews, T
<1> QED BY <1>2, <1>3, <1>4, <1>5

\* keepalive_loop: over two working paths, PING and PONG renew both stamps.
LEMMA PingsKeeps ==
    ASSUME OutageTypeOK, DeadPaths, LivePaths, Pings
    PROVE  /\ DeadPaths' /\ LivePaths'
           /\ stamp' \in [Agents -> [Paths -> 0 .. MaxStamp]]
<1> DEFINE T == 0 .. MaxStamp
           ok == "uplink" \in up
           sent == SentUp(stamp, ok, FALSE)
<1>1. 0 \in T /\ stamp \in [Agents -> [Paths -> T]]
  BY OutageNumbers DEF OutageTypeOK
<1> HIDE DEF T
<1>2. /\ stamp' = IF ok /\ "downlink" \in up THEN GotDown(sent) ELSE sent
      /\ nextPing' = Keepalive /\ UNCHANGED <<answers, up, since>>
  BY DEF Pings, data, world
<1>3. /\ sent \in [Agents -> [Paths -> T]]
      /\ sent["iran"]["downlink"] = stamp["iran"]["downlink"]
      /\ sent["foreign"]["uplink"] =
             IF ok /\ ~FALSE THEN 0 ELSE stamp["foreign"]["uplink"]
  BY <1>1 DEF SentUp, Agents, Paths
<1> HIDE DEF sent
<1>4. /\ GotDown(sent) \in [Agents -> [Paths -> T]]
      /\ GotDown(sent)["iran"]["downlink"] = 0
      /\ GotDown(sent)["foreign"] = sent["foreign"]
  BY <1>1, <1>3, Stamped
<1>5. DeadPaths'
  BY <1>2, <1>3, <1>4 DEF DeadPaths
<1>6. LivePaths'
  <2>1. up = Paths => /\ stamp'["iran"]["downlink"] = 0
                      /\ stamp'["foreign"]["uplink"] = 0
    BY <1>2, <1>3, <1>4 DEF Paths
  <2> QED BY <1>2, <2>1, OutageNumbers DEF LivePaths
<1> QED BY <1>2, <1>3, <1>4, <1>5, <1>6 DEF T

\* A path fails or is repaired: the time since then starts.
LEMMA ChangesKeeps ==
    ASSUME OutageTypeOK, DeadPaths, LivePaths, NEW p \in Paths, Changes(p)
    PROVE  DeadPaths' /\ LivePaths'
<1>1. /\ up' = IF p \in up THEN up \ {p} ELSE up \cup {p}
      /\ since' = [since EXCEPT ![p] = 0]
      /\ answers' = (IF p = "downlink" THEN {} ELSE answers)
      /\ UNCHANGED <<nextPing, stamp>>
  BY DEF Changes
<1>2. /\ since'[p] = 0 /\ \A q \in Paths : q # p => since'[q] = since[q]
      /\ stamp["iran"]["downlink"] \in Nat /\ stamp["foreign"]["uplink"] \in Nat
      /\ nextPing \in 0 .. Keepalive
  BY <1>1, OutageNumbers DEF OutageTypeOK, Agents, Paths
<1>3. DeadPaths'
  BY <1>1, <1>2 DEF DeadPaths, Paths
<1>4. LivePaths'
  BY <1>1, <1>2, OutageNumbers DEF LivePaths
<1> QED BY <1>3, <1>4

\* Time passes for paths, keepalive and stamps alike.
LEMMA ClocksKeep ==
    ASSUME OutageTypeOK, DeadPaths, LivePaths, TimePasses
    PROVE  /\ DeadPaths' /\ LivePaths'
           /\ since' \in [Paths -> 0 .. MaxStamp] /\ nextPing' \in 0 .. Keepalive
           /\ stamp' \in [Agents -> [Paths -> 0 .. MaxStamp]]
<1>1. /\ since' = [p \in Paths |-> Aged(since[p], MaxStamp)]
      /\ nextPing' = nextPing - 1 /\ nextPing > 0
      /\ stamp' = [a \in Agents |-> [p \in Paths |-> Aged(stamp[a][p], MaxStamp)]]
      /\ UNCHANGED <<answers, up>>
  BY DEF TimePasses, Quiet, world
<1>2. \A n \in 0 .. MaxStamp :
          Aged(n, MaxStamp) = IF n < MaxStamp THEN n + 1 ELSE MaxStamp
  BY OutageNumbers DEF Aged, Smaller
<1>3. /\ since \in [Paths -> 0 .. MaxStamp] /\ nextPing \in 0 .. Keepalive
      /\ stamp \in [Agents -> [Paths -> 0 .. MaxStamp]]
  BY DEF OutageTypeOK
<1>4. /\ since' \in [Paths -> 0 .. MaxStamp] /\ nextPing' \in 0 .. Keepalive
      /\ stamp' \in [Agents -> [Paths -> 0 .. MaxStamp]]
  BY <1>1, <1>2, <1>3, OutageNumbers
<1> DEFINE older(n) == IF n < MaxStamp THEN n + 1 ELSE MaxStamp
<1>5. /\ \A p \in Paths : since[p] \in 0 .. MaxStamp /\ since'[p] = older(since[p])
      /\ stamp["iran"]["downlink"] \in 0 .. MaxStamp
      /\ stamp'["iran"]["downlink"] = older(stamp["iran"]["downlink"])
      /\ stamp["foreign"]["uplink"] \in 0 .. MaxStamp
      /\ stamp'["foreign"]["uplink"] = older(stamp["foreign"]["uplink"])
      /\ "uplink" \in Paths /\ "downlink" \in Paths
  BY <1>1, <1>2, <1>3 DEF Agents, Paths
<1>6. DeadPaths'
  BY <1>1, <1>5, OutageNumbers DEF DeadPaths
<1>7. LivePaths'
  <2>1. \A p \in Paths : since'[p] + nextPing' > Keepalive => since[p] + nextPing > Keepalive
    BY <1>1, <1>3, <1>5, OutageNumbers
  <2> QED BY <1>1, <1>3, <1>5, <2>1, OutageNumbers DEF LivePaths
<1> QED BY <1>4, <1>6, <1>7

\* Every step keeps the types and both kinds of paths.
LEMMA HealthKept ==
    ASSUME SenderInvariant, OutageTypeOK, DeadPaths, LivePaths,
           [OutageNext]_allVars
    PROVE  OutageTypeOK' /\ DeadPaths' /\ LivePaths'
<1>0. /\ age \in [Messages -> Nat] /\ got \subseteq Messages
      /\ answers \subseteq Messages /\ cut \subseteq Messages
      /\ up \in SUBSET Paths /\ since \in [Paths -> 0 .. MaxStamp]
      /\ nextPing \in 0 .. Keepalive
      /\ stamp \in [Agents -> [Paths -> 0 .. MaxStamp]]
  BY DEF OutageTypeOK
<1>1. Held \subseteq Messages
  BY DEF SenderInvariant, TypeOK, Held, Members
<1>2. CASE Offer
  <2>1. made + 1 \in Messages
    BY <1>2, SenderAssumption DEF Offer, SendData, SenderInvariant, TypeOK, Messages
  <2>2. age' \in [Messages -> Nat] /\ cut' \subseteq Messages
        /\ UNCHANGED <<got, answers>>
    BY <1>0, <1>2, <2>1 DEF Offer
  <2>3. Renews
    BY <1>2, DataRenews
  <2> QED BY <1>0, <2>2, <2>3, RenewsKeeps DEF OutageTypeOK, Renews
<1>3. CASE Pumps \/ DataDown
  <2>1. UNCHANGED <<age, got, answers, cut>>
    BY <1>3 DEF Pumps, DataDown, data, world
  <2>2. Renews
    BY <1>3, DataRenews
  <2> QED BY <1>0, <2>1, <2>2, RenewsKeeps DEF OutageTypeOK, Renews
<1>4. ASSUME NEW packet \in outbox, Transmits(packet)
      PROVE  OutageTypeOK' /\ DeadPaths' /\ LivePaths'
  <2>1. packet[1] \in Messages
    BY DEF SenderInvariant, TypeOK
  <2>2. /\ got' \subseteq Messages /\ answers' \subseteq Messages
        /\ UNCHANGED <<age, cut>>
    BY <1>0, <1>4, <2>1 DEF Transmits, world
  <2>3. Renews
    BY <1>4, DataRenews
  <2> QED BY <1>0, <2>2, <2>3, RenewsKeeps DEF OutageTypeOK, Renews
<1>5. ASSUME NEW m \in answers, Answered(m)
      PROVE  OutageTypeOK' /\ DeadPaths' /\ LivePaths'
  <2>1. answers' \subseteq Messages /\ UNCHANGED <<age, got, cut>>
    BY <1>0, <1>5 DEF Answered, world
  <2>2. Renews
    BY <1>5, DataRenews
  <2> QED BY <1>0, <2>1, <2>2, RenewsKeeps DEF OutageTypeOK, Renews
<1>6. CASE Pings
  <2>1. UNCHANGED <<age, got, answers, up, since, cut>> /\ nextPing' = Keepalive
    BY <1>6 DEF Pings, data, world
  <2> QED BY <1>0, <1>6, <2>1, PingsKeeps, OutageNumbers DEF OutageTypeOK
<1>7. ASSUME NEW p \in Paths, Changes(p)
      PROVE  OutageTypeOK' /\ DeadPaths' /\ LivePaths'
  <2>1. /\ up' \in SUBSET Paths /\ since' \in [Paths -> 0 .. MaxStamp]
        /\ answers' \subseteq Messages /\ cut' \subseteq Messages
        /\ UNCHANGED <<age, got, nextPing, stamp>>
    BY <1>0, <1>1, <1>7, OutageNumbers DEF Changes
  <2> QED BY <1>0, <1>7, <2>1, ChangesKeeps DEF OutageTypeOK
<1>8. CASE TimePasses
  <2>1. age' \in [Messages -> Nat]
    <3>1. \A n \in Nat : Aged(n, MaxAge) \in Nat
      BY OutageNumbers DEF Aged, Smaller
    <3>2. age' = [m \in Messages |-> IF m \in Held THEN Aged(age[m], MaxAge) ELSE 0]
      BY <1>8 DEF TimePasses
    <3> QED BY <1>0, <3>1, <3>2
  <2>2. UNCHANGED <<got, answers, up, cut>>
    BY <1>8 DEF TimePasses, world
  <2> QED BY <1>0, <1>8, <2>1, <2>2, ClocksKeep DEF OutageTypeOK
<1>9. CASE UNCHANGED allVars
  <2>1. UNCHANGED <<age, got, answers, up, since, nextPing, stamp, cut>>
    BY <1>9 DEF allVars, data, clocks, world
  <2> QED BY <2>1 DEF OutageTypeOK, DeadPaths, LivePaths
<1> QED BY <1>2, <1>3, <1>4, <1>5, <1>6, <1>7, <1>8, <1>9 DEF OutageNext

-----------------------------------------------------------------------------
(* The deadlines.                                                          *)

\* Multiples of a lifetime.
LEMMA Lifetimes ==
    /\ \A i \in Nat : i * Lifetime \in Nat
    /\ \A i \in Nat : (i + 1) * Lifetime = i * Lifetime + Lifetime
    /\ \A i, j \in Nat : i <= j => i * Lifetime <= j * Lifetime
BY ElapsedType

\* A flight that is not overdue has some of its lifetime left, and one that is
\* not due yet some time in it.
LEMMA RemainingType ==
    ASSUME SenderInvariant, NEW m \in DOMAIN pending,
           pending[m].age <= Timeout(pending[m].attempts)
    PROVE  /\ Remaining(m) \in 0 .. Lifetime
           /\ m \notin Expired => Remaining(m) > 0
           /\ pending[m].age \in Nat /\ pending[m].attempts \in 1 .. MaxAttempts
<1> DEFINE a == pending[m].attempts
           t == pending[m].age
<1>1. a \in 1 .. MaxAttempts /\ t \in Nat /\ MaxAttempts \in Nat
  BY SenderAssumption DEF SenderInvariant, TypeOK, Flight, MaxAttempts
<1>2. Remaining(m) = Lifetime - (Elapsed[a - 1] + t)
  BY DEF Remaining
<1>3. m \notin Expired => ~(t >= Timeout(a))
  BY DEF Expired
<1>4. t <= Timeout(a)
  OBVIOUS
<1> HIDE DEF a, t
<1>5. a - 1 \in 0 .. MaxAttempts /\ a \in 0 .. MaxAttempts
  BY <1>1
<1>6. /\ Elapsed[a] = Elapsed[a - 1] + Timeout(a) /\ Elapsed[a] <= Lifetime
      /\ Elapsed[a] \in Nat /\ Elapsed[a - 1] \in Nat /\ Lifetime \in Nat
      /\ Timeout(a) \in Nat
  BY <1>1, <1>5, ElapsedIs, ElapsedType, TimeoutTakesTime
<1>7. Remaining(m) \in 0 .. Lifetime /\ (m \notin Expired => Remaining(m) > 0)
  BY <1>1, <1>2, <1>3, <1>4, <1>6
<1> QED BY <1>1, <1>7 DEF a, t

\* A new message has at most the lifetimes of those before it ahead.
LEMMA OfferInTime ==
    ASSUME SenderInvariant, OutageTypeOK, Deadlines, Offer
    PROVE  Deadlines'
<1> DEFINE P == MaxPending * Lifetime
           m == made + 1
<1>1. /\ P \in Nat /\ MaxPending \in Nat /\ Lifetime \in Nat
  BY SenderAssumption, Lifetimes, ElapsedType
<1>2. /\ m \in Messages /\ fate[m] = "none" /\ age \in [Messages -> Nat]
      /\ queue \in Seq(Messages) /\ Len(queue) \in Nat
      /\ \A i \in 1 .. Len(queue) : queue[i] \in Messages
  <2>1. /\ queue \in Seq(Messages) /\ made \in 0 .. MaxMessages
        /\ age \in [Messages -> Nat] /\ made < MaxMessages
    BY DEF Offer, SendData, SenderInvariant, TypeOK, OutageTypeOK
  <2>2. m \in Messages /\ m > made
    BY <2>1, SenderAssumption DEF Messages
  <2>3. fate[m] = "none"
    BY <2>2 DEF SenderInvariant, Accounting
  <2>4. Len(queue) \in Nat /\ \A i \in 1 .. Len(queue) : queue[i] \in Messages
    BY <2>1, LenProperties, ElementOfSeq
  <2> QED BY <2>1, <2>2, <2>3, <2>4
<1>3. /\ age' = [age EXCEPT ![m] = 0] /\ pending' = pending
      /\ queue' = IF Full THEN queue ELSE Append(queue, m)
  BY DEF Offer, SendData, Enqueued
<1>4. m \notin DOMAIN pending /\ \A i \in 1 .. Len(queue) : queue[i] # m
  BY <1>2 DEF SenderInvariant, Accounting, Members
<1>5. /\ \A k \in DOMAIN pending : age'[k] = age[k] /\ k \in Messages
      /\ \A i \in 1 .. Len(queue) : age'[queue[i]] = age[queue[i]]
      /\ age'[m] = 0
  BY <1>2, <1>3, <1>4 DEF SenderInvariant, TypeOK
<1>6. \A k \in DOMAIN pending : Remaining(k)' = Remaining(k)
  BY <1>3 DEF Remaining
<1>7. \A k \in DOMAIN pending' :
          /\ pending'[k].age <= Timeout(pending'[k].attempts)
          /\ age'[k] + Remaining(k)' <= P
  BY <1>3, <1>5, <1>6 DEF Deadlines
<1>8. ASSUME NEW i \in 1 .. Len(queue)
      PROVE  /\ age'[queue[i]] + i * Lifetime <= P
             /\ \A k \in DOMAIN pending' :
                    age'[queue[i]] + Remaining(k)' + i * Lifetime <= P
  BY <1>3, <1>5, <1>6 DEF Deadlines
<1>9. CASE Full
  BY <1>3, <1>7, <1>8, <1>9 DEF Deadlines
<1>10. CASE ~ Full
  <2> DEFINE n == Len(queue)
  <2>1. /\ queue' = Append(queue, m) /\ Len(queue') = n + 1
        /\ \A i \in 1 .. n : queue'[i] = queue[i]
        /\ queue'[n + 1] = m
    BY <1>2, <1>3, <1>10
  <2>2. Cardinality(DOMAIN pending) \in Nat /\ IsFiniteSet(DOMAIN pending)
    BY FiniteMessages, SenderAssumption DEF SenderInvariant, TypeOK
  <2>3. n + Cardinality(DOMAIN pending) < MaxPending
    BY <1>1, <1>2, <1>10, <2>2 DEF Full
  <2>4. (n + 1) * Lifetime <= P
    <3>1. n + 1 \in Nat /\ n + 1 <= MaxPending
      BY <1>1, <1>2, <2>2, <2>3
    <3> HIDE DEF n
    <3> QED BY <1>1, <3>1, Lifetimes
  <2>5. ASSUME NEW k \in DOMAIN pending
        PROVE  Remaining(k) + (n + 1) * Lifetime <= P
    <3>1. Cardinality(DOMAIN pending) # 0
      BY <2>2, FS_EmptySet
    <3>2. (n + 1) + 1 <= MaxPending /\ n + 1 \in Nat
      BY <1>1, <1>2, <2>2, <2>3, <3>1
    <3>3. (n + 1) * Lifetime + Lifetime <= P
      <4>1. (n + 1) * Lifetime + Lifetime = ((n + 1) + 1) * Lifetime
        BY <3>2, Lifetimes
      <4>2. ((n + 1) + 1) * Lifetime <= MaxPending * Lifetime
        BY <1>1, <3>2, Lifetimes
      <4> QED BY <4>1, <4>2
    <3>4. Remaining(k) \in 0 .. Lifetime
      BY RemainingType DEF Deadlines
    <3> QED BY <1>1, <3>2, <3>3, <3>4, Lifetimes
  <2>6. /\ age'[m] + (n + 1) * Lifetime <= P
        /\ \A k \in DOMAIN pending' :
               age'[m] + Remaining(k)' + (n + 1) * Lifetime <= P
    <3>1. (n + 1) * Lifetime \in Nat
      BY <1>2, Lifetimes
    <3>2. \A k \in DOMAIN pending : Remaining(k) \in Nat
      BY RemainingType, ElapsedType DEF Deadlines
    <3> HIDE DEF n
    <3> QED BY <1>3, <1>5, <1>6, <2>4, <2>5, <3>1, <3>2
  <2>7. ASSUME NEW i \in 1 .. Len(queue')
        PROVE  /\ age'[queue'[i]] + i * Lifetime <= P
               /\ \A k \in DOMAIN pending' :
                      age'[queue'[i]] + Remaining(k)' + i * Lifetime <= P
    <3>1. i \in 1 .. n \/ i = n + 1
      BY <1>2, <2>1
    <3>2. CASE i \in 1 .. n
      BY <1>8, <2>1, <3>2
    <3>3. CASE i = n + 1
      BY <2>1, <2>6, <3>3
    <3> QED BY <3>1, <3>2, <3>3
  <2> QED BY <1>7, <2>7 DEF Deadlines
<1> QED BY <1>9, <1>10

\* An ACK takes a flight from those that the queue waits for.
LEMMA AckInTime ==
    ASSUME Deadlines, UNCHANGED <<queue, age>>, NEW S \in SUBSET DOMAIN pending,
           pending' = [k \in S |-> pending[k]]
    PROVE  Deadlines'
<1>1. \A k \in S : Remaining(k)' = Remaining(k) /\ pending'[k] = pending[k]
  BY DEF Remaining
<1>2. DOMAIN pending' = S
  OBVIOUS
<1> QED BY <1>1, <1>2 DEF Deadlines

\* A flight after a pump: retried with as much time left as before, or sent for
\* the first time with all of its lifetime.
LEMMA PumpRemaining ==
    ASSUME SenderInvariant, Deadlines, Pump
    PROVE  /\ \A m \in Kept \cup Admitted :
                  pending'[m].age <= Timeout(pending'[m].attempts)
           /\ \A m \in Kept : Remaining(m)' <= Remaining(m)
                              /\ Remaining(m) \in 0 .. Lifetime
                              /\ Remaining(m)' \in Int
           /\ \A m \in Admitted : Remaining(m)' = Lifetime
<1>1. /\ \A m \in Admitted : pending'[m] = [attempts |-> 1, age |-> 0]
      /\ \A m \in Retried \ Admitted :
             pending'[m] = [attempts |-> pending[m].attempts + 1, age |-> 0]
      /\ \A m \in (Kept \ Retried) \ Admitted : pending'[m] = pending[m]
      /\ Admitted \cap DOMAIN pending = {} /\ Kept \subseteq DOMAIN pending
  BY PumpLeaves
<1>2. MaxAttempts \in Nat \ {0} /\ Lifetime \in Nat
  BY SenderAssumption, ElapsedType DEF MaxAttempts
<1>3. ASSUME NEW m \in Admitted
      PROVE  /\ pending'[m].age <= Timeout(pending'[m].attempts)
             /\ Remaining(m)' = Lifetime
  <2>1. pending'[m].attempts = 1 /\ pending'[m].age = 0
    BY <1>1
  <2>2. Timeout(1) \in Nat
    BY <1>2, TimeoutTakesTime
  <2>3. Remaining(m)' = Lifetime - (Elapsed[1 - 1] + 0)
    BY <2>1 DEF Remaining
  <2>4. Elapsed[1 - 1] = 0
    BY ElapsedIs
  <2> QED BY <1>2, <2>1, <2>2, <2>3, <2>4
<1>4. ASSUME NEW m \in Kept
      PROVE  /\ pending'[m].age <= Timeout(pending'[m].attempts)
             /\ Remaining(m)' <= Remaining(m)
             /\ Remaining(m) \in 0 .. Lifetime /\ Remaining(m)' \in Int
  <2> DEFINE a == pending[m].attempts
             t == pending[m].age
  <2>1. m \in DOMAIN pending /\ m \notin Admitted /\ t <= Timeout(a)
    BY <1>1 DEF Deadlines
  <2>2. Remaining(m) \in 0 .. Lifetime /\ t \in Nat /\ a \in 1 .. MaxAttempts
    BY <2>1, RemainingType
  <2>3. CASE m \in Retried
    <3>1. pending'[m].attempts = a + 1 /\ pending'[m].age = 0
      <4>1. pending'[m] = [attempts |-> pending[m].attempts + 1, age |-> 0]
        BY <1>1, <2>1, <2>3
      <4> QED BY <4>1
    <3>2. t >= Timeout(a) /\ ~(a >= MaxAttempts)
      BY <2>3 DEF Retried, Exhausted, Expired
    <3>3. Remaining(m)' = Lifetime - (Elapsed[(a + 1) - 1] + 0)
      BY <3>1 DEF Remaining
    <3>4. Remaining(m) = Lifetime - (Elapsed[a - 1] + t)
      BY DEF Remaining
    <3> HIDE DEF a, t
    <3>5. /\ a + 1 \in 1 .. MaxAttempts /\ a - 1 \in 0 .. MaxAttempts
          /\ a \in 0 .. MaxAttempts /\ (a + 1) - 1 = a
      BY <1>2, <2>2, <3>2
    <3>6. /\ Timeout(a + 1) \in Nat /\ Timeout(a) \in Nat
          /\ Elapsed[a] = Elapsed[a - 1] + Timeout(a)
          /\ Elapsed[a] \in Nat /\ Elapsed[a - 1] \in Nat
      BY <2>2, <3>5, ElapsedIs, ElapsedType, TimeoutTakesTime
    <3>7. Remaining(m)' = Lifetime - Elapsed[a]
      BY <1>2, <3>3, <3>5, <3>6
    <3>8. Remaining(m)' <= Remaining(m) /\ Remaining(m)' \in Int
      BY <1>2, <2>1, <2>2, <3>2, <3>4, <3>6, <3>7
    <3> QED BY <2>2, <3>1, <3>6, <3>8
  <2>4. CASE m \notin Retried
    <3>1. pending'[m] = pending[m]
      BY <1>1, <2>1, <2>4
    <3>2. Remaining(m)' = Remaining(m)
      BY <3>1 DEF Remaining
    <3> QED BY <1>2, <2>1, <2>2, <3>1, <3>2
  <2> QED BY <2>3, <2>4
<1> QED BY <1>3, <1>4

\* pump: what leaves the queue has its lifetime, and what stays is nearer to
\* the front by as many as have left.
LEMMA PumpInTime ==
    ASSUME SenderInvariant, OutageTypeOK, Deadlines, Pump, age' = age
    PROVE  Deadlines'
<1> DEFINE P == MaxPending * Lifetime
           n == AdmittedCount
<1>1. P \in Nat /\ Lifetime \in Nat
  BY SenderAssumption, Lifetimes, ElapsedType
<1>2. /\ n \in 0 .. Len(queue) /\ Len(queue) \in Nat
      /\ \A i \in 1 .. Len(queue) : queue[i] \in Messages
      /\ age \in [Messages -> Nat]
  BY PumpFinds, ElementOfSeq DEF SenderInvariant, TypeOK, OutageTypeOK
<1>3. /\ Len(queue') = Len(queue) - n
      /\ \A i \in 1 .. Len(queue') : queue'[i] = queue[n + i]
      /\ DOMAIN pending' = Kept \cup Admitted /\ Kept \subseteq DOMAIN pending
  BY PumpLeaves
<1>4. /\ \A m \in Kept \cup Admitted :
             pending'[m].age <= Timeout(pending'[m].attempts)
      /\ \A m \in Kept : Remaining(m)' <= Remaining(m)
                         /\ Remaining(m) \in 0 .. Lifetime
                         /\ Remaining(m)' \in Int
      /\ \A m \in Admitted : Remaining(m)' = Lifetime
  BY PumpRemaining
<1>5. \A i \in 1 .. Len(queue) :
          /\ age[queue[i]] + i * Lifetime <= P
          /\ \A m \in DOMAIN pending :
                 age[queue[i]] + Remaining(m) + i * Lifetime <= P
  BY DEF Deadlines
<1>6. Kept \subseteq Messages /\ \A m \in DOMAIN pending : age[m] + Remaining(m) <= P
  BY PumpFinds, <1>3 DEF Deadlines
<1> HIDE DEF P
<1>7. ASSUME NEW m \in Kept \cup Admitted PROVE age[m] + Remaining(m)' <= P
  <2>1. CASE m \in Kept
    <3>1. age[m] \in Nat
      BY <1>2, <1>6, <2>1
    <3> QED BY <1>1, <1>3, <1>4, <1>6, <2>1, <3>1
  <2>2. CASE m \in Admitted
    <3>1. PICK i \in 1 .. n : m = queue[i]
      BY <2>2 DEF Admitted
    <3>2. /\ i \in 1 .. Len(queue) /\ age[m] \in Nat /\ i \in Nat /\ 1 \in Nat
          /\ age[m] + i * Lifetime <= P
      BY <1>2, <1>5, <3>1
    <3>3. 1 * Lifetime <= i * Lifetime /\ i * Lifetime \in Nat /\ 1 * Lifetime = Lifetime
      BY <1>1, <3>1, <3>2, Lifetimes
    <3> QED BY <1>1, <1>4, <2>2, <3>2, <3>3
  <2> QED BY <2>1, <2>2
<1>8. ASSUME NEW i \in 1 .. Len(queue')
      PROVE  /\ age[queue'[i]] + i * Lifetime <= P
             /\ \A m \in Kept \cup Admitted :
                    age[queue'[i]] + Remaining(m)' + i * Lifetime <= P
  <2> DEFINE q == queue'[i]
  <2>1. /\ n + i \in 1 .. Len(queue) /\ q = queue[n + i]
        /\ i \in Nat /\ n \in Nat /\ n + i \in Nat /\ i <= n + i
    BY <1>2, <1>3
  <2>2. /\ age[q] \in Nat /\ age[q] + (n + i) * Lifetime <= P
        /\ \A m \in DOMAIN pending : age[q] + Remaining(m) + (n + i) * Lifetime <= P
    BY <1>2, <1>5, <2>1
  <2>3. /\ i * Lifetime \in Nat /\ (n + i) * Lifetime \in Nat
        /\ i * Lifetime <= (n + i) * Lifetime
    BY <2>1, Lifetimes
  <2> HIDE DEF q
  <2>4. age[q] + i * Lifetime <= P
    BY <1>1, <2>2, <2>3
  <2>5. ASSUME NEW m \in Kept PROVE age[q] + Remaining(m)' + i * Lifetime <= P
    <3>1. age[q] + Remaining(m) + (n + i) * Lifetime <= P
      BY <1>3, <2>2
    <3>2. Remaining(m)' <= Remaining(m) /\ Remaining(m) \in Int /\ Remaining(m)' \in Int
      BY <1>4
    <3> QED BY <1>1, <2>2, <2>3, <3>1, <3>2
  <2>6. ASSUME NEW m \in Admitted PROVE age[q] + Remaining(m)' + i * Lifetime <= P
    <3>1. n >= 1
      BY <1>2 DEF Admitted
    <3>2. i + 1 <= n + i /\ i + 1 \in Nat
      BY <2>1, <3>1
    <3>3. i * Lifetime + Lifetime <= (n + i) * Lifetime
      BY <2>1, <3>2, Lifetimes
    <3>4. Remaining(m)' = Lifetime
      BY <1>4
    <3> QED BY <1>1, <2>2, <2>3, <3>3, <3>4
  <2> QED BY <2>4, <2>5, <2>6 DEF q
<1> HIDE DEF n
<1>9. /\ \A m \in DOMAIN pending' :
             /\ pending'[m].age <= Timeout(pending'[m].attempts)
             /\ age'[m] + Remaining(m)' <= P
      /\ \A i \in 1 .. Len(queue') :
             /\ age'[queue'[i]] + i * Lifetime <= P
             /\ \A m \in DOMAIN pending' :
                    age'[queue'[i]] + Remaining(m)' + i * Lifetime <= P
  BY <1>3, <1>4, <1>7, <1>8
<1> QED BY <1>9 DEF Deadlines, P

\* Time passes only while no flight is due and a flight is there for the queue
\* to wait for: every message is a tick older, and every flight nearer its end.
LEMMA TimeInTime ==
    ASSUME SenderInvariant, OutageTypeOK, Deadlines, TimePasses
    PROVE  Deadlines'
<1> DEFINE P == MaxPending * Lifetime
<1>1. P \in Nat /\ Lifetime \in Nat
  BY SenderAssumption, Lifetimes, ElapsedType
<1>2. /\ Expired = {} /\ Admissions(Cardinality(DOMAIN pending), Window(cwnd)) = 0
      /\ queue' = queue
      /\ age' = [m \in Messages |-> IF m \in Held THEN Aged(age[m], MaxAge) ELSE 0]
  BY DEF TimePasses, Quiet
<1>3. /\ DOMAIN pending' = DOMAIN pending /\ DOMAIN pending \subseteq Messages
      /\ \A m \in DOMAIN pending :
             /\ pending'[m].attempts = pending[m].attempts
             /\ pending'[m].age = pending[m].age + 1
  BY FlightsAge DEF SenderInvariant, TypeOK
<1>4. /\ age \in [Messages -> Nat] /\ Len(queue) \in Nat
      /\ \A i \in 1 .. Len(queue) : queue[i] \in Messages /\ queue[i] \in Held
  BY LenProperties, ElementOfSeq
     DEF OutageTypeOK, SenderInvariant, TypeOK, Held, Members
<1>5. \A m \in Held : m \in Messages /\ age'[m] <= age[m] + 1 /\ age'[m] \in Nat
                      /\ age[m] \in Nat
  <2>1. \A k \in Nat : Aged(k, MaxAge) <= k + 1 /\ Aged(k, MaxAge) \in Nat
    BY OutageNumbers DEF Aged, Smaller
  <2>2. Held \subseteq Messages
    BY <1>3, <1>4 DEF Held, Members
  <2> QED BY <1>2, <1>4, <2>1, <2>2
<1>6. \A m \in DOMAIN pending :
          /\ m \in Held /\ Remaining(m) \in 1 .. Lifetime
          /\ Remaining(m)' = Remaining(m) - 1
          /\ pending'[m].age <= Timeout(pending'[m].attempts)
  <2> TAKE m \in DOMAIN pending
  <2> DEFINE a == pending[m].attempts
             t == pending[m].age
  <2>1. /\ t <= Timeout(a) /\ m \notin Expired /\ m \in Held
    BY <1>2 DEF Deadlines, Held
  <2>2. /\ Remaining(m) \in 0 .. Lifetime /\ Remaining(m) > 0
        /\ t \in Nat /\ a \in 1 .. MaxAttempts
    BY <2>1, RemainingType
  <2>3. ~(t >= Timeout(a))
    BY <2>1 DEF Expired
  <2>4. /\ Remaining(m) = Lifetime - (Elapsed[a - 1] + t)
        /\ Remaining(m)' = Lifetime - (Elapsed[a - 1] + (t + 1))
    BY <1>3 DEF Remaining
  <2>5. pending'[m].age = t + 1 /\ pending'[m].attempts = a
    BY <1>3
  <2> HIDE DEF a, t
  <2>6. a - 1 \in 0 .. MaxAttempts
    BY <2>2, SenderAssumption DEF MaxAttempts
  <2>7. Elapsed[a - 1] \in Nat /\ Timeout(a) \in Nat
    BY <2>2, <2>6, ElapsedType, TimeoutTakesTime
  <2> QED BY <1>1, <2>1, <2>2, <2>3, <2>4, <2>5, <2>7
<1>7. Len(queue) > 0 => DOMAIN pending # {}
  <2>1. SUFFICES ASSUME Len(queue) > 0, DOMAIN pending = {} PROVE FALSE
    OBVIOUS
  <2>2. Cardinality(DOMAIN pending) = 0
    BY <2>1, FS_EmptySet
  <2>3. Window(cwnd) \in Nat \ {0}
    BY WindowBound, SenderAssumption DEF SenderInvariant, TypeOK
  <2> DEFINE w == Window(cwnd)
             n == Len(queue)
  <2>4. Smaller(n, Larger(0, w - 0)) = 0 /\ n \in Nat /\ n > 0
    BY <1>2, <1>4, <2>1, <2>2 DEF Admissions
  <2>5. w \in Nat \ {0}
    BY <2>3
  <2> HIDE DEF w, n
  <2> QED BY <2>4, <2>5 DEF Smaller, Larger
<1>8. ASSUME NEW m \in DOMAIN pending PROVE age'[m] + Remaining(m)' <= P
  <2>1. age[m] + Remaining(m) <= P
    BY DEF Deadlines
  <2> HIDE DEF P
  <2> QED BY <1>1, <1>5, <1>6, <2>1
<1>9. ASSUME NEW i \in 1 .. Len(queue)
      PROVE  /\ age'[queue[i]] + i * Lifetime <= P
             /\ \A m \in DOMAIN pending :
                    age'[queue[i]] + Remaining(m)' + i * Lifetime <= P
  <2> DEFINE q == queue[i]
             d == i * Lifetime
  <2>1. \A m \in DOMAIN pending : age[q] + Remaining(m) + d <= P
    BY DEF Deadlines
  <2>2. d \in Nat
    BY <1>4, Lifetimes
  <2>3. age[q] \in Nat /\ age'[q] \in Nat /\ age'[q] <= age[q] + 1
    BY <1>4, <1>5
  <2> HIDE DEF q, d, P
  <2>4. \A m \in DOMAIN pending : age'[q] + Remaining(m)' + d <= P
    BY <1>1, <1>6, <2>1, <2>2, <2>3
  <2>5. age'[q] + d <= P
    <3>1. PICK m \in DOMAIN pending : TRUE
      BY <1>4, <1>7
    <3>2. age[q] + Remaining(m) + d <= P /\ Remaining(m) \in 1 .. Lifetime
      BY <1>6, <2>1
    <3> QED BY <1>1, <2>2, <2>3, <3>2
  <2> QED BY <2>4, <2>5 DEF q, d
<1> QED BY <1>2, <1>3, <1>6, <1>8, <1>9 DEF Deadlines

\* Every step keeps the deadlines.
LEMMA DeadlinesKept ==
    ASSUME SenderInvariant, OutageTypeOK, Deadlines, [OutageNext]_allVars
    PROVE  Deadlines'
<1>1. ASSUME UNCHANGED <<pending, queue, age>> PROVE Deadlines'
  <2>1. \A m \in DOMAIN pending : Remaining(m)' = Remaining(m)
    BY <1>1 DEF Remaining
  <2> QED BY <1>1, <2>1 DEF Deadlines
<1>2. CASE Offer
  BY <1>2, OfferInTime
<1>3. CASE Pumps
  BY <1>3, PumpInTime DEF Pumps, data
<1>4. ASSUME NEW packet \in outbox, Transmits(packet) PROVE Deadlines'
  BY <1>1, <1>4 DEF Transmits, HandOver
<1>5. ASSUME NEW m \in answers, Answered(m) PROVE Deadlines'
  <2>1. CASE Acknowledge(m)
    <3>1. /\ pending' = [k \in DOMAIN pending \ {m} |-> pending[k]]
          /\ UNCHANGED <<queue, age>>
      BY <1>5, <2>1 DEF Acknowledge, Answered
    <3>2. DOMAIN pending \ {m} \in SUBSET DOMAIN pending
      OBVIOUS
    <3> QED BY <3>1, <3>2, AckInTime
  <2>2. CASE UNCHANGED vars
    BY <1>1, <1>5, <2>2 DEF Answered, vars
  <2> QED BY <1>5, <2>1, <2>2 DEF Answered
<1>6. CASE Pings \/ DataDown \/ \E p \in Paths : Changes(p)
  BY <1>1, <1>6 DEF Pings, DataDown, Changes, vars, data
<1>7. CASE TimePasses
  BY <1>7, TimeInTime
<1>8. CASE UNCHANGED allVars
  BY <1>1, <1>8 DEF allVars, vars, data
<1> QED BY <1>2, <1>3, <1>4, <1>5, <1>6, <1>7, <1>8 DEF OutageNext

-----------------------------------------------------------------------------
(* Working paths.                                                          *)

\* In a queue of which no message can come to the front too late for the
\* timestamp window, a packet sent for the first time is fresh.
LEMMA FirstIsFresh ==
    ASSUME (MaxPending - 1) * Lifetime <= Skew, OutageTypeOK,
           NEW m \in DOMAIN pending, m \in Messages, Deadlines,
           pending[m] = [attempts |-> 1, age |-> 0]
    PROVE  Fresh(m)
<1>1. Remaining(m) = Lifetime - (Elapsed[1 - 1] + 0)
  BY DEF Remaining
<1>2. age[m] + Remaining(m) <= MaxPending * Lifetime /\ age[m] \in Nat
  BY DEF Deadlines, OutageTypeOK
<1>3. Elapsed[1 - 1] = 0 /\ Lifetime \in Nat /\ Skew \in Nat /\ MaxPending \in Nat \ {0}
  BY ElapsedIs, ElapsedType, OutageAssumption, SenderAssumption
<1>4. ((MaxPending - 1) + 1) * Lifetime = (MaxPending - 1) * Lifetime + Lifetime
  <2>1. MaxPending - 1 \in Nat
    BY <1>3
  <2> QED BY <2>1, Lifetimes
<1>5. (MaxPending - 1) + 1 = MaxPending /\ (MaxPending - 1) * Lifetime \in Nat
  <2>1. MaxPending - 1 \in Nat
    BY <1>3
  <2> QED BY <1>3, <2>1, Lifetimes
<1>6. age[m] + Lifetime <= (MaxPending - 1) * Lifetime + Lifetime
  BY <1>1, <1>2, <1>3, <1>4, <1>5
<1>7. age[m] <= Skew
  BY <1>2, <1>3, <1>5, <1>6
<1> QED BY <1>7 DEF Fresh

\* What has a window of newer numbers after it keeps them while it is held and
\* when it is given up, and the window leaves nothing else behind.
LEMMA NumbersKept ==
    ASSUME SenderInvariant, OutageTypeOK, Numbers, [OutageNext]_allVars
    PROVE  /\ Numbers'
           /\ \A m \in Messages :
                  /\ newer[m] = WindowFrames
                  /\ m \in Held \/ fate[m] = "exhausted"
                  => newer'[m] = WindowFrames
<1> DEFINE Stays ==
               \A m \in Messages :
                   /\ newer[m] = WindowFrames
                   /\ m \in Held \/ fate[m] = "exhausted"
                   => newer'[m] = WindowFrames
<1>1. /\ newer \in [Messages -> 0 .. WindowFrames]
      /\ passes \in [Messages -> SUBSET Messages] /\ overrun \subseteq Messages
      /\ \A m \in overrun : newer[m] = WindowFrames
      /\ \A m \in Messages : \A k \in passes[m] : newer[k] = WindowFrames
      /\ WindowFrames \in Nat \ {0}
  BY OutageAssumption DEF Numbers
<1>2. Held \subseteq Messages
  BY DEF SenderInvariant, TypeOK, Held, Members
<1>3. /\ Numbered \in [Messages -> 0 .. WindowFrames]
      /\ \A m \in Messages : newer[m] = WindowFrames =>
             Numbered[m] = WindowFrames
      /\ Beyond(Numbered) \subseteq Messages
      /\ \A m \in Beyond(Numbered) : Numbered[m] = WindowFrames
  <2>1. \A n \in 0 .. WindowFrames :
            /\ Smaller(WindowFrames, n + 1) \in 0 .. WindowFrames
            /\ n = WindowFrames => Smaller(WindowFrames, n + 1) = WindowFrames
    BY <1>1 DEF Smaller
  <2>2. /\ Numbered \in [Messages -> 0 .. WindowFrames]
        /\ \A m \in Messages : newer[m] = WindowFrames =>
               Numbered[m] = WindowFrames
    BY <1>1, <2>1 DEF Numbered
  <2> QED BY <1>1, <1>2, <2>2 DEF Beyond
<1>4. ASSUME UNCHANGED numbers PROVE Numbers' /\ Stays
  BY <1>1, <1>4 DEF numbers, Numbers
<1>5. ASSUME newer' = Numbered, passes' = passes,
             overrun' \subseteq overrun \cup Beyond(Numbered)
      PROVE  Numbers' /\ Stays
  BY <1>1, <1>3, <1>5 DEF Numbers
<1>6. CASE Offer
  <2>1. made + 1 \in Messages
    BY <1>6, SenderAssumption
       DEF Offer, SendData, SenderInvariant, TypeOK, Messages
  <2>2. /\ newer' = Numbered /\ overrun' = overrun
        /\ passes' = [passes EXCEPT ![made + 1] = Beyond(Numbered)]
    BY <1>6 DEF Offer
  <2>3. \A m \in Messages : passes'[m] \in {passes[m], Beyond(Numbered)}
    BY <1>1, <2>1, <2>2
  <2>4. passes' \in [Messages -> SUBSET Messages]
    BY <1>1, <1>3, <2>1, <2>2
  <2> QED BY <1>1, <1>3, <2>2, <2>3, <2>4 DEF Numbers
<1>7. CASE Pumps \/ (\E m \in answers : Answered(m)) \/ \E p \in Paths : Changes(p)
  BY <1>4, <1>7 DEF Pumps, Answered, Changes
<1>8. ASSUME NEW packet \in outbox, Transmits(packet) PROVE Numbers' /\ Stays
  <2>1. packet[1] \in Messages
    BY DEF SenderInvariant, TypeOK
  <2>2. /\ newer' = newer /\ passes' = passes
        /\ overrun' \subseteq overrun \cup passes[packet[1]]
    BY <1>8 DEF Transmits
  <2> QED BY <1>1, <2>1, <2>2 DEF Numbers
<1>9. CASE Pings
  <2>1. /\ newer' = Numbered /\ passes' = passes
        /\ overrun' \subseteq overrun \cup Beyond(Numbered)
    BY <1>9 DEF Pings, TakesNumber
  <2> QED BY <1>5, <2>1
<1>10. CASE DataDown
  <2>1. \/ UNCHANGED numbers
        \/ /\ newer' = Numbered /\ passes' = passes
           /\ overrun' \subseteq overrun \cup Beyond(Numbered)
    BY <1>10 DEF DataDown, TakesNumber
  <2> QED BY <1>4, <1>5, <2>1
<1>11. CASE TimePasses
  <2>1. /\ newer' = [m \in Messages |->
                        IF m \in Held \/ fate[m] = "exhausted"
                        THEN newer[m] ELSE 0]
        /\ passes' = [m \in Messages |->
                         IF m \in Held THEN passes[m] \cap Held ELSE {}]
        /\ overrun' = overrun \cap Held
    BY <1>11 DEF TimePasses, Forgets
  <2>2. newer' \in [Messages -> 0 .. WindowFrames]
    BY <1>1, <2>1
  <2>3. /\ passes' \in [Messages -> SUBSET Messages]
        /\ \A m \in Messages : passes'[m] \subseteq passes[m] \cap Held
    BY <1>1, <2>1
  <2>4. \A m \in Held : newer'[m] = newer[m]
    BY <1>2, <2>1
  <2> QED BY <1>1, <2>1, <2>2, <2>3, <2>4 DEF Numbers
<1>12. CASE UNCHANGED allVars
  BY <1>4, <1>12 DEF allVars
<1> QED BY <1>6, <1>7, <1>8, <1>9, <1>10, <1>11, <1>12 DEF OutageNext

\* A message neither cut off nor overrun is answered before time passes.
LEMMA PromptKept ==
    ASSUME (MaxPending - 1) * Lifetime <= Skew, OutageInvariant,
           Numbers, Prompt, ExpiresOnlyInOutage, [OutageNext]_allVars
    PROVE  Prompt' /\ ExpiresOnlyInOutage'
<1>1. SenderInvariant /\ OutageTypeOK /\ Deadlines
  BY DEF OutageInvariant
<1>2. /\ DOMAIN pending \subseteq Messages /\ cut \subseteq Messages
      /\ \A i \in 1 .. Len(queue) : queue[i] \in Messages
      /\ outbox \subseteq Messages \X (1 .. MaxAttempts)
      /\ fate \in [Messages -> Fates]
  BY <1>1, ElementOfSeq DEF SenderInvariant, TypeOK, OutageTypeOK
<1>3. /\ \A m \in Held \ cut : up = Paths
      /\ \A m \in DOMAIN pending \ (cut \cup overrun) :
             /\ pending[m] = [attempts |-> 1, age |-> 0]
             /\ <<m, 1>> \in outbox \/ m \in answers
      /\ \A m \in Messages : fate[m] = "exhausted" =>
             m \in cut \/ newer[m] = WindowFrames
      /\ \A m \in overrun : newer[m] = WindowFrames
  BY DEF Prompt, ExpiresOnlyInOutage, Numbers
<1>0. \A m \in Messages : fate[m] = "exhausted" =>
          m \in cut \/ newer'[m] = WindowFrames
  BY <1>1, <1>3, NumbersKept
<1>4. ASSUME UNCHANGED <<queue, pending, outbox, fate, answers, up, cut>>,
             overrun \subseteq overrun'
      PROVE  Prompt' /\ ExpiresOnlyInOutage'
  <2>1. Held' = Held
    BY <1>4 DEF Held, Members
  <2>2. Prompt'
    BY <1>3, <1>4, <2>1 DEF Prompt
  <2>3. ExpiresOnlyInOutage'
    BY <1>0, <1>4 DEF ExpiresOnlyInOutage
  <2> QED BY <2>2, <2>3
<1>5. CASE Offer
  <2> DEFINE m == made + 1
  <2>1. /\ pending' = pending /\ outbox' = outbox /\ answers' = answers
        /\ up' = up /\ cut' = IF up = Paths THEN cut ELSE cut \cup {m}
        /\ queue' = IF Full THEN queue ELSE Append(queue, m)
        /\ fate' = [fate EXCEPT ![m] = IF Full THEN "refused" ELSE "queued"]
        /\ overrun' = overrun
    BY <1>5 DEF Offer, SendData, Enqueued
  <2>2. Held' \subseteq Held \cup {m}
    <3>1. queue \in Seq(Messages) /\ m \in Messages
      BY <1>1, <1>5, SenderAssumption
         DEF SenderInvariant, TypeOK, Offer, SendData, Messages
    <3>2. Members(Append(queue, m)) \subseteq Members(queue) \cup {m}
      <4>1. \A i \in 1 .. Len(Append(queue, m)) :
                \/ i \in 1 .. Len(queue) /\ Append(queue, m)[i] = queue[i]
                \/ Append(queue, m)[i] = m
        BY <3>1
      <4> QED BY <4>1 DEF Members
    <3> QED BY <2>1, <3>2 DEF Held
  <2>3. \A k \in Held' \ cut' : up' = Paths
    BY <1>3, <2>1, <2>2
  <2>4. \A k \in DOMAIN pending' \ (cut' \cup overrun') :
            /\ pending'[k] = [attempts |-> 1, age |-> 0]
            /\ <<k, 1>> \in outbox' \/ k \in answers'
    BY <1>3, <2>1
  <2>5. \A k \in Messages : fate'[k] = "exhausted" =>
            k \in cut' \/ newer'[k] = WindowFrames
    BY <1>0, <1>2, <2>1
  <2> QED BY <2>3, <2>4, <2>5 DEF Prompt, ExpiresOnlyInOutage
<1>6. CASE Pumps
  <2>1. /\ Pump /\ outbox = {} /\ answers' = answers /\ up' = up /\ cut' = cut
        /\ newer' = newer /\ overrun' = overrun
    BY <1>6 DEF Pumps, Pump, data, numbers, world
  <2>2. /\ \A m \in Admitted : pending'[m] = [attempts |-> 1, age |-> 0]
        /\ \A m \in Retried \ Admitted :
               pending'[m] = [attempts |-> pending[m].attempts + 1, age |-> 0]
        /\ \A m \in (Kept \ Retried) \ Admitted : pending'[m] = pending[m]
        /\ DOMAIN pending' = Kept \cup Admitted /\ Kept \subseteq DOMAIN pending
        /\ Len(queue') = Len(queue) - AdmittedCount
        /\ \A i \in 1 .. Len(queue') : queue'[i] = queue[AdmittedCount + i]
    BY <1>1, <2>1, PumpLeaves
  <2>3. Expired \subseteq cut \cup overrun
    <3>1. ASSUME NEW m \in Expired, m \notin cut \cup overrun PROVE FALSE
      <4>1. m \in DOMAIN pending /\ pending[m].age >= Timeout(pending[m].attempts)
        BY DEF Expired
      <4>2. pending[m] = [attempts |-> 1, age |-> 0]
        BY <1>3, <3>1, <4>1
      <4>3. pending[m].age = 0 /\ pending[m].attempts = 1
        BY <4>2
      <4>4. Timeout(1) \in Nat \ {0}
        BY TimeoutTakesTime, SenderAssumption DEF MaxAttempts
      <4> QED BY <4>1, <4>3, <4>4
    <3> QED BY <3>1
  <2>4. Held' \subseteq Held
    <3>1. AdmittedCount \in 0 .. Len(queue) /\ Len(queue) \in Nat
      BY <1>1, PumpFinds
    <3>2. Members(queue)' \subseteq Members(queue)
      <4>1. \A i \in 1 .. Len(queue') : AdmittedCount + i \in 1 .. Len(queue)
        BY <2>2, <3>1
      <4> QED BY <2>2, <4>1 DEF Members
    <3>3. Admitted \subseteq Members(queue)
      <4>1. \A i \in 1 .. AdmittedCount : i \in 1 .. Len(queue)
        BY <3>1
      <4> QED BY <4>1 DEF Admitted, Members
    <3> QED BY <2>2, <3>2, <3>3 DEF Held
  <2>5. ASSUME NEW m \in DOMAIN pending' \ (cut \cup overrun)
        PROVE  /\ pending'[m] = [attempts |-> 1, age |-> 0]
               /\ <<m, 1>> \in outbox' \/ m \in answers
    <3>1. CASE m \in Admitted
      <4>1. pending'[m] = [attempts |-> 1, age |-> 0]
        BY <2>2, <3>1
      <4>2. <<m, pending'[m].attempts>> \in outbox'
        BY <2>1, <3>1, PumpDoes
      <4> QED BY <4>1, <4>2
    <3>2. CASE m \notin Admitted
      <4>1. m \in Kept /\ m \notin Retried /\ m \in DOMAIN pending
        BY <2>2, <2>3, <2>5, <3>2 DEF Retried
      <4>2. pending'[m] = pending[m]
        BY <2>2, <3>2, <4>1
      <4> QED BY <1>3, <2>1, <2>5, <4>1, <4>2
    <3> QED BY <3>1, <3>2
  <2>6. \A m \in Messages : fate'[m] = "exhausted" =>
            m \in cut \/ newer[m] = WindowFrames
    <3>1. \A m \in Exhausted : m \in cut \/ newer[m] = WindowFrames
      BY <1>3, <2>3 DEF Exhausted
    <3>2. \A m \in Messages : fate'[m] = "exhausted" =>
              m \in Exhausted \/ fate[m] = "exhausted"
      BY <2>1, PumpDoes
    <3> QED BY <1>3, <3>1, <3>2
  <2>7. \A m \in Held' \ cut : up' = Paths
    BY <1>3, <2>1, <2>4
  <2> QED BY <2>1, <2>5, <2>6, <2>7 DEF Prompt, ExpiresOnlyInOutage
<1>7. ASSUME NEW packet \in outbox, Transmits(packet)
      PROVE  Prompt' /\ ExpiresOnlyInOutage'
  <2> DEFINE m == packet[1]
             ok == "uplink" \in up /\ Fresh(m) /\ m \notin overrun
  <2>1. /\ outbox' = outbox \ {packet} /\ pending' = pending /\ queue' = queue
        /\ fate' = fate /\ up' = up /\ cut' = cut
        /\ overrun \subseteq overrun'
        /\ answers' = IF ok /\ "downlink" \in up THEN answers \cup {m} ELSE answers
    BY <1>7 DEF Transmits, HandOver, world
  <2>2. Held' = Held
    BY <2>1 DEF Held, Members
  <2>3. ASSUME NEW k \in DOMAIN pending \ (cut \cup overrun)
        PROVE  <<k, 1>> \in outbox' \/ k \in answers'
    <3>1. CASE packet = <<k, 1>>
      <4>1. m = k
        BY <3>1
      <4>2. pending[k] = [attempts |-> 1, age |-> 0] /\ up = Paths
        BY <1>3, <2>3 DEF Held
      <4>3. Fresh(k)
        BY <1>1, <1>2, <2>3, <4>2, FirstIsFresh
      <4>4. "uplink" \in up /\ "downlink" \in up
        BY <4>2 DEF Paths
      <4> QED BY <2>1, <4>1, <4>3, <4>4
    <3>2. CASE packet # <<k, 1>>
      BY <1>3, <2>1, <2>3, <3>2
    <3> QED BY <3>1, <3>2
  <2>4. \A k \in DOMAIN pending' \ (cut' \cup overrun') :
            /\ pending'[k] = [attempts |-> 1, age |-> 0]
            /\ <<k, 1>> \in outbox' \/ k \in answers'
    BY <1>3, <2>1, <2>3
  <2>5. \A k \in Held' \ cut' : up' = Paths
    BY <1>3, <2>1, <2>2
  <2>6. \A k \in Messages : fate'[k] = "exhausted" =>
            k \in cut' \/ newer'[k] = WindowFrames
    BY <1>0, <2>1
  <2> QED BY <2>4, <2>5, <2>6 DEF Prompt, ExpiresOnlyInOutage
<1>8. ASSUME NEW m \in answers, Answered(m)
      PROVE  Prompt' /\ ExpiresOnlyInOutage'
  <2>1. answers' = answers \ {m} /\ up' = up /\ cut' = cut /\ overrun' = overrun
    BY <1>8 DEF Answered, numbers, world
  <2>2. CASE Acknowledge(m)
    <3>1. /\ pending' = [k \in DOMAIN pending \ {m} |-> pending[k]]
          /\ fate' = [fate EXCEPT ![m] = "acked"]
          /\ queue' = queue /\ outbox' = outbox
      BY <2>2 DEF Acknowledge
    <3>2. Held' \subseteq Held
      BY <3>1 DEF Held, Members
    <3>3. \A k \in DOMAIN pending' \ (cut' \cup overrun') :
              /\ pending'[k] = [attempts |-> 1, age |-> 0]
              /\ <<k, 1>> \in outbox' \/ k \in answers'
      BY <1>3, <2>1, <3>1
    <3>4. \A k \in Held' \ cut' : up' = Paths
      BY <1>3, <2>1, <3>2
    <3>5. \A k \in Messages : fate'[k] = "exhausted" =>
              k \in cut' \/ newer'[k] = WindowFrames
      BY <1>0, <1>2, <2>1, <3>1
    <3> QED BY <3>3, <3>4, <3>5 DEF Prompt, ExpiresOnlyInOutage
  <2>3. CASE m \notin DOMAIN pending /\ UNCHANGED vars
    <3>1. UNCHANGED <<queue, pending, outbox, fate>>
      BY <2>3 DEF vars
    <3>2. Held' = Held
      BY <3>1 DEF Held, Members
    <3>3. Prompt'
      BY <1>3, <2>1, <2>3, <3>1, <3>2 DEF Prompt
    <3>4. ExpiresOnlyInOutage'
      BY <1>0, <2>1, <3>1 DEF ExpiresOnlyInOutage
    <3> QED BY <3>3, <3>4
  <2> QED BY <1>8, <2>2, <2>3 DEF Answered
<1>9. CASE Pings \/ DataDown
  <2>1. UNCHANGED <<queue, pending, outbox, fate, answers, up, cut>>
    BY <1>9 DEF Pings, DataDown, vars, data, world
  <2>2. overrun \subseteq overrun'
    BY <1>9 DEF Pings, DataDown, TakesNumber, numbers
  <2> QED BY <1>4, <2>1, <2>2
<1>10. ASSUME NEW p \in Paths, Changes(p)
       PROVE  Prompt' /\ ExpiresOnlyInOutage'
  <2>1. cut' = cut \cup Held /\ UNCHANGED <<queue, pending, fate>>
    BY <1>10 DEF Changes, vars
  <2>2. Held' = Held /\ DOMAIN pending \subseteq Held
    BY <2>1 DEF Held, Members
  <2>3. Prompt'
    BY <2>1, <2>2 DEF Prompt
  <2>4. ExpiresOnlyInOutage'
    BY <1>0, <2>1 DEF ExpiresOnlyInOutage
  <2> QED BY <2>3, <2>4
<1>11. CASE TimePasses
  <2>1. /\ outbox = {} /\ answers = {}
        /\ overrun' = overrun \cap Held
        /\ UNCHANGED <<queue, fate, up, cut>>
    BY <1>11 DEF TimePasses, Quiet, Forgets, world
  <2>2. DOMAIN pending' = DOMAIN pending
    BY <1>11 DEF TimePasses
  <2>3. DOMAIN pending \subseteq cut \cup overrun'
    BY <1>3, <2>1 DEF Held
  <2>4. Held' = Held
    BY <2>1, <2>2 DEF Held, Members
  <2>5. Prompt'
    BY <1>3, <2>1, <2>2, <2>3, <2>4 DEF Prompt
  <2>6. ExpiresOnlyInOutage'
    BY <1>0, <2>1 DEF ExpiresOnlyInOutage
  <2> QED BY <2>5, <2>6
<1>12. CASE UNCHANGED allVars
  <2>1. UNCHANGED <<queue, pending, outbox, fate, answers, up, cut, overrun>>
    BY <1>12 DEF allVars, vars, data, numbers, world
  <2> QED BY <1>4, <2>1
<1> QED BY <1>5, <1>6, <1>7, <1>8, <1>9, <1>10, <1>11, <1>12 DEF OutageNext

-----------------------------------------------------------------------------
(* The theorems about time and health.                                     *)

\* At the start nothing is held, no stamp is set and no path has failed yet.
LEMMA OutageInitHolds ==
    OutageInit => PromptInvariant
<1> SUFFICES ASSUME OutageInit PROVE PromptInvariant
  OBVIOUS
<1>1. SenderInvariant
  BY InitInvariant DEF OutageInit
<1>2. /\ queue = <<>> /\ Len(queue) = 0 /\ DOMAIN pending = {}
      /\ \A m \in Messages : fate[m] = "none"
  BY EmptySeq DEF OutageInit, Init
<1>3. Held = {}
  BY <1>2 DEF Held, Members
<1>4. OutageTypeOK
  BY OutageNumbers DEF OutageInit, OutageTypeOK, Paths
<1>5. \A p \in Paths : since[p] = 0
  BY DEF OutageInit
<1>6. /\ answers = {} /\ nextPing = Keepalive
      /\ stamp["iran"]["downlink"] = MaxStamp
      /\ stamp["foreign"]["uplink"] = MaxStamp
  BY DEF OutageInit, Agents, Paths
<1>7. DeadPaths
  BY <1>5, <1>6, OutageNumbers DEF DeadPaths, Paths
<1>8. LivePaths
  BY <1>5, <1>6, OutageNumbers DEF LivePaths, Paths
<1>9. Deadlines
  BY <1>2 DEF Deadlines
<1>10. Prompt /\ ExpiresOnlyInOutage
  BY <1>2, <1>3 DEF Prompt, ExpiresOnlyInOutage
<1>11. Numbers
  BY OutageAssumption DEF OutageInit, Numbers
<1> QED BY <1>1, <1>4, <1>7, <1>8, <1>9, <1>10, <1>11
           DEF OutageInvariant, PromptInvariant

\* The inductive invariant of the sender over time, whatever the paths do.
THEOREM OutageInvariance == OutageSpec => []OutageInvariant
<1>1. OutageInit => OutageInvariant
  BY OutageInitHolds DEF PromptInvariant
<1>2. OutageInvariant /\ [OutageNext]_allVars => OutageInvariant'
  BY SenderKept, HealthKept, DeadlinesKept DEF OutageInvariant
<1> QED BY <1>1, <1>2, PTL DEF OutageSpec

\* is_healthy: on paths that have worked for a keepalive both agents report
\* health, and an agent whose path has been dead for longer than its timeout
\* reports that, however busily it retransmits.
THEOREM HealthIsTold == OutageSpec => []HealthIsTrue
<1>1. OutageInvariant => HealthIsTrue
  <2> SUFFICES ASSUME OutageInvariant PROVE HealthIsTrue
    OBVIOUS
  <2>1. OutageTypeOK /\ DeadPaths /\ LivePaths
    BY DEF OutageInvariant
  <2>2. /\ nextPing \in Nat /\ \A p \in Paths : since[p] \in Nat
        /\ stamp["iran"]["downlink"] \in Nat
        /\ stamp["foreign"]["uplink"] \in Nat
    BY <2>1, OutageNumbers DEF OutageTypeOK, Agents, Paths
  <2>3. /\ Healthy("iran") <=> stamp["iran"]["downlink"] <= HealthTimeout
        /\ Healthy("foreign") <=> stamp["foreign"]["uplink"] <= HealthTimeout
    BY DEF Healthy
  <2>4. ASSUME up = Paths, \A p \in Paths : since[p] > Keepalive
        PROVE  Healthy("iran") /\ Healthy("foreign")
    <3>1. \A p \in Paths : since[p] + nextPing > Keepalive
      BY <2>2, <2>4, OutageNumbers
    <3>2. /\ stamp["iran"]["downlink"] + nextPing <= Keepalive
          /\ stamp["foreign"]["uplink"] + nextPing <= Keepalive
      BY <2>1, <2>4, <3>1 DEF LivePaths
    <3> QED BY <2>2, <2>3, <3>2, OutageNumbers
  <2>5. ASSUME "downlink" \notin up, since["downlink"] > HealthTimeout
        PROVE  ~Healthy("iran")
    BY <2>1, <2>2, <2>3, <2>5, OutageNumbers DEF DeadPaths, Paths
  <2>6. ASSUME "uplink" \notin up, since["uplink"] > HealthTimeout
        PROVE  ~Healthy("foreign")
    BY <2>1, <2>2, <2>3, <2>6, OutageNumbers DEF DeadPaths, Paths
  <2> QED BY <2>4, <2>5, <2>6 DEF HealthIsTrue
<1> QED BY <1>1, OutageInvariance, PTL

\* ReliableSender.pump: whatever the paths do, what send_data has accepted is
\* acknowledged or given up within the lifetimes of a full queue.
THEOREM SettledOnTime == OutageSpec => []SettledInTime
<1>1. OutageInvariant => SettledInTime
  <2> SUFFICES ASSUME OutageInvariant, NEW m \in Held
               PROVE  age[m] <= MaxPending * Lifetime
    BY DEF SettledInTime
  <2>1. SenderInvariant /\ OutageTypeOK /\ Deadlines
    BY DEF OutageInvariant
  <2>2. /\ MaxPending * Lifetime \in Nat
        /\ \A k \in Messages : age[k] \in Nat
    BY <2>1, SenderAssumption, Lifetimes DEF OutageTypeOK
  <2>3. DOMAIN pending \subseteq Messages /\ queue \in Seq(Messages)
    BY <2>1 DEF SenderInvariant, TypeOK
  <2>4. \A i \in 1 .. Len(queue) : queue[i] \in Messages
    BY <2>3
  <2>5. CASE m \in Members(queue)
    <3>1. PICK i \in 1 .. Len(queue) : m = queue[i]
      BY <2>5 DEF Members
    <3>2. age[m] + i * Lifetime <= MaxPending * Lifetime
      BY <2>1, <3>1 DEF Deadlines
    <3>3. i * Lifetime \in Nat
      BY Lifetimes
    <3> QED BY <2>2, <2>4, <3>1, <3>2, <3>3
  <2>6. CASE m \in DOMAIN pending
    <3>1. pending[m].age <= Timeout(pending[m].attempts)
      BY <2>1, <2>6 DEF Deadlines
    <3>2. Remaining(m) \in Nat
      BY <2>1, <2>6, <3>1, RemainingType, ElapsedType
    <3>3. age[m] + Remaining(m) <= MaxPending * Lifetime
      BY <2>1, <2>6 DEF Deadlines
    <3> QED BY <2>2, <2>3, <2>6, <3>2, <3>3
  <2> QED BY <2>5, <2>6 DEF Held
<1> QED BY <1>1, OutageInvariance, PTL

\* encode, decode and record_received_frame: where all the messages that can be
\* ahead of one may live out their time within MAX_CLOCK_SKEW, no message is
\* given up unless a path was down while the sender had it, or a replay window
\* of newer frames was numbered meanwhile. Without the former, the
\* outage_backlog run shows one given up on paths that work.
THEOREM GivenUpOnlyInOutage ==
    ASSUME (MaxPending - 1) * Lifetime <= Skew
    PROVE  OutageSpec => []ExpiresOnlyInOutage
<1>1. OutageInit => PromptInvariant
  BY OutageInitHolds
<1>2. PromptInvariant /\ [OutageNext]_allVars => PromptInvariant'
  BY SenderKept, HealthKept, DeadlinesKept, NumbersKept, PromptKept
     DEF OutageInvariant, PromptInvariant
<1>3. PromptInvariant => ExpiresOnlyInOutage
  BY DEF PromptInvariant
<1> QED BY <1>1, <1>2, <1>3, PTL DEF OutageSpec

=============================================================================
