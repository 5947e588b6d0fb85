------------------------- MODULE ReassemblerProofs -------------------------
(***************************************************************************)
(* Proofs about Reassembler, for any messages and fragment counts, any     *)
(* timeouts and any capacity, and in the second half about the content of  *)
(* a message, Fragmentation, for any payload and fragment size.            *)
(***************************************************************************)
EXTENDS Reassembler, Fragmentation, FiniteSetTheorems, SequenceTheorems,
        WellFoundedInduction, TLAPS

-----------------------------------------------------------------------------
(* Greatest elements.                                                      *)

\* A set of natural numbers has a least element.
LEMMA LeastExists ==
    ASSUME NEW T \in SUBSET Nat, T # {}
    PROVE  \E x \in T : \A y \in T : x <= y
<1>1. PICK x \in T : \A y \in T : ~ (<<y, x>> \in OpToRel(<, Nat))
  BY WFMin, NatLessThanWellFounded
<1>2. \A y \in T : ~ (y < x)
  BY <1>1 DEF OpToRel
<1> QED BY <1>2

\* A bounded one has a greatest, and Max is it.
LEMMA MaxIsMember ==
    ASSUME NEW n \in Nat, NEW S \in SUBSET (0 .. n), S # {}
    PROVE  Max(S) \in S /\ \A y \in S : Max(S) >= y
<1> DEFINE T == {n - x : x \in S}
<1>0. \A x \in S : x \in 0 .. n /\ n - x \in Nat
  OBVIOUS
<1>1. T \in SUBSET Nat /\ T # {}
  <2>1. T \subseteq Nat
    BY <1>0
  <2>2. PICK x : x \in S
    OBVIOUS
  <2>3. n - x \in T
    BY <2>2
  <2> QED BY <2>1, <2>3
<1>2. PICK t \in T : \A y \in T : t <= y
  BY <1>1, LeastExists
<1>3. \E x \in S : \A y \in S : x >= y
  BY <1>2
<1> QED BY <1>3 DEF Max

\* The greater of two numbers.
LEMMA MaxOfTwo ==
    ASSUME NEW a \in Int, NEW b \in Int
    PROVE  Max({a, b}) = IF a >= b THEN a ELSE b
<1>1. Max({a, b}) \in {a, b} /\ \A y \in {a, b} : Max({a, b}) >= y
  <2>1. \E x \in {a, b} : \A y \in {a, b} : x >= y
    OBVIOUS
  <2> QED BY <2>1 DEF Max
<1> QED BY <1>1

-----------------------------------------------------------------------------
(* The order of completed messages.                                        *)

\* A key is remembered at some place.
LEMMA KeyPlaces == \A c, k : k \in Keys(c) <=> \E i \in DOMAIN c : c[i].key = k
BY DEF Keys

\* A function whose entries are those of another, m places on.
LEMMA Shifted ==
    ASSUME NEW n \in Nat, NEW m \in 0 .. n, NEW c, NEW s,
           DOMAIN c = 1 .. n, DOMAIN s = 1 .. n - m,
           \A i \in 1 .. n - m : s[i] = c[i + m]
    PROVE  /\ RememberedOnce(c) => RememberedOnce(s)
           /\ Keys(s) \subseteq Keys(c)
           /\ \A i \in m + 1 .. n : c[i].key \in Keys(s)
<1>1. \A i \in DOMAIN s : i \in Int /\ i + m \in DOMAIN c /\ s[i] = c[i + m]
  OBVIOUS
<1>2. ASSUME NEW i \in m + 1 .. n PROVE i - m \in DOMAIN s /\ s[i - m] = c[i]
  <2>1. i - m \in 1 .. n - m /\ (i - m) + m = i
    OBVIOUS
  <2> QED BY <2>1
<1>3. ASSUME RememberedOnce(c), NEW i \in DOMAIN s, NEW j \in DOMAIN s,
             s[i].key = s[j].key
      PROVE  i = j
  <2>1. i + m = j + m
    BY <1>1, <1>3 DEF RememberedOnce
  <2> QED BY <1>1, <2>1
<1>4. RememberedOnce(c) => RememberedOnce(s)
  BY <1>3 DEF RememberedOnce
<1>5. Keys(s) \subseteq Keys(c)
  BY <1>1, KeyPlaces
<1>6. \A i \in m + 1 .. n : c[i].key \in Keys(s)
  BY <1>2, KeyPlaces
<1> QED BY <1>4, <1>5, <1>6

\* What is left of a sequence without its first m entries.
LEMMA Suffix ==
    ASSUME NEW E, NEW c \in Seq(E), NEW m \in 0 .. Len(c)
    PROVE  LET s == SubSeq(c, m + 1, Len(c))
           IN  /\ s \in Seq(E) /\ Len(s) = Len(c) - m
               /\ \A i \in 1 .. Len(s) : s[i] = c[i + m]
               /\ RememberedOnce(c) => RememberedOnce(s)
               /\ Keys(s) \subseteq Keys(c)
               /\ \A i \in m + 1 .. Len(c) : c[i].key \in Keys(s)
<1> DEFINE s == SubSeq(c, m + 1, Len(c))
           n == Len(c)
<1>1. /\ s \in Seq(E) /\ Len(s) = n - m /\ n \in Nat /\ m \in 0 .. n
      /\ DOMAIN s = 1 .. n - m /\ DOMAIN c = 1 .. n
      /\ \A i \in 1 .. n - m : s[i] = c[i + m]
  OBVIOUS
<1> HIDE DEF s, n
<1>2. /\ RememberedOnce(c) => RememberedOnce(s)
      /\ Keys(s) \subseteq Keys(c)
      /\ \A i \in m + 1 .. n : c[i].key \in Keys(s)
  BY <1>1, Shifted
<1> QED BY <1>1, <1>2 DEF s, n

\* _purge takes expired entries from the front and nothing else.
LEMMA PurgedIs ==
    ASSUME TypeOK
    PROVE  \E m \in 0 .. Len(completed) :
               /\ Purged = SubSeq(completed, m + 1, Len(completed))
               /\ \A i \in 1 .. m : now - completed[i].at > TTL
<1> DEFINE expired(i) == now - completed[i].at > TTL
           gone == {n \in 0 .. Len(completed) : \A i \in 1 .. n : expired(i)}
<1>1. Len(completed) \in Nat
  BY DEF TypeOK
<1>2. 0 \in gone /\ gone \in SUBSET (0 .. Len(completed))
  BY <1>1
<1>3. Max(gone) \in gone
  <2> HIDE DEF gone
  <2> QED BY <1>1, <1>2, MaxIsMember
<1>4. Purged = SubSeq(completed, Max(gone) + 1, Len(completed))
  BY DEF Purged
<1>5. Max(gone) \in 0 .. Len(completed) /\ \A i \in 1 .. Max(gone) : expired(i)
  BY <1>3
<1> HIDE DEF gone
<1> QED BY <1>4, <1>5

\* popitem keeps the last 2 * max_messages entries.
LEMMA CappedIs ==
    ASSUME NEW E, NEW c \in Seq(E)
    PROVE  \E m \in 0 .. Len(c) :
               /\ Capped(c) = SubSeq(c, m + 1, Len(c))
               /\ \/ m = 0 /\ Len(c) <= 2 * MaxMessages
                  \/ m > 0 /\ Len(c) - m = 2 * MaxMessages
<1>1. MaxMessages \in Nat \ {0} /\ Len(c) \in Nat
  BY ReassemblerAssumption
<1> DEFINE n == Len(c)
           top == Max({1, n - 2 * MaxMessages + 1})
<1>2. Capped(c) = SubSeq(c, top, Len(c))
  BY DEF Capped
<1>3. top = IF n <= 2 * MaxMessages THEN 1 ELSE n - 2 * MaxMessages + 1
  <2>1. n \in Nat
    BY <1>1
  <2> HIDE DEF n
  <2> QED BY <1>1, <2>1, MaxOfTwo
<1> HIDE DEF top
<1>4. CASE n <= 2 * MaxMessages
  <2>1. 0 \in 0 .. Len(c) /\ top = 0 + 1
    BY <1>1, <1>3, <1>4
  <2> QED BY <1>2, <1>4, <2>1
<1>5. CASE ~(n <= 2 * MaxMessages)
  <2> DEFINE m == n - 2 * MaxMessages
  <2>1. m \in 0 .. Len(c) /\ m > 0 /\ Len(c) - m = 2 * MaxMessages
    BY <1>1, <1>5
  <2>2. top = m + 1
    BY <1>3, <1>5
  <2> HIDE DEF m
  <2> QED BY <1>2, <2>1, <2>2
<1> QED BY <1>4, <1>5

\* The entries of a sequence without the one at i.
LEMMA RemovedAt ==
    ASSUME NEW E, NEW c \in Seq(E), NEW i \in 1 .. Len(c)
    PROVE  /\ RemoveAt(c, i) \in Seq(E)
           /\ Len(RemoveAt(c, i)) = Len(c) - 1
           /\ \A j \in 1 .. Len(c) - 1 :
                  RemoveAt(c, i)[j] = IF j < i THEN c[j] ELSE c[j + 1]
<1> DEFINE a == SubSeq(c, 1, i - 1)
           b == SubSeq(c, i + 1, Len(c))
<1>1. Len(c) \in Nat /\ i \in 1 .. Len(c)
  OBVIOUS
<1>2. a \in Seq(E) /\ Len(a) = i - 1 /\ \A j \in 1 .. i - 1 : a[j] = c[j]
  BY <1>1
<1>3. /\ b \in Seq(E) /\ Len(b) = Len(c) - i
      /\ \A j \in 1 .. Len(c) - i : b[j] = c[j + i]
  BY <1>1
<1>4. RemoveAt(c, i) = a \o b
  BY DEF RemoveAt
<1> HIDE DEF a, b
<1>5. /\ a \o b \in Seq(E) /\ Len(a \o b) = Len(a) + Len(b)
      /\ \A j \in 1 .. Len(a) + Len(b) :
             (a \o b)[j] = IF j <= Len(a) THEN a[j] ELSE b[j - Len(a)]
  BY <1>2, <1>3, ConcatProperties
<1>6. ASSUME NEW j \in 1 .. Len(c) - 1
      PROVE  (a \o b)[j] = IF j < i THEN c[j] ELSE c[j + 1]
  <2>1. CASE j < i
    BY <1>1, <1>2, <1>3, <1>5, <2>1
  <2>2. CASE ~(j < i)
    <3>1. j - (i - 1) \in 1 .. Len(c) - i /\ (j - (i - 1)) + i = j + 1
      BY <1>1, <2>2
    <3>2. (a \o b)[j] = b[j - (i - 1)]
      BY <1>1, <1>2, <1>3, <1>5, <2>2
    <3> QED BY <1>3, <2>2, <3>1, <3>2
  <2> QED BY <2>1, <2>2
<1> QED BY <1>1, <1>2, <1>3, <1>4, <1>5, <1>6

\* The entries of s are those of c, the one at i moved to the end.
Relocated(n, i, c, s) ==
    /\ n \in Nat /\ i \in 1 .. n /\ DOMAIN c = 1 .. n /\ DOMAIN s = 1 .. n
    /\ \A j \in 1 .. n : s[j] = IF j < i THEN c[j]
                                ELSE IF j < n THEN c[j + 1] ELSE c[i]

\* They have the same keys, and none of them twice if it was so before.
LEMMA Moved ==
    ASSUME NEW n, NEW i, NEW c, NEW s, Relocated(n, i, c, s)
    PROVE  /\ RememberedOnce(c) => RememberedOnce(s)
           /\ Keys(s) = Keys(c)
<1> DEFINE from(j) == IF j < i THEN j ELSE IF j < n THEN j + 1 ELSE i
           to(j) == IF j < i THEN j ELSE IF j = i THEN n ELSE j - 1
<1>0. n \in Nat /\ i \in 1 .. n /\ DOMAIN c = 1 .. n /\ DOMAIN s = 1 .. n
  BY DEF Relocated
<1>1. \A j \in 1 .. n : from(j) \in 1 .. n /\ s[j] = c[from(j)]
  BY DEF Relocated
<1>2. \A j, m \in 1 .. n : from(j) = from(m) => j = m
  BY <1>0
<1>3. \A j \in 1 .. n : to(j) \in 1 .. n /\ from(to(j)) = j
  BY <1>0
<1> HIDE DEF from, to
<1>4. RememberedOnce(c) => RememberedOnce(s)
  BY <1>0, <1>1, <1>2 DEF RememberedOnce
<1>5. Keys(s) \subseteq Keys(c)
  <2>1. ASSUME NEW k, NEW j \in 1 .. n, s[j].key = k PROVE k \in Keys(c)
    BY <1>0, <1>1, <2>1, KeyPlaces
  <2> QED BY <1>0, <2>1, KeyPlaces
<1>6. \A j \in 1 .. n : s[to(j)] = c[j]
  BY <1>1, <1>3
<1>7. Keys(c) \subseteq Keys(s)
  BY <1>0, <1>3, <1>6, KeyPlaces
<1> QED BY <1>4, <1>5, <1>7

\* move_to_end changes the order and nothing else.
LEMMA MovedIs ==
    ASSUME NEW E, NEW c \in Seq(E), RememberedOnce(c), NEW k \in Keys(c)
    PROVE  /\ MovedToEnd(c, k) \in Seq(E)
           /\ Len(MovedToEnd(c, k)) = Len(c)
           /\ Keys(MovedToEnd(c, k)) = Keys(c)
           /\ RememberedOnce(MovedToEnd(c, k))
<1> DEFINE i == CHOOSE j \in DOMAIN c : c[j].key = k
           r == RemoveAt(c, i)
           s == Append(r, c[i])
<1>1. i \in 1 .. Len(c) /\ DOMAIN c = 1 .. Len(c) /\ Len(c) \in Nat
  BY KeyPlaces
<1>2. MovedToEnd(c, k) = s
  BY DEF MovedToEnd
<1> HIDE DEF i
<1>3. /\ r \in Seq(E) /\ Len(r) = Len(c) - 1 /\ c[i] \in E
      /\ \A j \in 1 .. Len(c) - 1 : r[j] = IF j < i THEN c[j] ELSE c[j + 1]
  <2>1. c[i] \in E
    BY <1>1
  <2> QED BY <1>1, <2>1, RemovedAt
<1> HIDE DEF r
<1>4. /\ s \in Seq(E) /\ Len(s) = Len(r) + 1 /\ DOMAIN s = 1 .. Len(r) + 1
      /\ \A j \in 1 .. Len(r) + 1 : s[j] = IF j <= Len(r) THEN r[j] ELSE c[i]
  BY <1>3
<1> HIDE DEF s
<1>5. /\ Len(s) = Len(c) /\ DOMAIN s = 1 .. Len(c)
      /\ \A j \in 1 .. Len(c) : s[j] = IF j < i THEN c[j]
                                       ELSE IF j < Len(c) THEN c[j + 1]
                                       ELSE c[i]
  BY <1>1, <1>3, <1>4
<1>6. Relocated(Len(c), i, c, s)
  BY <1>1, <1>5 DEF Relocated
<1>7. RememberedOnce(s) /\ Keys(s) = Keys(c)
  BY <1>6, Moved
<1> QED BY <1>2, <1>4, <1>5, <1>7

\* Entries with different keys are as many as their keys.
LEMMA KeysCounted ==
    ASSUME NEW E, NEW c \in Seq(E), RememberedOnce(c)
    PROVE  Cardinality(Keys(c)) = Len(c)
<1> DEFINE f == [i \in 1 .. Len(c) |-> c[i].key]
<1>1. DOMAIN c = 1 .. Len(c) /\ Len(c) \in Nat
  OBVIOUS
<1>2. f \in Bijection(1 .. Len(c), Keys(c))
  <2>1. \A i \in 1 .. Len(c) : c[i].key \in Keys(c)
    BY <1>1, KeyPlaces
  <2>2. \A k \in Keys(c) : \E i \in 1 .. Len(c) : c[i].key = k
    BY <1>1, KeyPlaces
  <2>3. \A i, j \in 1 .. Len(c) : c[i].key = c[j].key => i = j
    BY <1>1 DEF RememberedOnce
  <2> QED BY <2>1, <2>2, <2>3
          DEF Bijection, Injection, IsInjective, Surjection
<1>3. ExistsBijection(1 .. Len(c), Keys(c))
  BY <1>2 DEF ExistsBijection
<1>4. IsFiniteSet(1 .. Len(c)) /\ Cardinality(1 .. Len(c)) = Len(c)
  BY <1>1, FS_Interval
<1> QED BY <1>3, <1>4, FS_Bijection

-----------------------------------------------------------------------------
(* Parts of the invariant.                                                 *)

Entry == [key : Message, at : 0 .. now]

\* The table of completed messages is in order.
CompletedOK ==
    /\ completed \in Seq(Entry) /\ RememberedOnce(completed)
    /\ Len(completed) <= 2 * MaxMessages

\* Each open assembly has some of its frames, and there are not too many.
AssembliesOK ==
    /\ DOMAIN assemblies \subseteq Message
    /\ \A k \in DOMAIN assemblies :
           /\ assemblies[k] \in [parts : SUBSET Frames(k), updated : 0 .. now]
           /\ Cardinality(assemblies[k].parts) \in 1 .. Need[k] - 1
    /\ IsFiniteSet(DOMAIN assemblies)
    /\ Cardinality(DOMAIN assemblies) <= MaxMessages

\* The invariant, by table.
LEMMA InvariantParts ==
    /\ TablesInvariant <=>
           /\ now \in 0 .. MaxTime /\ delivered \in [Message -> Nat]
           /\ CompletedOK /\ AssembliesOK /\ Accounted
           /\ DOMAIN assemblies \cap Keys(completed) = {}
    /\ TablesInvariant' <=>
           /\ now' \in 0 .. MaxTime /\ delivered' \in [Message -> Nat]
           /\ CompletedOK' /\ AssembliesOK' /\ Accounted'
           /\ DOMAIN assemblies' \cap Keys(completed') = {}
BY DEF TablesInvariant, TypeOK, CompletedOK, AssembliesOK, Entry

\* _purge leaves the table of completed messages in order.
LEMMA PurgedOK ==
    ASSUME TypeOK, CompletedOK
    PROVE  /\ Purged \in Seq(Entry) /\ RememberedOnce(Purged)
           /\ Len(Purged) <= Len(completed)
           /\ Keys(Purged) \subseteq Keys(completed)
           /\ \A i \in DOMAIN completed : completed[i].key \notin Keys(Purged) =>
                  now - completed[i].at > TTL
<1>1. PICK m \in 0 .. Len(completed) :
          /\ Purged = SubSeq(completed, m + 1, Len(completed))
          /\ \A i \in 1 .. m : now - completed[i].at > TTL
  BY PurgedIs
<1>2. completed \in Seq(Entry) /\ RememberedOnce(completed)
  BY DEF CompletedOK
<1> DEFINE n == Len(completed)
<1>3. n \in Nat /\ DOMAIN completed = 1 .. n /\ m \in 0 .. n
  BY <1>2
<1>4. /\ Purged \in Seq(Entry) /\ Len(Purged) = n - m
      /\ RememberedOnce(Purged) /\ Keys(Purged) \subseteq Keys(completed)
      /\ \A i \in m + 1 .. n : completed[i].key \in Keys(Purged)
  BY <1>1, <1>2, Suffix
<1> HIDE DEF n
<1>5. \A i \in 1 .. n : i \in 1 .. m \/ i \in m + 1 .. n
  BY <1>3
<1>6. Len(Purged) <= n
  BY <1>3, <1>4
<1> QED BY <1>1, <1>3, <1>4, <1>5, <1>6 DEF n

\* Dropping assemblies leaves the others as they are.
LEMMA DropOnly ==
    ASSUME AssembliesOK, NEW S \in SUBSET DOMAIN assemblies
    PROVE  /\ DOMAIN Only(assemblies, S) = S
           /\ \A k \in S : Only(assemblies, S)[k] = assemblies[k]
           /\ IsFiniteSet(S) /\ Cardinality(S) \in Nat
           /\ Cardinality(S) <= Cardinality(DOMAIN assemblies)
           /\ Cardinality(S) <= MaxMessages
<1>1. IsFiniteSet(DOMAIN assemblies) /\ Cardinality(DOMAIN assemblies) <= MaxMessages
  BY DEF AssembliesOK
<1>2. /\ IsFiniteSet(S) /\ Cardinality(S) <= Cardinality(DOMAIN assemblies)
      /\ Cardinality(S) \in Nat /\ Cardinality(DOMAIN assemblies) \in Nat
  BY <1>1, FS_Subset, FS_CardinalityType
<1>3. Cardinality(S) <= MaxMessages
  BY <1>1, <1>2, ReassemblerAssumption
<1> QED BY <1>2, <1>3 DEF Only

\* A table of the same or fewer assemblies is in order, and holds no more of
\* any message.
LEMMA FewerAssemblies ==
    ASSUME AssembliesOK, NEW S \in SUBSET DOMAIN assemblies,
           assemblies' = Only(assemblies, S), now' = now
    PROVE  /\ AssembliesOK' /\ DOMAIN assemblies' = S
           /\ \A k \in Message : Parts(k)' = Parts(k) \/ Parts(k)' = {}
<1>1. /\ DOMAIN assemblies' = S
      /\ \A k \in S : assemblies'[k] = assemblies[k]
      /\ IsFiniteSet(S) /\ Cardinality(S) <= MaxMessages
  BY DropOnly
<1>2. AssembliesOK'
  BY <1>1 DEF AssembliesOK, Frames
<1> QED BY <1>1, <1>2 DEF Parts

-----------------------------------------------------------------------------
(* What is held of a message.                                              *)

\* The frames of a message are one more than it needs, or one for one.
LEMMA FrameCount ==
    ASSUME NEW k \in Message
    PROVE  /\ Need[k] \in Nat \ {0} /\ Frames(k) \subseteq Nat
           /\ IsFiniteSet(Frames(k))
           /\ Cardinality(Frames(k)) < 2 * Need[k]
<1>1. Need[k] \in Nat \ {0}
  BY ReassemblerAssumption
<1> DEFINE n == IF Need[k] > 1 THEN Need[k] ELSE 0
<1>2. n \in Nat /\ n + 1 < 2 * Need[k]
  BY <1>1
<1>3. Frames(k) = 0 .. n
  BY DEF Frames
<1> HIDE DEF n
<1>4. IsFiniteSet(0 .. n) /\ Cardinality(0 .. n) = n + 1
  BY <1>2, FS_Interval
<1> QED BY <1>1, <1>2, <1>3, <1>4

\* Sets of frames of a message are finite, and no larger than what came.
LEMMA ArrivedCount ==
    ASSUME Accounted, NEW k \in Message
    PROVE  /\ IsFiniteSet(Arrived(k)) /\ Cardinality(Arrived(k)) \in Nat
           /\ Cardinality(Arrived(k)) < 2 * Need[k]
           /\ IsFiniteSet(Parts(k)) /\ Cardinality(Parts(k)) \in Nat
           /\ Cardinality(Parts(k)) <= Cardinality(Arrived(k))
<1>1. Arrived(k) \in SUBSET Frames(k) /\ Parts(k) \in SUBSET Arrived(k)
  BY DEF Arrived, Accounted
<1>2. /\ IsFiniteSet(Arrived(k)) /\ Cardinality(Arrived(k)) \in Nat
      /\ Cardinality(Arrived(k)) <= Cardinality(Frames(k))
      /\ Cardinality(Frames(k)) \in Nat
  BY <1>1, FrameCount, FS_Subset, FS_CardinalityType
<1>3. /\ IsFiniteSet(Parts(k)) /\ Cardinality(Parts(k)) \in Nat
      /\ Cardinality(Parts(k)) <= Cardinality(Arrived(k))
  BY <1>1, <1>2, FS_Subset, FS_CardinalityType
<1>4. Cardinality(Arrived(k)) < 2 * Need[k]
  BY <1>2, FrameCount
<1> QED BY <1>2, <1>3, <1>4

\* A step that returns nothing, and holds the same or nothing of each message,
\* keeps the account.
LEMMA AccountKept ==
    ASSUME Accounted, UNCHANGED delivered, arrived \subseteq arrived',
           \A k \in Message :
               /\ IsFiniteSet(Arrived(k)')
               /\ Parts(k)' = Parts(k) \/ Parts(k)' = {}
    PROVE  Accounted'
<1> SUFFICES ASSUME NEW k \in Message
             PROVE  /\ Parts(k)' \subseteq Arrived(k)'
                    /\ delivered'[k] \in {0, 1}
                    /\ delivered'[k] = 1 =>
                           Need[k] + Cardinality(Parts(k)')
                               <= Cardinality(Arrived(k)')
  BY DEF Accounted
<1>1. /\ Parts(k) \subseteq Arrived(k) /\ delivered[k] \in {0, 1}
      /\ delivered[k] = 1 =>
             Need[k] + Cardinality(Parts(k)) <= Cardinality(Arrived(k))
  BY DEF Accounted
<1>2. Arrived(k) \in SUBSET (Arrived(k)')
  BY DEF Arrived
<1>3. /\ Cardinality(Arrived(k)) \in Nat /\ Cardinality(Arrived(k)') \in Nat
      /\ Cardinality(Arrived(k)) <= Cardinality(Arrived(k)')
      /\ Cardinality(Parts(k)) \in Nat
  BY <1>2, ArrivedCount, FS_Subset, FS_CardinalityType
<1>4. Cardinality(Parts(k)') <= Cardinality(Parts(k))
      /\ Cardinality(Parts(k)') \in Nat
  <2>1. Cardinality({}) = 0
    BY FS_EmptySet
  <2> QED BY <1>3, <2>1
<1>5. Parts(k)' \subseteq Arrived(k)'
  BY <1>1, <1>2
<1> QED BY <1>1, <1>3, <1>4, <1>5, FrameCount

-----------------------------------------------------------------------------
(* The invariant.                                                          *)

\* The tables are empty at first.
LEMMA Initially == Init => TablesInvariant
<1> SUFFICES ASSUME Init PROVE TablesInvariant
  OBVIOUS
<1>1. DOMAIN assemblies = {} /\ completed = << >> /\ Keys(completed) = {}
  BY DEF Init, Keys
<1>2. CompletedOK
  <2>1. << >> \in Seq(Entry) /\ Len(<< >>) = 0 /\ DOMAIN << >> = {}
    OBVIOUS
  <2> QED BY <1>1, <2>1, ReassemblerAssumption DEF CompletedOK, RememberedOnce
<1>3. AssembliesOK
  <2>1. IsFiniteSet({}) /\ Cardinality({}) = 0
    BY FS_EmptySet
  <2> QED BY <1>1, <2>1, ReassemblerAssumption DEF AssembliesOK
<1>4. Accounted
  BY <1>1 DEF Init, Accounted, Parts
<1>5. now \in 0 .. MaxTime /\ delivered \in [Message -> Nat]
  BY ReassemblerAssumption DEF Init
<1> QED BY <1>1, <1>2, <1>3, <1>4, <1>5, InvariantParts

\* What came of a message before and after a frame of it.
LEMMA ArrivedAfter ==
    ASSUME Accounted, NEW k \in Message, NEW p \in Frames(k),
           <<k, p>> \notin arrived, arrived' = arrived \cup {<<k, p>>}
    PROVE  /\ p \notin Arrived(k) /\ Arrived(k)' = Arrived(k) \cup {p}
           /\ Cardinality(Arrived(k)') = Cardinality(Arrived(k)) + 1
           /\ \A j \in Message : j # k => Arrived(j)' = Arrived(j)
<1>1. p \notin Arrived(k) /\ Arrived(k)' = Arrived(k) \cup {p}
  BY DEF Arrived
<1>2. Cardinality(Arrived(k) \cup {p}) = Cardinality(Arrived(k)) + 1
  BY <1>1, ArrivedCount, FS_AddElement
<1>3. \A j \in Message : j # k => Arrived(j)' = Arrived(j)
  BY DEF Arrived
<1> QED BY <1>1, <1>2, <1>3

\* Frames never leave what came, and no step takes it beyond the frames.
LEMMA ArrivedStays ==
    ASSUME NEW k \in Message
    PROVE  IsFiniteSet(Arrived(k)')
<1>1. Arrived(k)' \in SUBSET Frames(k)
  BY DEF Arrived
<1> QED BY <1>1, FrameCount, FS_Subset

\* cleanup purges both tables.
LEMMA CleanupKeeps == TablesInvariant /\ Cleanup => TablesInvariant'
<1> SUFFICES ASSUME TablesInvariant, Cleanup PROVE TablesInvariant'
  OBVIOUS
<1>1. /\ TypeOK /\ CompletedOK /\ AssembliesOK /\ Accounted
      /\ DOMAIN assemblies \cap Keys(completed) = {}
      /\ now \in 0 .. MaxTime /\ delivered \in [Message -> Nat]
  BY InvariantParts DEF TablesInvariant
<1>2. /\ now' = now /\ delivered' = delivered /\ arrived' = arrived
      /\ completed' = Purged /\ assemblies' = Only(assemblies, Alive)
  BY DEF Cleanup
<1>3. Alive \in SUBSET DOMAIN assemblies
  BY DEF Alive
<1>4. /\ AssembliesOK' /\ DOMAIN assemblies' = Alive
      /\ \A k \in Message : Parts(k)' = Parts(k) \/ Parts(k)' = {}
  BY <1>1, <1>2, <1>3, FewerAssemblies
<1>5. CompletedOK' /\ Keys(completed') \subseteq Keys(completed)
  <2>1. /\ Purged \in Seq(Entry) /\ RememberedOnce(Purged)
        /\ Len(Purged) <= Len(completed)
        /\ Keys(Purged) \subseteq Keys(completed)
    BY <1>1, PurgedOK
  <2>2. Entry' = Entry
    BY <1>2 DEF Entry
  <2>3. Len(Purged) \in Nat /\ Len(completed) \in Nat
        /\ Len(completed) <= 2 * MaxMessages
    BY <1>1, <2>1 DEF CompletedOK
  <2>4. Len(Purged) <= 2 * MaxMessages
    BY <2>1, <2>3, ReassemblerAssumption
  <2> QED BY <1>2, <2>1, <2>2, <2>4 DEF CompletedOK
<1>6. Accounted'
  BY <1>1, <1>2, <1>4, ArrivedStays, AccountKept
<1>7. DOMAIN assemblies' \cap Keys(completed') = {}
  BY <1>1, <1>3, <1>4, <1>5
<1> QED BY <1>1, <1>2, <1>4, <1>5, <1>6, <1>7, InvariantParts

\* Time passes.
LEMMA TickKeeps == TablesInvariant /\ Tick => TablesInvariant'
<1> SUFFICES ASSUME TablesInvariant, Tick PROVE TablesInvariant'
  OBVIOUS
<1>1. /\ TypeOK /\ CompletedOK /\ AssembliesOK /\ Accounted
      /\ DOMAIN assemblies \cap Keys(completed) = {}
      /\ now \in 0 .. MaxTime /\ delivered \in [Message -> Nat]
  BY InvariantParts DEF TablesInvariant
<1>2. /\ now' = now + 1 /\ now < MaxTime /\ MaxTime \in Nat
      /\ UNCHANGED <<assemblies, completed, arrived, delivered>>
  BY ReassemblerAssumption DEF Tick
<1>3. now' \in 0 .. MaxTime /\ 0 .. now \subseteq 0 .. now'
  BY <1>1, <1>2
<1>4. CompletedOK'
  <2>1. Entry \subseteq Entry'
    BY <1>3 DEF Entry
  <2>2. completed \in Seq(Entry')
    BY <1>1, <2>1 DEF CompletedOK
  <2> QED BY <1>1, <1>2, <2>2 DEF CompletedOK
<1>5. AssembliesOK'
  <2>1. ASSUME NEW k \in DOMAIN assemblies
        PROVE  assemblies[k] \in [parts : SUBSET Frames(k), updated : 0 .. now']
    <3>1. assemblies[k] \in [parts : SUBSET Frames(k), updated : 0 .. now]
      BY <1>1 DEF AssembliesOK
    <3> QED BY <1>3, <3>1
  <2> QED BY <1>1, <1>2, <2>1 DEF AssembliesOK
<1>6. Accounted'
  BY <1>1, <1>2 DEF Accounted, Parts, Arrived
<1> QED BY <1>1, <1>2, <1>3, <1>4, <1>5, <1>6, InvariantParts

\* A frame of a completed message purges both tables and moves its entry.
LEMMA DuplicateKeeps ==
    ASSUME TablesInvariant, NEW k \in Message, NEW p \in Frames(k), Add(k, p),
           AddDuplicate(k, p)
    PROVE  TablesInvariant'
<1>1. /\ TypeOK /\ CompletedOK /\ AssembliesOK /\ Accounted
      /\ DOMAIN assemblies \cap Keys(completed) = {}
      /\ now \in 0 .. MaxTime /\ delivered \in [Message -> Nat]
  BY InvariantParts DEF TablesInvariant
<1>2. /\ now' = now /\ delivered' = delivered /\ arrived \subseteq arrived'
      /\ k \in Keys(Purged) /\ completed' = MovedToEnd(Purged, k)
      /\ assemblies' = Only(assemblies, Alive)
  BY DEF Add, AddDuplicate
<1>3. Alive \in SUBSET DOMAIN assemblies
  BY DEF Alive
<1>4. /\ AssembliesOK' /\ DOMAIN assemblies' = Alive
      /\ \A j \in Message : Parts(j)' = Parts(j) \/ Parts(j)' = {}
  BY <1>1, <1>2, <1>3, FewerAssemblies
<1>5. CompletedOK' /\ Keys(completed') \subseteq Keys(completed)
  <2>1. /\ Purged \in Seq(Entry) /\ RememberedOnce(Purged)
        /\ Len(Purged) <= Len(completed)
        /\ Keys(Purged) \subseteq Keys(completed)
    BY <1>1, PurgedOK
  <2>2. /\ completed' \in Seq(Entry) /\ Len(completed') = Len(Purged)
        /\ Keys(completed') = Keys(Purged) /\ RememberedOnce(completed')
    BY <1>2, <2>1, MovedIs
  <2>3. Entry' = Entry
    BY <1>2 DEF Entry
  <2>4. Len(Purged) \in Nat /\ Len(completed) \in Nat
        /\ Len(completed) <= 2 * MaxMessages
    BY <1>1, <2>1 DEF CompletedOK
  <2>5. Len(Purged) <= 2 * MaxMessages
    BY <2>1, <2>4, ReassemblerAssumption
  <2> QED BY <2>1, <2>2, <2>3, <2>5 DEF CompletedOK
<1>6. Accounted'
  BY <1>1, <1>2, <1>4, ArrivedStays, AccountKept
<1>7. DOMAIN assemblies' \cap Keys(completed') = {}
  BY <1>1, <1>3, <1>4, <1>5
<1> QED BY <1>1, <1>2, <1>4, <1>5, <1>6, <1>7, InvariantParts

\* What add makes room by: nothing, or one assembly of a full table.
LEMMA RoomIs ==
    ASSUME AssembliesOK, NEW k \in Message,
           NEW room \in IF k \in Alive THEN {Alive} ELSE Room(Alive)
    PROVE  /\ room \subseteq Alive /\ IsFiniteSet(room \cup {k})
           /\ Cardinality(room \cup {k}) <= MaxMessages
           /\ \A j \in Alive \ room :
                  Cardinality(Alive) = MaxMessages /\ j \in Victims(Alive)
<1>1. /\ IsFiniteSet(Alive) /\ Cardinality(Alive) \in Nat
      /\ Cardinality(Alive) <= MaxMessages /\ MaxMessages \in Nat \ {0}
  BY DropOnly, ReassemblerAssumption DEF Alive
<1>2. CASE k \in Alive
  <2>1. room = Alive /\ room \cup {k} = Alive
    BY <1>2
  <2> QED BY <1>1, <2>1
<1>3. CASE k \notin Alive /\ Cardinality(Alive) < MaxMessages
  <2>1. room = Alive
    BY <1>3 DEF Room
  <2>2. /\ IsFiniteSet(Alive \cup {k})
        /\ Cardinality(Alive \cup {k}) = Cardinality(Alive) + 1
    BY <1>1, <1>3, FS_AddElement
  <2> QED BY <1>1, <1>3, <2>1, <2>2
<1>4. CASE k \notin Alive /\ ~(Cardinality(Alive) < MaxMessages)
  <2>1. PICK v \in Victims(Alive) : room = Alive \ {v}
    BY <1>4 DEF Room
  <2>2. v \in Alive
    BY <2>1 DEF Victims
  <2>3. /\ IsFiniteSet(Alive \ {v})
        /\ Cardinality(Alive \ {v}) = Cardinality(Alive) - 1
    BY <1>1, <2>2, FS_RemoveElement
  <2>4. /\ IsFiniteSet(room \cup {k})
        /\ Cardinality(room \cup {k}) = (Cardinality(Alive) - 1) + 1
    <3>1. k \notin room
      BY <1>4, <2>1
    <3> QED BY <2>1, <2>3, <3>1, FS_AddElement
  <2>5. Cardinality(Alive) = MaxMessages
    BY <1>1, <1>4
  <2>6. \A j \in Alive \ room : j = v
    BY <2>1
  <2> QED BY <1>1, <2>1, <2>4, <2>5, <2>6
<1> QED BY <1>2, <1>3, <1>4

\* A new entry at the end of the table.
LEMMA Appended ==
    ASSUME NEW E, NEW c \in Seq(E), RememberedOnce(c), NEW e \in E,
           e.key \notin Keys(c)
    PROVE  /\ Append(c, e) \in Seq(E) /\ Len(Append(c, e)) = Len(c) + 1
           /\ RememberedOnce(Append(c, e))
           /\ Keys(Append(c, e)) = Keys(c) \cup {e.key}
<1> DEFINE s == Append(c, e)
           n == Len(c)
<1>1. /\ s \in Seq(E) /\ Len(s) = n + 1 /\ n \in Nat
      /\ DOMAIN c = 1 .. n /\ DOMAIN s = 1 .. n + 1
      /\ s[n + 1] = e /\ \A i \in 1 .. n : s[i] = c[i]
  OBVIOUS
<1> HIDE DEF s, n
<1>2. \A i \in 1 .. n + 1 : i \in 1 .. n \/ i = n + 1
  BY <1>1
<1>3. \A i \in 1 .. n : i \in 1 .. n + 1 /\ c[i].key \in Keys(c)
  BY <1>1, KeyPlaces
<1>4. RememberedOnce(s)
  BY <1>1, <1>2, <1>3 DEF RememberedOnce
<1>5. n + 1 \in 1 .. n + 1
  BY <1>1
<1>6. Keys(s) \subseteq Keys(c) \cup {e.key}
  <2>1. ASSUME NEW i \in 1 .. n + 1 PROVE s[i].key \in Keys(c) \cup {e.key}
    BY <1>1, <1>2, <1>3
  <2> QED BY <1>1, <2>1 DEF Keys
<1>7. Keys(c) \cup {e.key} \subseteq Keys(s)
  <2>1. \A i \in 1 .. n : c[i].key \in Keys(s)
    BY <1>1, <1>3, KeyPlaces
  <2>2. e.key \in Keys(s)
    BY <1>1, <1>5, KeyPlaces
  <2> QED BY <1>1, <2>1, <2>2 DEF Keys
<1> QED BY <1>1, <1>4, <1>6, <1>7 DEF s, n

\* What is held of a message once a frame of it came that had not come.
Gathered(k, p) == {p} \cup IF k \in Alive THEN assemblies[k].parts ELSE {}

\* It is at most one frame more, and a message that it completes was not
\* returned before: the frames it takes are not there twice.
LEMMA GatheredCount ==
    ASSUME AssembliesOK, Accounted, NEW k \in Message, NEW p \in Frames(k),
           <<k, p>> \notin arrived, arrived' = arrived \cup {<<k, p>>}
    PROVE  /\ Gathered(k, p) \subseteq Arrived(k)' /\ Gathered(k, p) # {}
           /\ Gathered(k, p) \subseteq Frames(k)
           /\ Cardinality(Gathered(k, p)) \in Nat \ {0}
           /\ Cardinality(Gathered(k, p)) <= Cardinality(Arrived(k)')
           /\ delivered[k] = 1 =>
                  Need[k] + Cardinality(Gathered(k, p)) <= Cardinality(Arrived(k)')
           /\ Completes(k, Gathered(k, p)) => delivered[k] = 0
<1> DEFINE held == IF k \in Alive THEN assemblies[k].parts ELSE {}
<1>1. /\ Parts(k) \subseteq Arrived(k) /\ delivered[k] \in {0, 1}
      /\ delivered[k] = 1 =>
             Need[k] + Cardinality(Parts(k)) <= Cardinality(Arrived(k))
  BY DEF Accounted
<1>2. held \in SUBSET Parts(k) /\ Gathered(k, p) = held \cup {p}
  BY DEF Alive, Parts, Gathered
<1> HIDE DEF held
<1>3. /\ p \notin Arrived(k) /\ Arrived(k)' = Arrived(k) \cup {p}
      /\ Cardinality(Arrived(k)') = Cardinality(Arrived(k)) + 1
      /\ IsFiniteSet(Arrived(k)')
  BY ArrivedAfter, ArrivedStays
<1>4. /\ IsFiniteSet(Parts(k)) /\ Cardinality(Parts(k)) \in Nat
      /\ Cardinality(Arrived(k)) \in Nat
  BY ArrivedCount
<1>5. /\ IsFiniteSet(held) /\ Cardinality(held) \in Nat
      /\ Cardinality(held) <= Cardinality(Parts(k))
  BY <1>2, <1>4, FS_Subset, FS_CardinalityType
<1>6. Cardinality(Gathered(k, p)) = Cardinality(held) + 1
  <2>1. p \notin held
    BY <1>1, <1>2, <1>3
  <2>2. Cardinality(held \cup {p}) = Cardinality(held) + 1
    BY <1>5, <2>1, FS_AddElement
  <2> QED BY <1>2, <2>2
<1>7. Gathered(k, p) \subseteq Arrived(k)' /\ Gathered(k, p) # {}
  BY <1>1, <1>2, <1>3
<1>8. Arrived(k)' \in SUBSET Frames(k)
  BY DEF Arrived
<1>9. /\ Need[k] \in Nat \ {0}
      /\ Cardinality(Arrived(k)') < 2 * Need[k]
  <2>1. /\ IsFiniteSet(Frames(k)) /\ Cardinality(Frames(k)) \in Nat
        /\ Cardinality(Frames(k)) < 2 * Need[k] /\ Need[k] \in Nat \ {0}
    BY FrameCount, FS_CardinalityType
  <2>2. Cardinality(Arrived(k)') <= Cardinality(Frames(k))
    BY <1>8, <2>1, FS_Subset
  <2>3. Cardinality(Arrived(k)') \in Nat
    BY <1>3, <1>4
  <2> QED BY <2>1, <2>2, <2>3
<1>10. Cardinality(Gathered(k, p)) <= Cardinality(Arrived(k)')
  BY <1>3, <1>7, FS_Subset
<1>11. delivered[k] = 1 =>
           Need[k] + Cardinality(Gathered(k, p)) <= Cardinality(Arrived(k)')
  BY <1>1, <1>3, <1>4, <1>5, <1>6, <1>9
<1>12. Completes(k, Gathered(k, p)) => delivered[k] = 0
  <2>1. Completes(k, Gathered(k, p)) => Cardinality(Gathered(k, p)) >= Need[k]
    BY DEF Completes
  <2> QED BY <1>1, <1>3, <1>4, <1>5, <1>6, <1>9, <1>11, <2>1
<1> QED BY <1>5, <1>6, <1>7, <1>8, <1>10, <1>11, <1>12

\* The two outcomes of AddFragment.
Completing(k, p, room) ==
    /\ Completes(k, Gathered(k, p))
    /\ assemblies' = Only(assemblies, room \ {k})
    /\ completed' = Capped(Append(Purged, [key |-> k, at |-> now]))
    /\ delivered' = [delivered EXCEPT ![k] = @ + 1]

Keeping(k, p, room) ==
    /\ ~ Completes(k, Gathered(k, p))
    /\ assemblies' = [j \in room \cup {k} |->
                        IF j = k
                        THEN [parts |-> Gathered(k, p), updated |-> now]
                        ELSE assemblies[j]]
    /\ completed' = Purged
    /\ UNCHANGED delivered

\* add of a fragment has one of them.
LEMMA AddFragmentIs ==
    ASSUME NEW k, NEW p, AddFragment(k, p)
    PROVE  /\ k \notin Keys(Purged)
           /\ \E room \in IF k \in Alive THEN {Alive} ELSE Room(Alive) :
                  Completing(k, p, room) \/ Keeping(k, p, room)
BY DEF AddFragment, Completing, Keeping, Gathered

\* A frame that completes its message: the entry of the message is the last of
\* the table, which sheds its oldest ones.
LEMMA CompletedAfter ==
    ASSUME TypeOK, CompletedOK, NEW k \in Message, k \notin Keys(Purged),
           now' = now,
           completed' = Capped(Append(Purged, [key |-> k, at |-> now]))
    PROVE  /\ CompletedOK' /\ Keys(completed') \subseteq Keys(completed) \cup {k}
           /\ Len(completed') = 2 * MaxMessages
                  \/ Keys(completed') = Keys(Purged) \cup {k}
<1> DEFINE e == [key |-> k, at |-> now]
           s == Append(Purged, e)
<1>1. /\ Purged \in Seq(Entry) /\ RememberedOnce(Purged)
      /\ Keys(Purged) \subseteq Keys(completed)
  BY PurgedOK
<1>2. e \in Entry /\ e.key = k
  BY DEF Entry, TypeOK
<1> HIDE DEF e
<1>3. /\ s \in Seq(Entry) /\ RememberedOnce(s)
      /\ Keys(s) = Keys(Purged) \cup {k}
  BY <1>1, <1>2, Appended
<1>4. completed' = Capped(s)
  BY DEF e
<1> HIDE DEF s
<1>5. PICK m \in 0 .. Len(s) :
          /\ Capped(s) = SubSeq(s, m + 1, Len(s))
          /\ \/ m = 0 /\ Len(s) <= 2 * MaxMessages
             \/ m > 0 /\ Len(s) - m = 2 * MaxMessages
  BY <1>3, CappedIs
<1>6. Len(s) \in Nat
  BY <1>3
<1>7. /\ completed' \in Seq(Entry) /\ Len(completed') = Len(s) - m
      /\ RememberedOnce(completed') /\ Keys(completed') \subseteq Keys(s)
      /\ \A i \in m + 1 .. Len(s) : s[i].key \in Keys(completed')
  <2> DEFINE r == SubSeq(s, m + 1, Len(s))
  <2>1. s \in Seq(Entry) /\ m \in 0 .. Len(s) /\ RememberedOnce(s)
    BY <1>3
  <2>2. /\ r \in Seq(Entry) /\ Len(r) = Len(s) - m
        /\ RememberedOnce(s) => RememberedOnce(r)
        /\ Keys(r) \subseteq Keys(s)
        /\ \A i \in m + 1 .. Len(s) : s[i].key \in Keys(r)
    BY <2>1, Suffix
  <2>3. completed' = r
    BY <1>4, <1>5
  <2> HIDE DEF r
  <2> QED BY <2>1, <2>2, <2>3
<1>8. Len(completed') <= 2 * MaxMessages
  BY <1>5, <1>6, <1>7, ReassemblerAssumption
<1>9. Entry' = Entry
  BY DEF Entry
<1>10. CompletedOK'
  BY <1>7, <1>8, <1>9 DEF CompletedOK
<1>11. CASE m = 0
  <2>1. DOMAIN s = 1 .. Len(s)
    BY <1>3
  <2>2. \A i \in DOMAIN s : s[i].key \in Keys(completed')
    BY <1>7, <1>11, <2>1
  <2>3. Keys(s) \subseteq Keys(completed')
    BY <2>2 DEF Keys
  <2> QED BY <1>1, <1>3, <1>7, <1>10, <2>3
<1>12. CASE m > 0
  BY <1>1, <1>3, <1>5, <1>7, <1>10, <1>12
<1> QED BY <1>5, <1>11, <1>12

\* A frame that completes its message.
LEMMA CompletingKeeps ==
    ASSUME TablesInvariant, NEW k \in Message, NEW p \in Frames(k), Add(k, p),
           k \notin Keys(Purged),
           NEW room \in IF k \in Alive THEN {Alive} ELSE Room(Alive),
           Completing(k, p, room)
    PROVE  TablesInvariant'
<1>1. /\ TypeOK /\ CompletedOK /\ AssembliesOK /\ Accounted
      /\ DOMAIN assemblies \cap Keys(completed) = {}
      /\ now \in 0 .. MaxTime /\ delivered \in [Message -> Nat]
  BY InvariantParts DEF TablesInvariant
<1>2. /\ now' = now /\ <<k, p>> \notin arrived /\ arrived' = arrived \cup {<<k, p>>}
      /\ Completes(k, Gathered(k, p))
      /\ assemblies' = Only(assemblies, room \ {k})
      /\ completed' = Capped(Append(Purged, [key |-> k, at |-> now]))
      /\ delivered' = [delivered EXCEPT ![k] = @ + 1]
  BY DEF Add, Completing
<1>3. room \ {k} \in SUBSET DOMAIN assemblies
  <2>1. room \subseteq Alive
    BY <1>1, RoomIs
  <2> QED BY <2>1 DEF Alive
<1>4. /\ AssembliesOK' /\ DOMAIN assemblies' = room \ {k}
      /\ \A j \in Message : Parts(j)' = Parts(j) \/ Parts(j)' = {}
  BY <1>1, <1>2, <1>3, FewerAssemblies
<1>5. CompletedOK' /\ Keys(completed') \subseteq Keys(completed) \cup {k}
  BY <1>1, <1>2, CompletedAfter
<1>6. /\ delivered[k] = 0 /\ Need[k] <= Cardinality(Arrived(k)')
      /\ Need[k] \in Nat
  <2>1. /\ delivered[k] = 0 /\ Cardinality(Gathered(k, p)) \in Nat
        /\ Cardinality(Gathered(k, p)) <= Cardinality(Arrived(k)')
    BY <1>1, <1>2, GatheredCount
  <2>2. Cardinality(Gathered(k, p)) >= Need[k] /\ Need[k] \in Nat
    BY <1>2, FrameCount DEF Completes
  <2>3. Cardinality(Arrived(k)') \in Nat
    BY ArrivedStays, FS_CardinalityType
  <2> QED BY <2>1, <2>2, <2>3
<1>7. Accounted'
  <2>1. \A j \in Message : j # k => Arrived(j)' = Arrived(j)
    BY <1>1, <1>2, ArrivedAfter
  <2>2. Parts(k)' = {} /\ Cardinality({}) = 0
    BY <1>4, FS_EmptySet DEF Parts
  <2>3. delivered'[k] = 1 /\ \A j \in Message : j # k => delivered'[j] = delivered[j]
    BY <1>1, <1>2, <1>6
  <2>4. /\ Parts(k)' \subseteq Arrived(k)' /\ delivered'[k] \in {0, 1}
        /\ delivered'[k] = 1 =>
               Need[k] + Cardinality(Parts(k)') <= Cardinality(Arrived(k)')
    BY <1>6, <2>2, <2>3
  <2>5. ASSUME NEW j \in Message, j # k
        PROVE  /\ Parts(j)' \subseteq Arrived(j)' /\ delivered'[j] \in {0, 1}
               /\ delivered'[j] = 1 =>
                      Need[j] + Cardinality(Parts(j)') <= Cardinality(Arrived(j)')
    <3>1. /\ Parts(j) \subseteq Arrived(j) /\ delivered[j] \in {0, 1}
          /\ delivered[j] = 1 =>
                 Need[j] + Cardinality(Parts(j)) <= Cardinality(Arrived(j))
      BY <1>1 DEF Accounted
    <3>2. /\ Arrived(j)' = Arrived(j) /\ delivered'[j] = delivered[j]
          /\ Parts(j)' = Parts(j) \/ Parts(j)' = {}
      BY <1>4, <2>1, <2>3, <2>5
    <3>3. /\ Cardinality(Parts(j)) \in Nat /\ Cardinality(Arrived(j)) \in Nat
          /\ Need[j] \in Nat /\ Cardinality({}) = 0
      BY <1>1, ArrivedCount, FrameCount, FS_EmptySet
    <3> QED BY <3>1, <3>2, <3>3
  <2> QED BY <2>4, <2>5 DEF Accounted
<1>8. DOMAIN assemblies' \cap Keys(completed') = {}
  BY <1>1, <1>3, <1>4, <1>5
<1>9. delivered' \in [Message -> Nat]
  BY <1>1, <1>2
<1> QED BY <1>1, <1>2, <1>4, <1>5, <1>7, <1>8, <1>9, InvariantParts

\* A frame that is held with the others of its message.
LEMMA KeepingKeeps ==
    ASSUME TablesInvariant, NEW k \in Message, NEW p \in Frames(k), Add(k, p),
           k \notin Keys(Purged),
           NEW room \in IF k \in Alive THEN {Alive} ELSE Room(Alive),
           Keeping(k, p, room)
    PROVE  TablesInvariant'
<1>1. /\ TypeOK /\ CompletedOK /\ AssembliesOK /\ Accounted
      /\ DOMAIN assemblies \cap Keys(completed) = {}
      /\ now \in 0 .. MaxTime /\ delivered \in [Message -> Nat]
  BY InvariantParts DEF TablesInvariant
<1>2. /\ now' = now /\ <<k, p>> \notin arrived /\ arrived' = arrived \cup {<<k, p>>}
      /\ ~ Completes(k, Gathered(k, p))
      /\ completed' = Purged /\ delivered' = delivered
      /\ DOMAIN assemblies' = room \cup {k}
      /\ assemblies'[k] = [parts |-> Gathered(k, p), updated |-> now]
      /\ \A j \in room : j # k => assemblies'[j] = assemblies[j]
  BY DEF Add, Keeping
<1>3. /\ room \subseteq DOMAIN assemblies /\ IsFiniteSet(room \cup {k})
      /\ Cardinality(room \cup {k}) <= MaxMessages
  <2>1. /\ room \subseteq Alive /\ IsFiniteSet(room \cup {k})
        /\ Cardinality(room \cup {k}) <= MaxMessages
    BY <1>1, RoomIs
  <2> QED BY <2>1 DEF Alive
<1>4. /\ Gathered(k, p) \subseteq Arrived(k)'
      /\ Gathered(k, p) \subseteq Frames(k)
      /\ Cardinality(Gathered(k, p)) \in 1 .. Need[k] - 1
      /\ delivered[k] = 1 =>
             Need[k] + Cardinality(Gathered(k, p)) <= Cardinality(Arrived(k)')
  <2>1. /\ Gathered(k, p) \subseteq Arrived(k)'
        /\ Gathered(k, p) \subseteq Frames(k)
        /\ Cardinality(Gathered(k, p)) \in Nat \ {0}
        /\ delivered[k] = 1 =>
               Need[k] + Cardinality(Gathered(k, p)) <= Cardinality(Arrived(k)')
    BY <1>1, <1>2, GatheredCount
  <2>2. ~ (Cardinality(Gathered(k, p)) >= Need[k]) /\ Need[k] \in Nat
    BY <1>2, FrameCount DEF Completes
  <2> QED BY <2>1, <2>2
<1>5. AssembliesOK'
  <2>1. /\ assemblies'[k] \in [parts : SUBSET Frames(k), updated : 0 .. now]
        /\ Cardinality(assemblies'[k].parts) \in 1 .. Need[k] - 1
    BY <1>1, <1>2, <1>4
  <2>2. ASSUME NEW j \in room, j # k
        PROVE  /\ assemblies'[j] \in [parts : SUBSET Frames(j), updated : 0 .. now]
               /\ Cardinality(assemblies'[j].parts) \in 1 .. Need[j] - 1
    <3>1. j \in DOMAIN assemblies /\ assemblies'[j] = assemblies[j]
      BY <1>2, <1>3, <2>2
    <3> QED BY <1>1, <3>1 DEF AssembliesOK
  <2>3. DOMAIN assemblies' \subseteq Message
    BY <1>1, <1>2, <1>3 DEF AssembliesOK
  <2>4. \A j \in DOMAIN assemblies' :
            /\ assemblies'[j] \in [parts : SUBSET Frames(j), updated : 0 .. now']
            /\ Cardinality(assemblies'[j].parts) \in 1 .. Need[j] - 1
    BY <1>2, <2>1, <2>2
  <2> QED BY <1>2, <1>3, <2>3, <2>4 DEF AssembliesOK
<1>6. CompletedOK' /\ Keys(completed') \subseteq Keys(completed) /\ k \notin Keys(completed')
  <2>1. /\ Purged \in Seq(Entry) /\ RememberedOnce(Purged)
        /\ Len(Purged) <= Len(completed)
        /\ Keys(Purged) \subseteq Keys(completed)
    BY <1>1, PurgedOK
  <2>2. Entry' = Entry
    BY <1>2 DEF Entry
  <2>3. Len(Purged) \in Nat /\ Len(completed) \in Nat
        /\ Len(completed) <= 2 * MaxMessages
    BY <1>1, <2>1 DEF CompletedOK
  <2>4. Len(Purged) <= 2 * MaxMessages
    BY <2>1, <2>3, ReassemblerAssumption
  <2> QED BY <1>2, <2>1, <2>2, <2>4 DEF CompletedOK
<1>7. Accounted'
  <2>1. \A j \in Message : j # k => Arrived(j)' = Arrived(j)
    BY <1>1, <1>2, ArrivedAfter
  <2>2. Parts(k)' = Gathered(k, p) /\ delivered[k] \in {0, 1}
    BY <1>1, <1>2 DEF Parts, Accounted
  <2>3. ASSUME NEW j \in Message, j # k
        PROVE  Parts(j)' = Parts(j) \/ Parts(j)' = {}
    BY <1>2, <1>3, <2>3 DEF Parts
  <2>4. /\ Parts(k)' \subseteq Arrived(k)' /\ delivered'[k] \in {0, 1}
        /\ delivered'[k] = 1 =>
               Need[k] + Cardinality(Parts(k)') <= Cardinality(Arrived(k)')
    BY <1>2, <1>4, <2>2
  <2>5. ASSUME NEW j \in Message, j # k
        PROVE  /\ Parts(j)' \subseteq Arrived(j)' /\ delivered'[j] \in {0, 1}
               /\ delivered'[j] = 1 =>
                      Need[j] + Cardinality(Parts(j)') <= Cardinality(Arrived(j)')
    <3>1. /\ Parts(j) \subseteq Arrived(j) /\ delivered[j] \in {0, 1}
          /\ delivered[j] = 1 =>
                 Need[j] + Cardinality(Parts(j)) <= Cardinality(Arrived(j))
      BY <1>1 DEF Accounted
    <3>2. /\ Arrived(j)' = Arrived(j) /\ delivered'[j] = delivered[j]
          /\ Parts(j)' = Parts(j) \/ Parts(j)' = {}
      BY <1>2, <2>1, <2>3, <2>5
    <3>3. /\ Cardinality(Parts(j)) \in Nat /\ Cardinality(Arrived(j)) \in Nat
          /\ Need[j] \in Nat /\ Cardinality({}) = 0
      BY <1>1, ArrivedCount, FrameCount, FS_EmptySet
    <3> QED BY <3>1, <3>2, <3>3
  <2> QED BY <2>4, <2>5 DEF Accounted
<1>8. DOMAIN assemblies' \cap Keys(completed') = {}
  BY <1>1, <1>2, <1>3, <1>6
<1> QED BY <1>1, <1>2, <1>5, <1>6, <1>7, <1>8, InvariantParts

\* Every step keeps the invariant.
LEMMA StepKeeps == TablesInvariant /\ [Next]_vars => TablesInvariant'
<1> SUFFICES ASSUME TablesInvariant, [Next]_vars PROVE TablesInvariant'
  OBVIOUS
<1>1. ASSUME NEW k \in Message, NEW p \in Frames(k), Add(k, p)
      PROVE  TablesInvariant'
  <2>1. CASE AddDuplicate(k, p)
    BY <1>1, <2>1, DuplicateKeeps
  <2>2. CASE AddFragment(k, p)
    <3>1. PICK room \in IF k \in Alive THEN {Alive} ELSE Room(Alive) :
              Completing(k, p, room) \/ Keeping(k, p, room)
      BY <2>2, AddFragmentIs
    <3>2. k \notin Keys(Purged)
      BY <2>2, AddFragmentIs
    <3> QED BY <1>1, <3>1, <3>2, CompletingKeeps, KeepingKeeps
  <2> QED BY <1>1, <2>1, <2>2 DEF Add
<1>2. CASE Cleanup
  BY <1>2, CleanupKeeps
<1>3. CASE Tick
  BY <1>3, TickKeeps
<1>4. CASE UNCHANGED vars
  <2>1. UNCHANGED <<now, assemblies, completed, arrived, delivered>>
    BY <1>4 DEF vars
  <2>2. TypeOK' /\ Accounted' /\ RememberedOnce(completed')
    BY <2>1 DEF TablesInvariant, TypeOK, Accounted, Parts, Arrived
  <2> QED BY <2>1, <2>2 DEF TablesInvariant
<1> QED BY <1>1, <1>2, <1>3, <1>4 DEF Next

-----------------------------------------------------------------------------
(* The theorems.                                                           *)

\* The tables of the reassembler are in order after any sequence of calls.
THEOREM TablesInvariance == Spec => []TablesInvariant
<1>1. Init => TablesInvariant
  BY Initially
<1>2. TablesInvariant /\ [Next]_vars => TablesInvariant'
  BY StepKeeps
<1> QED BY <1>1, <1>2, PTL DEF Spec

\* add returns a message complete once, however late its frames come and
\* whatever became of its entries in the tables.
THEOREM CompletedOnce == Spec => []DeliveredOnce
<1>1. TablesInvariant => DeliveredOnce
  BY DEF TablesInvariant, Accounted, DeliveredOnce
<1> QED BY <1>1, TablesInvariance, PTL

\* The tables keep within max_messages, remember a message once and never have
\* it both open and completed.
THEOREM BoundedTables == Spec => []TablesBounded
<1>1. TablesInvariant => TablesBounded
  <2> SUFFICES ASSUME TablesInvariant PROVE TablesBounded
    OBVIOUS
  <2>1. completed \in Seq(Entry) /\ RememberedOnce(completed)
    BY InvariantParts DEF CompletedOK
  <2>2. Cardinality(Keys(completed)) = Len(completed)
    BY <2>1, KeysCounted
  <2> QED BY <2>2 DEF TablesInvariant, TablesBounded
<1> QED BY <1>1, TablesInvariance, PTL

\* add and cleanup drop an assembly that timed out, was completed, or was the
\* one updated longest ago when there was no room.
THEOREM JustifiedDrops == Spec => DropsAreJustified
<1> DEFINE Justified(k) ==
        \/ now - assemblies[k].updated > Timeout
        \/ delivered'[k] > delivered[k]
        \/ /\ Cardinality(Alive) = MaxMessages
           /\ \A j \in DOMAIN assemblies' \cap DOMAIN assemblies :
                  assemblies[k].updated <= assemblies[j].updated
<1>1. ASSUME TablesInvariant, [Next]_vars,
             NEW k \in DOMAIN assemblies \ DOMAIN assemblies'
      PROVE  Justified(k)
  <2>1. /\ AssembliesOK /\ now \in Nat /\ delivered \in [Message -> Nat]
    BY <1>1, InvariantParts, ReassemblerAssumption DEF TablesInvariant
  <2>2. assemblies[k].updated \in Int
    BY <2>1 DEF AssembliesOK
  <2>3. k \notin Alive => Justified(k)
    BY <2>1, <2>2, ReassemblerAssumption DEF Alive
  <2>4. ASSUME k \in Alive PROVE Justified(k)
    <3>1. ASSUME NEW l \in Message, NEW p \in Frames(l), Add(l, p)
          PROVE  Justified(k)
      <4>1. ~ AddDuplicate(l, p)
        BY <1>1, <2>4 DEF AddDuplicate, Only
      <4>2. AddFragment(l, p)
        BY <3>1, <4>1 DEF Add
      <4>3. PICK room \in IF l \in Alive THEN {Alive} ELSE Room(Alive) :
                Completing(l, p, room) \/ Keeping(l, p, room)
        BY <4>2, AddFragmentIs
      <4>4. /\ room \subseteq Alive
            /\ \A j \in Alive \ room :
                   Cardinality(Alive) = MaxMessages /\ j \in Victims(Alive)
        BY <2>1, RoomIs
      <4>5. CASE k \in room
        <5>1. k = l /\ Completing(l, p, room)
          BY <1>1, <4>3, <4>5 DEF Completing, Keeping, Only
        <5>2. delivered'[k] > delivered[k]
          BY <2>1, <3>1, <5>1 DEF Completing
        <5> QED BY <5>2
      <4>6. CASE k \notin room
        <5>1. Cardinality(Alive) = MaxMessages /\ k \in Victims(Alive)
          BY <2>4, <4>4, <4>6
        <5>2. DOMAIN assemblies' \subseteq Alive \cup {l}
          BY <4>3, <4>4 DEF Completing, Keeping, Only
        <5>3. l \in DOMAIN assemblies => l \in Alive
          <6>1. Alive = DOMAIN assemblies
            <7>1. /\ IsFiniteSet(DOMAIN assemblies)
                  /\ Cardinality(DOMAIN assemblies) <= MaxMessages
              BY <2>1 DEF AssembliesOK
            <7>2. /\ Alive \in SUBSET DOMAIN assemblies
                  /\ Cardinality(Alive) <= Cardinality(DOMAIN assemblies)
                  /\ Cardinality(DOMAIN assemblies) \in Nat
              BY <7>1, FS_Subset, FS_CardinalityType DEF Alive
            <7>3. Cardinality(Alive) = Cardinality(DOMAIN assemblies)
              BY <5>1, <7>1, <7>2, ReassemblerAssumption
            <7> QED BY <7>1, <7>2, <7>3, FS_Subset
          <6> QED BY <6>1
        <5>4. \A j \in DOMAIN assemblies' \cap DOMAIN assemblies :
                  assemblies[k].updated <= assemblies[j].updated
          BY <5>1, <5>2, <5>3 DEF Victims
        <5> QED BY <5>1, <5>4
      <4> QED BY <4>5, <4>6
    <3>2. ~ Cleanup
      BY <1>1, <2>4 DEF Cleanup, Only
    <3>3. ~ Tick /\ ~ UNCHANGED vars
      BY <1>1 DEF Tick, vars
    <3> QED BY <1>1, <3>1, <3>2, <3>3 DEF Next
  <2> QED BY <2>3, <2>4
<1>2. TablesInvariant /\ [Next]_vars =>
          [\A k \in DOMAIN assemblies \ DOMAIN assemblies' : Justified(k)]_vars
  BY <1>1
<1>3. (\A k \in DOMAIN assemblies \ DOMAIN assemblies' : Justified(k)) <=>
      \A k \in DOMAIN assemblies \ DOMAIN assemblies' :
          \/ now - assemblies[k].updated > Timeout
          \/ delivered'[k] > delivered[k]
          \/ /\ Cardinality(Alive) = MaxMessages
             /\ \A j \in DOMAIN assemblies' \cap DOMAIN assemblies :
                    assemblies[k].updated <= assemblies[j].updated
  OBVIOUS
<1> HIDE DEF Justified
<1> QED BY <1>2, <1>3, TablesInvariance, PTL DEF Spec, DropsAreJustified

\* popitem and the purge forget a completed message before its time to live
\* only when the table of them is full.
THEOREM ForgottenWhenFull == Spec => ForgetsOnlyWhenFull
<1> DEFINE Allowed ==
        \A i \in DOMAIN completed :
            completed[i].key \notin Keys(completed') =>
                \/ now - completed[i].at > TTL
                \/ Len(completed') = 2 * MaxMessages
<1>1. ASSUME TablesInvariant, [Next]_vars PROVE Allowed
  <2>1. TypeOK /\ CompletedOK
    BY <1>1, InvariantParts DEF TablesInvariant
  <2>2. /\ Purged \in Seq(Entry) /\ RememberedOnce(Purged)
        /\ \A i \in DOMAIN completed : completed[i].key \notin Keys(Purged) =>
               now - completed[i].at > TTL
    BY <2>1, PurgedOK
  <2>3. ASSUME NEW k \in Message, NEW p \in Frames(k), Add(k, p)
        PROVE  Allowed
    <3>1. CASE AddDuplicate(k, p)
      <4>1. Keys(completed') = Keys(Purged)
        BY <2>2, <3>1, MovedIs DEF AddDuplicate
      <4> QED BY <2>2, <4>1
    <3>2. CASE AddFragment(k, p)
      <4>1. PICK room : Completing(k, p, room) \/ Keeping(k, p, room)
        BY <3>2, AddFragmentIs
      <4>2. k \notin Keys(Purged) /\ now' = now
        BY <2>3, <3>2, AddFragmentIs DEF Add
      <4>3. CASE Completing(k, p, room)
        <5>1. completed' = Capped(Append(Purged, [key |-> k, at |-> now]))
          BY <4>3 DEF Completing
        <5>2. Len(completed') = 2 * MaxMessages
                  \/ Keys(completed') = Keys(Purged) \cup {k}
          BY <2>1, <4>2, <5>1, CompletedAfter
        <5> QED BY <2>2, <5>2
      <4>4. CASE Keeping(k, p, room)
        BY <2>2, <4>4 DEF Keeping
      <4> QED BY <4>1, <4>3, <4>4
    <3> QED BY <2>3, <3>1, <3>2 DEF Add
  <2>4. CASE Cleanup
    BY <2>2, <2>4 DEF Cleanup
  <2>5. CASE Tick \/ UNCHANGED vars
    <3>1. completed' = completed
      BY <2>5 DEF Tick, vars
    <3>2. \A i \in DOMAIN completed : completed[i].key \in Keys(completed)
      BY DEF Keys
    <3> QED BY <3>1, <3>2
  <2> QED BY <1>1, <2>3, <2>4, <2>5 DEF Next
<1>2. TablesInvariant /\ [Next]_vars => [Allowed]_vars
  BY <1>1
<1>3. Allowed <=>
      \A i \in DOMAIN completed :
          completed[i].key \notin Keys(completed') =>
              \/ now - completed[i].at > TTL
              \/ Len(completed') = 2 * MaxMessages
  OBVIOUS
<1> HIDE DEF Allowed
<1> QED BY <1>2, <1>3, TablesInvariance, PTL DEF Spec, ForgetsOnlyWhenFull

-----------------------------------------------------------------------------
(* Cutting a payload.                                                      *)

\* The lesser of two numbers.
LEMMA MinOfTwo ==
    ASSUME NEW a \in Int, NEW b \in Int
    PROVE  Min({a, b}) = IF a <= b THEN a ELSE b
<1>1. Min({a, b}) \in {a, b} /\ \A y \in {a, b} : Min({a, b}) <= y
  <2>1. \E x \in {a, b} : \A y \in {a, b} : x <= y
    OBVIOUS
  <2> QED BY <2>1 DEF Min
<1> QED BY <1>1

\* A payload of this length fills all its fragments but the last, and the
\* last one has room for the rest.
LEMMA CountBounds ==
    ASSUME NEW len \in Nat
    PROVE  /\ FragmentCount(len) \in Nat \ {0}
           /\ (FragmentCount(len) - 1) * FragmentSize <= len
           /\ len # 0 => (FragmentCount(len) - 1) * FragmentSize < len
           /\ len <= FragmentCount(len) * FragmentSize
<1> DEFINE s == FragmentSize
<1>1. s \in Nat \ {0}
  BY FragmentationAssumption
<1>2. CASE len = 0
  BY <1>1, <1>2 DEF FragmentCount
<1>3. CASE len # 0
  <2> DEFINE q == (len + s - 1) \div s
  <2>1. FragmentCount(len) = q
    BY <1>3 DEF FragmentCount
  <2> HIDE DEF s
  <2>2. q \in Int /\ s * q <= len + s - 1 /\ len + s - 1 < s * q + s
    BY <1>1
  <2> HIDE DEF q
  <2>3. s * q = q * s /\ (q - 1) * s = q * s - s /\ q * s \in Int
    BY <1>1, <2>2
  <2>4. q >= 1
    <3>1. q * s > 0
      BY <1>1, <1>3, <2>2, <2>3
    <3>2. q <= 0 => q * s <= 0
      BY <1>1, <2>2
    <3> QED BY <2>2, <2>3, <3>1, <3>2
  <2> QED BY <1>1, <1>3, <2>1, <2>2, <2>3, <2>4 DEF s
<1> QED BY <1>2, <1>3

\* Where the pieces of a payload begin and end.
LEMMA Ends ==
    ASSUME NEW len \in Nat, NEW i \in 0 .. FragmentCount(len) - 1
    PROVE  LET n == FragmentCount(len)
               next == Min({(i + 1) * FragmentSize, len})
           IN  /\ i * FragmentSize \in 0 .. len
               /\ next \in i * FragmentSize .. len
               /\ next - i * FragmentSize \in 0 .. FragmentSize
               /\ i < n - 1 => next = (i + 1) * FragmentSize
               /\ i = n - 1 => next = len
<1> DEFINE s == FragmentSize
           n == FragmentCount(len)
           next == Min({(i + 1) * s, len})
<1>1. s \in Nat \ {0}
  BY FragmentationAssumption
<1>2. /\ n \in Nat \ {0} /\ (n - 1) * s <= len /\ len <= n * s
  BY CountBounds
<1> HIDE DEF s, n
<1>0. i \in 0 .. n - 1
  BY DEF n
<1>3. /\ (i + 1) * s = i * s + s /\ i * s \in Nat
      /\ (n - 1) * s \in Int /\ n * s = (n - 1) * s + s
  BY <1>0, <1>1, <1>2
<1>4. i * s <= (n - 1) * s
  BY <1>0, <1>1, <1>2
<1>5. i < n - 1 => (i + 1) * s <= (n - 1) * s
  BY <1>0, <1>1, <1>2
<1>6. next = IF (i + 1) * s <= len THEN (i + 1) * s ELSE len
  BY <1>3, <1>1, MinOfTwo
<1>7. i = n - 1 => (i + 1) * s = n * s
  BY <1>2
<1> HIDE DEF next
<1>8. /\ i * s \in 0 .. len
      /\ next \in i * s .. len
      /\ next - i * s \in 0 .. s
      /\ i < n - 1 => next = (i + 1) * s
      /\ i = n - 1 => next = len
  <2> DEFINE a == i * s
             b == (i + 1) * s
             c == (n - 1) * s
             d == n * s
  <2> HIDE DEF a, b, c, d
  <2>1. b = a + s /\ a \in Nat /\ c \in Int /\ d = c + s
    BY <1>3 DEF a, b, c, d
  <2>2. a <= c /\ (i < n - 1 => b <= c) /\ (i = n - 1 => b = d)
    BY <1>4, <1>5, <1>7 DEF a, b, c, d
  <2>3. next = IF b <= len THEN b ELSE len
    BY <1>6 DEF b
  <2>4. c <= len /\ len <= d
    BY <1>2 DEF c, d
  <2>5. /\ a \in 0 .. len
        /\ next \in a .. len
        /\ next - a \in 0 .. s
        /\ i < n - 1 => next = b
        /\ i = n - 1 => next = len
    BY <1>0, <1>1, <2>1, <2>2, <2>3, <2>4
  <2> QED BY <2>5 DEF a, b
<1> QED BY <1>8 DEF s, n, next

\* What a piece is.
LEMMA PieceIs ==
    ASSUME NEW p \in Seq({0, 1}), NEW i \in 0 .. FragmentCount(Len(p)) - 1
    PROVE  LET n == FragmentCount(Len(p))
           IN  /\ Piece(p, i) \in Seq({0, 1})
               /\ Len(Piece(p, i)) \in 0 .. FragmentSize
               /\ Len(Piece(p, i)) =
                      IF i < n - 1 THEN FragmentSize
                      ELSE Len(p) - FragmentSize * (n - 1)
<1> DEFINE len == Len(p)
           n == FragmentCount(len)
           a == i * FragmentSize
           b == Min({(i + 1) * FragmentSize, len})
<1>1. len \in Nat /\ p \in [1 .. len -> {0, 1}]
  BY LenProperties
<1>2. n \in Nat \ {0} /\ FragmentSize \in Nat \ {0}
  BY <1>1, CountBounds, FragmentationAssumption
<1>3. /\ a \in 0 .. len /\ b \in a .. len /\ b - a \in 0 .. FragmentSize
      /\ i < n - 1 => b = (i + 1) * FragmentSize
      /\ i = n - 1 => b = len
  BY <1>1, Ends
<1>4. /\ (i + 1) * FragmentSize = a + FragmentSize
      /\ i = n - 1 => a = FragmentSize * (n - 1)
  BY <1>2
<1>0. Piece(p, i) = SubSeq(p, a + 1, b) /\ i \in 0 .. n - 1
  BY DEF Piece
<1> HIDE DEF len, n, a, b
<1>5. /\ SubSeq(p, a + 1, b) \in Seq({0, 1})
      /\ Len(SubSeq(p, a + 1, b)) = b - a
  <2>1. a + 1 \in Int /\ b \in Int /\ \A k \in a + 1 .. b : p[k] \in {0, 1}
    BY <1>1, <1>3
  <2>2. SubSeq(p, a + 1, b) \in Seq({0, 1})
    BY <2>1, SubSeqProperties
  <2>3. Len(SubSeq(p, a + 1, b)) =
            IF a + 1 <= b THEN b - (a + 1) + 1 ELSE 0
    BY <2>1, SubSeqProperties
  <2> QED BY <1>1, <1>3, <2>2, <2>3
<1>6. b - a = IF i < n - 1 THEN FragmentSize
              ELSE len - FragmentSize * (n - 1)
  BY <1>0, <1>1, <1>2, <1>3, <1>4
<1> QED BY <1>0, <1>3, <1>5, <1>6 DEF len, n

-----------------------------------------------------------------------------
(* Joining the pieces.                                                     *)

\* The pieces of a payload, joined in order, are the payload.
LEMMA JoinedPieces ==
    ASSUME NEW p \in Seq({0, 1})
    PROVE  FlattenSeq([i \in 1 .. FragmentCount(Len(p)) |-> Pieces(p)[i - 1]])
               = p
<1> DEFINE n == FragmentCount(Len(p))
           end(i) == Min({i * FragmentSize, Len(p)})
           seqs == [i \in 1 .. n |-> Pieces(p)[i - 1]]
           joined(f) == [i \in 1 .. Len(seqs) |->
                            IF i = 1 THEN seqs[i] ELSE f[i - 1] \o seqs[i]]
           flat == CHOOSE f : f = joined(f)
           heads == [i \in 1 .. n |-> SubSeq(p, 1, end(i))]
<1>1. n \in Nat \ {0} /\ Len(p) \in Nat /\ FragmentSize \in Nat \ {0}
  BY CountBounds, FragmentationAssumption, LenProperties
<1>2. Len(seqs) = n
  BY <1>1
<1>3. \A i \in 1 .. n : seqs[i] = SubSeq(p, (i - 1) * FragmentSize + 1, end(i))
  <2> TAKE i \in 1 .. n
  <2>1. i - 1 \in 0 .. n - 1 /\ (i - 1) + 1 = i
    BY <1>1
  <2>2. seqs[i] = Piece(p, i - 1)
    BY <2>1 DEF Pieces
  <2> QED BY <2>1, <2>2 DEF Piece
<1>4. \A i \in 1 .. n :
          /\ end(i) \in (i - 1) * FragmentSize .. Len(p)
          /\ (i - 1) * FragmentSize \in 0 .. Len(p)
          /\ i > 1 => end(i - 1) = (i - 1) * FragmentSize
          /\ i = n => end(i) = Len(p)
  <2> TAKE i \in 1 .. n
  <2>1. /\ i - 1 \in 0 .. n - 1 /\ (i - 1) + 1 = i
        /\ i > 1 => /\ i - 2 \in 0 .. n - 1 /\ (i - 2) + 1 = i - 1
                    /\ i - 2 < n - 1
    BY <1>1
  <2>2. /\ (i - 1) * FragmentSize \in 0 .. Len(p)
        /\ end((i - 1) + 1) \in (i - 1) * FragmentSize .. Len(p)
        /\ i - 1 = n - 1 => end((i - 1) + 1) = Len(p)
    BY <1>1, <2>1, Ends
  <2>3. i > 1 => end((i - 2) + 1) = ((i - 2) + 1) * FragmentSize
    BY <1>1, <2>1, Ends
  <2> HIDE DEF end, n
  <2> QED BY <1>1, <2>1, <2>2, <2>3
<1> HIDE DEF n, end, seqs
<1>5. heads = joined(heads)
  <2>1. ASSUME NEW i \in 1 .. n
        PROVE  heads[i] = IF i = 1 THEN seqs[i] ELSE heads[i - 1] \o seqs[i]
    <3>1. CASE i = 1
      <4>1. (i - 1) * FragmentSize = 0
        BY <1>1, <3>1
      <4> QED BY <1>3, <3>1, <4>1
    <3>2. CASE i # 1
      <4> DEFINE k == (i - 1) * FragmentSize
      <4>1. i - 1 \in 1 .. n /\ i > 1
        BY <1>1, <3>2
      <4>2. heads[i - 1] = SubSeq(p, 1, k)
        BY <1>4, <4>1
      <4>3. k \in 0 .. Len(p) /\ end(i) \in k .. Len(p)
        BY <1>4
      <4>4. seqs[i] = SubSeq(p, k + 1, end(i))
        BY <1>3
      <4> HIDE DEF k
      <4>5. SubSeq(p, 1, k) \o SubSeq(p, k + 1, end(i)) = SubSeq(p, 1, end(i))
        <5>1. 1 \in 1 .. Len(p) + 1 /\ k \in 1 - 1 .. Len(p)
          BY <1>1, <4>3
        <5> QED BY <4>3, <5>1, ConcatAdjacentSubSeq
      <4> QED BY <3>2, <4>2, <4>4, <4>5
    <3> QED BY <3>1, <3>2
  <2> QED BY <1>2, <2>1
<1>6. flat = joined(flat)
  BY <1>5
<1> HIDE DEF flat, heads
<1>7. \A i \in 1 .. n : flat[i] = heads[i]
  <2> DEFINE wrong == {i \in 1 .. n : flat[i] # heads[i]}
  <2>1. SUFFICES ASSUME wrong # {} PROVE FALSE
    OBVIOUS
  <2>2. PICK i \in wrong : \A j \in wrong : i <= j
    <3>1. wrong \in SUBSET Nat
      OBVIOUS
    <3> HIDE DEF wrong
    <3> QED BY <2>1, <3>1, LeastExists
  <2>3. i \in 1 .. n /\ flat[i] # heads[i]
    OBVIOUS
  <2>4. i # 1 => i - 1 \in 1 .. n /\ i - 1 \notin wrong
    BY <1>1, <2>2, <2>3
  <2>5. i # 1 => flat[i - 1] = heads[i - 1]
    BY <2>4
  <2>6. flat[i] = IF i = 1 THEN seqs[i] ELSE flat[i - 1] \o seqs[i]
    BY <1>2, <1>6, <2>3
  <2>7. heads[i] = IF i = 1 THEN seqs[i] ELSE heads[i - 1] \o seqs[i]
    BY <1>2, <1>5, <2>3
  <2> QED BY <2>3, <2>5, <2>6, <2>7
<1>8. flat[n] = p
  <2>1. flat[n] = SubSeq(p, 1, Len(p))
    BY <1>1, <1>4, <1>7 DEF heads
  <2> QED BY <2>1, SubSeqFull
<1>9. FlattenSeq(seqs) = flat[n]
  BY <1>1, <1>2 DEF FlattenSeq, flat
<1> QED BY <1>8, <1>9 DEF seqs, n

-----------------------------------------------------------------------------
(* The parity.                                                             *)

\* The pieces and the parity of a payload.
LEMMA PiecesAre ==
    ASSUME NEW p \in Seq({0, 1})
    PROVE  /\ DOMAIN Pieces(p) = 0 .. FragmentCount(Len(p)) - 1
           /\ \A i \in DOMAIN Pieces(p) :
                  /\ Pieces(p)[i] \in Seq({0, 1})
                  /\ Len(Pieces(p)[i]) \in 0 .. FragmentSize
           /\ DOMAIN Parity(p) = 1 .. FragmentSize
           /\ Len(Parity(p)) = FragmentSize
<1>1. \A i \in 0 .. FragmentCount(Len(p)) - 1 : Pieces(p)[i] = Piece(p, i)
  BY DEF Pieces
<1>2. DOMAIN Pieces(p) = 0 .. FragmentCount(Len(p)) - 1
  BY DEF Pieces
<1>3. Parity(p) \in [1 .. FragmentSize -> {Xor(Pieces(p), k) : k \in Nat}]
  <2>1. FragmentSize \in Nat
    BY FragmentationAssumption
  <2> QED BY <2>1 DEF Parity
<1>4. Len(Parity(p)) = FragmentSize
  BY <1>3, FragmentationAssumption
<1> QED BY <1>1, <1>2, <1>3, <1>4, PieceIs

\* The exclusive or of the parity and of all the pieces but one is that one.
LEMMA ParityRecovers ==
    ASSUME NEW p \in Seq({0, 1}), NEW m \in DOMAIN Pieces(p),
           NEW k \in 1 .. Len(Pieces(p)[m])
    PROVE  LET rest == [i \in DOMAIN Pieces(p) \ {m} |-> Pieces(p)[i]]
           IN  (Parity(p)[k] + Xor(rest, k)) % 2 = Pieces(p)[m][k]
<1> DEFINE all == Pieces(p)
           rest == [i \in DOMAIN all \ {m} |-> all[i]]
           ones(pieces) == {i \in DOMAIN pieces :
                               k <= Len(pieces[i]) /\ pieces[i][k] = 1}
<1>1. /\ DOMAIN all = 0 .. FragmentCount(Len(p)) - 1
      /\ all[m] \in Seq({0, 1}) /\ Len(all[m]) \in 0 .. FragmentSize
      /\ FragmentCount(Len(p)) \in Nat
  BY PiecesAre, CountBounds, LenProperties
<1>2. all[m][k] \in {0, 1} /\ k <= Len(all[m]) /\ k \in 1 .. FragmentSize
  <2>1. k \in 1 .. Len(all[m])
    OBVIOUS
  <2>2. FragmentSize \in Nat
    BY FragmentationAssumption
  <2> HIDE DEF all
  <2> QED BY <1>1, <2>1, <2>2, ElementOfSeq
<1>3. Parity(p)[k] = Cardinality(ones(all)) % 2
  BY <1>2 DEF Parity, Xor
<1>4. Xor(rest, k) = Cardinality(ones(rest)) % 2
  BY DEF Xor
<1>5. IsFiniteSet(ones(all)) /\ Cardinality(ones(all)) \in Nat
  <2>1. IsFiniteSet(0 .. FragmentCount(Len(p)) - 1)
    BY <1>1, FS_Interval
  <2>2. ones(all) \in SUBSET (0 .. FragmentCount(Len(p)) - 1)
    BY <1>1
  <2> HIDE DEF ones
  <2> QED BY <2>1, <2>2, FS_Subset, FS_CardinalityType
<1>6. /\ ones(rest) = ones(all) \ {m}
      /\ m \in ones(all) <=> all[m][k] = 1
  <2>1. DOMAIN rest = DOMAIN all \ {m} /\ \A i \in DOMAIN rest : rest[i] = all[i]
    OBVIOUS
  <2>2. m \in DOMAIN all
    OBVIOUS
  <2> HIDE DEF all, rest
  <2> QED BY <1>2, <2>1, <2>2
<1> HIDE DEF all, rest, ones
<1>7. /\ Cardinality(ones(rest)) \in Nat
      /\ Cardinality(ones(rest)) =
             IF m \in ones(all) THEN Cardinality(ones(all)) - 1
             ELSE Cardinality(ones(all))
  <2>1. /\ IsFiniteSet(ones(all) \ {m})
        /\ Cardinality(ones(all) \ {m}) =
               IF m \in ones(all) THEN Cardinality(ones(all)) - 1
               ELSE Cardinality(ones(all))
    BY <1>5, FS_RemoveElement
  <2> QED BY <1>6, <2>1, FS_CardinalityType
<1>8. (Parity(p)[k] + Xor(rest, k)) % 2 = all[m][k]
  <2> DEFINE c == Cardinality(ones(all))
             d == Cardinality(ones(rest))
             bit == all[m][k]
  <2>1. c \in Nat /\ d \in Nat /\ bit \in {0, 1} /\ c = d + bit
    BY <1>2, <1>5, <1>6, <1>7
  <2>2. Parity(p)[k] = c % 2 /\ Xor(rest, k) = d % 2
    BY <1>3, <1>4
  <2> HIDE DEF c, d, bit
  <2>3. ((c % 2) + (d % 2)) % 2 = bit
    BY <2>1
  <2>4. (Parity(p)[k] + Xor(rest, k)) % 2 = bit
    BY <2>1, <2>2, <2>3
  <2> QED BY <2>4 DEF bit
<1> QED BY <1>8 DEF all, rest

-----------------------------------------------------------------------------
(* Assembling.                                                             *)

\* A payload made of bits.
LEMMA PayloadsAreBits == \A p \in Payloads : p \in Seq({0, 1})
BY FragmentationAssumption DEF Payloads

\* All the pieces give the payload back.
LEMMA JoinedIs ==
    ASSUME payload \in Seq({0, 1}), NEW a,
           a.count = Count, a.len = Len(payload)
    PROVE  Joined(a, Pieces(payload)) = Done(payload)
<1>1. FlattenSeq([i \in 1 .. a.count |-> Pieces(payload)[i - 1]]) = payload
  BY JoinedPieces DEF Count
<1> QED BY <1>1 DEF Joined

\* So do all of them but one, and the parity.
LEMMA RecoveredIs ==
    ASSUME payload \in Seq({0, 1}), NEW a,
           a.count = Count, a.len = Len(payload), NEW m \in 0 .. Count - 1,
           a.fragments = [i \in (0 .. Count - 1) \ {m} |-> Pieces(payload)[i]]
    PROVE  Recovered(a, Parity(payload)) = Done(payload)
<1> DEFINE parity == Parity(payload)
           all == Pieces(payload)
           missing == CHOOSE i \in 0 .. a.count - 1 : i \notin DOMAIN a.fragments
           len == RecoveredLength(a, m, Len(parity))
           piece == [k \in 1 .. len |-> (parity[k] + Xor(a.fragments, k)) % 2]
           pieces == [i \in 0 .. a.count - 1 |->
                         IF i = m THEN piece ELSE a.fragments[i]]
<1>1. /\ Count \in Nat /\ FragmentSize \in Nat \ {0}
      /\ DOMAIN all = 0 .. Count - 1
      /\ \A i \in 0 .. Count - 1 :
             all[i] \in Seq({0, 1}) /\ Len(all[i]) \in 0 .. FragmentSize
      /\ Len(parity) = FragmentSize
  BY PiecesAre, CountBounds, LenProperties, FragmentationAssumption DEF Count
<1>2. missing = m
  OBVIOUS
<1>3. len = Len(all[m])
  <2>1. all[m] = Piece(payload, m)
    BY DEF Pieces, Count
  <2>2. Len(Piece(payload, m)) = IF m < Count - 1 THEN FragmentSize
                                 ELSE Len(payload) - FragmentSize * (Count - 1)
    BY PieceIs DEF Count
  <2> QED BY <1>1, <2>1, <2>2 DEF RecoveredLength
<1>4. piece = all[m]
  <2>1. a.fragments = [i \in DOMAIN all \ {m} |-> all[i]]
    BY <1>1
  <2>2. m \in DOMAIN all
    BY <1>1
  <2> DEFINE rest == [i \in DOMAIN all \ {m} |-> all[i]]
  <2>a. \A k \in 1 .. Len(all[m]) :
            (parity[k] + Xor(rest, k)) % 2 = all[m][k]
    BY <2>2, ParityRecovers
  <2>3. \A k \in 1 .. Len(all[m]) :
            (parity[k] + Xor(a.fragments, k)) % 2 = all[m][k]
    BY <2>1, <2>a
  <2>4. all[m] \in Seq({0, 1}) /\ DOMAIN all[m] = 1 .. Len(all[m])
    BY <1>1, LenProperties
  <2> HIDE DEF len, parity, all
  <2>5. piece = [k \in 1 .. Len(all[m]) |-> all[m][k]]
    BY <1>3, <2>3
  <2>6. all[m] = [k \in 1 .. Len(all[m]) |-> all[m][k]]
    BY <2>4
  <2> QED BY <2>5, <2>6
<1>5. pieces = all
  <2>1. all = [i \in 0 .. Count - 1 |-> all[i]]
    BY DEF Pieces, Count
  <2> HIDE DEF piece, all
  <2> QED BY <1>4, <2>1 DEF all
<1>6. ~ (\/ Len(parity) = 0
         \/ \E i \in DOMAIN a.fragments : Len(a.fragments[i]) > Len(parity)
         \/ len \notin 0 .. Len(parity))
  <2> HIDE DEF len, parity, all
  <2>1. \A i \in DOMAIN a.fragments :
            i \in 0 .. Count - 1 /\ a.fragments[i] = all[i]
    BY DEF all
  <2> QED BY <1>1, <1>3, <2>1
<1>7. Joined(a, pieces) = Done(payload)
  BY <1>5, JoinedIs
<1>8. Recovered(a, parity) =
          IF \/ Len(parity) = 0
             \/ \E i \in DOMAIN a.fragments : Len(a.fragments[i]) > Len(parity)
             \/ len \notin 0 .. Len(parity)
          THEN Error ELSE Joined(a, pieces)
  BY <1>2 DEF Recovered
<1> HIDE DEF len, pieces
<1> QED BY <1>6, <1>7, <1>8

\* What has come is the payload as soon as it is enough, and nothing before.
LEMMA AssembledIs ==
    ASSUME payload \in Seq({0, 1}), NEW X \in SUBSET Indices
    PROVE  Assemble(Holding(X)) = IF Enough(X) THEN Done(payload) ELSE Waiting
<1> DEFINE a == Holding(X)
           data == X \ {Count}
           all == 0 .. Count - 1
<1>1. Count \in Nat \ {0}
  BY CountBounds, LenProperties DEF Count
<1>2. data \in SUBSET all
  BY DEF Indices
<1>3. IsFiniteSet(all) /\ Cardinality(all) = Count
  BY <1>1, FS_Interval
<1>4. /\ IsFiniteSet(data) /\ Cardinality(data) \in Nat
      /\ Cardinality(data) = Count => data = all
  BY <1>2, <1>3, FS_Subset, FS_CardinalityType
<1>5. /\ a.len = Len(payload) /\ a.count = Count
      /\ a.fragments = [i \in data |-> Pieces(payload)[i]]
      /\ DOMAIN a.fragments = data
      /\ a.parity = IF Count \in X THEN {Parity(payload)} ELSE {}
  BY DEF Holding
<1> HIDE DEF a, data
<1>6. CASE Cardinality(data) = Count
  <2>1. a.fragments = Pieces(payload)
    BY <1>4, <1>5, <1>6 DEF Pieces, Count
  <2>2. Joined(a, a.fragments) = Done(payload)
    BY <1>5, <2>1, JoinedIs
  <2>3. Enough(X)
    BY <1>6 DEF Enough, data
  <2>4. Count # Count - 1
    BY <1>1
  <2>5. Assemble(a) = Joined(a, a.fragments)
    BY <1>5, <1>6, <2>4 DEF Assemble
  <2> QED BY <2>2, <2>3, <2>5 DEF a
<1>7. CASE Cardinality(data) = Count - 1 /\ Count \in X
  <2>1. Cardinality(data) # Count
    BY <1>1, <1>7
  <2>2. PICK m \in all : data = all \ {m}
    <3>1. data # all
      BY <1>3, <2>1
    <3>2. PICK m \in all : m \notin data
      BY <1>2, <3>1
    <3>3. /\ IsFiniteSet(all \ {m})
          /\ Cardinality(all \ {m}) = Cardinality(data)
      <4> HIDE DEF all
      <4> QED BY <1>1, <1>3, <1>7, FS_RemoveElement
    <3>4. data \in SUBSET (all \ {m})
      BY <1>2, <3>2
    <3>5. data = all \ {m}
      BY <3>3, <3>4, FS_Subset
    <3> QED BY <3>5
  <2>3. Recovered(a, Parity(payload)) = Done(payload)
    BY <1>5, <2>2, RecoveredIs
  <2>4. a.parity # {} /\ (CHOOSE p \in a.parity : TRUE) = Parity(payload)
    BY <1>5, <1>7
  <2>5. Enough(X)
    BY <1>7 DEF Enough, data
  <2>6. Assemble(a) = Recovered(a, CHOOSE p \in a.parity : TRUE)
    BY <1>5, <1>7, <2>1, <2>4 DEF Assemble
  <2>7. Assemble(a) = Done(payload)
    BY <2>3, <2>4, <2>6
  <2> QED BY <2>5, <2>7 DEF a
<1>8. CASE /\ Cardinality(data) # Count
           /\ ~ (Cardinality(data) = Count - 1 /\ Count \in X)
  <2>1. ~ Enough(X)
    BY <1>8 DEF Enough, data
  <2>2. ~ (Cardinality(data) = Count - 1 /\ a.parity # {})
    BY <1>5, <1>8
  <2> QED BY <1>5, <1>8, <2>1, <2>2 DEF Assemble, a
<1> QED BY <1>6, <1>7, <1>8

-----------------------------------------------------------------------------
(* Receiving a fragment.                                                   *)

\* What the fragments of the payload are.
LEMMA FragmentsAre ==
    ASSUME payload \in Seq({0, 1}), NEW f \in Fragments(payload)
    PROVE  /\ f.len = Len(payload) /\ f.count = Count
           /\ f.index \in Indices
           /\ Len(f.payload) \in 0 .. FragmentSize
           /\ \/ /\ f.parity = FALSE /\ f.index \in 0 .. Count - 1
                 /\ f.payload = Pieces(payload)[f.index]
              \/ /\ f.parity = TRUE /\ f.index = Count /\ Count > 1
                 /\ f.payload = Parity(payload)
<1> DEFINE spec(body, index, isParity) ==
               [payload |-> body, len |-> Len(payload), index |-> index,
                count |-> Count, parity |-> isParity]
<1>1. CASE \E i \in 0 .. Count - 1 : f = spec(Pieces(payload)[i], i, FALSE)
  <2>1. PICK i \in 0 .. Count - 1 : f = spec(Pieces(payload)[i], i, FALSE)
    BY <1>1
  <2>2. /\ f.len = Len(payload) /\ f.count = Count /\ f.index = i
        /\ f.parity = FALSE /\ f.payload = Pieces(payload)[i]
    BY <2>1
  <2>3. Len(Pieces(payload)[i]) \in 0 .. FragmentSize
    BY PiecesAre DEF Count
  <2> QED BY <2>2, <2>3 DEF Indices
<1>2. CASE HasParity(Count) /\ f = spec(Parity(payload), Count, TRUE)
  <2>1. /\ f.len = Len(payload) /\ f.count = Count /\ f.index = Count
        /\ f.parity = TRUE /\ f.payload = Parity(payload)
    BY <1>2
  <2>2. Len(Parity(payload)) = FragmentSize /\ FragmentSize \in Nat
    BY PiecesAre, FragmentationAssumption
  <2>3. Count > 1
    BY <1>2 DEF HasParity
  <2>4. Count \in Indices
    BY <1>2 DEF Indices
  <2> QED BY <2>1, <2>2, <2>3, <2>4
<1>3. \/ \E i \in 0 .. Count - 1 : f = spec(Pieces(payload)[i], i, FALSE)
      \/ HasParity(Count) /\ f = spec(Parity(payload), Count, TRUE)
  BY DEF Fragments, Count
<1> QED BY <1>1, <1>2, <1>3

\* The fragments of a datagram below the limit pass the checks of the codec.
LEMMA HonestFragments ==
    ASSUME payload \in Seq({0, 1}), ~Refused(payload),
           NEW f \in Fragments(payload)
    PROVE  Encodable(f)
<1>1. Count \in Nat \ {0} /\ Len(payload) \in Nat
  BY CountBounds, LenProperties DEF Count
<1>2. Len(payload) \in 0 .. MaxMessageSize /\ Count \in 1 .. MaxFragments
  BY <1>1, FragmentationAssumption DEF Refused, Count
<1>3. /\ f.len = Len(payload) /\ f.count = Count
      /\ Len(f.payload) \in 0 .. FragmentSize /\ FragmentSize \in Nat
      /\ \/ f.parity = FALSE /\ f.index \in 0 .. Count - 1
         \/ f.parity = TRUE /\ f.index = Count /\ Count > 1
  BY FragmentsAre, FragmentationAssumption
<1>4. /\ Len(f.payload) <= FragmentSize
      /\ f.len \in 0 .. MaxMessageSize
      /\ f.count \in 1 .. MaxFragments
  BY <1>2, <1>3
<1>5. IF f.parity THEN f.count >= 2 /\ f.index = f.count
      ELSE f.index \in 0 .. f.count - 1
  <2>1. CASE f.parity = FALSE
    BY <1>3, <2>1
  <2>2. CASE f.parity = TRUE
    <3>1. f.count >= 2
      BY <1>1, <1>3, <2>2
    <3> QED BY <1>3, <2>2, <3>1
  <2> QED BY <1>3, <2>1, <2>2
<1> QED BY <1>4, <1>5 DEF Encodable

\* Only the size of the datagram can have it refused.
LEMMA RefusedIsTooLong ==
    ASSUME payload \in Seq({0, 1}), Refused(payload)
    PROVE  Len(payload) > MaxMessageSize
<1> DEFINE len == Len(payload)
           c == FragmentCount(len) - 1
<1>1. SUFFICES ASSUME FragmentCount(len) > MaxFragments
               PROVE  len > MaxMessageSize
  BY DEF Refused
<1>0. len \in Nat
  BY LenProperties
<1>2. /\ c \in Nat /\ FragmentCount(len) = c + 1
      /\ len # 0 => c * FragmentSize < len
  <2> HIDE DEF len
  <2>1. FragmentCount(len) \in Nat \ {0}
    BY <1>0, CountBounds
  <2>2. c \in Nat /\ FragmentCount(len) = c + 1
    BY <2>1
  <2> QED BY <1>0, <2>2, CountBounds
<1>3. len # 0
  BY <1>1, FragmentationAssumption DEF FragmentCount
<1>4. c >= MaxFragments
  <2> HIDE DEF len, c
  <2> QED BY <1>1, <1>2, FragmentationAssumption
<1> HIDE DEF len, c
<1>5. c * FragmentSize >= FragmentSize * MaxFragments
  BY <1>2, <1>4, FragmentationAssumption
<1>6. /\ FragmentSize * MaxFragments \in Nat /\ c * FragmentSize \in Nat
      /\ MaxMessageSize \in Nat
      /\ MaxMessageSize <= FragmentSize * MaxFragments
  BY <1>2, FragmentationAssumption
<1> QED BY <1>0, <1>2, <1>3, <1>5, <1>6

\* A fragment of the payload never contradicts those that have come, and is
\* added to them.
LEMMA Stored ==
    ASSUME payload \in Seq({0, 1}), NEW X \in SUBSET Indices,
           NEW f \in Fragments(payload)
    PROVE  /\ ~Conflicts(Holding(X), f)
           /\ Store(Holding(X), f) = Holding(X \cup {f.index})
           /\ NewAssembly(f) = Holding({})
<1> DEFINE a == Holding(X)
           data == X \ {Count}
<1>1. /\ a.len = Len(payload) /\ a.count = Count
      /\ a.fragments = [i \in data |-> Pieces(payload)[i]]
      /\ DOMAIN a.fragments = data
      /\ a.parity = IF Count \in X THEN {Parity(payload)} ELSE {}
      /\ \A i \in data : a.fragments[i] = Pieces(payload)[i]
  BY DEF Holding
<1>2. Count \in Nat \ {0}
  BY CountBounds, LenProperties DEF Count
<1>3. f.len = Len(payload) /\ f.count = Count
  BY FragmentsAre
<1>4. NewAssembly(f) = Holding({})
  <2>1. << >> = [i \in {} |-> Pieces(payload)[i]]
    OBVIOUS
  <2> QED BY <1>3, <2>1 DEF NewAssembly, Holding
<1>5. a = [len |-> Len(payload), count |-> Count,
           fragments |-> a.fragments, parity |-> a.parity]
  BY DEF Holding
<1>6. CASE /\ f.parity = FALSE /\ f.index \in 0 .. Count - 1
           /\ f.payload = Pieces(payload)[f.index]
  <2>1. ~Conflicts(a, f)
    <3> HIDE DEF a, data
    <3> QED BY <1>1, <1>3, <1>6 DEF Conflicts
  <2>2. /\ (X \cup {f.index}) \ {Count} = data \cup {f.index}
        /\ Count \in X \cup {f.index} <=> Count \in X
    BY <1>2, <1>6
  <2> DEFINE more == [i \in data \cup {f.index} |->
                         IF i = f.index THEN f.payload ELSE a.fragments[i]]
  <2>3. more = [i \in data \cup {f.index} |-> Pieces(payload)[i]]
    BY <1>1, <1>6
  <2>4. Store(a, f) = [a EXCEPT !.fragments = more]
    BY <1>1, <1>6 DEF Store
  <2>5. Holding(X \cup {f.index}) =
            [len |-> Len(payload), count |-> Count,
             fragments |-> more, parity |-> a.parity]
    BY <1>1, <2>2, <2>3 DEF Holding
  <2>6. [a EXCEPT !.fragments = more] =
            [len |-> Len(payload), count |-> Count,
             fragments |-> more, parity |-> a.parity]
    <3> HIDE DEF a, more
    <3> QED BY <1>5
  <2> QED BY <1>4, <2>1, <2>4, <2>5, <2>6
<1>7. CASE /\ f.parity = TRUE /\ f.index = Count
           /\ f.payload = Parity(payload)
  <2>1. ~Conflicts(a, f)
    <3> HIDE DEF a, data
    <3> QED BY <1>1, <1>3, <1>7 DEF Conflicts
  <2>2. (X \cup {f.index}) \ {Count} = data /\ Count \in X \cup {f.index}
    BY <1>7
  <2>3. Store(a, f) = [a EXCEPT !.parity = {f.payload}]
    BY <1>7 DEF Store
  <2>4. Holding(X \cup {f.index}) =
            [len |-> Len(payload), count |-> Count,
             fragments |-> a.fragments, parity |-> {f.payload}]
    BY <1>1, <1>7, <2>2 DEF Holding
  <2>5. [a EXCEPT !.parity = {f.payload}] =
            [len |-> Len(payload), count |-> Count,
             fragments |-> a.fragments, parity |-> {f.payload}]
    <3> DEFINE body == {f.payload}
    <3> HIDE DEF a, body
    <3>1. [a EXCEPT !.parity = body] =
              [len |-> Len(payload), count |-> Count,
               fragments |-> a.fragments, parity |-> body]
      BY <1>5
    <3> QED BY <3>1 DEF body
  <2> QED BY <1>4, <2>1, <2>3, <2>4, <2>5
<1> QED BY <1>6, <1>7, FragmentsAre

-----------------------------------------------------------------------------
(* The invariant and what it gives.                                        *)

\* Everything about the message is settled with its payload and parity.
LEMMA ContentStays ==
    ASSUME UNCHANGED <<payload, fec>>
    PROVE  /\ Indices' = Indices
           /\ Fragments(payload)' = Fragments(payload)
           /\ \A X : Holding(X)' = Holding(X)
           /\ \A X : Enough(X)' <=> Enough(X)
           /\ Refused(payload)' <=> Refused(payload)
<1>1. payload' = payload /\ fec' = fec
  OBVIOUS
<1>2. Count' = Count
  BY <1>1 DEF Count
<1>3. HasParity(Count)' <=> HasParity(Count)
  BY <1>1, <1>2 DEF HasParity
<1>4. Indices' = Indices
  BY <1>2, <1>3 DEF Indices
<1>5. Fragments(payload)' = Fragments(payload)
  BY <1>1 DEF Fragments, HasParity
<1>6. \A X : Holding(X)' = Holding(X)
  BY <1>1, <1>2 DEF Holding
<1>7. \A X : Enough(X)' <=> Enough(X)
  BY <1>2 DEF Enough
<1> QED BY <1>1, <1>4, <1>5, <1>6, <1>7 DEF Refused

\* Nothing has come at first.
LEMMA ContentInitially == FragInit => ContentInvariant
<1> SUFFICES ASSUME FragInit PROVE ContentInvariant
  OBVIOUS
<1>1. payload \in Payloads /\ payload \in Seq({0, 1})
  BY PayloadsAreBits DEF FragInit
<1>2. Count \in Nat \ {0}
  BY <1>1, CountBounds, LenProperties DEF Count
<1>3. ~Enough({})
  <2>1. {} \ {Count} = {} /\ Cardinality({}) = 0
    BY FS_EmptySet
  <2> QED BY <1>2, <2>1 DEF Enough
<1> QED BY <1>1, <1>3 DEF FragInit, ContentInvariant

\* Cutting the payload, or having it refused, keeps the invariant.
LEMMA SendKeeps ==
    ASSUME ContentInvariant, Send
    PROVE  ContentInvariant'
<1>1. UNCHANGED <<payload, fec>> /\ UNCHANGED <<assembly, result, seen>>
  BY DEF Send
<1>2. /\ Indices' = Indices /\ Fragments(payload)' = Fragments(payload)
      /\ Holding(seen)' = Holding(seen)
      /\ Enough(seen)' <=> Enough(seen)
      /\ Refused(payload)' <=> Refused(payload)
  BY <1>1, ContentStays DEF Enough, Holding
<1>3. CASE Refused(payload)
  BY <1>1, <1>2, <1>3 DEF Send, ContentInvariant
<1>4. CASE ~Refused(payload)
  BY <1>1, <1>2, <1>4 DEF Send, ContentInvariant
<1> QED BY <1>3, <1>4

\* So does a fragment that comes.
LEMMA AddContentKeeps ==
    ASSUME ContentInvariant, NEW f \in frames, AddContent(f)
    PROVE  ContentInvariant'
<1> DEFINE a == IF assembly = {} THEN NewAssembly(f)
                ELSE CHOOSE x \in assembly : TRUE
           more == seen \cup {f.index}
           r == Assemble(Store(a, f))
<1>1. /\ payload \in Seq({0, 1}) /\ frames = Fragments(payload)
      /\ ~Refused(payload) /\ seen \subseteq Indices
  BY PayloadsAreBits DEF ContentInvariant
<1>2. /\ result = {} /\ ~raised
      /\ UNCHANGED <<payload, fec, frames>>
      /\ IF Conflicts(a, f) \/ r = Error
         THEN raised' = TRUE /\ UNCHANGED <<assembly, result, seen>>
         ELSE /\ seen' = more
              /\ IF r = Waiting
                 THEN assembly' = {Store(a, f)} /\ UNCHANGED result
                 ELSE assembly' = {} /\ result' = {r.payload}
              /\ UNCHANGED raised
  BY DEF AddContent
<1>3. /\ ~Enough(seen)
      /\ assembly = IF seen = {} THEN {} ELSE {Holding(seen)}
  BY <1>2 DEF ContentInvariant
<1>4. /\ ~Conflicts(Holding(seen), f)
      /\ Store(Holding(seen), f) = Holding(more)
      /\ NewAssembly(f) = Holding({})
  BY <1>1, Stored
<1>5. a = Holding(seen)
  <2>1. CASE seen = {}
    BY <1>3, <1>4, <2>1
  <2>2. CASE seen # {}
    BY <1>3, <2>2
  <2> QED BY <2>1, <2>2
<1>6. more \subseteq Indices /\ more # {}
  BY <1>1, FragmentsAre
<1>7. r = IF Enough(more) THEN Done(payload) ELSE Waiting
  BY <1>1, <1>4, <1>5, <1>6, AssembledIs
<1>8. /\ Done(payload) # Error /\ Waiting # Error
      /\ Done(payload) # Waiting /\ Done(payload).payload = payload
  <2>1. /\ Done(payload).outcome = "payload" /\ Waiting.outcome = "none"
        /\ Error.outcome = "error"
    BY DEF Done, Waiting, Error
  <2>2. Done(payload).payload = payload
    BY DEF Done
  <2> QED BY <2>1, <2>2
<1>9. /\ Indices' = Indices /\ Fragments(payload)' = Fragments(payload)
      /\ \A X : Holding(X)' = Holding(X)
      /\ \A X : Enough(X)' <=> Enough(X)
      /\ Refused(payload)' <=> Refused(payload)
  BY <1>2, ContentStays
<1> HIDE DEF a, r
<1>10. /\ seen' = more /\ UNCHANGED <<payload, fec, frames, raised>>
       /\ IF Enough(more) THEN assembly' = {} /\ result' = {payload}
          ELSE assembly' = {Holding(more)} /\ result' = {}
  <2>1. CASE Enough(more)
    <3>1. r = Done(payload)
      BY <1>7, <2>1
    <3>2. ~ (Conflicts(a, f) \/ r = Error) /\ r # Waiting
      BY <1>4, <1>5, <1>8, <3>1
    <3> QED BY <1>2, <1>8, <2>1, <3>1, <3>2
  <2>2. CASE ~Enough(more)
    <3>1. r = Waiting
      BY <1>7, <2>2
    <3>2. ~ (Conflicts(a, f) \/ r = Error)
      BY <1>4, <1>5, <1>8, <3>1
    <3> QED BY <1>2, <1>4, <1>5, <2>2, <3>1, <3>2
  <2> QED BY <2>1, <2>2
<1> HIDE DEF more
<1>11. Enough(seen)' <=> Enough(more)
  BY <1>10, <1>9 DEF Enough
<1>12. Holding(seen)' = Holding(more)
  BY <1>10, <1>9 DEF Holding
<1> QED BY <1>1, <1>6, <1>9, <1>10, <1>11, <1>12 DEF ContentInvariant

\* Every step keeps the invariant.
LEMMA ContentStep ==
    ContentInvariant /\ [FragNext]_fragVars => ContentInvariant'
<1> SUFFICES ASSUME ContentInvariant, [FragNext]_fragVars
             PROVE  ContentInvariant'
  OBVIOUS
<1>1. CASE Send
  BY <1>1, SendKeeps
<1>2. CASE \E f \in frames : AddContent(f)
  BY <1>2, AddContentKeeps
<1>3. CASE UNCHANGED fragVars
  <2>1. /\ Indices' = Indices /\ Fragments(payload)' = Fragments(payload)
        /\ Holding(seen)' = Holding(seen)
        /\ Enough(seen)' <=> Enough(seen)
        /\ Refused(payload)' <=> Refused(payload)
    BY <1>3, ContentStays DEF fragVars, Enough, Holding
  <2> QED BY <1>3, <2>1 DEF fragVars, ContentInvariant
<1> QED BY <1>1, <1>2, <1>3 DEF FragNext

\* What the receiver holds of a message is the fragments that have come, in
\* whatever order, and the message is complete as soon as they are enough.
THEOREM ContentInvariance == FragSpec => []ContentInvariant
<1>1. FragInit => ContentInvariant
  BY ContentInitially
<1>2. ContentInvariant /\ [FragNext]_fragVars => ContentInvariant'
  BY ContentStep
<1> QED BY <1>1, <1>2, PTL DEF FragSpec

\* _assemble gives back the datagram that fragment_message cut, whatever its
\* length, the fragment size, the order of arrival and the piece lost.
THEOREM OriginalDelivered == FragSpec => []DeliversTheOriginal
<1>1. ContentInvariant => DeliversTheOriginal
  BY DEF ContentInvariant, DeliversTheOriginal
<1> QED BY <1>1, ContentInvariance, PTL

\* It does so with the last fragment needed and no earlier: the parity makes
\* up for one lost piece.
THEOREM DeliveredWhenPossible == FragSpec => []DeliversWhenPossible
<1>1. ContentInvariant => DeliversWhenPossible
  BY DEF ContentInvariant, DeliversWhenPossible, Enough, Count
<1> QED BY <1>1, ContentInvariance, PTL

\* add raises no ProtocolError for what fragment_message made, which encode
\* and decode accept; only a datagram above MAX_MESSAGE_SIZE is refused.
THEOREM HonestAccepted == FragSpec => []HonestIsNeverRefused
<1>1. ContentInvariant => HonestIsNeverRefused
  <2> SUFFICES ASSUME ContentInvariant PROVE HonestIsNeverRefused
    OBVIOUS
  <2>1. payload \in Seq({0, 1})
    BY PayloadsAreBits DEF ContentInvariant
  <2>2. raised => Len(payload) > MaxMessageSize
    BY <2>1, RefusedIsTooLong DEF ContentInvariant
  <2>3. \A f \in frames : Encodable(f)
    BY <2>1, HonestFragments DEF ContentInvariant
  <2> QED BY <2>2, <2>3 DEF HonestIsNeverRefused
<1> QED BY <1>1, ContentInvariance, PTL

=============================================================================
