------------------------- MODULE ReplayWindowProofs -------------------------
(***************************************************************************)
(* Lemmas about the replay window, for every width and every set of        *)
(* sessions: what accepting a frame keeps, changes and remembers.          *)
(***************************************************************************)
EXTENDS ReplayWindow, TLAPS

\* Accepting a frame keeps the window well formed: no bit of the bitmap ever
\* leaves the window.
LEMMA AfterAcceptWellFormed ==
    ASSUME NEW w, WellFormed(w), NEW sid \in Session, NEW seq \in Nat,
           Accepts(w, sid, seq)
    PROVE  /\ AfterAccept(w, sid, seq) \in Windows
           /\ AfterAccept(w, sid, seq).session = sid
<1> DEFINE v == SelectSession(w, sid)
<1>1. v \in Windows /\ v.session = sid
  BY WindowAssumption DEF WellFormed, Windows, SelectSession
<1>2. Fresh(v, seq) /\ AfterAccept(w, sid, seq) = Record(v, seq)
  BY DEF Accepts, AfterAccept
<1> HIDE DEF v
<1>3. CASE v.highest < 0
  <2>1. {0} \subseteq 0 .. Size - 1
    BY WindowAssumption
  <2>2. Record(v, seq) = [v EXCEPT !.highest = seq, !.bitmap = {0}]
    BY <1>1, <1>3 DEF Record, Windows
  <2> QED BY <1>1, <1>2, <2>1, <2>2 DEF Windows
<1>4. CASE v.highest >= 0 /\ seq > v.highest
  <2>1. ShiftLeft(v.bitmap, seq - v.highest) \cup {0} \subseteq 0 .. Size - 1
    BY WindowAssumption DEF ShiftLeft
  <2>2. Record(v, seq) =
            [v EXCEPT !.highest = seq,
                      !.bitmap = ShiftLeft(v.bitmap, seq - v.highest) \cup {0}]
    BY <1>1, <1>4 DEF Record, Windows
  <2> QED BY <1>1, <1>2, <1>4, <2>1, <2>2 DEF Windows
<1>5. CASE v.highest >= 0 /\ ~(seq > v.highest)
  <2>1. v.highest \in Nat /\ v.highest - seq \in 0 .. Size - 1
    BY <1>1, <1>2, <1>5, WindowAssumption DEF Fresh, Windows
  <2> QED BY <1>1, <1>2, <1>5, <2>1 DEF Record, Windows
<1> QED BY <1>1, <1>3, <1>4, <1>5 DEF Windows

\* The frame just accepted is rejected from now on.
LEMMA AcceptedIsRejected ==
    ASSUME NEW w, WellFormed(w), NEW sid \in Session, NEW seq \in Nat,
           Accepts(w, sid, seq)
    PROVE  ~Accepts(AfterAccept(w, sid, seq), sid, seq)
<1> DEFINE v == SelectSession(w, sid)
           u == AfterAccept(w, sid, seq)
<1>1. v \in Windows /\ v.session = sid
  BY WindowAssumption DEF WellFormed, Windows, SelectSession
<1>2. Fresh(v, seq)
  BY DEF Accepts
<1>3. u = Record(v, seq)
  BY DEF AfterAccept
<1> HIDE DEF v
<1>4. u.session = sid /\ u.highest \in Nat /\ seq <= u.highest
      /\ u.highest - seq \in u.bitmap
  <2>1. CASE v.highest < 0
    BY <1>1, <1>3, <2>1, WindowAssumption DEF Record, Windows
  <2>2. CASE v.highest >= 0 /\ seq > v.highest
    BY <1>1, <1>3, <2>2, WindowAssumption DEF Record, Windows
  <2>3. CASE v.highest >= 0 /\ ~(seq > v.highest)
    BY <1>1, <1>3, <2>3, WindowAssumption DEF Record, Windows
  <2> QED BY <1>1, <2>1, <2>2, <2>3 DEF Windows
<1> HIDE DEF u
<1>5. SelectSession(u, sid) = [u EXCEPT !.session = sid]
  BY <1>4 DEF SelectSession
<1>6. u \in Windows
  BY AfterAcceptWellFormed DEF u
<1>7. ~Fresh(SelectSession(u, sid), seq)
  BY <1>4, <1>5, <1>6 DEF Fresh, Windows
<1> QED BY <1>7 DEF Accepts, u

\* A frame the window rejects stays rejected, whatever is accepted after it:
\* sliding, filling a hole and following another session forget nothing.
LEMMA RejectionIsStable ==
    ASSUME NEW w, WellFormed(w), NEW sid \in Session, NEW seq \in Nat,
           Accepts(w, sid, seq),
           NEW sid2 \in Session, NEW seq2 \in Nat, ~Accepts(w, sid2, seq2)
    PROVE  ~Accepts(AfterAccept(w, sid, seq), sid2, seq2)
<1> DEFINE v == SelectSession(w, sid)
           u == AfterAccept(w, sid, seq)
<1>1. v \in Windows /\ v.session = sid
  BY WindowAssumption DEF WellFormed, Windows, SelectSession
<1>2. Fresh(v, seq) /\ Selectable(w, sid)
  BY DEF Accepts
<1>3. u = Record(v, seq) /\ u \in Windows
  BY AfterAcceptWellFormed DEF AfterAccept
<1>4. u.session = sid /\ u.retired = v.retired
  BY <1>1, <1>3 DEF Record, Windows
<1>5. CASE w.session \notin {NoSession, sid2}
  \* sid2 was retired before, and accepting sid did not bring it back.
  <2>1. sid2 \in w.retired
    <3>1. SelectSession(w, sid2).highest = -1
      BY <1>5 DEF SelectSession
    <3>2. Fresh(SelectSession(w, sid2), seq2)
      BY <3>1 DEF Fresh
    <3> QED BY <1>5, <3>2 DEF Accepts, Selectable
  <2>2. sid2 \in u.retired
    BY <1>4, <2>1 DEF SelectSession
  <2>3. sid # sid2
    BY <1>2, <1>5, <2>1 DEF Selectable
  <2> QED BY <1>4, <2>2, <2>3, WindowAssumption DEF Accepts, Selectable
<1>6. CASE w.session = NoSession
  <2>1. w.highest = -1 /\ SelectSession(w, sid2).highest = -1
    BY <1>6 DEF WellFormed, SelectSession, Windows
  <2> QED BY <1>6, <2>1 DEF Accepts, Selectable, Fresh
<1>7. CASE w.session = sid2 /\ sid # sid2
  <2>1. sid2 \in u.retired
    BY <1>4, <1>7, WindowAssumption DEF SelectSession
  <2> QED BY <1>4, <1>7, <2>1, WindowAssumption DEF Accepts, Selectable
<1>8. CASE w.session = sid2 /\ sid = sid2
  \* The same session: the distance of seq2 grows with the shift.
  <2>1. v = w
    BY <1>8 DEF SelectSession, WellFormed, Windows
  <2>2. ~Fresh(w, seq2)
    BY <1>8, <2>1 DEF Accepts, Selectable
  <2>3. /\ w.highest \in Nat /\ seq2 <= w.highest
        /\ w.highest - seq2 >= Size \/ w.highest - seq2 \in w.bitmap
    BY <2>2, WindowAssumption DEF Fresh, WellFormed, Windows
  <2>4. /\ u.highest \in Nat /\ seq2 <= u.highest
        /\ u.highest - seq2 >= Size \/ u.highest - seq2 \in u.bitmap
    <3>1. CASE seq > w.highest
      <4>1. /\ u.highest = seq
            /\ u.bitmap = ShiftLeft(w.bitmap, seq - w.highest) \cup {0}
        BY <1>3, <2>1, <2>3, <3>1 DEF Record, WellFormed, Windows
      <4>2. CASE w.highest - seq2 >= Size
        BY <2>3, <3>1, <4>1, <4>2, WindowAssumption
      <4>3. CASE w.highest - seq2 \in w.bitmap
        BY <2>3, <3>1, <4>1, <4>3, WindowAssumption DEF ShiftLeft
      <4> QED BY <2>3, <4>2, <4>3
    <3>2. CASE ~(seq > w.highest)
      BY <1>3, <2>1, <2>3, <3>2 DEF Record, WellFormed, Windows
    <3> QED BY <3>1, <3>2
  <2>5. SelectSession(u, sid2).highest = u.highest
        /\ SelectSession(u, sid2).bitmap = u.bitmap
    BY <1>3, <1>4, <1>8 DEF SelectSession, Windows
  <2> QED BY <2>4, <2>5, WindowAssumption DEF Accepts, Fresh
<1> QED BY <1>5, <1>6, <1>7, <1>8

\* The bitmap marks only sequences that were accepted, the new one included.
LEMMA BitsStayCovered ==
    ASSUME NEW w, WellFormed(w), NEW sid \in Session, NEW seq \in Nat,
           Accepts(w, sid, seq), NEW covers, BitsCovered(w, covers)
    PROVE  BitsCovered(AfterAccept(w, sid, seq), covers \cup {<<sid, seq>>})
<1> DEFINE v == SelectSession(w, sid)
           u == AfterAccept(w, sid, seq)
<1>1. v \in Windows /\ v.session = sid
  BY WindowAssumption DEF WellFormed, Windows, SelectSession
<1>2. u = Record(v, seq)
  BY DEF AfterAccept
<1>3. v.highest >= 0 => v = w
  BY WindowAssumption DEF WellFormed, Windows, SelectSession
<1> HIDE DEF v
<1>4. CASE v.highest < 0
  <2>1. u.session = sid /\ u.highest = seq /\ u.bitmap = {0}
    BY <1>1, <1>2, <1>4 DEF Record, Windows
  <2> QED BY <2>1 DEF BitsCovered
<1>5. CASE v.highest >= 0 /\ seq > v.highest
  <2>1. /\ u.session = sid /\ u.highest = seq
        /\ u.bitmap = ShiftLeft(w.bitmap, seq - w.highest) \cup {0}
    BY <1>1, <1>2, <1>3, <1>5 DEF Record, Windows
  <2>2. ASSUME NEW d \in u.bitmap
        PROVE  <<u.session, u.highest - d>> \in covers \cup {<<sid, seq>>}
    <3>1. CASE d = 0
      BY <2>1, <3>1
    <3>2. CASE d - (seq - w.highest) \in w.bitmap /\ d \in 0 .. Size - 1
      <4>1. w.highest \in Int /\ w.session = sid
        BY <1>1, <1>3, <1>5 DEF Windows
      <4>2. w.highest - (d - (seq - w.highest)) = seq - d
        BY <3>2, <4>1, WindowAssumption
      <4> QED BY <2>1, <3>2, <4>1, <4>2 DEF BitsCovered
    <3> QED BY <2>1, <3>1, <3>2 DEF ShiftLeft
  <2> QED BY <2>2 DEF BitsCovered, u
<1>6. CASE v.highest >= 0 /\ ~(seq > v.highest)
  <2>1. /\ u.session = sid /\ u.highest = w.highest /\ w.session = sid
        /\ u.bitmap = w.bitmap \cup {w.highest - seq} /\ w.highest \in Nat
    BY <1>1, <1>2, <1>3, <1>6 DEF Record, Windows
  <2>2. w.highest - (w.highest - seq) = seq
    BY <2>1
  <2> QED BY <2>1, <2>2 DEF BitsCovered
<1> QED BY <1>1, <1>4, <1>5, <1>6 DEF Windows

=============================================================================
