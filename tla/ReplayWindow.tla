---------------------------- MODULE ReplayWindow ----------------------------
(***************************************************************************)
(* The session-aware replay window of h3ntun/protocol.py, class            *)
(* ReplayWindow: the pure decision taken, under the window's lock, for     *)
(* every authenticated frame.                                              *)
(*                                                                         *)
(* A window is a record                                                    *)
(*   session  the sender session being followed, or NoSession (None)       *)
(*   retired  the sessions that were followed before it                    *)
(*   highest  the highest sequence accepted in this session, or -1         *)
(*   bitmap   the set of distances d such that highest - d was accepted    *)
(*            (bit d of the code's integer bitmap)                         *)
(***************************************************************************)
EXTENDS Integers

CONSTANTS
    Size,       \* width of the window (the code's default is 4096)
    Session,    \* sender process sessions (64 random bits in the code)
    NoSession   \* Python's None

ASSUME WindowAssumption ==
    /\ Size \in Nat \ {0}
    /\ NoSession \notin Session

Windows ==
    [session : Session \cup {NoSession},
     retired : SUBSET Session,
     highest : Nat \cup {-1},
     bitmap  : SUBSET (0 .. Size - 1)]

\* The window of a new ReplayWindow object.
NewWindow ==
    [session |-> NoSession, retired |-> {}, highest |-> -1, bitmap |-> {}]

\* _select_session returns True.
Selectable(w, sid) ==
    \/ w.session \in {NoSession, sid}
    \/ sid \notin w.retired

\* Mutant: the session left behind is not retired.
SelectSessionNoRetire(w, sid) ==
    IF w.session \in {NoSession, sid}
    THEN [w EXCEPT !.session = sid]
    ELSE [w EXCEPT !.session = sid, !.highest = -1, !.bitmap = {}]

\* The window _select_session leaves behind when it returns True: following
\* another session retires the current one and forgets its sequences.
SelectSession(w, sid) ==
    IF w.session \in {NoSession, sid}
    THEN [w EXCEPT !.session = sid]
    ELSE [session |-> sid, retired |-> w.retired \cup {w.session},
          highest |-> -1, bitmap |-> {}]

\* (bitmap << n) & ((1 << Size) - 1)
ShiftLeft(bits, n) == {b \in 0 .. Size - 1 : b - n \in bits}

\* Mutant: the window reaches one sequence further than the bitmap.
FreshWide(w, seq) ==
    \/ w.highest < 0
    \/ seq > w.highest
    \/ /\ w.highest - seq <= Size
       /\ w.highest - seq \notin w.bitmap

\* Mutant: the oldest sequence of the window counts as too old.
FreshNarrow(w, seq) ==
    \/ w.highest < 0
    \/ seq > w.highest
    \/ /\ w.highest - seq < Size - 1
       /\ w.highest - seq \notin w.bitmap

\* The sequence tests of _accept_locked, once the session is selected.
Fresh(w, seq) ==
    \/ w.highest < 0
    \/ seq > w.highest
    \/ /\ w.highest - seq < Size
       /\ w.highest - seq \notin w.bitmap

\* The window after a fresh sequence: the first one of a session starts the
\* bitmap, a new highest shifts it, an older one sets its bit.
Record(w, seq) ==
    CASE w.highest < 0 ->
            [w EXCEPT !.highest = seq, !.bitmap = {0}]
      [] w.highest >= 0 /\ seq > w.highest ->
            [w EXCEPT !.highest = seq,
                      !.bitmap = ShiftLeft(w.bitmap, seq - w.highest)
                                    \cup {0}]
      [] OTHER ->
            [w EXCEPT !.bitmap = w.bitmap \cup {w.highest - seq}]

\* _accept_locked(seq, sid) returns True on window w ...
Accepts(w, sid, seq) ==
    /\ seq >= 0
    /\ Selectable(w, sid)
    /\ Fresh(SelectSession(w, sid), seq)

\* ... and this is the window it leaves behind.
AfterAccept(w, sid, seq) == Record(SelectSession(w, sid), seq)

-----------------------------------------------------------------------------
(* What every window is, by induction over its calls.                      *)

\* A window that follows no session has accepted nothing.
WellFormed(w) == w \in Windows /\ (w.session = NoSession => w.highest = -1)

\* The bitmap marks no sequence that was not accepted.
BitsCovered(w, covers) ==
    \A d \in w.bitmap : <<w.session, w.highest - d>> \in covers

=============================================================================
