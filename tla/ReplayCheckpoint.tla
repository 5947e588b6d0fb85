-------------------------- MODULE ReplayCheckpoint --------------------------
(***************************************************************************)
(* The persistent replay window of h3ntun/protocol.py, class               *)
(* PersistentReplayWindow: receive threads decide on frames in memory, one *)
(* writer thread checkpoints the window to disk through a one-slot         *)
(* coalescing queue, and the process may be closed, killed or lose power   *)
(* at any point and start again from the file.                             *)
(*                                                                         *)
(* A `with self._condition:` block is one step. The writer's loop is cut   *)
(* where it releases the lock, and _write_snapshot where a crash would     *)
(* find something different on disk. Wall-clock tests are two flags: aged  *)
(* (interval_seconds have passed since the last attempt) and cooling (the  *)
(* back-off that follows a failed attempt has not passed).                 *)
(***************************************************************************)
EXTENDS ReplayWindow

CONSTANTS
    SeqNo,        \* the sequence numbers frames may carry
    BatchFrames,  \* replay_checkpoint_batch_frames
    MaxAccepts,   \* bound: frames accepted by one process
    MaxEpochs     \* bound: restarts of the receiver process

ASSUME CheckpointAssumption ==
    /\ SeqNo \subseteq Nat
    /\ BatchFrames \in Nat \ {0}
    /\ MaxAccepts \in Nat
    /\ MaxEpochs \in Nat

VARIABLES
    window,        \* the window in memory
    pending,       \* _pending: the one-slot queue, {} or {snapshot}
    inflight,      \* what the writer is writing, {} or {snapshot}
    accepted,      \* _accepted_count
    persisted,     \* _persisted_count
    pendingFrames, \* _pending_frames
    lastError,     \* _last_error is not None
    stopping,      \* _stopping
    aged,          \* now - _last_attempt_at >= interval_seconds
    cooling,       \* now < _retry_at
    writer,        \* where the writer thread is
    proc,          \* "up", "closing" (inside close), then close's result
    epoch,         \* how many times the process has been restarted
    file,          \* what a running process reads back from path
    possible,      \* what path may hold after the host itself goes down
    hist,          \* history: frames accepted on the way to this window
    committed      \* history: frames covered by some durable checkpoint

memory == <<window, pending, inflight, accepted, persisted, pendingFrames,
            lastError, stopping, hist>>
timers == <<aged, cooling>>
disk   == <<file, possible>>
vars   == <<memory, timers, writer, proc, epoch, disk, committed>>

Frames == Session \X SeqNo

\* A checkpoint file's content. An absent file and the snapshot of a new
\* window are loaded alike. `covers` is history: the frames the state saw.
Checkpoint == [state : Windows, covers : SUBSET Frames]

\* A queued snapshot: its generation, its content, and the generation of the
\* oldest frame that waits with it (queued_at, on the clock of accepts).
Snapshot == [gen : Nat, content : Checkpoint, oldest : Nat]

AtMostOne(S) == \A s, t \in S : s = t

TypeOK ==
    /\ window \in Windows
    /\ pending \in SUBSET Snapshot /\ AtMostOne(pending)
    /\ inflight \in SUBSET Snapshot /\ AtMostOne(inflight)
    /\ accepted \in Nat /\ persisted \in Nat /\ pendingFrames \in Nat
    /\ lastError \in BOOLEAN /\ stopping \in BOOLEAN
    /\ aged \in BOOLEAN /\ cooling \in BOOLEAN
    /\ writer \in {"check", "wait", "timedwait", "write", "replaced",
                   "synced", "done"}
    /\ proc \in {"up", "closing", "clean", "unclean"}
    /\ epoch \in Nat
    /\ file \in Checkpoint
    /\ possible \in SUBSET Checkpoint
    /\ hist \in SUBSET Frames
    /\ committed \in SUBSET Frames

-----------------------------------------------------------------------------
(* A process starts: __init__, and _load when the file exists.             *)

Empty == [state |-> NewWindow, covers |-> {}]

Init ==
    /\ file = Empty /\ possible = {Empty}
    /\ window = NewWindow /\ hist = {}
    /\ pending = {} /\ inflight = {}
    /\ accepted = 0 /\ persisted = 0 /\ pendingFrames = 0
    /\ lastError = FALSE /\ stopping = FALSE
    /\ aged = FALSE /\ cooling = FALSE
    /\ writer = "check" /\ proc = "up"
    /\ epoch = 0 /\ committed = {}

\* A new process starts from the content the path holds.
Load(content) ==
    /\ file' = content
    /\ window' = content.state /\ hist' = content.covers
    /\ pending' = {} /\ inflight' = {}
    /\ accepted' = 0 /\ persisted' = 0 /\ pendingFrames' = 0
    /\ lastError' = FALSE /\ stopping' = FALSE
    /\ aged' = FALSE /\ cooling' = FALSE
    /\ writer' = "check" /\ proc' = "up"
    /\ UNCHANGED committed

-----------------------------------------------------------------------------
(* Receive threads.                                                        *)

\* Condition.notify: the writer is the only waiter there is.
Notified(w) == IF w \in {"wait", "timedwait"} THEN "check" ELSE w

\* Mutant: only a full batch wakes the writer.
WakesOnBatch(slot, frames) == frames >= BatchFrames

\* When accept notifies: the slot was empty, or the batch is now full.
Wakes(slot, frames) == slot = {} \/ frames >= BatchFrames

\* accept returns True. A False result, and the ProtocolError raised once
\* close has begun, change nothing.
Accept(sid, seq) ==
    /\ ~stopping
    /\ Accepts(window, sid, seq)
    /\ accepted < MaxAccepts
    /\ window' = AfterAccept(window, sid, seq)
    /\ hist' = hist \cup {<<sid, seq>>}
    /\ accepted' = accepted + 1
    /\ pendingFrames' = pendingFrames + 1
    /\ LET snap == [gen |-> accepted + 1, oldest |-> accepted + 1,
                    content |-> [state |-> window', covers |-> hist']]
       IN pending' = IF pending = {} THEN {snap}
                     ELSE {[snap EXCEPT !.oldest = s.oldest] : s \in pending}
    /\ writer' = IF Wakes(pending, pendingFrames + 1)
                 THEN Notified(writer) ELSE writer
    /\ UNCHANGED <<inflight, persisted, lastError, stopping, timers, proc,
                   epoch, disk, committed>>

-----------------------------------------------------------------------------
(* The writer thread: _writer_loop.                                        *)

\* Mutant: the interval alone never makes a checkpoint due.
DueOnBatch == stopping \/ pendingFrames >= BatchFrames

Due == stopping \/ pendingFrames >= BatchFrames \/ aged

Ready == pending # {} /\ ~cooling /\ Due

Finished == stopping /\ pending = {}

WriterReturns ==
    /\ writer = "check" /\ Finished
    /\ writer' = "done"
    /\ UNCHANGED <<memory, timers, proc, epoch, disk, committed>>

WriterTakes ==
    /\ writer = "check" /\ Ready
    /\ inflight' = pending
    /\ pending' = {}
    /\ pendingFrames' = 0
    /\ aged' = FALSE
    /\ writer' = "write"
    /\ UNCHANGED <<window, accepted, persisted, lastError, stopping, hist,
                   cooling, proc, epoch, disk, committed>>

\* Condition.wait without a timeout when the slot is empty, with one until
\* the back-off and the interval have passed otherwise.
WriterWaits ==
    /\ writer = "check" /\ ~Finished /\ ~Ready
    /\ writer' = IF pending = {} THEN "wait" ELSE "timedwait"
    /\ UNCHANGED <<memory, timers, proc, epoch, disk, committed>>

WaitTimesOut ==
    /\ writer = "timedwait" /\ ~cooling /\ Due
    /\ writer' = "check"
    /\ UNCHANGED <<memory, timers, proc, epoch, disk, committed>>

\* _write_snapshot up to os.replace: from here on the path names the new
\* content, but its directory entry is not yet forced to disk.
WriterReplaces ==
    /\ writer = "write"
    /\ \E s \in inflight : file' = s.content
    /\ possible' = possible \cup {file'}
    /\ writer' = "replaced"
    /\ UNCHANGED <<memory, timers, proc, epoch, committed>>

\* Mutant: the parent directory is not synced.
WriterSkipsSync ==
    /\ writer = "replaced"
    /\ committed' = committed \cup file.covers
    /\ writer' = "synced"
    /\ UNCHANGED <<memory, timers, proc, epoch, disk>>

\* The fsync of the parent directory.
WriterSyncs ==
    /\ writer = "replaced"
    /\ possible' = {file}
    /\ committed' = committed \cup file.covers
    /\ writer' = "synced"
    /\ UNCHANGED <<memory, timers, proc, epoch, file>>

\* What _persisted_count becomes.
Generation(s) == s.gen

\* The else branch: the attempt succeeded.
WriterCommits ==
    /\ writer = "synced"
    /\ \E s \in inflight : persisted' = Generation(s)
    /\ inflight' = {}
    /\ lastError' = FALSE
    /\ writer' = "check"
    /\ UNCHANGED <<window, pending, accepted, pendingFrames, stopping, hist,
                   timers, proc, epoch, disk, committed>>

Earlier(a, b) == IF a < b THEN a ELSE b

\* Mutant: the snapshot that waits keeps its own age.
RequeueNewerAge(slot, failed) == IF slot = {} THEN failed ELSE slot

\* Mutant: the snapshot that failed waits beside a newer one.
RequeueBoth(slot, failed) == slot \cup failed

\* A snapshot whose write failed goes back to the slot, unless a newer one is
\* waiting there: that one stays, and takes over the older age.
Requeue(slot, failed) ==
    IF slot = {} THEN failed
    ELSE {[s EXCEPT !.oldest = Earlier(f.oldest, s.oldest)] :
              s \in slot, f \in failed}

\* The except branch: an OSError anywhere in _write_snapshot, so before or
\* after os.replace.
WriterFails ==
    /\ writer \in {"write", "replaced", "synced"}
    /\ pending' = Requeue(pending, inflight)
    /\ inflight' = {}
    /\ lastError' = TRUE
    /\ cooling' = TRUE
    /\ writer' = "check"
    /\ UNCHANGED <<window, accepted, persisted, pendingFrames, stopping, hist,
                   aged, proc, epoch, disk, committed>>

-----------------------------------------------------------------------------
(* The clock. The back-off starts after the attempt did and is as long, so *)
(* it cannot end first.                                                    *)

IntervalPasses ==
    /\ ~aged
    /\ aged' = TRUE
    /\ UNCHANGED <<memory, cooling, writer, proc, epoch, disk, committed>>

BackoffPasses ==
    /\ cooling /\ aged
    /\ cooling' = FALSE
    /\ UNCHANGED <<memory, aged, writer, proc, epoch, disk, committed>>

-----------------------------------------------------------------------------
(* Shutdown, kill, power loss and restart.                                 *)

\* close sets the flag and notifies ...
CloseBegins ==
    /\ proc = "up"
    /\ stopping' = TRUE
    /\ proc' = "closing"
    /\ writer' = Notified(writer)
    /\ UNCHANGED <<window, pending, inflight, accepted, persisted,
                   pendingFrames, lastError, hist, timers, epoch, disk,
                   committed>>

\* ... and joins the writer, for at most five seconds. Its result is the
\* conjunction of the writer being gone and no frame lagging.
CloseReturns ==
    /\ proc = "closing"
    /\ proc' = IF writer = "done" /\ accepted - persisted = 0
               THEN "clean" ELSE "unclean"
    /\ UNCHANGED <<memory, timers, writer, epoch, disk, committed>>

\* The process ended, by exit or kill at any point; the host kept running.
ProcessRestarts ==
    /\ epoch < MaxEpochs
    /\ epoch' = epoch + 1
    /\ Load(file)
    /\ UNCHANGED possible

\* The host went down: a replacement not yet synced may or may not survive.
HostRestarts ==
    /\ epoch < MaxEpochs
    /\ epoch' = epoch + 1
    /\ \E content \in possible :
           /\ Load(content)
           /\ possible' = {content}

-----------------------------------------------------------------------------

\* The writer is a daemon thread: it also runs on after a close that timed
\* out, until the process is gone.
Writer ==
    \/ WriterReturns \/ WriterTakes \/ WriterWaits \/ WaitTimesOut
    \/ WriterReplaces \/ WriterSyncs \/ WriterCommits \/ WriterFails

Next ==
    \/ \E sid \in Session, seq \in SeqNo : Accept(sid, seq)
    \/ Writer
    \/ IntervalPasses \/ BackoffPasses
    \/ CloseBegins \/ CloseReturns
    \/ ProcessRestarts \/ HostRestarts

Spec == Init /\ [][Next]_vars

\* The threads of a process that has not been told its shutdown failed are
\* scheduled, its clock runs, and a disk operation tried over and over
\* succeeds in the end. Nothing obliges a frame, a close or a restart to come.
ProcessRuns == proc # "unclean"

Fairness ==
    /\ WF_vars(ProcessRuns /\ Writer)
    /\ WF_vars(IntervalPasses) /\ WF_vars(BackoffPasses)
    /\ SF_vars(WriterReplaces) /\ SF_vars(WriterSyncs)
    /\ SF_vars(WriterCommits)

FairSpec == Spec /\ Fairness

-----------------------------------------------------------------------------
(* Properties.                                                             *)

Rejected(w, f) == ~Accepts(w, f[1], f[2])

\* Replay protection: whatever the order of sessions and sequences, a frame
\* that brought the window to where it is, in this process or in the ones
\* whose checkpoint it loaded, is never accepted again.
RejectsHistory == \A f \in hist : Rejected(window, f)

\* Replay protection costs no traffic: a frame not seen before is accepted
\* unless its session was left behind or it fell out of the window.
FreshFramesPass ==
    \A f \in Frames \ hist :
        /\ f[1] \notin window.retired
        /\ f[1] = window.session => f[2] > window.highest - Size
        => Accepts(window, f[1], f[2])

\* The limit the class comment sets to what a hard crash may cost: a frame
\* covered by a checkpoint that reached the disk stays rejected through every
\* later kill, failed write and loss of power.
CommittedNeverReplayed == \A f \in committed : Rejected(window, f)

\* What the lag metrics of stats() claim: the frames not yet persisted are
\* exactly those in the slot and in the write under way, whose oldest is the
\* first one after the last persisted, through coalescing and failed writes.
LagIsExact ==
    LET outstanding == pending \cup inflight
    IN IF outstanding = {}
       THEN accepted = persisted
       ELSE /\ \E s \in outstanding : s.gen = accepted
            /\ \E s \in outstanding : s.oldest = persisted + 1
            /\ \A s \in outstanding : s.oldest \in persisted + 1 .. s.gen

\* close() returning True means that no frame this process accepted can be
\* replayed to the next one, even if the host goes down right after.
CleanShutdownKeepsAll ==
    proc = "clean" /\ accepted > 0 =>
        \A content \in possible, f \in hist : Rejected(content.state, f)

\* The writer never sleeps through work: it waits without a timeout only
\* while the slot is empty and close has not begun, and it ends only when
\* close has begun and nothing is left to write.
NoLostWakeup ==
    /\ writer = "wait" => pending = {} /\ ~stopping
    /\ writer = "timedwait" => pending # {}
    /\ writer = "done" => stopping /\ accepted = persisted

\* A live process never replaces a newer checkpoint by an older one, and the
\* persisted count never goes back, although a failed write puts an old
\* snapshot back into the slot.
CheckpointNeverRegresses ==
    [][epoch' = epoch =>
          /\ persisted' >= persisted
          /\ file.covers \subseteq file'.covers]_vars

-----------------------------------------------------------------------------
(* The inductive invariant behind the safety properties.                   *)

\* A checkpoint's state rejects every frame it covers, and no sequence of the
\* window besides.
Sound(content) ==
    /\ WellFormed(content.state)
    /\ BitsCovered(content.state, content.covers)
    /\ \A f \in content.covers : Rejected(content.state, f)

\* Every window the receiver has, writes or may read back is sound, and none
\* of them misses a frame that was committed.
AllSound ==
    /\ WellFormed(window) /\ BitsCovered(window, hist)
    /\ RejectsHistory /\ committed \subseteq hist
    /\ \A s \in pending \cup inflight :
           Sound(s.content) /\ committed \subseteq s.content.covers
    /\ \A content \in possible :
           Sound(content) /\ committed \subseteq content.covers
    /\ file \in possible

\* The disk, the write under way, the slot and the window lie behind one
\* another in that order, without a gap between their generations.
Pipeline ==
    /\ inflight = {} <=> writer \notin {"write", "replaced", "synced"}
    /\ pending = {} /\ inflight = {} => accepted = persisted
    /\ \A i \in inflight :
           /\ i.oldest = persisted + 1 /\ i.oldest <= i.gen
           /\ file.covers \subseteq i.content.covers
           /\ pending = {} => i.gen = accepted /\ i.content.covers = hist
    /\ \A p \in pending :
           /\ p.gen = accepted /\ p.content.covers = hist
           /\ p.oldest <= p.gen
           /\ inflight = {} => p.oldest = persisted + 1
           /\ \A i \in inflight : /\ p.oldest = i.gen + 1
                                  /\ i.content.covers \subseteq hist
    /\ file.covers \subseteq hist

\* What the writer's position says of the disk, and what a lag of zero says.
DiskFollows ==
    /\ writer \in {"replaced", "synced"} =>
           \A i \in inflight : file = i.content
    /\ writer = "synced" => possible = {file}
    /\ accepted = persisted /\ accepted > 0 =>
           possible = {file} /\ file.covers = hist

\* A process that is not up has stopped accepting, a clean one has no writer.
Shutdown ==
    /\ NoLostWakeup
    /\ proc = "up" <=> ~stopping
    /\ proc = "clean" => writer = "done"

\* The conjunction that every step preserves: the pieces above tie the four
\* copies of the window together, which no single property does.
InductiveInvariant ==
    TypeOK /\ AllSound /\ Pipeline /\ DiskFollows /\ Shutdown

-----------------------------------------------------------------------------

\* Every accepted frame is checkpointed in the end, with no further frame to
\* push it, unless the process ends first.
EventuallyPersisted ==
    \A n \in 1 .. MaxAccepts, e \in 0 .. MaxEpochs :
        accepted >= n /\ epoch = e
            ~> persisted >= n \/ epoch # e \/ proc = "unclean"

=============================================================================
