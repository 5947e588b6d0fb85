----------------------- MODULE ReplayCheckpointProofs -----------------------
(***************************************************************************)
(* Proofs about ReplayCheckpoint, for every window size, every set of      *)
(* sessions and sequences and every bound.                                 *)
(***************************************************************************)
EXTENDS ReplayCheckpoint, ReplayWindowProofs

-----------------------------------------------------------------------------
(* The inductive invariant, part by part.                                  *)

\* The receiver, the file and the history have their types initially.
LEMMA InitInductive == Init => InductiveInvariant
<1> SUFFICES ASSUME Init PROVE InductiveInvariant
  OBVIOUS
<1>1. NewWindow \in Windows /\ WellFormed(NewWindow)
  BY DEF NewWindow, WellFormed, Windows
<1>2. Empty \in Checkpoint /\ Sound(Empty) /\ BitsCovered(NewWindow, {})
  BY <1>1 DEF Empty, Checkpoint, Sound, BitsCovered, NewWindow
<1>3. TypeOK
  BY <1>1, <1>2 DEF Init, TypeOK, AtMostOne
<1>4. AllSound
  BY <1>1, <1>2 DEF Init, AllSound, RejectsHistory, Empty
<1>5. Pipeline /\ DiskFollows /\ Shutdown
  BY DEF Init, Pipeline, DiskFollows, Shutdown, NoLostWakeup, Empty
<1> QED BY <1>3, <1>4, <1>5 DEF InductiveInvariant

\* What an accepted frame does to the window, in the terms of the invariant.
LEMMA AcceptFacts ==
    ASSUME InductiveInvariant, NEW sid \in Session, NEW seq \in SeqNo,
           Accept(sid, seq)
    PROVE  /\ WellFormed(window') /\ BitsCovered(window', hist')
           /\ hist' \in SUBSET Frames
           /\ \A f \in hist' : Rejected(window', f)
<1>1. seq \in Nat /\ WellFormed(window) /\ hist \in SUBSET Frames
  BY CheckpointAssumption DEF InductiveInvariant, AllSound, TypeOK
<1>2. Accepts(window, sid, seq) /\ window' = AfterAccept(window, sid, seq)
      /\ hist' = hist \cup {<<sid, seq>>}
  BY DEF Accept
<1>3. WellFormed(window')
  BY <1>1, <1>2, AfterAcceptWellFormed, WindowAssumption DEF WellFormed
<1>4. hist' \in SUBSET Frames
  BY <1>1, <1>2 DEF Frames
<1>5. ASSUME NEW f \in hist PROVE Rejected(window', f)
  <2>1. f[1] \in Session /\ f[2] \in Nat /\ ~Accepts(window, f[1], f[2])
    BY <1>1, CheckpointAssumption
       DEF InductiveInvariant, AllSound, RejectsHistory, Rejected, Frames
  <2> QED BY <1>1, <1>2, <2>1, RejectionIsStable DEF Rejected
<1>6. Rejected(window', <<sid, seq>>)
  BY <1>1, <1>2, AcceptedIsRejected DEF Rejected
<1>7. BitsCovered(window', hist')
  BY <1>1, <1>2, BitsStayCovered DEF InductiveInvariant, AllSound
<1> QED BY <1>2, <1>3, <1>4, <1>5, <1>6, <1>7

\* The one snapshot the slot holds after an accept is the window's own, with
\* the age of the snapshot it replaces.
LEMMA AcceptedSnapshot ==
    ASSUME NEW sid, NEW seq, Accept(sid, seq)
    PROVE  /\ pending' # {}
           /\ \A p \in pending' :
                  /\ p.gen = accepted + 1
                  /\ p.content = [state |-> window', covers |-> hist']
                  /\ IF pending = {} THEN p.oldest = accepted + 1
                     ELSE \E s \in pending : p.oldest = s.oldest
<1> DEFINE snap == [gen |-> accepted + 1, oldest |-> accepted + 1,
                    content |-> [state |-> window', covers |-> hist']]
           withAge(s) == [snap EXCEPT !.oldest = s.oldest]
<1>1. pending' = IF pending = {} THEN {snap} ELSE {withAge(s) : s \in pending}
  BY DEF Accept
<1>2. /\ snap.gen = accepted + 1 /\ snap.oldest = accepted + 1
      /\ snap.content = [state |-> window', covers |-> hist']
  OBVIOUS
<1>3. ASSUME NEW s \in pending
      PROVE  /\ withAge(s).gen = accepted + 1 /\ withAge(s).oldest = s.oldest
             /\ withAge(s).content = [state |-> window', covers |-> hist']
  OBVIOUS
<1> HIDE DEF snap, withAge
<1> QED BY <1>1, <1>2, <1>3

\* Every step keeps the types: a step of a thread, of the clock or a restart.
LEMMA TypeStep == InductiveInvariant /\ Next => TypeOK'
<1> SUFFICES ASSUME InductiveInvariant, Next PROVE TypeOK'
  OBVIOUS
<1>0. TypeOK
  BY DEF InductiveInvariant
<1>1. ASSUME NEW sid \in Session, NEW seq \in SeqNo, Accept(sid, seq)
      PROVE  TypeOK'
  <2>1. window' \in Windows /\ hist' \in SUBSET Frames
    BY <1>1, AcceptFacts DEF WellFormed
  <2> DEFINE snap == [gen |-> accepted + 1, oldest |-> accepted + 1,
                      content |-> [state |-> window', covers |-> hist']]
  <2>2. snap \in Snapshot
    BY <1>0, <2>1 DEF Snapshot, Checkpoint, TypeOK
  <2>3. pending' = IF pending = {} THEN {snap}
                   ELSE {[snap EXCEPT !.oldest = s.oldest] : s \in pending}
    BY <1>1 DEF Accept
  <2> HIDE DEF snap
  <2>4. pending' \in SUBSET Snapshot /\ AtMostOne(pending')
    <3>1. \A s \in pending : [snap EXCEPT !.oldest = s.oldest] \in Snapshot
      BY <1>0, <2>2 DEF TypeOK, Snapshot
    <3> QED BY <1>0, <2>2, <2>3, <3>1 DEF TypeOK, AtMostOne
  <2>5. writer' \in {writer, Notified(writer)}
    BY <1>1 DEF Accept
  <2>6. accepted' \in Nat /\ pendingFrames' \in Nat
    BY <1>0, <1>1 DEF Accept, TypeOK
  <2> QED BY <1>0, <1>1, <2>1, <2>4, <2>5, <2>6
          DEF Accept, TypeOK, Notified, timers, disk, AtMostOne
<1>2. CASE WriterReturns
  BY <1>0, <1>2 DEF WriterReturns, TypeOK, memory, timers, disk, AtMostOne
<1>3. CASE WriterTakes
  BY <1>0, <1>3 DEF WriterTakes, TypeOK, memory, timers, disk, AtMostOne
<1>4. CASE WriterWaits
  BY <1>0, <1>4 DEF WriterWaits, TypeOK, memory, timers, disk, AtMostOne
<1>5. CASE WaitTimesOut
  BY <1>0, <1>5 DEF WaitTimesOut, TypeOK, memory, timers, disk, AtMostOne
<1>6. CASE WriterReplaces
  BY <1>0, <1>6
     DEF WriterReplaces, TypeOK, memory, timers, disk, AtMostOne, Snapshot
<1>7. CASE WriterSyncs
  BY <1>0, <1>7
     DEF WriterSyncs, TypeOK, memory, timers, disk, AtMostOne, Checkpoint
<1>8. CASE WriterCommits
  BY <1>0, <1>8
     DEF WriterCommits, Generation, TypeOK, memory, timers, disk, AtMostOne,
         Snapshot
<1>9. CASE WriterFails
  <2>1. Requeue(pending, inflight) \in SUBSET Snapshot
        /\ AtMostOne(Requeue(pending, inflight))
    <3>1. \A s, f \in Snapshot :
              [s EXCEPT !.oldest = Earlier(f.oldest, s.oldest)] \in Snapshot
      BY DEF Snapshot, Earlier
    <3> QED BY <1>0, <3>1 DEF TypeOK, Requeue, AtMostOne
  <2> QED BY <1>0, <1>9, <2>1
          DEF WriterFails, TypeOK, memory, timers, disk, AtMostOne
<1>10. CASE IntervalPasses
  BY <1>0, <1>10 DEF IntervalPasses, TypeOK, memory, timers, disk, AtMostOne
<1>11. CASE BackoffPasses
  BY <1>0, <1>11 DEF BackoffPasses, TypeOK, memory, timers, disk, AtMostOne
<1>12. CASE CloseBegins
  BY <1>0, <1>12
     DEF CloseBegins, TypeOK, Notified, memory, timers, disk, AtMostOne
<1>13. CASE CloseReturns
  BY <1>0, <1>13 DEF CloseReturns, TypeOK, memory, timers, disk, AtMostOne
<1>14. ASSUME NEW content \in Checkpoint, Load(content), epoch' = epoch + 1,
              possible' \in SUBSET Checkpoint
       PROVE  TypeOK'
  <2>1. content.state \in Windows /\ content.covers \in SUBSET Frames
    BY <1>14 DEF Checkpoint
  <2>2. pending' \in SUBSET Snapshot /\ AtMostOne(pending')
        /\ inflight' \in SUBSET Snapshot /\ AtMostOne(inflight')
    BY <1>14 DEF Load, AtMostOne
  <2>3. epoch' \in Nat /\ committed' \in SUBSET Frames
    BY <1>0, <1>14 DEF Load, TypeOK
  <2>4. window' \in Windows /\ hist' \in SUBSET Frames /\ file' \in Checkpoint
    BY <1>14, <2>1 DEF Load
  <2> QED BY <1>14, <2>2, <2>3, <2>4 DEF Load, TypeOK
<1>15. CASE ProcessRestarts
  BY <1>0, <1>14, <1>15 DEF ProcessRestarts, TypeOK
<1>16. CASE HostRestarts
  BY <1>0, <1>14, <1>16 DEF HostRestarts, TypeOK
<1> QED BY <1>1, <1>2, <1>3, <1>4, <1>5, <1>6, <1>7, <1>8, <1>9, <1>10, <1>11,
           <1>12, <1>13, <1>15, <1>16 DEF Next, Writer

\* The steps that touch neither a window, a snapshot, the file nor a count.
Quiet == UNCHANGED <<memory, epoch, disk, committed>>

\* Every step keeps all windows sound and none of them behind what was
\* committed: this is where the three lemmas on the window are used.
LEMMA SoundStep == InductiveInvariant /\ Next => AllSound'
<1> SUFFICES ASSUME InductiveInvariant, Next PROVE AllSound'
  OBVIOUS
<1>0. AllSound /\ TypeOK /\ TypeOK' /\ Pipeline /\ DiskFollows
  BY TypeStep DEF InductiveInvariant
<1>1. ASSUME NEW sid \in Session, NEW seq \in SeqNo, Accept(sid, seq)
      PROVE  AllSound'
  <2>1. WellFormed(window') /\ BitsCovered(window', hist') /\ RejectsHistory'
    BY <1>1, AcceptFacts DEF RejectsHistory
  <2>2. committed' \subseteq hist'
    BY <1>0, <1>1 DEF Accept, AllSound
  <2>3. \A s \in pending' : s.content = [state |-> window', covers |-> hist']
    BY <1>1, AcceptedSnapshot
  <2>4. \A s \in pending' :
            Sound(s.content) /\ committed' \subseteq s.content.covers
    BY <2>1, <2>2, <2>3 DEF Sound, RejectsHistory
  <2> QED BY <1>0, <1>1, <2>1, <2>2, <2>4 DEF AllSound, Accept, disk
<1>2. CASE Quiet
  BY <1>0, <1>2 DEF Quiet, memory, disk, AllSound, RejectsHistory
<1>3. CASE WriterTakes
  BY <1>0, <1>3 DEF WriterTakes, disk, AllSound, RejectsHistory
<1>4. CASE WriterReplaces
  BY <1>0, <1>4 DEF WriterReplaces, memory, AllSound, RejectsHistory
<1>5. CASE WriterSyncs
  \* The file that is now durable is the content of the write under way.
  <2>1. file.covers \subseteq hist
        /\ \A s \in pending \cup inflight : file.covers \subseteq s.content.covers
    BY <1>0, <1>5 DEF WriterSyncs, Pipeline
  <2> QED BY <1>0, <1>5, <2>1 DEF WriterSyncs, memory, AllSound, RejectsHistory
<1>6. CASE WriterCommits
  BY <1>0, <1>6 DEF WriterCommits, disk, AllSound, RejectsHistory
<1>7. CASE WriterFails
  <2>1. \A s \in pending' :
            \E t \in pending \cup inflight : s.content = t.content
    BY <1>0, <1>7 DEF WriterFails, Requeue, TypeOK, Snapshot
  <2> QED BY <1>0, <1>7, <2>1 DEF WriterFails, disk, AllSound, RejectsHistory
<1>8. ASSUME NEW content \in possible, Load(content),
             possible' \subseteq possible, content \in possible'
      PROVE  AllSound'
  BY <1>0, <1>8 DEF Load, AllSound, Sound, RejectsHistory
<1>9. CASE CloseBegins
  BY <1>0, <1>9 DEF CloseBegins, disk, AllSound, RejectsHistory
<1>10. CASE ProcessRestarts
  BY <1>0, <1>8, <1>10 DEF ProcessRestarts, AllSound
<1>11. CASE HostRestarts
  BY <1>8, <1>11 DEF HostRestarts
<1>12. WriterReturns \/ WriterWaits \/ WaitTimesOut \/ IntervalPasses
       \/ BackoffPasses \/ CloseReturns => Quiet
  BY DEF WriterReturns, WriterWaits, WaitTimesOut, IntervalPasses,
         BackoffPasses, CloseReturns, Quiet
<1> QED BY <1>1, <1>2, <1>3, <1>4, <1>5, <1>6, <1>7, <1>9, <1>10, <1>11, <1>12
        DEF Next, Writer

\* Every step keeps disk, write, slot and window in line.
LEMMA PipelineStep == InductiveInvariant /\ Next => Pipeline'
<1> SUFFICES ASSUME InductiveInvariant, Next PROVE Pipeline'
  OBVIOUS
<1>0. AllSound /\ TypeOK /\ TypeOK' /\ Pipeline /\ DiskFollows
  BY TypeStep DEF InductiveInvariant
<1>1. ASSUME NEW sid \in Session, NEW seq \in SeqNo, Accept(sid, seq)
      PROVE  Pipeline'
  <2>1. /\ accepted' = accepted + 1 /\ hist \subseteq hist'
        /\ UNCHANGED <<inflight, persisted, file>>
    BY <1>1 DEF Accept, disk
  <2>2. pending' # {} /\ \A p \in pending' :
            /\ p.gen = accepted' /\ p.content.covers = hist'
            /\ IF pending = {} THEN p.oldest = accepted + 1
               ELSE \E s \in pending : p.oldest = s.oldest
    BY <1>1, <2>1, AcceptedSnapshot
  <2>3. inflight' = {} <=> writer' \notin {"write", "replaced", "synced"}
    BY <1>0, <1>1 DEF Accept, Notified, Pipeline
  <2>4. accepted \in Nat /\ persisted \in Nat /\ inflight \in SUBSET Snapshot
        /\ pending \in SUBSET Snapshot
    BY <1>0 DEF TypeOK
  <2> QED BY <1>0, <2>1, <2>2, <2>3, <2>4 DEF Pipeline, Snapshot
<1>2. CASE UNCHANGED <<pending, inflight, accepted, persisted, hist, file>>
           /\ (inflight = {} <=> writer' \notin {"write", "replaced", "synced"})
  BY <1>0, <1>2 DEF Pipeline
<1>3. CASE WriterTakes
  BY <1>0, <1>3 DEF WriterTakes, Ready, disk, Pipeline
<1>4. CASE WriterReplaces
  <2>1. PICK s \in inflight : file' = s.content
    BY <1>4 DEF WriterReplaces
  <2>2. \A i \in inflight : i = s
    BY <1>0 DEF TypeOK, AtMostOne
  <2> QED BY <1>0, <1>4, <2>1, <2>2 DEF WriterReplaces, memory, Pipeline
<1>5. CASE WriterCommits
  <2>1. PICK s \in inflight : persisted' = s.gen
    BY <1>5 DEF WriterCommits, Generation
  <2> QED BY <1>0, <1>5, <2>1 DEF WriterCommits, disk, Pipeline, TypeOK, Snapshot
<1>6. CASE WriterFails
  <2>1. PICK f : inflight = {f}
    <3>1. PICK f \in inflight : TRUE
      BY <1>0, <1>6 DEF WriterFails, Pipeline
    <3>2. inflight = {f}
      BY <1>0, <3>1 DEF TypeOK, AtMostOne
    <3> QED BY <3>2
  <2>2. CASE pending = {}
    BY <1>0, <1>6, <2>1, <2>2 DEF WriterFails, Requeue, disk, Pipeline
  <2>3. CASE pending # {}
    <3>1. PICK p : pending = {p}
      BY <1>0, <2>3 DEF TypeOK, AtMostOne
    <3>2. p.oldest \in Nat /\ f.oldest \in Nat /\ f.gen \in Nat
      BY <1>0, <2>1, <3>1 DEF TypeOK, Snapshot
    <3>3. Earlier(f.oldest, p.oldest) = f.oldest
      BY <1>0, <2>1, <3>1, <3>2 DEF Earlier, Pipeline
    <3>4. pending' = {[p EXCEPT !.oldest = f.oldest]}
      BY <1>6, <2>1, <2>3, <3>1, <3>3 DEF WriterFails, Requeue
    <3> DEFINE q == [p EXCEPT !.oldest = f.oldest]
    <3>5. q.oldest = f.oldest /\ q.gen = p.gen /\ q.content = p.content
      BY <1>0, <3>1 DEF TypeOK, Snapshot
    <3>6. /\ f.oldest = persisted + 1 /\ f.oldest <= p.gen
          /\ p.gen = accepted /\ p.content.covers = hist
          /\ file.covers \subseteq hist
      BY <1>0, <2>1, <3>1, <3>2 DEF Pipeline, TypeOK
    <3>7. pending' = {q}
      BY <3>4
    <3> HIDE DEF q
    <3> QED BY <1>0, <1>6, <3>5, <3>6, <3>7 DEF WriterFails, disk, Pipeline
  <2> QED BY <2>2, <2>3
<1>7. ASSUME NEW content, Load(content) PROVE Pipeline'
  BY <1>7 DEF Load, Pipeline
<1>8. CASE ProcessRestarts \/ HostRestarts
  BY <1>7, <1>8 DEF ProcessRestarts, HostRestarts
<1>9. CASE WriterReturns \/ WriterWaits \/ WaitTimesOut \/ WriterSyncs
           \/ IntervalPasses \/ BackoffPasses \/ CloseBegins \/ CloseReturns
  BY <1>0, <1>2, <1>9
     DEF WriterReturns, WriterWaits, WaitTimesOut, WriterSyncs, IntervalPasses,
         BackoffPasses, CloseBegins, CloseReturns, Notified, Pipeline, memory,
         disk
<1> QED BY <1>1, <1>3, <1>4, <1>5, <1>6, <1>8, <1>9 DEF Next, Writer

\* Every step keeps the disk where the writer's position and the lag say.
LEMMA DiskStep == InductiveInvariant /\ Next => DiskFollows'
<1> SUFFICES ASSUME InductiveInvariant, Next PROVE DiskFollows'
  OBVIOUS
<1>0. AllSound /\ TypeOK /\ TypeOK' /\ Pipeline /\ DiskFollows
  BY TypeStep DEF InductiveInvariant
<1>1. \A s \in pending \cup inflight : persisted < accepted
  BY <1>0 DEF Pipeline, TypeOK, Snapshot
<1>2. ASSUME NEW sid \in Session, NEW seq \in SeqNo, Accept(sid, seq)
      PROVE  DiskFollows'
  <2>1. accepted' # persisted'
    BY <1>0, <1>1, <1>2 DEF Accept, Pipeline, TypeOK
  <2> QED BY <1>0, <1>2, <2>1 DEF Accept, Notified, disk, DiskFollows
<1>3. CASE WriterTakes
  BY <1>0, <1>1, <1>3 DEF WriterTakes, Ready, disk, DiskFollows
<1>4. CASE WriterReplaces
  <2>1. PICK s \in inflight : file' = s.content
    BY <1>4 DEF WriterReplaces
  <2>2. \A i \in inflight : i = s
    BY <1>0 DEF TypeOK, AtMostOne
  <2>3. accepted' # persisted'
    BY <1>0, <1>1, <1>4 DEF WriterReplaces, memory, TypeOK
  <2> QED BY <1>4, <2>1, <2>2, <2>3 DEF WriterReplaces, memory, DiskFollows
<1>5. CASE WriterSyncs
  BY <1>0, <1>5 DEF WriterSyncs, memory, DiskFollows
<1>6. CASE WriterCommits
  <2>1. PICK s \in inflight : persisted' = s.gen
    BY <1>6 DEF WriterCommits, Generation
  <2>2. possible = {file} /\ file = s.content
    BY <1>0, <1>6 DEF WriterCommits, DiskFollows
  <2>3. accepted = s.gen => pending = {}
    BY <1>0 DEF Pipeline, TypeOK, Snapshot
  <2> QED BY <1>0, <1>6, <2>1, <2>2, <2>3 DEF WriterCommits, disk, DiskFollows,
            Pipeline
<1>7. CASE WriterFails
  <2>1. inflight # {}
    BY <1>0, <1>7 DEF WriterFails, Pipeline
  <2>2. accepted' # persisted'
    BY <1>0, <1>1, <1>7, <2>1 DEF WriterFails, TypeOK
  <2> QED BY <1>7, <2>2 DEF WriterFails, DiskFollows
<1>8. ASSUME NEW content, Load(content) PROVE DiskFollows'
  BY <1>8 DEF Load, DiskFollows
<1>9. CASE ProcessRestarts \/ HostRestarts
  BY <1>8, <1>9 DEF ProcessRestarts, HostRestarts
<1>10. CASE WriterReturns \/ WriterWaits \/ WaitTimesOut
            \/ IntervalPasses \/ BackoffPasses \/ CloseBegins \/ CloseReturns
  BY <1>0, <1>10
     DEF WriterReturns, WriterWaits, WaitTimesOut, IntervalPasses,
         BackoffPasses, CloseBegins, CloseReturns, Notified, DiskFollows,
         memory, disk
<1> QED BY <1>2, <1>3, <1>4, <1>5, <1>6, <1>7, <1>9, <1>10 DEF Next, Writer

\* Every step keeps the writer awake while there is work, and a process on
\* its way down from accepting.
LEMMA ShutdownStep == InductiveInvariant /\ Next => Shutdown'
<1> SUFFICES ASSUME InductiveInvariant, Next PROVE Shutdown'
  OBVIOUS
<1>0. TypeOK /\ Pipeline /\ Shutdown
  BY DEF InductiveInvariant
<1>1. ASSUME NEW sid \in Session, NEW seq \in SeqNo, Accept(sid, seq)
      PROVE  Shutdown'
  <2>1. ~stopping /\ writer # "done"
    BY <1>0, <1>1 DEF Accept, Shutdown, NoLostWakeup
  <2>2. pending' # {}
    BY <1>1, AcceptedSnapshot
  <2>3. writer' # "wait" /\ writer' # "done"
    BY <1>0, <1>1, <2>1 DEF Accept, Wakes, Notified, Shutdown, NoLostWakeup
  <2> QED BY <1>0, <1>1, <2>1, <2>2, <2>3
          DEF Accept, Shutdown, NoLostWakeup
<1>2. CASE WriterReturns
  <2>1. inflight = {}
    BY <1>0, <1>2 DEF WriterReturns, Pipeline
  <2> QED BY <1>0, <1>2, <2>1
          DEF WriterReturns, Finished, Pipeline, Shutdown, NoLostWakeup, memory
<1>3. CASE WriterTakes
  BY <1>0, <1>3 DEF WriterTakes, Shutdown, NoLostWakeup
<1>4. CASE WriterWaits
  BY <1>0, <1>4 DEF WriterWaits, Finished, Shutdown, NoLostWakeup, memory
<1>5. CASE WaitTimesOut \/ WriterReplaces \/ WriterSyncs
  BY <1>0, <1>5
     DEF WaitTimesOut, WriterReplaces, WriterSyncs, Shutdown, NoLostWakeup,
         memory
<1>6. CASE WriterCommits \/ WriterFails
  BY <1>0, <1>6 DEF WriterCommits, WriterFails, Shutdown, NoLostWakeup
<1>7. CASE IntervalPasses \/ BackoffPasses
  BY <1>0, <1>7
     DEF IntervalPasses, BackoffPasses, Shutdown, NoLostWakeup, memory
<1>8. CASE CloseBegins
  BY <1>0, <1>8 DEF CloseBegins, Notified, Shutdown, NoLostWakeup
<1>9. CASE CloseReturns
  BY <1>0, <1>9 DEF CloseReturns, Shutdown, NoLostWakeup, memory
<1>10. CASE ProcessRestarts \/ HostRestarts
  BY <1>10 DEF ProcessRestarts, HostRestarts, Load, Shutdown, NoLostWakeup
<1> QED BY <1>1, <1>2, <1>3, <1>4, <1>5, <1>6, <1>7, <1>8, <1>9, <1>10
        DEF Next, Writer

-----------------------------------------------------------------------------
(* The theorems.                                                           *)

\* The invariant holds of every behaviour of the receiver.
THEOREM Invariance == Spec => []InductiveInvariant
<1>1. InductiveInvariant /\ [Next]_vars => InductiveInvariant'
  <2> SUFFICES ASSUME InductiveInvariant, [Next]_vars
               PROVE  InductiveInvariant'
    OBVIOUS
  <2>1. CASE Next
    BY <2>1, TypeStep, SoundStep, PipelineStep, DiskStep, ShutdownStep
       DEF InductiveInvariant
  <2>2. CASE UNCHANGED vars
    BY <2>2 DEF vars, memory, timers, disk, InductiveInvariant, TypeOK,
                AtMostOne, AllSound, RejectsHistory, Pipeline, DiskFollows,
                Shutdown, NoLostWakeup
  <2> QED BY <2>1, <2>2
<1> QED BY <1>1, InitInductive, PTL DEF Spec

\* The variables keep their types: the slot and the write under way never
\* hold more than one snapshot, and the bitmap never outgrows the window.
THEOREM TypeCorrect == Spec => []TypeOK
<1>1. InductiveInvariant => TypeOK
  BY DEF InductiveInvariant
<1> QED BY <1>1, Invariance, PTL

\* No frame behind the current window is accepted a second time.
THEOREM ReplayProtection == Spec => []RejectsHistory
<1>1. InductiveInvariant => RejectsHistory
  BY DEF InductiveInvariant, AllSound
<1> QED BY <1>1, Invariance, PTL

\* No frame that is new, and not too old, is dropped as a replay.
THEOREM NoFalseDrop == Spec => []FreshFramesPass
<1>1. InductiveInvariant => FreshFramesPass
  <2> SUFFICES ASSUME InductiveInvariant, NEW f \in Frames \ hist,
                      f[1] \notin window.retired,
                      f[1] = window.session => f[2] > window.highest - Size
               PROVE  Accepts(window, f[1], f[2])
    BY DEF FreshFramesPass
  <2>1. /\ f = <<f[1], f[2]>> /\ f[1] \in Session /\ f[2] \in Nat
        /\ WellFormed(window) /\ BitsCovered(window, hist)
    <3>1. f \in Session \X SeqNo
      BY DEF Frames
    <3>2. f = <<f[1], f[2]>> /\ f[1] \in Session /\ f[2] \in SeqNo
      BY <3>1
    <3> QED BY <3>2, CheckpointAssumption DEF InductiveInvariant, AllSound
  <2>2. CASE window.session = f[1]
    <3>1. SelectSession(window, f[1]).highest = window.highest
          /\ SelectSession(window, f[1]).bitmap = window.bitmap
      BY <2>1, <2>2 DEF SelectSession, WellFormed, Windows
    <3>2. window.highest - f[2] \notin window.bitmap
          \/ f[2] > window.highest
      <4>1. window.highest \in Int
        BY <2>1 DEF WellFormed, Windows
      <4>2. window.highest - (window.highest - f[2]) = f[2]
        BY <2>1, <4>1
      <4> QED BY <2>1, <2>2, <4>2 DEF BitsCovered
    <3>3. window.highest - f[2] < Size
      BY <2>1, <2>2, WindowAssumption DEF WellFormed, Windows
    <3> QED BY <2>1, <2>2, <3>1, <3>2, <3>3 DEF Accepts, Selectable, Fresh
  <2>3. CASE window.session # f[1]
    <3>1. SelectSession(window, f[1]).highest = -1
      BY <2>1, <2>3 DEF SelectSession, WellFormed, Windows
    <3> QED BY <2>1, <3>1 DEF Accepts, Selectable, Fresh
  <2> QED BY <2>2, <2>3
<1> QED BY <1>1, Invariance, PTL

\* A frame covered by a durable checkpoint is never accepted again, across
\* any number of kills, power losses and failed writes.
THEOREM DurableProtection == Spec => []CommittedNeverReplayed
<1>1. InductiveInvariant => CommittedNeverReplayed
  BY DEF InductiveInvariant, AllSound, RejectsHistory, CommittedNeverReplayed
<1> QED BY <1>1, Invariance, PTL

\* The lag that stats() reports is exact in frames and in its oldest frame.
THEOREM ExactLag == Spec => []LagIsExact
<1>1. InductiveInvariant => LagIsExact
  <2> SUFFICES ASSUME InductiveInvariant PROVE LagIsExact
    OBVIOUS
  <2>0. Pipeline /\ TypeOK
    BY DEF InductiveInvariant
  <2>1. CASE pending = {} /\ inflight = {}
    BY <2>0, <2>1 DEF Pipeline, LagIsExact
  <2>2. CASE pending # {} /\ inflight = {}
    BY <2>0, <2>2 DEF Pipeline, LagIsExact, TypeOK, Snapshot
  <2>3. CASE inflight # {}
    BY <2>0, <2>3 DEF Pipeline, LagIsExact, TypeOK, Snapshot
  <2> QED BY <2>1, <2>2, <2>3
<1> QED BY <1>1, Invariance, PTL

\* The writer never waits or ends while a snapshot is left to write.
THEOREM WriterAwake == Spec => []NoLostWakeup
<1>1. InductiveInvariant => NoLostWakeup
  BY DEF InductiveInvariant, Shutdown
<1> QED BY <1>1, Invariance, PTL

\* After close() returned True, whatever the disk may hold rejects every
\* frame the process accepted.
THEOREM CleanShutdown == Spec => []CleanShutdownKeepsAll
<1>1. InductiveInvariant => CleanShutdownKeepsAll
  <2> SUFFICES ASSUME InductiveInvariant, proc = "clean", accepted > 0
               PROVE  \A content \in possible, f \in hist :
                          Rejected(content.state, f)
    BY DEF CleanShutdownKeepsAll
  <2>1. accepted = persisted
    BY DEF InductiveInvariant, Shutdown, NoLostWakeup
  <2>2. possible = {file} /\ file.covers = hist
    BY <2>1 DEF InductiveInvariant, DiskFollows
  <2> QED BY <2>2 DEF InductiveInvariant, AllSound, Sound
<1> QED BY <1>1, Invariance, PTL

\* No step of a live process lowers the persisted count or replaces the file
\* by one that covers less.
THEOREM MonotoneCheckpoints == Spec => CheckpointNeverRegresses
<1>1. InductiveInvariant /\ [Next]_vars =>
          [epoch' = epoch => /\ persisted' >= persisted
                             /\ file.covers \subseteq file'.covers]_vars
  <2> SUFFICES ASSUME InductiveInvariant, Next, epoch' = epoch
               PROVE  persisted' >= persisted /\ file.covers \subseteq file'.covers
    OBVIOUS
  <2>0. TypeOK /\ Pipeline
    BY DEF InductiveInvariant
  <2>1. CASE WriterReplaces
    BY <2>0, <2>1 DEF WriterReplaces, Pipeline, TypeOK, memory
  <2>2. CASE WriterCommits
    <3>1. PICK s \in inflight : persisted' = s.gen
      BY <2>2 DEF WriterCommits, Generation
    <3> QED BY <2>0, <2>2, <3>1
            DEF WriterCommits, Pipeline, TypeOK, Snapshot, disk
  <2>3. CASE ProcessRestarts \/ HostRestarts
    BY <2>0, <2>3 DEF ProcessRestarts, HostRestarts, TypeOK
  <2>4. CASE UNCHANGED <<persisted, file>>
    BY <2>0, <2>4 DEF TypeOK
  <2>5. Next => \/ WriterReplaces \/ WriterCommits
                \/ ProcessRestarts \/ HostRestarts
                \/ UNCHANGED <<persisted, file>>
    BY DEF Next, Writer, Accept, WriterReturns, WriterTakes, WriterWaits,
           WaitTimesOut, WriterSyncs, WriterFails, IntervalPasses,
           BackoffPasses, CloseBegins, CloseReturns, memory, disk
  <2> QED BY <2>1, <2>2, <2>3, <2>4, <2>5
<1> QED BY <1>1, Invariance, PTL DEF Spec, CheckpointNeverRegresses

=============================================================================
