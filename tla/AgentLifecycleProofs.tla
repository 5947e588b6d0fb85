------------------------ MODULE AgentLifecycleProofs ------------------------
(***************************************************************************)
(* Proofs about AgentLifecycle, for any number of frames.                  *)
(***************************************************************************)
EXTENDS AgentLifecycle, TLAPS

\* A new agent, of either kind, satisfies the invariant.
LEMMA InitLifecycle == Init => LifecycleInvariant
<1> SUFFICES ASSUME Init PROVE LifecycleInvariant
  OBVIOUS
<1>1. TypeOK
  <2>1. held \in [Publisher -> Int]
    BY DEF Init
  <2>2. at \in Places
    <3>1. PICK keepalive \in {"wait", "absent"} :
              at = [receiver |-> "recv", inner |-> "recv", persister |-> "wait",
                    reliability |-> "wait", keepalive |-> keepalive,
                    writer |-> "check", health |-> "serve", main |-> "running"]
      BY DEF Init
    <3> QED BY <3>1 DEF Places
  <2>3. /\ reliable \in BOOLEAN /\ stop \in BOOLEAN /\ closed \in BOOLEAN
        /\ late \in BOOLEAN /\ closing \in BOOLEAN /\ unsaved \in BOOLEAN
        /\ unreadable \subseteq {"receiver", "inner"}
    BY DEF Init
  <2>4. accepted \in Int /\ persisted \in Int /\ shown \in Int /\ file \in Int
    BY DEF Init
  <2> QED BY <2>1, <2>2, <2>3, <2>4 DEF TypeOK
<1>2. Phases /\ Ends /\ LastWords
  BY DEF Init, Phases, Ends, Spawned, LastWords
<1> QED BY <1>1, <1>2 DEF LifecycleInvariant

\* The work of a loop keeps the invariant: its handlers name whatever it may
\* raise, save what send_data raises without reliability.
LEMMA WorkStep ==
    /\ LifecycleInvariant
    /\ \/ Works("receiver", "replay", "duplicate_ack", "recv")
       \/ Works("receiver", "handle", "handling", "recv")
       \/ Works("inner", "send", "send_data", "recv")
       \/ Works("reliability", "wait", "pump", "wait")
       \/ Works("keepalive", "wait", "keepalive", "wait")
    => LifecycleInvariant'
<1> SUFFICES ASSUME LifecycleInvariant,
                    \/ Works("receiver", "replay", "duplicate_ack", "recv")
                    \/ Works("receiver", "handle", "handling", "recv")
                    \/ Works("inner", "send", "send_data", "recv")
                    \/ Works("reliability", "wait", "pump", "wait")
                    \/ Works("keepalive", "wait", "keepalive", "wait")
             PROVE  LifecycleInvariant'
  OBVIOUS
<1>1. /\ Raises["duplicate_ack"] \subseteq Catches["duplicate_ack"]
      /\ Raises["handling"] \subseteq Catches["handling"]
      /\ Raises["pump"] \subseteq Catches["pump"]
      /\ Raises["keepalive"] \subseteq Catches["keepalive"]
      /\ reliable => Raises["send_data"] \subseteq Catches["send_data"]
  BY DEF Raises, Catches, Errors
<1> USE DEF LifecycleInvariant, TypeOK, Places, Moves, Works, flags, replay,
            metrics
<1>2. CASE Works("receiver", "replay", "duplicate_ack", "recv")
  BY <1>1, <1>2 DEF Phases, Ends, Spawned, LastWords
<1>3. CASE Works("receiver", "handle", "handling", "recv")
  BY <1>1, <1>3 DEF Phases, Ends, Spawned, LastWords
<1>4. CASE Works("inner", "send", "send_data", "recv")
  BY <1>1, <1>4 DEF Phases, Ends, Spawned, LastWords
<1>5. CASE Works("reliability", "wait", "pump", "wait")
  BY <1>1, <1>5 DEF Phases, Ends, Spawned, LastWords
<1>6. CASE Works("keepalive", "wait", "keepalive", "wait")
  BY <1>1, <1>6 DEF Phases, Ends, Spawned, LastWords
<1> QED BY <1>2, <1>3, <1>4, <1>5, <1>6

\* A loop ends for stop, or for a socket of its own that it cannot read.
LEMMA EndStep ==
    /\ LifecycleInvariant
    /\ \/ RecvRaises("receiver") \/ LoopEnds("receiver", "recv")
       \/ RecvRaises("inner") \/ LoopEnds("inner", "recv")
       \/ LoopEnds("reliability", "wait") \/ LoopEnds("keepalive", "wait")
       \/ LoopEnds("persister", "wait")
    => LifecycleInvariant'
<1> SUFFICES ASSUME LifecycleInvariant,
                    \/ RecvRaises("receiver") \/ LoopEnds("receiver", "recv")
                    \/ RecvRaises("inner") \/ LoopEnds("inner", "recv")
                    \/ LoopEnds("reliability", "wait")
                    \/ LoopEnds("keepalive", "wait")
                    \/ LoopEnds("persister", "wait")
             PROVE  LifecycleInvariant'
  OBVIOUS
<1> USE DEF LifecycleInvariant, TypeOK, Places, Moves, flags, replay, metrics
<1>1. CASE RecvRaises("receiver")
  BY <1>1 DEF RecvRaises, Phases, Ends, Spawned, LastWords
<1>2. CASE RecvRaises("inner")
  BY <1>2 DEF RecvRaises, Phases, Ends, Spawned, LastWords
<1>3. CASE LoopEnds("receiver", "recv")
  BY <1>3 DEF LoopEnds, Phases, Ends, Spawned, LastWords
<1>4. CASE LoopEnds("inner", "recv")
  BY <1>4 DEF LoopEnds, Phases, Ends, Spawned, LastWords
<1>5. CASE LoopEnds("reliability", "wait")
  BY <1>5 DEF LoopEnds, Phases, Ends, Spawned, LastWords
<1>6. CASE LoopEnds("keepalive", "wait")
  BY <1>6 DEF LoopEnds, Phases, Ends, Spawned, LastWords
<1>7. CASE LoopEnds("persister", "wait")
  BY <1>7 DEF LoopEnds, Phases, Ends, Spawned, LastWords
<1> QED BY <1>1, <1>2, <1>3, <1>4, <1>5, <1>6, <1>7

\* The receive thread keeps the invariant: it is lost only to a window that is
\* closing, and it accepts nothing into such a window.
LEMMA ReceiverStep == LifecycleInvariant /\ Receiver => LifecycleInvariant'
<1> SUFFICES ASSUME LifecycleInvariant, Receiver PROVE LifecycleInvariant'
  OBVIOUS
<1> USE DEF LifecycleInvariant, TypeOK, Places, Moves, flags, replay, metrics,
            Publisher
<1>1. CASE ReceiverGets
  BY <1>1 DEF ReceiverGets, Phases, Ends, Spawned, LastWords
<1>2. CASE ReceiverDecides
  BY <1>2 DEF ReceiverDecides, Phases, Ends, Spawned, LastWords
<1>3. CASE Reads("receiver", "read")
  BY <1>3 DEF Reads, Lag, Phases, Ends, Spawned, LastWords
<1>4. CASE Sets("receiver", "handle")
  BY <1>4 DEF Sets, Phases, Ends, Spawned, LastWords
<1> QED BY <1>1, <1>2, <1>3, <1>4, WorkStep, EndStep DEF Receiver

\* The inner, reliability and keepalive threads keep the invariant.
LEMMA SendersStep ==
    LifecycleInvariant /\ (Inner \/ Timers) => LifecycleInvariant'
<1> SUFFICES ASSUME LifecycleInvariant, Inner \/ Timers
             PROVE  LifecycleInvariant'
  OBVIOUS
<1>1. CASE InnerGets
  BY <1>1 DEF LifecycleInvariant, TypeOK, Places, Moves, flags, replay,
              metrics, InnerGets, Phases, Ends, Spawned, LastWords
<1> QED BY <1>1, WorkStep, EndStep DEF Inner, Timers

\* The metrics writer keeps the invariant.
LEMMA PersisterStep == LifecycleInvariant /\ Persister => LifecycleInvariant'
<1> SUFFICES ASSUME LifecycleInvariant, Persister PROVE LifecycleInvariant'
  OBVIOUS
<1> USE DEF LifecycleInvariant, TypeOK, Places, Moves, flags, replay, metrics,
            Publisher
<1>1. CASE ~stop /\ Reads("persister", "wait")
  BY <1>1 DEF Reads, Lag, Phases, Ends, Spawned, LastWords
<1>2. CASE Sets("persister", "save")
  BY <1>2 DEF Sets, Phases, Ends, Spawned, LastWords
<1>3. CASE PersisterSaves
  BY <1>3 DEF PersisterSaves, Phases, Ends, Spawned, LastWords
<1> QED BY <1>1, <1>2, <1>3, EndStep DEF Persister

\* The checkpoint writer keeps the invariant: it ends with nothing left to
\* save, and nothing comes after.
LEMMA WriterStep == LifecycleInvariant /\ Writer => LifecycleInvariant'
<1> SUFFICES ASSUME LifecycleInvariant, Writer PROVE LifecycleInvariant'
  OBVIOUS
<1> USE DEF LifecycleInvariant, TypeOK, Places, Moves, flags, replay, metrics,
            Publisher
<1>1. CASE WriterCheckpoints
  BY <1>1 DEF WriterCheckpoints, Phases, Ends, Spawned, LastWords
<1>2. CASE WriterEnds
  BY <1>2 DEF WriterEnds, Lag, Phases, Ends, Spawned, LastWords
<1>3. CASE Reads("writer", "read")
  BY <1>3 DEF Reads, Lag, Phases, Ends, Spawned, LastWords
<1>4. CASE Sets("writer", "check")
  BY <1>4 DEF Sets, Phases, Ends, Spawned, LastWords
<1> QED BY <1>1, <1>2, <1>3, <1>4 DEF Writer

\* The health server keeps the invariant.
LEMMA HealthStep == LifecycleInvariant /\ Health => LifecycleInvariant'
BY DEF LifecycleInvariant, TypeOK, Places, Moves, flags, replay, metrics,
       Health, Phases, Ends, Spawned, LastWords

\* The main thread keeps the invariant: its joins are what the others owe.
LEMMA MainStep ==
    LifecycleInvariant /\ (StopBegins \/ Main) => LifecycleInvariant'
<1> SUFFICES ASSUME LifecycleInvariant, StopBegins \/ Main
             PROVE  LifecycleInvariant'
  OBVIOUS
<1> USE DEF LifecycleInvariant, TypeOK, Places, Moves, flags, replay, metrics,
            Publisher
<1>1. CASE StopBegins
  BY <1>1 DEF StopBegins, Phases, Ends, Spawned, LastWords
<1>2. CASE ClosesSockets
  BY <1>2 DEF ClosesSockets, Phases, Ends, Spawned, LastWords
<1>3. CASE ShutdownReturns
  BY <1>3 DEF ShutdownReturns, Phases, Ends, Spawned, LastWords
<1>4. CASE Joins
  BY <1>4 DEF Joins, ThreadsGone, Gone, Phases, Ends, Spawned, LastWords
<1>5. CASE CloseReturns
  BY <1>5 DEF CloseReturns, Phases, Ends, Spawned, LastWords
<1>6. CASE Reads("main", "read")
  BY <1>6 DEF Reads, Lag, Phases, Ends, Spawned, LastWords
<1>7. CASE Sets("main", "save")
  BY <1>7 DEF Sets, Phases, Ends, Spawned, LastWords
<1>8. CASE MainSaves
  BY <1>8 DEF MainSaves, Phases, Ends, Spawned, LastWords
<1> QED BY <1>1, <1>2, <1>3, <1>4, <1>5, <1>6, <1>7, <1>8 DEF Main

\* The invariant holds of every behaviour, whatever threads hang.
THEOREM LifecycleInvariance == Spec => []LifecycleInvariant
<1>1. LifecycleInvariant /\ UNCHANGED vars => LifecycleInvariant'
  BY DEF LifecycleInvariant, TypeOK, vars, flags, replay, metrics, Phases,
         Ends, Spawned, LastWords
<1>2. LifecycleInvariant /\ [Next]_vars => LifecycleInvariant'
  BY <1>1, ReceiverStep, SendersStep, PersisterStep, WriterStep, HealthStep,
     MainStep DEF Next
<1> QED BY <1>2, InitLifecycle, PTL DEF Spec

\* record_received_frame raises in the receive thread only while stop closes
\* the replay window, and only when the join of the thread had run out.
THEOREM ReceiverLostLate == Spec => []ReceiverDiesLate
<1>1. LifecycleInvariant => ReceiverDiesLate
  BY DEF LifecycleInvariant, TypeOK, Phases, Ends, ReceiverDiesLate
<1> QED BY <1>1, LifecycleInvariance, PTL

\* No failing send, malformed frame or refused message takes a thread from a
\* running agent, but the inner thread's own send without reliability.
THEOREM SendsCostNoThread == Spec => []ThreadsServe
<1>1. LifecycleInvariant => ThreadsServe
  <2> SUFFICES ASSUME LifecycleInvariant, NEW t \in Spawned, ~stop, Gone(t)
               PROVE  t \in unreadable \/ (t = "inner" /\ ~reliable)
    BY DEF ThreadsServe
  <2>1. CASE at[t] = "ended"
    BY <2>1 DEF LifecycleInvariant, Ends
  <2>2. CASE at[t] = "died"
    BY <2>2 DEF LifecycleInvariant, TypeOK, Places, Phases, Ends, Spawned
  <2> QED BY <2>1, <2>2 DEF Gone
<1> QED BY <1>1, LifecycleInvariance, PTL

\* A stop in which every join came in time leaves nothing behind that the
\* metrics file does not tell, whatever the publishers did before.
THEOREM StopTellsTheTruth == Spec => []CleanStopReportsZero
<1>1. LifecycleInvariant => CleanStopReportsZero
  BY DEF LifecycleInvariant, TypeOK, Ends, LastWords, CleanStopReportsZero
<1> QED BY <1>1, LifecycleInvariance, PTL

=============================================================================
