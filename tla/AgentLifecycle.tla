--------------------------- MODULE AgentLifecycle ---------------------------
(***************************************************************************)
(* The threads of one agent (h3ntun/agent.py), their shutdown, and the     *)
(* replay statistics they publish: the receive thread, the inner thread,   *)
(* the reliability and keepalive threads, the metrics writer, the replay   *)
(* checkpoint writer, the health server, and the main thread of            *)
(* h3ntun/cli.py, which stops them all. An exception that no handler of a  *)
(* thread names is the end of the thread, and of nothing else.             *)
(*                                                                         *)
(* The statistics are one number, the frames not yet checkpointed. stats() *)
(* is read under the lock of the replay window and Metrics.set writes what *)
(* was read under another, so a publication is two steps.                  *)
(***************************************************************************)
EXTENDS Integers

CONSTANT MaxFrames  \* bound: frames received

ASSUME LifecycleAssumption == MaxFrames \in Nat

VARIABLES
    reliable,    \* config.reliable: never changes
    at,          \* thread -> what it does next
    stop,        \* runtime.stop
    closed,      \* the sockets are closed
    late,        \* a join of stop, or of close, ran into its timeout
    unreadable,  \* history: threads whose recvfrom failed before stop
    accepted, persisted,  \* the counts of the replay window
    closing,     \* replay._stopping
    held,        \* thread -> the statistics it has read and not yet set, or 0
    shown,       \* metrics.data: replay_checkpoint_lag_frames
    file,        \* the same in the metrics file
    unsaved      \* the last persist of stop failed

flags   == <<reliable, stop, closed, late, unreadable>>
replay  == <<accepted, persisted, closing>>
metrics == <<held, shown, file, unsaved>>
vars    == <<at, flags, replay, metrics>>

Publisher == {"receiver", "persister", "writer", "main"}

Init ==
    /\ reliable \in BOOLEAN
    /\ \E keepalive \in {"wait", "absent"} :  \* only the Iran agent has one
           at = [receiver |-> "recv", inner |-> "recv", persister |-> "wait",
                 reliability |-> "wait", keepalive |-> keepalive,
                 writer |-> "check", health |-> "serve", main |-> "running"]
    /\ stop = FALSE /\ closed = FALSE /\ late = FALSE /\ unreadable = {}
    /\ accepted = 0 /\ persisted = 0 /\ closing = FALSE
    /\ held = [t \in Publisher |-> 0]
    /\ shown = 0 /\ file = 0 /\ unsaved = FALSE

Moves(t, from, to) == at[t] = from /\ at' = [at EXCEPT ![t] = to]

\* stats(): what the replay window would report now.
Lag == accepted - persisted

\* metrics.set(**replay.stats())
Reads(t, from) ==
    /\ Moves(t, from, "set")
    /\ held' = [held EXCEPT ![t] = Lag]
    /\ UNCHANGED <<flags, replay, shown, file, unsaved>>

Sets(t, to) ==
    /\ Moves(t, "set", to)
    /\ shown' = held[t]
    /\ held' = [held EXCEPT ![t] = 0]
    /\ UNCHANGED <<flags, replay, file, unsaved>>

-----------------------------------------------------------------------------
(* What the loops call, and what their handlers catch. A fragment that is  *)
(* queued is encoded already. send_data raises a ProtocolError for a       *)
(* message too large, and calls the socket itself only without             *)
(* reliability; ACK, PING and PONG frames can always be encoded; an ACK or *)
(* fragment from the peer may be malformed.                                *)

Errors == {"OSError", "ProtocolError"}

\* Mutant: the transport is called from send_data in both modes.
RaisesInBothModes ==
    [send_data |-> Errors, handling |-> Errors, duplicate_ack |-> {"OSError"},
     pump |-> {"OSError"}, keepalive |-> {"OSError"}]

Raises ==
    [send_data     |-> IF reliable THEN {"ProtocolError"} ELSE Errors,
     handling      |-> Errors,
     duplicate_ack |-> {"OSError"},
     pump          |-> {"OSError"},
     keepalive     |-> {"OSError"}]

\* Mutant: the ACK of a replay has no handler of its own.
CatchesNoDuplicateAck ==
    [send_data |-> {"ProtocolError"}, handling |-> Errors,
     duplicate_ack |-> {}, pump |-> {"OSError"}, keepalive |-> Errors]

Catches ==
    [send_data     |-> {"ProtocolError"},
     handling      |-> Errors,
     duplicate_ack |-> {"OSError"},
     pump          |-> {"OSError"},
     keepalive     |-> Errors]

\* A loop does its work and goes on, after an exception it catches too. One
\* that it does not catch ends the thread.
Works(t, from, work, to) ==
    /\ \/ Moves(t, from, to)
       \/ ~ Raises[work] \subseteq Catches[work] /\ Moves(t, from, "died")
    /\ UNCHANGED <<flags, replay, metrics>>

\* recvfrom raises an OSError, that of a closed socket or any other: break.
RecvRaises(t) ==
    /\ Moves(t, "recv", "ended")
    /\ unreadable' = IF stop THEN unreadable ELSE unreadable \cup {t}
    /\ UNCHANGED <<reliable, stop, closed, late, replay, metrics>>

\* The condition of a loop, looked at before recvfrom or after a wait.
LoopEnds(t, from) ==
    /\ stop
    /\ Moves(t, from, "ended")
    /\ UNCHANGED <<flags, replay, metrics>>

-----------------------------------------------------------------------------
(* downlink_loop and uplink_loop. A packet that does not decode, or comes  *)
(* from elsewhere, changes nothing here.                                   *)

ReceiverGets ==
    /\ Moves("receiver", "recv", "decide")
    /\ ~closed /\ accepted < MaxFrames
    /\ UNCHANGED <<flags, replay, metrics>>

\* record_received_frame: the frame is new, or a replay, or comes to a window
\* that is closing, whose ProtocolError no handler of the loop catches.
ReceiverDecides ==
    /\ \/ /\ ~closing /\ Moves("receiver", "decide", "read")
          /\ accepted' = accepted + 1
       \/ /\ ~closing /\ Moves("receiver", "decide", "replay")
          /\ UNCHANGED accepted
       \/ /\ closing /\ Moves("receiver", "decide", "died")
          /\ UNCHANGED accepted
    /\ UNCHANGED <<flags, persisted, closing, metrics>>

Receiver ==
    \/ ReceiverGets \/ ReceiverDecides
    \/ Works("receiver", "replay", "duplicate_ack", "recv")
    \/ Reads("receiver", "read") \/ Sets("receiver", "handle")
    \/ Works("receiver", "handle", "handling", "recv")
    \/ RecvRaises("receiver") \/ LoopEnds("receiver", "recv")

-----------------------------------------------------------------------------
(* inner_loop, reliability_loop and keepalive_loop.                        *)

InnerGets ==
    /\ Moves("inner", "recv", "send")
    /\ ~closed
    /\ UNCHANGED <<flags, replay, metrics>>

Inner ==
    \/ InnerGets \/ Works("inner", "send", "send_data", "recv")
    \/ RecvRaises("inner") \/ LoopEnds("inner", "recv")

\* Each wait times out, or stop is set. Without reliability nothing is pumped.
Timers ==
    \/ reliable /\ ~stop /\ Works("reliability", "wait", "pump", "wait")
    \/ ~stop /\ Works("keepalive", "wait", "keepalive", "wait")
    \/ LoopEnds("reliability", "wait") \/ LoopEnds("keepalive", "wait")

-----------------------------------------------------------------------------
(* persist_loop: every two seconds, until stop is set.                     *)

\* Metrics.persist replaces the file, or fails and is only recorded.
PersisterSaves ==
    /\ Moves("persister", "save", "wait")
    /\ file' \in {shown, file}
    /\ UNCHANGED <<flags, replay, held, shown, unsaved>>

\* Mutant: the statistics are saved as they were last shown.
PersisterSkipsStats ==
    \/ /\ ~stop /\ Moves("persister", "wait", "save")
       /\ UNCHANGED <<flags, replay, metrics>>
    \/ PersisterSaves \/ LoopEnds("persister", "wait")

Persister ==
    \/ ~stop /\ Reads("persister", "wait")
    \/ Sets("persister", "save") \/ PersisterSaves
    \/ LoopEnds("persister", "wait")

-----------------------------------------------------------------------------
(* The checkpoint writer, in the large (ReplayCheckpoint has the detail):  *)
(* a checkpoint covers all frames accepted when it was taken, or fails;    *)
(* either way _publish_stats follows.                                      *)

WriterCheckpoints ==
    /\ Moves("writer", "check", "read")
    /\ Lag > 0
    /\ persisted' \in {persisted, accepted}
    /\ UNCHANGED <<flags, accepted, closing, metrics>>

WriterEnds ==
    /\ Moves("writer", "check", "ended")
    /\ closing /\ Lag = 0
    /\ UNCHANGED <<flags, replay, metrics>>

Writer ==
    \/ WriterCheckpoints \/ WriterEnds
    \/ Reads("writer", "read") \/ Sets("writer", "check")

-----------------------------------------------------------------------------
(* run_agent and stop.                                                     *)

\* The signal arrives and stop sets the event ...
StopBegins ==
    /\ Moves("main", "running", "close")
    /\ stop' = TRUE
    /\ UNCHANGED <<reliable, closed, late, unreadable, replay, metrics>>

\* ... closes the sockets and asks the health server to shut down ...
ClosesSockets ==
    /\ Moves("main", "close", "shutdown")
    /\ closed' = TRUE
    /\ UNCHANGED <<reliable, stop, late, unreadable, replay, metrics>>

\* serve_forever looks for the request twice a second and leaves its loop; the
\* requests it has handed to their own threads do not hold it up.
Health ==
    /\ at.main = "shutdown"
    /\ Moves("health", "serve", "ended")
    /\ UNCHANGED <<flags, replay, metrics>>

\* ... for which shutdown() waits, without a timeout ...
ShutdownReturns ==
    /\ at.health = "ended"
    /\ Moves("main", "shutdown", "join")
    /\ UNCHANGED <<flags, replay, metrics>>

\* The threads that spawn has listed, which stop joins.
Spawned == {"receiver", "inner", "reliability", "keepalive", "persister"}

Gone(t) == at[t] \in {"ended", "died"}

ThreadsGone == \A t \in Spawned : Gone(t) \/ at[t] = "absent"

\* Mutant: the replay window is closed before the threads are joined.
JoinsClosingFirst ==
    /\ Moves("main", "join", IF closing THEN "flush" ELSE "join")
    /\ late' = (closing /\ ~ThreadsGone)
    /\ closing' = TRUE
    /\ UNCHANGED <<reliable, stop, closed, unreadable, accepted, persisted,
                   metrics>>

\* Mutant: join without a timeout.
JoinsForEver ==
    /\ Moves("main", "join", "flush")
    /\ ThreadsGone
    /\ closing' = TRUE
    /\ UNCHANGED <<flags, accepted, persisted, metrics>>

\* ... joins every thread, for two seconds each, and begins to close the
\* replay window ...
Joins ==
    /\ Moves("main", "join", "flush")
    /\ late' = ~ThreadsGone
    /\ closing' = TRUE
    /\ UNCHANGED <<reliable, stop, closed, unreadable, accepted, persisted,
                   metrics>>

\* ... joins the checkpoint writer for five, publishes the final statistics ...
CloseReturns ==
    /\ Moves("main", "flush", "read")
    /\ late' = (late \/ at.writer # "ended")
    /\ UNCHANGED <<reliable, stop, closed, unreadable, replay, metrics>>

\* ... and saves them, if the file system lets it.
MainSaves ==
    /\ Moves("main", "save", "stopped")
    /\ \/ file' = shown /\ UNCHANGED unsaved
       \/ unsaved' = TRUE /\ UNCHANGED file
    /\ UNCHANGED <<flags, replay, held, shown>>

\* Mutant: so does the main thread.
MainSkipsStats ==
    \/ ClosesSockets \/ ShutdownReturns \/ Joins \/ CloseReturns
    \/ Moves("main", "read", "save") /\ UNCHANGED <<flags, replay, metrics>>
    \/ MainSaves

Main ==
    \/ ClosesSockets \/ ShutdownReturns \/ Joins \/ CloseReturns
    \/ Reads("main", "read") \/ Sets("main", "save") \/ MainSaves

-----------------------------------------------------------------------------

\* The threads are daemons: once stop has returned the process exits.
Next ==
    \/ StopBegins \/ Main
    \/ at.main # "stopped" /\ (\/ Receiver \/ Inner \/ Timers
                              \/ Persister \/ Writer \/ Health)

Spec == Init /\ [][Next]_vars

\* The main thread and the health server are scheduled. Any other may hang,
\* on a disk for instance.
FairSpec == Spec /\ WF_vars(Main) /\ WF_vars(Health)

\* All threads are scheduled, and a checkpoint tried again and again succeeds.
ThreadsRun ==
    /\ WF_vars(Receiver) /\ WF_vars(Persister) /\ WF_vars(Writer)
    /\ SF_vars(Writer /\ persisted' = accepted /\ persisted # accepted)

-----------------------------------------------------------------------------
(* Properties.                                                             *)

\* The receive thread can only be lost to the closing of the replay window
\* after it outlived its join: never while the agent runs.
ReceiverDiesLate == at.receiver = "died" => stop /\ late

\* A running agent loses a thread only to its own socket, which recvfrom could
\* not read, or, without reliability, the inner thread to a failing send. No
\* other exception of the send path, of any thread and in any mode, costs one;
\* the thread lost is not replaced, and the agent goes on without it.
ThreadsServe ==
    \A t \in Spawned : ~stop /\ Gone(t) =>
        \/ t \in unreadable
        \/ t = "inner" /\ ~reliable

\* A stop in which every join succeeded leaves the truth in the metrics file:
\* nothing lags, although four threads publish without a common lock.
CleanStopReportsZero ==
    at.main = "stopped" /\ ~late /\ ~unsaved =>
        accepted = persisted /\ shown = 0 /\ file = 0

\* A stop ends, even if every thread but the health server hangs.
StopEnds == stop ~> at.main = "stopped"

\* The published lag of a running agent that gets no more frames becomes the
\* true one and stays it, although a late publication may overwrite a newer,
\* provided that no thread hangs.
ShownConverges == ThreadsRun => <>[](at.main = "running" => shown = Lag)

-----------------------------------------------------------------------------
(* The inductive invariant behind ReceiverDiesLate, ThreadsServe and       *)
(* CleanStopReportsZero.                                                   *)

Places ==
    [receiver : {"recv", "decide", "replay", "read", "set", "handle",
                 "ended", "died"},
     inner : {"recv", "send", "ended", "died"},
     reliability : {"wait", "ended"},
     keepalive : {"wait", "absent", "ended"},
     persister : {"wait", "set", "save", "ended"},
     writer : {"check", "read", "set", "ended"},
     health : {"serve", "ended"},
     main : {"running", "close", "shutdown", "join", "flush", "read", "set",
             "save", "stopped"}]

TypeOK ==
    /\ reliable \in BOOLEAN /\ stop \in BOOLEAN /\ closed \in BOOLEAN
    /\ late \in BOOLEAN /\ closing \in BOOLEAN /\ unsaved \in BOOLEAN
    /\ unreadable \subseteq {"receiver", "inner"}
    /\ accepted \in Int /\ persisted \in Int
    /\ at \in Places
    /\ held \in [Publisher -> Int] /\ shown \in Int /\ file \in Int

\* How far stop has come is known to the other threads by the flags it sets.
Phases ==
    /\ stop <=> at.main # "running"
    /\ closed <=> at.main \notin {"running", "close"}
    /\ closing <=> at.main \in {"flush", "read", "set", "save", "stopped"}

\* Why a thread is gone, and that none is left if no join was late.
Ends ==
    /\ \A t \in Spawned : at[t] = "ended" => stop \/ t \in unreadable
    /\ at.inner = "died" => ~reliable
    /\ at.receiver = "died" => closing
    /\ at.writer = "ended" => closing /\ accepted = persisted
    /\ closing /\ ~late => at.receiver = "ended" /\ at.persister = "ended"

\* What the last publications of a stop without a late join have read, shown
\* and saved.
LastWords ==
    ~late =>
        /\ at.main \in {"read", "set", "save", "stopped"} => at.writer = "ended"
        /\ at.main = "set" => held["main"] = 0
        /\ at.main \in {"save", "stopped"} => shown = 0
        /\ at.main = "stopped" /\ ~unsaved => file = 0

LifecycleInvariant == TypeOK /\ Phases /\ Ends /\ LastWords

=============================================================================
