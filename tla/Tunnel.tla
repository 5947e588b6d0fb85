------------------------------- MODULE Tunnel -------------------------------
(***************************************************************************)
(* The data plane of h3ntun/agent.py: the Iran and the foreign agent, each *)
(* with a sender, a replay window and a reassembler, the two one-way UDP   *)
(* paths between them, and restarts and crashes of either side.            *)
(*                                                                         *)
(* A path loses, duplicates, delays and reorders: net holds every frame    *)
(* ever sent, and any of them may arrive at any time, any number of times  *)
(* or never. Timeouts fire whenever they like: any flight may be resent or *)
(* given up, any assembly or completed entry may expire. Payloads are left *)
(* to Fragmentation, clocks and the congestion window to ReliableSender,   *)
(* the checkpoint writer to ReplayCheckpoint. Both agents are configured   *)
(* with a replay_state_file, as by default: config.py also takes an empty  *)
(* one, without which even a clean restart forgets what was received.      *)
(***************************************************************************)
EXTENDS ReplayWindow, Sequences, FiniteSets

CONSTANTS
    MaxRetries,    \* max_retries
    MaxPending,    \* max_pending_messages
    Scenarios      \* configurations, each with the bounds it is checked to

Agent == {"iran", "foreign"}

\* reliable and fec are the fields of the configuration that both agents share.
\* The rest are bounds: the fragment counts of the application's messages, the
\* messages offered to and the sequences used by each agent in one session,
\* the keepalives, clean restarts, and crashes of each agent.
Scenario ==
    [reliable : BOOLEAN, fec : BOOLEAN, counts : SUBSET (Nat \ {0}),
     messages : [Agent -> Nat], sequences : [Agent -> Nat],
     pings : Nat, restarts : Nat, crashes : [Agent -> Nat]]

ASSUME TunnelAssumption ==
    /\ Session \subseteq Nat \ {0} /\ NoSession = 0
    /\ {1, 2} \subseteq Session
    /\ Scenarios \subseteq Scenario
    /\ MaxRetries \in Nat /\ MaxPending \in Nat \ {0}

VARIABLES
    scenario,   \* the scenario of this behaviour
    session,    \* codec.session_id
    sequence,   \* _sequence, from 0 (the code starts at random)
    made,       \* _message_id, from 0 (likewise)
    queue,      \* sender._queue
    flight,     \* sender._pending
    replay,     \* replay: the window in memory
    saved,      \* what a crash would leave of the window
    held,       \* reassembler._assemblies: the fragments of open messages
    completed,  \* reassembler._completed
    peer,       \* inner_peer is known
    net,        \* frames sent, on either path
    started,    \* how many sessions there have been
    pings, restarts,
    crashes,    \* of each agent
    deliveries, \* history: how often a message reached an agent's application
    finished,   \* history: messages reassembled
    acked       \* history: messages acknowledged at their sender

sender   == <<queue, flight>>
receiver == <<held, completed>>
bounds   == <<pings, restarts, crashes>>
history  == <<deliveries, finished, acked>>
vars     == <<scenario, session, sequence, made, sender, replay, saved, receiver,
              peer, net, started, bounds, history>>

Reliable    == scenario.reliable
MaxMessages == scenario.messages
MaxSequence == scenario.sequences

Other(a) == IF a = "iran" THEN "foreign" ELSE "iran"

\* A message is known by the session that sent it and its number there.
Keys == Session \X (1 .. MaxMessages["iran"] + MaxMessages["foreign"])

KeyOf(f) == <<f.session, f.msg>>

Init ==
    /\ scenario \in Scenarios
    /\ session = [a \in Agent |-> IF a = "iran" THEN 1 ELSE 2]
    /\ sequence = [a \in Agent |-> 0]
    /\ made = [a \in Agent |-> 0]
    /\ queue = [a \in Agent |-> <<>>]
    /\ flight = [a \in Agent |-> {}]
    /\ replay = [a \in Agent |-> NewWindow]
    /\ saved = [a \in Agent |-> NewWindow]
    /\ held = [a \in Agent |-> {}]
    /\ completed = [a \in Agent |-> {}]
    /\ peer = [a \in Agent |-> a = "foreign"]
    /\ net = {}
    /\ started = 2 /\ pings = 0 /\ restarts = 0
    /\ crashes = [a \in Agent |-> 0]
    /\ deliveries = [x \in Agent \X Keys |-> 0]
    /\ finished = {} /\ acked = {}

-----------------------------------------------------------------------------
(* Frames.                                                                 *)

\* build_data_packets: the data fragments of a message of n, and its parity,
\* with index n, when there is more than one. Each takes the next sequence.
DataFrames(a, n) ==
    {[kind |-> "data", to |-> Other(a), session |-> session[a],
      seq |-> sequence[a] + i + 1, msg |-> made[a] + 1, index |-> i,
      count |-> n] : i \in 0 .. (IF scenario.fec /\ n > 1 THEN n ELSE n - 1)}

ControlFrame(a, kind) ==
    [kind |-> kind, to |-> Other(a), session |-> session[a],
     seq |-> sequence[a] + 1]

AckFrame(a, key) ==
    [kind |-> "ack", to |-> Other(a), session |-> session[a],
     seq |-> sequence[a] + 1, ackSession |-> key[1], msg |-> key[2]]

\* Agent a encodes one frame with its next sequence and sends it at once. A
\* send that fails is a frame lost.
Emits(a, frame) ==
    /\ sequence[a] < MaxSequence[a]
    /\ sequence' = [sequence EXCEPT ![a] = @ + 1]
    /\ net' = net \cup {frame}

-----------------------------------------------------------------------------
(* Sending.                                                                *)

\* send_data builds the packets of a datagram of n fragments, and queues them,
\* or drops them when the queue is full; without reliability it sends them at
\* once.
SendData(a, n) ==
    LET packets == DataFrames(a, n)
        full    == Len(queue[a]) + Cardinality(flight[a]) >= MaxPending
    IN
    /\ made[a] < MaxMessages[a]
    /\ sequence[a] + Cardinality(packets) <= MaxSequence[a]
    /\ made' = [made EXCEPT ![a] = @ + 1]
    /\ sequence' = [sequence EXCEPT ![a] = @ + Cardinality(packets)]
    /\ IF Reliable
       THEN /\ queue' = IF full THEN queue
                        ELSE [queue EXCEPT ![a] = Append(@, packets)]
            /\ UNCHANGED net
       ELSE /\ net' = net \cup packets
            /\ UNCHANGED queue
    /\ UNCHANGED <<session, flight, replay, saved, receiver, started, bounds,
                   history>>

\* inner_loop: a datagram from the application. The Iran agent remembers where
\* it came from, whatever becomes of it; the foreign one is configured.
IranInner(n) ==
    /\ SendData("iran", n)
    /\ peer' = [peer EXCEPT !["iran"] = TRUE]

ForeignInner(n) ==
    /\ SendData("foreign", n)
    /\ UNCHANGED peer

\* reliability_loop: pump gives up or resends the flights that timed out and
\* sends the first n queued messages, and the loop hands the packets over.
Pump(a) ==
    \E expired \in SUBSET flight[a], n \in 0 .. Len(queue[a]) :
        LET retried  == {t \in expired : t.attempts <= MaxRetries}
            again    == {[t EXCEPT !.attempts = @ + 1] : t \in retried}
            admitted == {[packets |-> queue[a][i], attempts |-> 1] : i \in 1 .. n}
        IN
        /\ Reliable /\ (expired # {} \/ n > 0)
        /\ flight' = [flight EXCEPT ![a] = (@ \ expired) \cup again \cup admitted]
        /\ queue' = [queue EXCEPT ![a] = SubSeq(@, n + 1, Len(@))]
        /\ net' = net \cup UNION {t.packets : t \in again \cup admitted}
        /\ UNCHANGED <<session, sequence, made, replay, saved, receiver, peer,
                       started, bounds, history>>

\* keepalive_loop of the Iran agent.
Keepalive ==
    /\ pings < scenario.pings
    /\ pings' = pings + 1
    /\ Emits("iran", ControlFrame("iran", "ping"))
    /\ UNCHANGED <<session, made, sender, replay, saved, receiver, peer,
                   started, restarts, crashes, history>>

-----------------------------------------------------------------------------
(* Receiving: one round of downlink_loop or uplink_loop.                   *)

\* record_received_frame returns True ...
Records(b, f) ==
    /\ f.to = b
    /\ Accepts(replay[b], f.session, f.seq)
    /\ replay' = [replay EXCEPT ![b] = AfterAccept(@, f.session, f.seq)]

\* Mutant: a replayed fragment is acknowledged whether its message is complete
\* or not.
ReceiveReplayAcksAll(b, f) ==
    /\ f.to = b
    /\ ~Accepts(replay[b], f.session, f.seq)
    /\ f.kind = "data"
    /\ Emits(b, AckFrame(b, KeyOf(f)))
    /\ UNCHANGED <<session, made, sender, replay, saved, receiver, peer,
                   started, bounds, history>>

\* ... or False: a replayed fragment of a completed message is acknowledged
\* again, any other replay is dropped.
ReceiveReplay(b, f) ==
    /\ f.to = b
    /\ ~Accepts(replay[b], f.session, f.seq)
    /\ f.kind = "data" /\ KeyOf(f) \in completed[b]
    /\ Emits(b, AckFrame(b, KeyOf(f)))
    /\ UNCHANGED <<session, made, sender, replay, saved, receiver, peer,
                   started, bounds, history>>

\* handle_ack: an ACK of another session, or of no message in flight, is
\* counted and dropped.
ReceiveAck(b, f) ==
    LET hits == {t \in flight[b] : \E p \in t.packets :
                     KeyOf(p) = <<f.ackSession, f.msg>>}
    IN
    /\ f.kind = "ack" /\ Records(b, f)
    /\ flight' = [flight EXCEPT ![b] = @ \ hits]
    /\ acked' = IF hits = {} THEN acked
                ELSE acked \cup {<<f.ackSession, f.msg>>}
    /\ UNCHANGED <<session, sequence, made, queue, saved, receiver, peer, net,
                   started, bounds, deliveries, finished>>

\* The foreign agent answers a PING.
ReceivePing(f) ==
    /\ f.kind = "ping" /\ Records("foreign", f)
    /\ Emits("foreign", ControlFrame("foreign", "pong"))
    /\ UNCHANGED <<session, made, sender, saved, receiver, peer, started,
                   bounds, history>>

ReceivePong(f) ==
    /\ f.kind = "pong" /\ Records("iran", f)
    /\ UNCHANGED <<session, sequence, made, sender, saved, receiver, peer, net,
                   started, bounds, history>>

\* _assemble has its payload: all data fragments, or all but one and parity.
Assembles(indices, n) ==
    LET data == indices \ {n}
    IN \/ Cardinality(data) = n
       \/ n \in indices /\ Cardinality(data) = n - 1

\* del _assemblies[key]
Discard(h, key) == {x \in h : x[1] # key}

\* The fragments of the message that the reassembler holds once f is added.
Gathered(b, f) ==
    {f.index} \cup {h[2] : h \in {x \in held[b] : x[1] = KeyOf(f)}}

\* accept_fragment returns None: the message is complete already, or not yet.
ReceiveFragment(b, f) ==
    /\ f.kind = "data" /\ Records(b, f)
    /\ \/ /\ KeyOf(f) \in completed[b]
          /\ UNCHANGED held
       \/ /\ KeyOf(f) \notin completed[b]
          /\ ~Assembles(Gathered(b, f), f.count)
          /\ held' = [held EXCEPT ![b] = @ \cup {<<KeyOf(f), f.index>>}]
    /\ UNCHANGED <<session, sequence, made, sender, saved, completed, peer,
                   net, started, bounds, history>>

\* What follows once a message is complete: nothing, when the Iran agent has
\* no inner peer yet or the inner socket refuses the datagram; otherwise the
\* application has it and an ACK goes out.
HandToApplication(b, key) ==
    \/ UNCHANGED <<sequence, net, deliveries>>
    \/ /\ peer[b]
       /\ deliveries' = [deliveries EXCEPT ![<<b, key>>] = @ + 1]
       /\ IF Reliable THEN Emits(b, AckFrame(b, key))
          ELSE UNCHANGED <<sequence, net>>

\* accept_fragment returns the payload.
ReceiveLast(b, f) ==
    /\ f.kind = "data" /\ Records(b, f)
    /\ KeyOf(f) \notin completed[b]
    /\ Assembles(Gathered(b, f), f.count)
    /\ held' = [held EXCEPT ![b] = Discard(@, KeyOf(f))]
    /\ completed' = [completed EXCEPT ![b] = @ \cup {KeyOf(f)}]
    /\ finished' = finished \cup {KeyOf(f)}
    /\ HandToApplication(b, KeyOf(f))
    /\ UNCHANGED <<session, made, sender, saved, peer, started, bounds, acked>>

\* _purge, and the evictions at max_messages: an assembly is dropped ...
AssemblyExpires(b, key) ==
    /\ \E h \in held[b] : h[1] = key
    /\ held' = [held EXCEPT ![b] = Discard(@, key)]
    /\ UNCHANGED <<session, sequence, made, sender, replay, saved, completed,
                   peer, net, started, bounds, history>>

\* ... or the memory of a completed message.
CompletedExpires(b, key) ==
    /\ key \in completed[b]
    /\ completed' = [completed EXCEPT ![b] = @ \ {key}]
    /\ UNCHANGED <<session, sequence, made, sender, replay, saved, held, peer,
                   net, started, bounds, history>>

-----------------------------------------------------------------------------
(* Restarts.                                                               *)

\* A checkpoint of the window becomes durable.
Checkpoints(b) ==
    /\ crashes[b] < scenario.crashes[b] /\ saved[b] # replay[b]
    /\ saved' = [saved EXCEPT ![b] = replay[b]]
    /\ UNCHANGED <<session, sequence, made, sender, replay, receiver, peer,
                   net, started, bounds, history>>

\* A new process of agent a, with replay state w: __init__.
Starts(a, w) ==
    /\ started + 1 \in Session
    /\ started' = started + 1
    /\ session' = [session EXCEPT ![a] = started + 1]
    /\ sequence' = [sequence EXCEPT ![a] = 0]
    /\ made' = [made EXCEPT ![a] = 0]
    /\ queue' = [queue EXCEPT ![a] = <<>>]
    /\ flight' = [flight EXCEPT ![a] = {}]
    /\ replay' = [replay EXCEPT ![a] = w]
    /\ saved' = [saved EXCEPT ![a] = w]
    /\ held' = [held EXCEPT ![a] = {}]
    /\ completed' = [completed EXCEPT ![a] = {}]
    /\ peer' = [peer EXCEPT ![a] = a = "foreign"]
    /\ UNCHANGED <<net, pings, history>>

\* Mutant: stop does not wait for the last checkpoint.
RestartForgets(a) ==
    /\ restarts < scenario.restarts
    /\ restarts' = restarts + 1
    /\ Starts(a, saved[a])
    /\ UNCHANGED crashes

\* stop, with a clean close of the replay window, and a new start.
Restart(a) ==
    /\ restarts < scenario.restarts
    /\ restarts' = restarts + 1
    /\ Starts(a, replay[a])
    /\ UNCHANGED crashes

Crash(a) ==
    /\ crashes[a] < scenario.crashes[a]
    /\ crashes' = [crashes EXCEPT ![a] = @ + 1]
    /\ Starts(a, saved[a])
    /\ UNCHANGED restarts

-----------------------------------------------------------------------------

\* One round of the receive loop of either agent for a frame that arrives.
Receive(b, f) ==
    \/ ReceiveReplay(b, f) \/ ReceiveAck(b, f)
    \/ ReceiveFragment(b, f) \/ ReceiveLast(b, f)

DownlinkRound(f) == Receive("iran", f) \/ ReceivePong(f)

UplinkRound(f) == Receive("foreign", f) \/ ReceivePing(f)

Next ==
    /\ \/ \E n \in scenario.counts : IranInner(n) \/ ForeignInner(n)
       \/ \E a \in Agent : Pump(a)
       \/ Keepalive
       \/ \E f \in net : DownlinkRound(f) \/ UplinkRound(f)
       \/ \E b \in Agent, key \in Keys :
              AssemblyExpires(b, key) \/ CompletedExpires(b, key)
       \/ \E a \in Agent : Checkpoints(a) \/ Restart(a) \/ Crash(a)
    /\ UNCHANGED scenario

Spec == Init /\ [][Next]_vars

-----------------------------------------------------------------------------
(* Properties.                                                             *)

\* At most once: the application of an agent sees a message again only if that
\* agent crashed and lost replay state, once per crash of its own; a crash of
\* the sender excuses nothing. Neither duplicates, retransmissions, an early
\* end of the completed table, a reassembly timeout, late parity nor a clean
\* restart may show it twice.
DuplicateNeedsCrash ==
    \A b \in Agent, k \in Keys : deliveries[<<b, k>>] <= 1 + crashes[b]

\* A sender takes a message for acknowledged only after its peer reassembled
\* all of it, whatever became of either process in between.
AckMeansReassembled == acked \subseteq finished

\* A one-sided restart locks nobody out: the session an agent uses now is not
\* among those its peer has retired.
LiveSessionNotRetired ==
    \A a \in Agent : session[a] \notin replay[Other(a)].retired

-----------------------------------------------------------------------------
(* The inductive invariant behind DuplicateNeedsCrash and                  *)
(* AckMeansReassembled.                                                    *)

Fragment ==
    [kind : {"data"}, to : Agent, session : Session, seq : Nat, msg : Nat,
     index : Nat, count : Nat \ {0}]

Frame ==
    Fragment
    \cup [kind : {"ping", "pong"}, to : Agent, session : Session, seq : Nat]
    \cup [kind : {"ack"}, to : Agent, session : Session, seq : Nat,
          ackSession : Session, msg : Nat]

TypeOK ==
    /\ scenario \in Scenario
    /\ session \in [Agent -> Session]
    /\ sequence \in [Agent -> Nat] /\ made \in [Agent -> Nat]
    /\ queue \in [Agent -> Seq(SUBSET Fragment)]
    /\ flight \in [Agent -> SUBSET [packets : SUBSET Fragment, attempts : Nat]]
    /\ replay \in [Agent -> Windows] /\ saved \in [Agent -> Windows]
    /\ \A b \in Agent : WellFormed(replay[b]) /\ WellFormed(saved[b])
    /\ held \in [Agent -> SUBSET ((Session \X Nat) \X Nat)]
    /\ completed \in [Agent -> SUBSET (Session \X Nat)]
    /\ peer \in [Agent -> BOOLEAN]
    /\ net \subseteq Frame
    /\ started \in Nat /\ pings \in Nat /\ restarts \in Nat
    /\ crashes \in [Agent -> Nat]
    /\ deliveries \in [Agent \X Keys -> Nat]
    /\ finished \subseteq Session \X Nat /\ acked \subseteq Session \X Nat

\* The fragments there are: under way, queued or in flight.
Fragments ==
    {f \in net : f.kind = "data"}
    \cup (UNION {UNION {queue[a][i] : i \in DOMAIN queue[a]} : a \in Agent})
    \cup (UNION {UNION {t.packets : t \in flight[a]} : a \in Agent})

\* No two processes share a session, and a process numbers its messages, so
\* that a key and an index name one fragment.
Named ==
    /\ session["iran"] # session["foreign"]
    /\ \A a \in Agent : session[a] <= started
    /\ \A p \in Fragments :
           /\ p.session <= started
           /\ p.index \in 0 .. p.count /\ (p.count = 1 => p.index = 0)
           /\ \A a \in Agent : p.session = session[a] =>
                  p.to = Other(a) /\ p.msg <= made[a]
    /\ \A p, q \in Fragments : KeyOf(p) = KeyOf(q) =>
           /\ p.to = q.to /\ p.count = q.count
           /\ p.index = q.index => p = q

\* An ACK, sent or acted upon, and the memory that one is sent from, are of
\* messages that were reassembled.
Truthful ==
    /\ \A f \in net : f.kind = "ack" => <<f.ackSession, f.msg>> \in finished
    /\ \A b \in Agent : completed[b] \subseteq finished
    /\ acked \subseteq finished

\* The fragments of a message that agent b will not take again, unless it
\* crashes, and those of them that it holds.
Spent(b, key) ==
    {f.index : f \in {g \in net :
        /\ g.kind = "data" /\ g.to = b /\ KeyOf(g) = key
        /\ ~Accepts(replay[b], g.session, g.seq)}}

Pieces(b, key) == {h[2] : h \in {x \in held[b] : x[1] = key}}

\* A message that was delivered as often as it can have been since the last
\* crash has used up as many fragments as it takes to assemble it, and those
\* held besides do not count: there are too few left for another time.
UsedUp ==
    /\ \A b \in Agent : \A x \in held[b] : x[2] \in Spent(b, x[1])
    /\ \A b \in Agent, k \in Keys : deliveries[<<b, k>>] > 0 =>
           \E f \in net : f.kind = "data" /\ f.to = b /\ KeyOf(f) = k
    /\ \A f \in net :
           f.kind = "data" /\ KeyOf(f) \in Keys
           /\ deliveries[<<f.to, KeyOf(f)>>] > crashes[f.to] =>
               Cardinality(Spent(f.to, KeyOf(f)) \ Pieces(f.to, KeyOf(f)))
                   >= f.count

TunnelInvariant ==
    TypeOK /\ Named /\ Truthful /\ UsedUp /\ DuplicateNeedsCrash

=============================================================================
