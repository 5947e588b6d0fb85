--------------------------- MODULE ReliableSender ---------------------------
(***************************************************************************)
(* The message sender of h3ntun/reliability.py, class ReliableSender, and  *)
(* the loop of h3ntun/agent.py that drives it: the inner thread enqueues   *)
(* messages, the reliability thread pumps and then hands the packets to    *)
(* the transport one by one, the receive thread applies acknowledgements   *)
(* in between.                                                             *)
(*                                                                         *)
(* A message is the number next_message_id gave it. Time is counted in     *)
(* ticks since a message was last sent, the congestion window in           *)
(* 1 / Unit of a message (the code's float, rounded down).                 *)
(***************************************************************************)
EXTENDS Integers, Sequences, FiniteSets

CONSTANTS
    RTO,            \* retransmit_timeout_seconds, in ticks
    MaxRetries,     \* max_retries
    MaxPending,     \* max_pending_messages
    InitialWindow,  \* initial_window
    MaxWindow,      \* max_window
    Unit,           \* resolution of the congestion window
    MaxMessages     \* bound: messages the application offers

ASSUME SenderAssumption ==
    /\ RTO \in Nat \ {0}
    /\ MaxRetries \in Nat
    /\ MaxPending \in Nat \ {0}
    /\ InitialWindow \in Nat \ {0} /\ MaxWindow \in Nat
    /\ InitialWindow <= MaxWindow
    /\ Unit \in Nat \ {0}
    /\ MaxMessages \in Nat

\* A fact of arithmetic that the provers have no rule for: the powers of two
\* that Timeout and Halved take are positive natural numbers.
ASSUME PowersOfTwo ==
    \A k \in 0 .. MaxMessages + MaxRetries : 2 ^ k \in Nat \ {0}

VARIABLES
    queue,    \* _queue: messages not sent yet, in order
    pending,  \* _pending: message -> number of sends and age of the last
    cwnd,     \* cwnd
    outbox,   \* what pump returned and the loop has not handed over yet
    made,     \* _message_id: messages built so far
    fate,     \* history: what became of every message
    sends     \* history: how often pump sent a message

vars == <<queue, pending, cwnd, outbox, made, fate, sends>>

MaxAttempts == MaxRetries + 1

Messages == 1 .. MaxMessages

Flight == [attempts : 1 .. MaxAttempts, age : Nat]

Fates == {"none", "refused", "queued", "flying", "acked", "exhausted"}

Smaller(a, b) == IF a < b THEN a ELSE b
Larger(a, b) == IF a < b THEN b ELSE a

Members(s) == {s[i] : i \in 1 .. Len(s)}

TypeOK ==
    /\ queue \in Seq(Messages)
    /\ DOMAIN pending \subseteq Messages
    /\ pending \in [DOMAIN pending -> Flight]
    /\ cwnd \in Unit .. MaxWindow * Unit
    /\ outbox \subseteq Messages \X (1 .. MaxAttempts)
    /\ made \in 0 .. MaxMessages
    /\ fate \in [Messages -> Fates]
    /\ sends \in [Messages -> 0 .. MaxAttempts]

Init ==
    /\ queue = <<>>
    /\ pending = << >>
    /\ cwnd = InitialWindow * Unit
    /\ outbox = {}
    /\ made = 0
    /\ fate = [m \in Messages |-> "none"]
    /\ sends = [m \in Messages |-> 0]

-----------------------------------------------------------------------------
(* send_data: the next message is numbered and offered to enqueue, which   *)
(* refuses it when max_pending_messages are held.                          *)

\* Mutant: the messages in flight are not counted.
FullIgnoringFlight == Len(queue) >= MaxPending

Full == Len(queue) + Cardinality(DOMAIN pending) >= MaxPending

\* Mutant: the new message overtakes the ones that wait.
EnqueuedFirst(q, m) == <<m>> \o q

Enqueued(q, m) == Append(q, m)

SendData ==
    /\ made < MaxMessages
    /\ made' = made + 1
    /\ queue' = IF Full THEN queue ELSE Enqueued(queue, made + 1)
    /\ fate' = [fate EXCEPT ![made + 1] = IF Full THEN "refused" ELSE "queued"]
    /\ UNCHANGED <<pending, cwnd, outbox, sends>>

-----------------------------------------------------------------------------
(* handle_ack: acknowledge, for an ACK of this session.                    *)

\* Additive increase: one message per window of acknowledgements.
Increased(c) == Smaller(MaxWindow * Unit, c + (Unit * Unit) \div Larger(Unit, c))

\* Mutant: the entry stays and is sent again.
AcknowledgeKeepsEntry(m) ==
    /\ m \in DOMAIN pending
    /\ cwnd' = Increased(cwnd)
    /\ fate' = [fate EXCEPT ![m] = "acked"]
    /\ UNCHANGED <<queue, pending, outbox, made, sends>>

\* The ACK of a message in flight. Any other one is counted and dropped.
Acknowledge(m) ==
    /\ m \in DOMAIN pending
    /\ pending' = [k \in DOMAIN pending \ {m} |-> pending[k]]
    /\ cwnd' = Increased(cwnd)
    /\ fate' = [fate EXCEPT ![m] = "acked"]
    /\ UNCHANGED <<queue, outbox, made, sends>>

-----------------------------------------------------------------------------
(* reliability_loop: pump, then one _transport_send per packet.            *)

\* Capped exponential back-off.
Timeout(attempts) == RTO * Smaller(2 ^ (attempts - 1), 16)

Expired == {m \in DOMAIN pending : pending[m].age >= Timeout(pending[m].attempts)}

\* Mutant: one attempt too many.
ExhaustedLate == {m \in Expired : pending[m].attempts > MaxAttempts}

Exhausted == {m \in Expired : pending[m].attempts >= MaxAttempts}

Retried == Expired \ Exhausted

\* Multiplicative decrease, once for every expired message.
Halved(c, times) == Larger(Unit, c \div (2 ^ times))

Window(c) == Larger(1, c \div Unit)

\* Mutants: one message more, one less, than the window allows.
AdmissionsOver(held, window) == Smaller(Len(queue), Larger(0, window + 1 - held))
AdmissionsUnder(held, window) == Smaller(Len(queue), Larger(0, window - 1 - held))

\* How many queued messages fit behind `held` ones in flight.
Admissions(held, window) == Smaller(Len(queue), Larger(0, window - held))

Pump ==
    LET kept     == DOMAIN pending \ Exhausted
        cwnd1    == Halved(cwnd, Cardinality(Expired))
        n        == Admissions(Cardinality(kept), Window(cwnd1))
        admitted == {queue[i] : i \in 1 .. n}
    IN
    /\ outbox = {}
    /\ cwnd' = cwnd1
    /\ queue' = SubSeq(queue, n + 1, Len(queue))
    /\ pending' = [m \in kept \cup admitted |->
                      IF m \in admitted THEN [attempts |-> 1, age |-> 0]
                      ELSE IF m \in Retried
                      THEN [attempts |-> pending[m].attempts + 1, age |-> 0]
                      ELSE pending[m]]
    /\ outbox' = {<<m, pending'[m].attempts>> : m \in Retried \cup admitted}
    /\ fate' = [m \in Messages |->
                   CASE m \in Exhausted -> "exhausted"
                     [] m \in admitted  -> "flying"
                     [] OTHER           -> fate[m]]
    /\ sends' = [m \in Messages |->
                    IF m \in Retried \cup admitted
                    THEN sends[m] + 1 ELSE sends[m]]
    /\ UNCHANGED made

\* _transport_send succeeds, or raises an OSError the loop only records: the
\* packet is gone from the loop either way.
HandOver(packet) ==
    /\ packet \in outbox
    /\ outbox' = outbox \ {packet}
    /\ UNCHANGED <<queue, pending, cwnd, made, fate, sends>>

\* An ACK can only be for a message of which some packet was handed over.
AckArrives(m) ==
    /\ sends[m] > 1 \/ <<m, 1>> \notin outbox
    /\ Acknowledge(m)

-----------------------------------------------------------------------------

\* The clock. Ages beyond the longest timeout are not told apart.
Tick ==
    /\ \E m \in DOMAIN pending : pending[m].age < Timeout(MaxAttempts)
    /\ pending' = [m \in DOMAIN pending |->
                      [pending[m] EXCEPT
                          !.age = Smaller(Timeout(MaxAttempts), @ + 1)]]
    /\ UNCHANGED <<queue, cwnd, outbox, made, fate, sends>>

Next ==
    \/ SendData
    \/ \E m \in Messages : AckArrives(m)
    \/ Pump
    \/ \E packet \in outbox : HandOver(packet)
    \/ Tick

Spec == Init /\ [][Next]_vars

\* The reliability thread runs for ever and time passes. No ACK is promised.
Fairness ==
    /\ WF_vars(Pump)
    /\ WF_vars(\E packet \in outbox : HandOver(packet))
    /\ WF_vars(Tick)

FairSpec == Spec /\ Fairness

-----------------------------------------------------------------------------
(* Properties.                                                             *)

\* No message is lost, kept twice or brought back: the queue and the flight
\* table hold, between them and once each, exactly the messages accepted and
\* not yet settled, and a flight's attempts are the sends it made.
Accounting ==
    /\ Members(queue) = {m \in Messages : fate[m] = "queued"}
    /\ \A i, j \in 1 .. Len(queue) : i # j => queue[i] # queue[j]
    /\ DOMAIN pending = {m \in Messages : fate[m] = "flying"}
    /\ \A m \in DOMAIN pending : pending[m].attempts = sends[m]
    /\ \A m \in Messages : fate[m] = "none" <=> m > made

\* max_retries is the number of retransmissions after the first send: a
\* message is given up after exactly that many, and never sent more often.
RetryBudget ==
    \A m \in Messages :
        /\ sends[m] <= MaxRetries + 1
        /\ fate[m] = "exhausted" => sends[m] = MaxRetries + 1
        /\ fate[m] = "acked" => sends[m] > 0

\* First sends keep the order in which the application offered the messages,
\* whatever is retransmitted, acknowledged or given up in between.
SentInOrder ==
    \A m, n \in Messages : m < n /\ sends[n] > 0 => fate[m] # "queued"

\* The bounded memory of the release notes: messages held never exceed
\* max_pending_messages, nor those in flight max_window.
BoundedMemory ==
    /\ Len(queue) + Cardinality(DOMAIN pending) <= MaxPending
    /\ Cardinality(DOMAIN pending) <= MaxWindow

\* A first send never takes the flight above the congestion window as reduced
\* by the very timeouts of the same pump.
WindowGates ==
    [][\A m \in Messages :
          sends[m] = 0 /\ sends'[m] = 1 =>
              Cardinality(DOMAIN pending') <= Window(cwnd')]_vars

\* A settled message is never sent again nor changes its fate: late and
\* duplicate ACKs and the pump leave it alone.
SettledIsFinal ==
    [][\A m \in Messages :
          fate[m] \in {"acked", "exhausted", "refused"} =>
              fate'[m] = fate[m] /\ sends'[m] = sends[m]]_vars

-----------------------------------------------------------------------------
(* The inductive invariant behind the safety properties.                   *)

\* The queue is ascending and lies after everything sent so far; a message
\* has been sent if and only if it left the queue.
Ordered ==
    /\ \A i, j \in 1 .. Len(queue) : i < j => queue[i] < queue[j]
    /\ \A m \in Messages, i \in 1 .. Len(queue) : sends[m] > 0 => m < queue[i]
    /\ \A m \in Messages :
           sends[m] = 0 <=> fate[m] \in {"none", "refused", "queued"}

\* What every step preserves: the order of the queue is what makes leaving it
\* from the front compatible with the accounting.
SenderInvariant ==
    TypeOK /\ Accounting /\ RetryBudget /\ Ordered /\ BoundedMemory

-----------------------------------------------------------------------------

(* The abstract specification.                                             *)

Settled(how) == {m \in Messages : fate[m] = how}

Channel == INSTANCE MessageChannel
    WITH Capacity <- MaxPending, offered <- made, waiting <- queue,
         taken <- DOMAIN pending, acked <- Settled("acked"),
         lost <- Settled("exhausted")

\* The queue, the flight table, the pump and the acknowledgements, in whatever
\* order their threads come, are a bounded first-in first-out channel that
\* settles every message once; retransmission, back-off and the congestion
\* window do not show.
ImplementsChannel == Channel!Spec

\* Every message accepted is acknowledged or given up in the end, also when
\* no ACK ever comes and the window is down to one message.
EventuallySettled ==
    \A m \in Messages :
        fate[m] = "queued" ~> fate[m] \in {"acked", "exhausted"}

=============================================================================
