------------------------------- MODULE Outage -------------------------------
(***************************************************************************)
(* The two agents over time and over a path that fails: the reliable       *)
(* sender of the Iran agent (ReliableSender), the age of the packets it    *)
(* keeps, the timestamp window of the receiver, the keepalive, and the     *)
(* health both agents report.                                              *)
(*                                                                         *)
(* A message is encoded once, when it is enqueued (agent.py, send_data):   *)
(* every transmission of it carries that timestamp, and FrameCodec.decode  *)
(* rejects it once it is more than MAX_CLOCK_SKEW old. It carries its      *)
(* number, too, which the replay window of foreign rejects once it is as   *)
(* far behind the newest number received as the window is wide. Everything *)
(* else (ACK, PING, PONG) is encoded, and numbered, when it is sent: its   *)
(* number is the newest, and overtakes the messages that wait.             *)
(*                                                                         *)
(* Ticks are long: the threads are scheduled and a working path carries a  *)
(* frame and its answer well within one. So the clock waits for whatever   *)
(* is due. Clocks agree, one message is one frame, a working path loses    *)
(* nothing and keeps the order, foreign remembers what it has completed,   *)
(* and no agent restarts.                                                  *)
(***************************************************************************)
EXTENDS ReliableSender

CONSTANTS
    Skew,           \* MAX_CLOCK_SKEW_SECONDS, in ticks
    WindowFrames,   \* ReplayWindow.size of foreign
    Keepalive,      \* keepalive_seconds
    HealthTimeout,  \* health_timeout_seconds
    MaxChanges      \* bound: failures and repairs of the paths

ASSUME OutageAssumption ==
    /\ Skew \in Nat /\ MaxChanges \in Nat /\ WindowFrames \in Nat \ {0}
    /\ Keepalive \in Nat \ {0} /\ HealthTimeout \in Nat
    \* Not checked by load_config: with less, a working tunnel reports itself
    \* unhealthy between two keepalives.
    /\ Keepalive <= HealthTimeout

VARIABLES
    age,      \* message -> ticks since it was encoded
    got,      \* messages that foreign has received
    answers,  \* messages whose ACK is on the way back
    newer,    \* message -> frames of Iran numbered after it while it was held,
              \* up to WindowFrames
    passes,   \* message -> those held that its arrival pushes out
    overrun,  \* messages pushed out of the window before they arrived
    up,       \* the paths that work
    since,    \* path -> ticks since it last failed or was repaired
    changes,
    nextPing, \* ticks until keepalive_loop sends the next PING
    stamp,    \* agent, path -> ticks since last_uplink_at, last_downlink_at
    cut       \* history: messages during whose life some path was down

clocks == <<since, nextPing, stamp>>
world  == <<up, changes, cut>>
data   == <<age, got, answers>>
numbers == <<newer, passes, overrun>>
allVars == <<vars, data, numbers, clocks, world>>

Paths == {"uplink", "downlink"}
Agents == {"iran", "foreign"}

\* How long n attempts take that are not answered.
Elapsed[n \in 0 .. MaxAttempts] ==
    IF n = 0 THEN 0 ELSE Elapsed[n - 1] + Timeout(n)

\* How long a message that is never answered stays in flight.
Lifetime == Elapsed[MaxAttempts]

\* Ages and stamps beyond these are not told apart.
MaxAge == Larger(Skew, MaxPending * Lifetime) + 1
MaxStamp == Larger(HealthTimeout, Keepalive) + 1

Held == Members(queue) \cup DOMAIN pending

OutageInit ==
    /\ Init
    /\ age = [m \in Messages |-> 0]
    /\ got = {} /\ answers = {}
    /\ newer = [m \in Messages |-> 0]
    /\ passes = [m \in Messages |-> {}]
    /\ overrun = {}
    /\ up \in {Paths, {"uplink"}, {"downlink"}}
    /\ since = [p \in Paths |-> 0]
    /\ changes = 0
    /\ nextPing = Keepalive
    /\ stamp = [a \in Agents |-> [p \in Paths |-> MaxStamp]]
    /\ cut = {}

-----------------------------------------------------------------------------
(* Frames. Sending and receiving both stamp the metrics.                   *)

\* Mutant: the message is refused on the last tick of the window.
FreshShort(m) == age[m] < Skew

\* FrameCodec.decode accepts the timestamp.
Fresh(m) == age[m] <= Skew

\* next_sequence: a frame takes a number, and the others fall one behind.
Numbered ==
    [m \in Messages |-> IF m \in Held THEN Smaller(WindowFrames, newer[m] + 1)
                        ELSE newer[m]]

\* Mutant: the window is one frame short.
BeyondShort(n) == {m \in Held : n[m] >= WindowFrames - 1}

\* ReplayWindow.accept: with so many numbers after theirs, these messages are
\* no longer in the window once the newest has arrived.
Beyond(n) == {m \in Held : n[m] >= WindowFrames}

\* A frame with the newest number is sent and arrives, or is lost. A message
\* that was received before is a replay on either side of the edge.
TakesNumber(arrives) ==
    /\ newer' = Numbered
    /\ overrun' = IF arrives THEN overrun \cup (Beyond(Numbered) \ got)
                  ELSE overrun
    /\ UNCHANGED passes

\* The stamps after Iran has sent a frame up, that foreign answers if it
\* arrives; a replay is answered but leaves last_uplink_at alone.
SentUp(s, arrives, replayed) ==
    [s EXCEPT !["iran"]["uplink"] = 0,
              !["foreign"]["uplink"] = IF arrives /\ ~replayed THEN 0 ELSE @,
              !["foreign"]["downlink"] = IF arrives THEN 0 ELSE @]

\* The stamps after Iran has received a frame.
GotDown(s) == [s EXCEPT !["iran"]["downlink"] = 0]

-----------------------------------------------------------------------------
(* The data, from the inner socket of Iran to foreign.                     *)

\* inner_loop and send_data. A message that enqueue refuses has its number.
Offer ==
    /\ SendData
    /\ age' = [age EXCEPT ![made + 1] = 0]
    /\ newer' = Numbered
    /\ passes' = [passes EXCEPT ![made + 1] = Beyond(Numbered)]
    /\ UNCHANGED overrun
    /\ cut' = IF up = Paths THEN cut ELSE cut \cup {made + 1}
    /\ UNCHANGED <<got, answers, clocks, up, changes>>

\* reliability_loop. A pump with nothing to do is left out.
Pumps ==
    /\ Pump
    /\ UNCHANGED <<data, numbers, clocks, world>>

\* One packet of the pump: _transport_send, uplink_loop of foreign, which
\* drops what is stale or has fallen out of the window unreceived, and
\* acknowledges what is new or a duplicate.
Transmits(packet) ==
    LET m  == packet[1]
        ok == "uplink" \in up /\ Fresh(m) /\ m \notin overrun
    IN
    /\ HandOver(packet)
    /\ stamp' = SentUp(stamp, ok, m \in got)
    /\ got' = IF ok THEN got \cup {m} ELSE got
    /\ answers' = IF ok /\ "downlink" \in up THEN answers \cup {m} ELSE answers
    /\ overrun' = IF ok THEN overrun \cup ((passes[m] \cap Held) \ got)
                  ELSE overrun
    /\ UNCHANGED <<age, newer, passes, since, nextPing, world>>

\* downlink_loop of Iran gets the ACK, perhaps of a message settled by now.
Answered(m) ==
    /\ m \in answers
    /\ answers' = answers \ {m}
    /\ Acknowledge(m) \/ (m \notin DOMAIN pending /\ UNCHANGED vars)
    /\ stamp' = GotDown(stamp)
    /\ UNCHANGED <<age, got, numbers, since, nextPing, world>>

-----------------------------------------------------------------------------
(* keepalive_loop, and the traffic in the other direction.                 *)

\* PING, and PONG if it arrives.
Pings ==
    /\ nextPing = 0
    /\ nextPing' = Keepalive
    /\ LET ok   == "uplink" \in up
           sent == SentUp(stamp, ok, FALSE)
       IN  stamp' = IF ok /\ "downlink" \in up THEN GotDown(sent) ELSE sent
    /\ TakesNumber("uplink" \in up)
    /\ UNCHANGED <<vars, data, since, world>>

\* Foreign sends data of its own; Iran acknowledges it.
DataDown ==
    /\ LET sent == [stamp EXCEPT !["foreign"]["downlink"] = 0]
       IN  stamp' = IF "downlink" \in up
                    THEN SentUp(GotDown(sent), "uplink" \in up, FALSE)
                    ELSE sent
    /\ IF "downlink" \in up THEN TakesNumber("uplink" \in up)
       ELSE UNCHANGED numbers
    /\ UNCHANGED <<vars, data, since, nextPing, world>>

-----------------------------------------------------------------------------
(* The path and the clock.                                                 *)

\* A path fails or is repaired. An ACK under way on it is lost.
Changes(p) ==
    /\ changes < MaxChanges
    /\ changes' = changes + 1
    /\ up' = IF p \in up THEN up \ {p} ELSE up \cup {p}
    /\ since' = [since EXCEPT ![p] = 0]
    /\ answers' = IF p = "downlink" THEN {} ELSE answers
    /\ cut' = cut \cup Held
    /\ UNCHANGED <<vars, age, got, numbers, nextPing, stamp>>

\* Nothing is due: no packet, no answer, no keepalive and no work for pump.
Quiet ==
    /\ outbox = {} /\ answers = {} /\ nextPing > 0
    /\ Expired = {}
    /\ Admissions(Cardinality(DOMAIN pending), Window(cwnd)) = 0

Aged(n, top) == Smaller(top, n + 1)

\* The numbers of settled messages do not matter any more.
Forgets ==
    /\ newer' = [m \in Messages |->
                    IF m \in Held \/ fate[m] = "exhausted" THEN newer[m]
                    ELSE 0]
    /\ passes' = [m \in Messages |->
                     IF m \in Held THEN passes[m] \cap Held ELSE {}]
    /\ overrun' = overrun \cap Held

TimePasses ==
    /\ Quiet
    /\ pending' = [m \in DOMAIN pending |-> [pending[m] EXCEPT !.age = @ + 1]]
    /\ age' = [m \in Messages |->
                  IF m \in Held THEN Aged(age[m], MaxAge) ELSE 0]
    /\ since' = [p \in Paths |-> Aged(since[p], MaxStamp)]
    /\ nextPing' = nextPing - 1
    /\ stamp' = [a \in Agents |->
                    [p \in Paths |-> Aged(stamp[a][p], MaxStamp)]]
    /\ Forgets
    /\ UNCHANGED <<queue, cwnd, outbox, made, fate, sends, got, answers,
                   world>>

OutageNext ==
    \/ Offer
    \/ Pumps
    \/ \E packet \in outbox : Transmits(packet)
    \/ \E m \in answers : Answered(m)
    \/ Pings
    \/ DataDown
    \/ \E p \in Paths : Changes(p)
    \/ TimePasses

OutageSpec == OutageInit /\ [][OutageNext]_allVars

-----------------------------------------------------------------------------
(* is_healthy of h3ntun/health.py. last_pong_at is never newer than        *)
(* last_downlink_at, which the same datagram sets first.                   *)

\* Mutant: the newest stamp counts, one's own transmissions included.
HealthyAnyStamp(a) == \E p \in Paths : stamp[a][p] <= HealthTimeout

Healthy(a) ==
    stamp[a][IF a = "iran" THEN "downlink" ELSE "uplink"] <= HealthTimeout

-----------------------------------------------------------------------------
(* Properties.                                                             *)

\* The budget of the README: whatever the paths do, a message accepted is
\* acknowledged or given up within the lifetimes of the messages that the
\* queue may hold, its own included.
SettledInTime == \A m \in Held : age[m] <= MaxPending * Lifetime

\* A message is given up only if a path was down while the sender had it, or
\* if a replay window of newer frames has been numbered meanwhile: otherwise
\* what is left of an outage does not take the messages after it along. This
\* needs all the messages that can be ahead of one to live out their time
\* within the timestamp window.
ExpiresOnlyInOutage ==
    \A m \in Messages :
        fate[m] = "exhausted" => m \in cut \/ newer[m] = WindowFrames

\* When both paths have worked for a keepalive, both agents say so; when the
\* path to an agent has been dead for longer than its timeout, it says so,
\* however busily it sends and is retransmitting itself.
HealthIsTrue ==
    /\ up = Paths /\ (\A p \in Paths : since[p] > Keepalive) =>
           Healthy("iran") /\ Healthy("foreign")
    /\ "downlink" \notin up /\ since["downlink"] > HealthTimeout =>
           ~Healthy("iran")
    /\ "uplink" \notin up /\ since["uplink"] > HealthTimeout =>
           ~Healthy("foreign")

-----------------------------------------------------------------------------
(* The inductive invariants behind them.                                   *)

OutageTypeOK ==
    /\ age \in [Messages -> Nat]
    /\ got \subseteq Messages /\ answers \subseteq Messages
    /\ up \in SUBSET Paths /\ cut \subseteq Messages
    /\ since \in [Paths -> 0 .. MaxStamp]
    /\ nextPing \in 0 .. Keepalive
    /\ stamp \in [Agents -> [Paths -> 0 .. MaxStamp]]

\* A dead path carries nothing: the stamp it would renew is as old as the
\* failure, and no ACK is on it.
DeadPaths ==
    /\ "downlink" \notin up =>
           answers = {} /\ stamp["iran"]["downlink"] >= since["downlink"]
    /\ "uplink" \notin up => stamp["foreign"]["uplink"] >= since["uplink"]

\* If the paths worked at the last PING, it and its PONG renewed the stamps.
LivePaths ==
    up = Paths /\ (\A p \in Paths : since[p] + nextPing > Keepalive) =>
        /\ stamp["iran"]["downlink"] + nextPing <= Keepalive
        /\ stamp["foreign"]["uplink"] + nextPing <= Keepalive

\* The time a flight has left before it is given up.
Remaining(m) == Lifetime - (Elapsed[pending[m].attempts - 1] + pending[m].age)

\* No flight is overdue, and a queued message has a lifetime of its own to
\* come and one for each message ahead of it, of all flights together only
\* what the longest has left.
Deadlines ==
    /\ \A m \in DOMAIN pending :
           /\ pending[m].age <= Timeout(pending[m].attempts)
           /\ age[m] + Remaining(m) <= MaxPending * Lifetime
    /\ \A i \in 1 .. Len(queue) :
           /\ age[queue[i]] + i * Lifetime <= MaxPending * Lifetime
           /\ \A m \in DOMAIN pending :
                  age[queue[i]] + Remaining(m) + i * Lifetime
                      <= MaxPending * Lifetime

\* The window leaves a message behind only after so many newer numbers.
Numbers ==
    /\ newer \in [Messages -> 0 .. WindowFrames]
    /\ passes \in [Messages -> SUBSET Messages]
    /\ overrun \subseteq Messages
    /\ \A m \in overrun : newer[m] = WindowFrames
    /\ \A m \in Messages : \A k \in passes[m] : newer[k] = WindowFrames

\* What was neither cut off nor overrun is in flight for no time: its packet or
\* its ACK is due.
Prompt ==
    /\ \A m \in Held \ cut : up = Paths
    /\ \A m \in DOMAIN pending \ (cut \cup overrun) :
           /\ pending[m] = [attempts |-> 1, age |-> 0]
           /\ <<m, 1>> \in outbox \/ m \in answers

OutageInvariant ==
    SenderInvariant /\ OutageTypeOK /\ DeadPaths /\ LivePaths /\ Deadlines

PromptInvariant ==
    OutageInvariant /\ Numbers /\ Prompt /\ ExpiresOnlyInOutage

=============================================================================
