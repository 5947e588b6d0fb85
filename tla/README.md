# h3ntun: TLA+ models, model checking and proofs

h3ntun carries UDP datagrams between two hosts over two separate one-way
paths: the *Iran* agent sends on the uplink and receives on the downlink, the
*foreign* agent the other way round. This directory holds TLA+ models of the
parts of the program that decide, remember and wait, the TLC configurations
that check them on small instances, and TLAPS proofs for every instance.

`PROJECT.json` lists components, runs, mutants, the correspondence between
definitions and source lines, findings, hazards and theorems.

## 1. Inventory

| part | state | operations | hard because |
|---|---|---|---|
| replay window, `protocol.ReplayWindow` | session, retired sessions, highest, bitmap | `accept`, `snapshot`, `restore` | edges of the window; sessions that come and go |
| checkpoint writer, `protocol.PersistentReplayWindow` | one-slot queue, counters, back-off, stop flag, file | `accept`, `_writer_loop`, `_write_snapshot`, `close`, `stats`, `_load` | a condition variable, failing writes, kills, loss of power, a close with a timeout |
| frame codec, `protocol.FrameCodec` | session, key | `encode`, `decode`, ACK payloads | nonces must never repeat; two sets of checks must agree; timestamps age |
| sender, `reliability.ReliableSender` | queue, flights, congestion window | `enqueue`, `acknowledge`, `pump` | three threads; retries, late ACKs, bounds |
| fragmentation, `reliability.fragment_message` | none | cut, parity | short last piece, empty payload |
| reassembler, `reliability.Reassembler` | open assemblies, completed messages | `add`, `cleanup`, `is_completed` | timeouts, capacity, late fragments |
| agents, `agent.IranAgent`, `agent.ForeignAgent` | all of the above, counters, inner peer | inner, receive, keepalive and reliability loops | loss, duplication, reordering, restarts, outages longer than the retries |
| lifecycle, `agent.BaseAgent`, `cli.run_agent` | stop event, threads, sockets | `start`, `persist_loop`, `stop` | joins with timeouts, threads that die |
| metrics, `metrics.py` | one dictionary, one file | `set`, `increment`, `persist` | read under one lock, written under another |
| health, `health.py` | none: it judges time stamps of the metrics | `is_healthy`, the HTTP server | stamps are set by several kinds of traffic; shut down without a timeout |
| configuration, `config.py` | none | `load_config` | ranges that other modules rely on |
| `scripts/source_scanner.py` | probes heard per candidate, configuration file and its backup | scan, receive, rank, update | several scans, probes from elsewhere, an update that breaks off or meets an editor |
| `scripts/setup-iran-network.sh` | state files | set, restore | interrupted half way; two shells at once |
| CLI tools, raw packet builder, source NAT helper, loopback lab, installers | none or files | see there | mostly sequential |

Interaction: an application datagram enters `inner_loop`, is numbered, cut and
encoded (`build_data_packets`), queued (`enqueue`) and sent by the reliability
thread (`pump`, `_transport_send`). The peer's receive thread decodes it, asks
the replay window, gives it to the reassembler, hands a complete message to its
application and sends an ACK on its own path; the ACK passes the same receive
steps at the sender and ends in `acknowledge`. The checkpoint writer, the
metrics writer and the health server run beside them. Every frame sent or
received stamps the metrics, which the health server judges. The scanner
changes the configuration that an agent reads when it starts.

What makes each part correct: the window rejects what it accepted and nothing
else; a checkpoint is durable when it says so and never goes back; no message
is lost by the sender, sent too often or out of order; reassembly returns what
was sent, once, within its limits; an acknowledgement means something; an
outage that is over stays over, within the limits of section 6; health tells a
working tunnel from a dead one; a stop ends and leaves the truth behind; an
accepted configuration can carry every message; a chosen source works and its
update can be undone; a rollback restores what was there, where it can (section
6).

## 2. Modules

| module | models | composed of |
|---|---|---|
| `ReplayWindow` | the window's decision, as operators on a record | |
| `ReplayWindowProofs` | lemmas about it, for the two modules that use it | |
| `ReplayCheckpoint` | `PersistentReplayWindow`, its threads and its disk | `ReplayWindow` |
| `ReplayCheckpointProofs` | theorems about `ReplayCheckpoint` | `ReplayWindowProofs` |
| `MessageChannel` | what the sender promises: a bounded channel (abstract) | |
| `ReliableSender` | `ReliableSender` and the loop that drives it | implements `MessageChannel` |
| `Outage` | both agents over time and failing paths: packet age, keepalive, health | `ReliableSender` |
| `ReliableSenderProofs` | theorems about `ReliableSender`, the refinement among them, and about `Outage` | |
| `FrameCodec` | `encode`, `decode`, `next_sequence` | |
| `FrameCodecProofs` | theorems about `FrameCodec` | |
| `Fragmentation` | `fragment_message`, `_assemble` on real payloads | |
| `Reassembler` | the two tables with their clocks and limits | |
| `ReassemblerProofs` | theorems about `Reassembler` and `Fragmentation` | |
| `Tunnel` | both agents, both paths, restarts | `ReplayWindow` |
| `TunnelProofs` | theorems about `Tunnel` | `ReplayWindowProofs` |
| `AgentLifecycle` | threads, stop, published statistics | |
| `AgentLifecycleProofs` | theorems about `AgentLifecycle` | |
| `Config` | what `load_config` accepts, as operators on a record | |
| `SourceScanner` | scanner, receiver and the update of the configuration | `Config` |
| `NetworkSetup` | the rollback state of `setup-iran-network.sh` | |
| `ScriptsProofs` | theorems about `Config`, `SourceScanner` and `NetworkSetup` | |
| `MC*` | small instances for TLC | |

Conventions. A `with self._lock` or `with self._condition` block is one step; a
thread is cut where it releases a lock, does I/O or calls out. Variables keep
the code's names where TLA+ allows. Variables and values marked *history* are
not in the code and no guard reads them. Definitions whose comment begins with
*Mutant* are not used by any specification: they are the plausible mistakes the
properties are tested against.

### ReplayWindow and ReplayCheckpoint

The bitmap is the set of its one bits; `ShiftLeft` masks it like the code. A
snapshot in the slot is its generation, the window, the frames that window saw
(history) and the generation of the oldest frame waiting, which stands for
`queued_at`. The clock is two flags: `aged` (the interval has passed since the
last attempt) and `cooling` (the back-off after a failure has not). `file` is
what a running process reads back; `possible` is what may be there after the
host itself goes down: the replacement of a file is certain only after the
sync of its directory. `WriterFails` may strike before or after `os.replace`.
Restarts load the file; `_load` accepts only what the writer wrote, so corrupt
and foreign files, which it refuses, are not states of the model.

### ReliableSender and MessageChannel

Time is the age, in ticks, of each flight. The congestion window is an integer
number of `1/Unit` messages, rounded down where the code has a float: halving
n times and clamping at one each time is one division clamped once. With
`Unit = 100`, as in the `sender` run, a window halved to one grows through 2,
2.5 and 2.9 to 3.24, as in the code, and is clamped at a `max_window` of three. `HandOver`
is the loop over the packets after the lock was released, so ACKs interleave.
An ACK needs a packet handed over. ACKs of other sessions, of unknown and of
settled messages change nothing and are stutters.

`MessageChannel` has no timers, packets or windows: messages are offered,
refused only by a full channel, taken in order, and then acknowledged or lost.
The refinement mapping of `ImplementsChannel` is `offered <- made`, `waiting <-
queue`, `taken <- DOMAIN pending`, and `acked` and `lost` are the messages with
these fates. One `pump` is one `Turn`: what it gives up and what it admits.
Retransmissions, back-off and time are stutters.

### Outage

`Outage` adds to the sender the age and the number of each message. `send_data`
encodes a message once, when it is enqueued, so that its timestamp ages in the
queue and through all retries; ACK, PING and PONG are encoded when sent. Either
path may fail and be repaired at any time. A tick is long against a round trip,
so time passes only when nothing is due (`Quiet`): no packet to hand over, no
answer under way, no keepalive, no work for `pump`. A working path loses nothing
(loss and reordering are in `Tunnel`), a message is one frame, the clocks of
the hosts agree, and no agent restarts. `got` is what foreign has received: a
replay is answered but does not stamp `last_uplink_at`.

A message also takes its number when it is enqueued, while the ACKs for traffic
from foreign (`DataDown`), the PINGs and the messages offered later take newer
ones; the former go out at once. `newer` counts them, `passes` has the messages
that the arrival of a message will push out of the replay window
(`WindowFrames` wide), and `overrun` those pushed out before they arrived,
which `Transmits` then rejects at every attempt. That the peer answers from its
completed table as long as the sender tries is assumed.

`DataDown` and its ACKs stamp too, and Iran's health counts any downlink
datagram. The assumption `Keepalive <= HealthTimeout` is the operator's:
`load_config` does not check it, and with a longer keepalive an idle tunnel
that works reports itself unhealthy.

### FrameCodec

A header is a record, a sealed box remembers the nonce and the header it was
sealed with, and opens under nothing else. The digest in the nonce is an
arbitrary operator: the run lets it collide always, so that uniqueness must
come from the counter alone. The path delays frames or changes one field.
`EncodeRefuses` and `DecodeRefuses` are translated each from its own lines
(`protocol.py:136-154` and `195-220`): one looks at signed arguments of a
caller, the other at unsigned fields off the wire.
Across sessions the code relies on 64 random bits, which is not modelled.

### Fragmentation and Reassembler

`Fragmentation` follows one message and its actual content; `Reassembler`
follows many messages and no content, and uses that any n of n fragments and
their parity complete a message, which is a theorem about `Fragmentation`
(`DeliveredWhenPossible`). Its frames come at most once, because
the replay window is in front of it. `min` over equal times is a free choice.

### Tunnel

`net` holds every frame ever sent: loss, duplication, delay and reordering are
the freedom to receive any of them at any time or never. Timeouts of flights,
assemblies and completed entries may come at any time. Each process gets a new
session number; counters start at zero instead of at random, which no property
can tell. The sequences of one message are taken in one step; in the code other
threads may take some in between, which only leaves gaps. `saved` is what a
crash would leave of the window (see `ReplayCheckpoint` for how it gets there);
a clean restart keeps all of it. Both agents have a `replay_state_file`, as by
default; `load_config` also takes an empty one (`config.py:210-214`), without
which nothing is kept and even a clean restart forgets: `AtMostOnce` is not
about that configuration. `crashes` and `deliveries` are counted for each agent.
`HandToApplication` may fail: no inner peer,
or the inner socket refuses. The timestamp window of `decode` is in `Outage`;
here a frame too old for it counts as lost.

### AgentLifecycle

All threads that `spawn` lists are there, with what their loops call and what
their handlers catch: `Raises` has the exceptions that a call can raise, and
`Catches` those that the `except` clauses around it name. An exception that is
not caught ends the thread (`Works`), and nothing restarts it. `recvfrom` may
raise an `OSError` at any time, upon which both receiving loops break
(`RecvRaises`); `unreadable` remembers whose did before a stop.

Statistics are one number, the checkpoint lag. Four threads read it under the
lock of the replay window and write it under that of the metrics. Joins may
run into their timeout at any time; `late` remembers that. `shutdown()` of the
health server has no timeout: the main thread waits until `serve_forever` has
left its loop. The process exits when `stop` has returned, and the daemon
threads with it.

### Config and SourceScanner

A configuration file is a record of what the checks of `load_config` look at:
role, lengths of the credentials, the smallest time, sizes, limits, the source
address, and the permissions of the file. Syntax, host names and ports are
single independent checks and left out. `Carries` is what the other modules
expect of an accepted fragment size.

In `SourceScanner` a scan sends numbered probes from each candidate in turn; a
candidate that cannot be bound is skipped, a send that raises ends the scan.
Probes may be lost, late, repeated, or arrive with another source address
(`Observed`). The receiver keeps one set of sequence numbers for each candidate
and is not told which scan a probe belongs to. The update is cut at every system
call: read, backup, temporary file, `chmod`, `replace`; it may break off before
each, and the operator may save another valid file in between. That a file
*loads* means that `load_config` accepts its content; whether the service may
read it depends on its owner, which is not modelled. Nor is a loss of power:
the temporary file is synced, the backup (`source_scanner.py:178`) and the
directory are not. The parsing of the candidate list is left out.

### NetworkSetup

One setting at a time, `rp_filter` or the /32 routes to a host, with every
command of the script a step and an interrupt possible before each. A setting is
a table from metrics to values, as in the kernel: `ip route show` prints it in
the order of the metrics and the script keeps the first line, `ip route replace`
exchanges or adds the route of the metric it names (0 if none), and `ip route
del` takes the first. `rp_filter` is the value of metric 0. The type of service,
by which routes also differ, is left out: it acts as the metric does.

`> file` creates the file before its command prints. The failure of a deletion
is swallowed by `|| true` (`DeleteFails`). Nothing keeps two invocations apart:
each shell has its own place in the script, and they share the kernel's setting
and the state file. A shell that prints into a file another one has removed
prints into nothing. `overlap` remembers that a change met another invocation,
or that any two met about a route; `broken` that an invocation ended while it
saved routes, or that a deletion failed.

## 3. Runs

| run | bounds | checks |
|---|---|---|
| `checkpoint` | window 2, 2 sessions, 3 sequences, 2 accepted frames per process, 1 restart; with fairness | `RejectsHistory`, `FreshFramesPass`, `LagIsExact`, `CleanShutdownKeepsAll`, `NoLostWakeup`, `CommittedNeverReplayed`, `CheckpointNeverRegresses`, `EventuallyPersisted` |
| `sender` | 6 messages, 4 held, window 3 at the start and at most, halved by timeouts and growing by fractions, 1 retry; with fairness | `Accounting`, `RetryBudget`, `BoundedMemory`, `WindowGates`, the refinement `ImplementsChannel`, `EventuallySettled` |
| `outage` | 3 messages, 2 held, 1 retry, timestamp window 3 ticks, replay window 3 frames, keepalive and health timeout 3, both paths or one up at the start, 1 failure or repair | `SettledInTime`, `ExpiresOnlyInOutage`, `HealthIsTrue` |
| `fragmentation` | fragments of 2 bits, 3 fragments, payloads of 0 to 7 bits | `DeliversTheOriginal`, `DeliversWhenPossible`, `HonestIsNeverRefused` |
| `reassembler` | 3 messages of two fragments and 2 of one, 2 assemblies, 4 completed, time 3; messages of a kind interchangeable | `DeliveredOnce`, `TablesBounded`, `ForgetsOnlyWhenFull`, `DropsAreJustified` |
| `codec` | 2 threads, 2 frames, all fields | `NonceNeverReused`, `DecodedWasSent`, `EncodedIsDecodable` |
| `lifecycle` | 1 frame; with fairness | `ReceiverDiesLate`, `ThreadsServe`, `CleanStopReportsZero`, `StopEnds`, `ShownConverges` |
| `network_setup` | `rp_filter` or routes with two metrics, 3 values, 2 shells, 6 invocations, 2 interrupts or failures | `RestoreSurvives`, `OnlyLoosened` |
| `scanner` | 4 candidates (0.0.0.0, two addresses of the host, one that is not), 3 or 5 probes each, at most 6 over all scans, 1 run of the receiver, 1 edit, files at the ends of every range | `ConfigStillLoads`, `ChosenDelivers`, `BackupIsPrevious`, `AcceptedCarries` |
| `tunnel` | five scenarios: a message of 2 fragments and parity with 1 crash of either agent; the same with 1 restart and a single ACK per process; a message each way; a message of 1 fragment with 1 restart; without reliability a message each way of 1 or 2 fragments and 1 ping | `DuplicateNeedsCrash`, `AckMeansReassembled` |
| `tunnel_lockout`, `outage_backlog` | smallest that show it | expected violations, section 6 |

`Tunnel` takes its bounds from a *scenario*, chosen in the initial state, so
that one run can take each of them far enough.

Why the bounds are enough. A window of two has an edge, an inside and an
outside; two frames fill the slot and the write under way, which is all the
pipeline has, and a failed write then meets a newer snapshot. The sender of
`sender` has a place more than its largest window, at which it starts: the clamp
acts on the first ACK, and again when a window halved by timeouts has grown back
(1, 2, 2.5, 2.9, and 3.24, which becomes 3). Six messages fill the
window and the queue and leave some to come after: the flights, the queue and
the window all stand at their limits, with and without a timeout in the same
pump. Payloads
reach one bit above the largest message, so every count of fragments occurs
with a full and with a short last piece. Five messages are one more than the
completed table holds.

In `outage` a path may be down at the start, so that one change is an outage
that ends or one that begins, on either path, before, during or after the
sending; three messages with two places let one be refused or come after the
outage; a replay window of three is overrun by two messages and an ACK or PING.
`(MaxPending - 1) * Lifetime <= Skew`: what can be ahead of a message in the
queue lives out its time within the timestamp window. `outage_backlog` breaks
that relation, as the defaults do, and has a replay window too wide to matter.
A keepalive as long as the health timeout is the longest that leaves a working
tunnel healthy. The frame of `lifecycle` raises the lag
and its checkpoint lowers it, so that each publisher may hold the old value or
the new one; the proofs of its safety properties have no bound on frames.

Three of three and four of five are the thresholds of the ranking; six probes
make two scans of three, whose losses can hide each other. Two shells are
enough for every race, because a command touches one file and one setting; two
metrics are one that the script names and one that it does not.
Except for the liveness properties, the proofs of section 5 remove the bounds
altogether.

Type invariants that a theorem covers are not run again.

Deadlock checking is off where the model may stop: when all bounded inputs are
used up (`Tunnel`, `FrameCodec`, `Fragmentation`, `NetworkSetup`,
`SourceScanner`) or the process has stopped (`ReplayCheckpoint`,
`AgentLifecycle`). `ReliableSender`, `Reassembler` and `Outage` are checked for
it: there, time at least must always be able to go on.

Every property has a mutant, a plausible mistake in a mapped definition, under
which TLC finds it violated.

## 4. Fairness

- `ReplayCheckpoint`: the writer thread is scheduled (weak fairness) while the
  process lives, the interval and the back-off pass, and a disk operation tried
  again and again succeeds in the end (strong fairness): the writer retries for
  ever, so nothing less would do. No frame, close or restart is promised.
- `ReliableSender`: the reliability thread runs for ever and time passes. No
  ACK is promised.
- `AgentLifecycle`: `StopEnds` assumes that the main thread and the health
  server run, because `shutdown()` waits for that one without a timeout; every
  other thread may hang. `ShownConverges` states its own, stronger hypothesis,
  `ThreadsRun`: the threads that publish run and a checkpoint retried for ever
  succeeds.
- The other modules check safety only. `Outage` has its deadlines as safety
  properties, because its clock waits for what is due.

## 5. Proofs

Every safety property that a passing run checks is a theorem for all values of
the constants. The assumptions are those named in the modules: a window of at
least one bit, a `None` that is no session, limits that fit one another, natural
numbers elsewhere; `Tunnel` needs two session numbers to start with. For every
module with state there is an inductive invariant, defined at the end of
that module and checked by TLC too, and a step lemma for each of its conjuncts
or actions. None of the properties is inductive by itself; what follows says
what had to be added.

**`ReplayCheckpointProofs`.** That the window rejects its history says nothing
of the copy in the slot, which may be written, loaded and become the window.
`InductiveInvariant` therefore has the four copies in one picture. `AllSound`:
every copy (window, slot, write under way, all possible disks) rejects the
frames it covers, marks no other, and covers whatever was committed. `Pipeline`:
the copies lie behind one another and their generations leave no gap, which
gives the exact lag and the monotone checkpoints. `DiskFollows`: what the
writer's position says of the disk, which a clean close needs. `Shutdown`: what
the states of the process and of the writer say of each other. The lemmas about
the window in `ReplayWindowProofs` (`AcceptedIsRejected`, `RejectionIsStable`,
`BitsStayCovered`) are the heart: accepting a frame makes it rejected and keeps
everything rejected that was, across shifts and changes of session.

**`ReliableSenderProofs`, the sender.** `SenderInvariant` adds `Ordered` to the
properties: the queue is ascending and lies after everything sent, and a
message was sent if and only if it left the queue. Without it a pump could not
be shown to keep `Accounting` (the front of the queue must be disjoint from the
flights) nor `SentInOrder`. The lemmas `PumpFinds`, `PumpDoes` and `PumpCounts`
split a pump into the flights it keeps, the window it leaves and the messages
it admits; the counts rest on the library's theorems on finite sets. One fact
of arithmetic that the provers have no rule for, that powers of two are
positive, is the named assumption `PowersOfTwo`, which TLC evaluates.

`SenderImplementsChannel` is the refinement. Under `SenderInvariant`, a
`send_data` is an `Offer` (`SendDataOffers`: the sender is full exactly when the
channel is), an ACK of a flight is an `Arrives` (`AckSettles`), and a pump is
a `Turn` (`PumpTurns`: what it gives up is in flight, and what it admits is the
front of the queue); the other actions leave the five mapped values alone.

**`ReliableSenderProofs`, the outage.** `OutageInvariant` extends
`SenderInvariant` to time.

- `DeadPaths`: on a dead path no ACK is under way, and the stamp that the path
  would renew is as old as the failure. `LivePaths`: if both paths worked at
  the last PING, the stamps that it and its PONG renew are no older than it.
  `HealthIsTold` follows from the two. A step that only carries frames keeps
  them because of `Renews`: it resets stamps, and only over paths that work.
- `Deadlines` is a potential: for a flight, its age plus what is left of its
  attempts; for the message at place `i` of the queue, its age plus `i`
  lifetimes plus what is left of *any* flight. Neither exceeds
  `MaxPending * Lifetime`. A retransmission does not raise what is left, an
  admission spends one of the `i` lifetimes, and time passes only while a queue
  that is not empty has a flight in front of it. `SettledOnTime` follows.
- `Numbers`: the replay window leaves a message behind only after
  `WindowFrames` newer numbers.
- `Prompt`: a message that neither a failure nor the replay window has met is
  held while both paths work, and its first packet or the ACK to it is due
  before time passes. Such a packet is fresh if all that could be ahead of it
  lived out its time within the timestamp window. Hence the hypothesis of
  `GivenUpOnlyInOutage`, `(MaxPending - 1) * Lifetime <= Skew`, and its second
  excuse, a replay window of newer numbers; finding 2 is what happens without
  the hypothesis.

`Lifetime` is a sum defined by recursion. That the recursive function has the
values it should (`ElapsedIs`, `ElapsedType`) is proved from the existence of
least elements (`LeastExists`): the first number for which it fails leads to a
contradiction.

**`FrameCodecProofs`.** `Numbered`: a sequence number is held by one thread or
has left in one packet. That is all that `NoncesAreUnique` needs, whatever the
digest does. `Sealed`: every packet is what `encode` made of some header, and a
damaged one does not carry the header it was sealed with, so it does not open.
`ChecksAgree` proves that the two sets of checks, each translated from its own
lines, accept the same headers: `decode` has no lower bounds, because what
`encode` packs is unsigned, and demands besides that the packet ends with the
box.

**`ReassemblerProofs`.** `Accounted` counts frames: a message that was returned
used up as many as it needs, and what is held of it came besides. There is at
most one more frame than needed, so too few are left to complete it again, even
after its entry has expired (`CompletedOnce`). `RememberedOnce` and the limits
on both tables give `BoundedTables`; `PurgedIs`, `CappedIs` and `MovedIs`
describe the three ways in which entries leave or move. The two action
properties (`JustifiedDrops`, `ForgottenWhenFull`) follow from the invariant.

**`ReassemblerProofs`, the content.** `ContentInvariant` says that the
receiver's state is a function of the payload and of the indices that came: an
honest fragment never contradicts what is held (`Stored`), and what is held
assembles to the payload exactly when it is enough (`AssembledIs`). Two facts
carry this. `JoinedPieces`: the pieces end where the next ones begin (`Ends`),
so joined in order they are the payload; the recursion that joins them has one
solution, shown at its least counterexample. `ParityRecovers`: taking one piece
out of the exclusive or changes it by that piece's bit, whichever piece is
short. That no honest fragment is refused (`HonestAccepted`) needs the code's
relation between its limits, `MaxMessageSize <= FragmentSize * MaxFragments`
(60000 and 256 times at least 256).

**`TunnelProofs`.** `UsedUp` is the same idea behind a lossy, duplicating and
reordering path: `Spent` are the fragments of a message that the window of the
receiver would not take again, and a message delivered more often than its
receiver crashed has as many of them, those still held not counted, as it takes
to assemble it (`NotTwice`, which needs the lemmas on the window). A crash of
the receiver falls back to an older window and gives fragments back, but is
itself counted; one of the sender touches neither side of the inequality
(`UsedUpCrash`).
`Named`: a key and an index determine a fragment, across restarts. `Truthful`:
every ACK in the network, and every entry from which one is sent, belongs to a
message that was reassembled. From these follow `AtMostOnce` and `AcksAreTrue`.

**`AgentLifecycleProofs`.** `WorkStep` compares, for each call a loop makes,
the exceptions it raises with those its handlers name; only `send_data` without
reliability has one too many, so `SendsCostNoThread` follows. `Phases` ties the
flags to the progress of the main thread, `Ends` says why a thread is gone and
that none is left when no join was late, and `LastWords` follows the last
statistics from the closed window through the metrics into the file.

**`ScriptsProofs`, `source_scanner.py`.** `FragmentsBounded` bounds the integer
division of `fragment_message` for every accepted size and every message length;
`LoadedCarries` concludes that a file that loads never makes the agent refuse a
message for its number of fragments nor send a packet above the MTU.
`ScannerInvariant` has three parts. `Heard`: only probes that come from the
address they name are counted, so that a chosen address is one datagrams come
from, and therefore one `load_config` accepts. `Loadable`: the file, the data
read and the temporary file all load at the steps at which they matter.
`Undoable`: what the steps of an undisturbed update say of file, data, temporary
file and backup. `Counted` is for `ChosenHasDelivered`: the probes of one scan
differ in their sequence only, so a candidate was sent at most as many as the
number they all carry (`ScanSends`), and the receiver counts no more sequences
than it got probes (`ReceivedBound`).

**`ScriptsProofs`, `setup-iran-network.sh`**, for any number of shells.
`LooseOrInitial` follows the two values of `rp_filter` through the state file
and the shells. For the rollback, `Alone` says who can meet whom while nothing
overlaps, and `Saved` what is known of the original setting while nothing was
`broken`: until it is saved it is the setting; then the state file has its
first line, or has nothing; and a restore carries it. With several restores of
`rp_filter` at once every one of them carries it, even when another has removed
the file. `RestoreUndoes` is the algebra of the tables: putting the first line
back undoes what the script put, if that first line had no metric
(`Restorable`).

Only model-checked: liveness, because fairness is out of the prover's reach.

## 6. Findings

Two runs are expected to end in a violation; each states what the repository
says and shows what the code does.

1. `tunnel_lockout`: after a one-sided restart, a delayed frame of the old
   session, if the peer had accepted nothing of it, makes the peer retire the
   session in use, which it never follows again.
2. `outage_backlog`: a message that waits behind unanswered ones ages with
   them. If what is ahead of it can take longer than `MAX_CLOCK_SKEW_SECONDS`,
   it is stale when first sent, is rejected through all its retries, and by
   then so is the next: an outage that is over goes on in that direction,
   although both agents report healthy. With the defaults (2048 messages, 47.5 s
   each once the window is down to one, 600 s) ten minutes under traffic are
   enough.
Further observations, which no run of their own shows:

- `ip -4 route replace` names no metric (`setup-iran-network.sh:100`), so a /32
  route that has one stays and the script's own is added before it. The restore
  puts the first one back, where it was all along (`:129`), leaves the added one
  in force, removes the state file and reports success. A deletion that fails
  (`:131`) is passed over in the same way.
- An invocation that ends between the creation of the state file and the output
  of `ip route show` (`:43`) leaves an empty file, which stands for: no route.
  The next set changes the route and the restore deletes it. For `rp_filter`
  the same file is refused: the setting cannot be rolled back, but nothing wrong
  is restored.
- `RestoreSurvives` is what does hold of the rollback: for `rp_filter` without
  any condition but that no set meets another invocation, for routes only if the
  first one has no metric (`Restorable`), and if no save was cut short and no
  deletion failed unseen (`broken`). The steps excluded are in the model; without
  either condition TLC finds the property violated.
- An ACK means reassembled, not delivered: a message is marked completed before
  it is handed over, and if that fails the next retransmission is answered with
  an ACK (`agent.py:338`). `AckMeansReassembled` is what holds.
- Retransmissions keep their sequence, so newer frames can push them out of the
  replay window (`protocol.py:304`); so can ACKs and PINGs what waits in the
  queue, because a message is numbered when it is enqueued. With the window of
  4096 this takes as many newer frames within the time a message waits and is
  retried, without any path being down. `ExpiresOnlyInOutage` names it as the
  second way to lose a message. A reassembly that timed out or was evicted has
  the same effect: its fragments are replays.
- A receiving loop breaks on any `OSError` of `recvfrom` (`agent.py:279`, `453`)
  and nothing restarts its thread: the agent goes on without it. `ThreadsServe`
  says that, in reliable mode, nothing else takes a thread.
- The scanner's update is a new file of whoever runs it: `os.chmod` keeps the
  permissions (`source_scanner.py:189`) but not the group that
  `install-common.sh:49` gives the configuration.
- The sequence numbers of several scans are merged, so two scans with different
  losses can look like one without (`source_scanner.py:257`): `ChosenDelivers`
  promises the loss limit for one scan only, and no property covers several.
- An edit saved while the scanner's update is under way is undone by it
  (`source_scanner.py:175`), and the backup may be of another version.
  `BackupIsPrevious` is about updates that met none and came through.

## 7. Not modelled

Cryptographic primitives; the parsing of configuration values, candidate lists
and command lines; HTTP; plain counters; the source NAT helper and the
installers (straight-line scripts); the IPv4 checksum code, which only a
self-test uses; the loopback lab and `test_asym_sandbox.py`, which are test
equipment; the ownership of files; a loss of power during the scanner's update;
routes that differ in their type of service; an empty `replay_state_file`;
clocks of the two hosts that disagree or jump. Reasons are in `PROJECT.json`.

## 8. Plan

Done: all parts of section 2 model-checked, and all their safety properties
proved.

1. An at-most-once channel implemented by `Tunnel` without crashes, with its
   refinement mapping and proof.
2. The parsing of the candidate list, and the link emulator of the loopback lab
   as a constrained path for `Tunnel`.
