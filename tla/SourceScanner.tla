--------------------------- MODULE SourceScanner ----------------------------
(***************************************************************************)
(* scripts/source_scanner.py: the scanner at the foreign end sends         *)
(* authenticated probes from each candidate address, the receiver at the   *)
(* Iran end counts those that come from the address they name, picks the   *)
(* best candidate and writes it into the configuration file.               *)
(*                                                                         *)
(* Probes may be lost, duplicated, delayed and reordered, and a device on  *)
(* the way may change the source address. What cannot be authenticated or  *)
(* is stale is only counted. The receiver is not told which scan a probe   *)
(* belongs to.                                                             *)
(***************************************************************************)
EXTENDS Config, Sequences, FiniteSets

CONSTANTS
    Candidates,  \* the candidate addresses, in order
    Bindable,    \* those the kernel lets the scanner bind
    Observed,    \* candidate -> source address the receiver sees
    Files,       \* the configuration files to start with
    Sizes,       \* fragment sizes the operator may write into the file
    Totals,      \* numbers of probes per candidate
    MaxProbes,   \* bound: probes per candidate, over all scans
    MaxRounds,   \* bound: runs of the receiver
    MaxEdits     \* bound: edits of the file by hand

ASSUME ScannerAssumption ==
    /\ Bindable \subseteq {Candidates[i] : i \in 1 .. Len(Candidates)}
    /\ Files \subseteq ConfigFile
    /\ Sizes \subseteq Int /\ \A n \in Sizes : ValidFragment(n)
    \* No datagram arrives from 0.0.0.0 or from a multicast address.
    /\ \A c \in Bindable : Observed[c] \in Nat /\ ValidAddress(Observed[c])
    /\ Totals \subseteq 1 .. 10000
    /\ MaxProbes \in Nat /\ MaxRounds \in Nat /\ MaxEdits \in Nat

VARIABLES
    todo, total, next,  \* run_scanner: candidates left, probes, next sequence
    scans,              \* scans begun
    planned,            \* probes per candidate of all scans so far
    sent,               \* the probes sent
    receiver,           \* where run_receiver is, "off" between two runs
    rounds,
    seen,               \* the probes counted
    best,               \* best_ip
    file, backup, temp, \* the configuration, its .bak and the temporary file
    data,               \* what is to be written
    edits,
    previous,           \* history: the file before the last update of it
    intact              \* history: nothing came between the last update, or
                        \* the one under way, and the file

scanner == <<todo, total, next, scans, planned, sent>>
disk    == <<file, backup, temp>>
admin   == <<edits, previous, intact>>
vars    == <<scanner, receiver, rounds, seen, best, disk, data, admin>>

NoFile == [role |-> "none"]

\* Mode 0600, which mkstemp gives.
Private == 384

Init ==
    /\ todo = <<>> /\ total = 0 /\ next = 1 /\ scans = 0 /\ planned = 0
    /\ sent = {} /\ seen = {} /\ best = None
    /\ receiver = "off" /\ rounds = 0
    /\ file \in Files /\ backup = NoFile /\ temp = NoFile /\ data = NoFile
    /\ edits = 0 /\ previous = file /\ intact = FALSE

-----------------------------------------------------------------------------
(* run_scanner, one candidate after the other.                             *)

ScanBegins(n) ==
    /\ todo = <<>> /\ planned + n <= MaxProbes
    /\ todo' = Candidates /\ total' = n /\ next' = 1
    /\ scans' = scans + 1 /\ planned' = planned + n
    /\ UNCHANGED <<sent, receiver, rounds, seen, best, disk, data, admin>>

\* bind raises: the candidate is reported as not local.
NotLocal ==
    /\ todo # <<>> /\ Head(todo) \notin Bindable
    /\ todo' = Tail(todo)
    /\ UNCHANGED <<total, next, scans, planned, sent, receiver, rounds, seen,
                   best, disk, data, admin>>

Probe == [candidate |-> Head(todo), sequence |-> next, total |-> total,
          scan |-> scans]

SendsProbe ==
    /\ todo # <<>> /\ Head(todo) \in Bindable
    /\ sent' = sent \cup {Probe}
    /\ next' = IF next = total THEN 1 ELSE next + 1
    /\ todo' = IF next = total THEN Tail(todo) ELSE todo
    /\ UNCHANGED <<total, scans, planned, receiver, rounds, seen, best, disk,
                   data, admin>>

\* sendto raises, and the scan with it.
ScanFails ==
    /\ todo # <<>>
    /\ todo' = <<>>
    /\ UNCHANGED <<total, next, scans, planned, sent, receiver, rounds, seen,
                   best, disk, data, admin>>

-----------------------------------------------------------------------------
(* run_receiver.                                                           *)

ReceiverBegins ==
    /\ receiver = "off" /\ rounds < MaxRounds
    /\ Loads(file) /\ file.role = "iran"
    /\ receiver' = "listening"
    /\ rounds' = rounds + 1
    /\ seen' = {} /\ best' = None
    /\ UNCHANGED <<scanner, disk, data, admin>>

\* Mutant: the address in the probe is believed.
PeerMatchesAlways(p) == TRUE

\* peer[0] == probe.candidate_ip
PeerMatches(p) == Observed[p.candidate] = p.candidate

\* decode_probe lets through what a scanner has sent. What is stale by then is
\* as good as lost.
Authentic(p) == p \in sent

\* A probe of this or an earlier scan, perhaps not for the first time.
Arrives(p) ==
    /\ receiver = "listening" /\ Authentic(p)
    /\ seen' = IF PeerMatches(p) THEN seen \cup {p} ELSE seen
    /\ UNCHANGED <<scanner, receiver, rounds, best, disk, data, admin>>

\* The statistics of a candidate.
ProbesOf(c) == {p \in seen : p.candidate = c}
Received(c) == Cardinality({p.sequence : p \in ProbesOf(c)})
Declared(c) == CHOOSE n \in {p.total : p \in ProbesOf(c)} :
                   \A p \in ProbesOf(c) : p.total <= n

\* Order of the table: less loss, then more probes, then the address.
Better(c, o) ==
    LET lossC == (Declared(c) - Received(c)) * Declared(o)
        lossO == (Declared(o) - Received(o)) * Declared(c)
    IN  \/ lossC < lossO
        \/ lossC = lossO /\ Received(c) > Received(o)
        \/ lossC = lossO /\ Received(c) = Received(o) /\ c <= o

\* Mutant: the loss is not looked at.
QualifiesByCount(c) == Received(c) >= 3 /\ Declared(c) >= 3

\* At least three probes and at most 20 percent loss.
Qualifies(c) ==
    /\ Received(c) >= 3 /\ Declared(c) >= 3
    /\ 5 * (Declared(c) - Received(c)) <= Declared(c)

\* _print_receiver_table: the first of the table, if it qualifies.
Chosen ==
    LET heard == {p.candidate : p \in seen}
    IN  {c \in heard : Qualifies(c) /\ \A o \in heard : Better(c, o)}

\* The duration is over, or the operator interrupts. The operator has asked
\* for an update; without a candidate it is refused.
ReceiverEnds ==
    /\ receiver = "listening"
    /\ IF Chosen = {} THEN receiver' = "off" /\ UNCHANGED best
       ELSE receiver' = "read" /\ best' \in Chosen
    /\ UNCHANGED <<scanner, rounds, seen, disk, data, admin>>

-----------------------------------------------------------------------------
(* _atomic_update_iran_config, step by step.                               *)

UpdateReads ==
    /\ receiver = "read"
    /\ Loads(file) /\ file.role = "iran"
    /\ data' = [file EXCEPT !.source = best]
    /\ intact' = TRUE
    /\ receiver' = "backup"
    /\ UNCHANGED <<scanner, rounds, seen, best, disk, edits, previous>>

UpdateBacksUp ==
    /\ receiver = "backup"
    /\ backup' = file
    /\ receiver' = "write"
    /\ UNCHANGED <<scanner, rounds, seen, best, file, temp, data, admin>>

\* mkstemp makes the file private; it is written, flushed and synced.
UpdateWrites ==
    /\ receiver = "write"
    /\ temp' = [data EXCEPT !.mode = Private]
    /\ receiver' = "chmod"
    /\ UNCHANGED <<scanner, rounds, seen, best, file, backup, data, admin>>

\* Mutant: the mode is left as it is.
UpdateSkipsChmod ==
    /\ receiver = "chmod"
    /\ receiver' = "replace"
    /\ UNCHANGED <<scanner, rounds, seen, best, disk, data, admin>>

UpdateChmods ==
    /\ receiver = "chmod"
    /\ temp' = [temp EXCEPT !.mode = file.mode]
    /\ receiver' = "replace"
    /\ UNCHANGED <<scanner, rounds, seen, best, file, backup, data, admin>>

UpdateReplaces ==
    /\ receiver = "replace"
    /\ previous' = file
    /\ file' = temp /\ temp' = NoFile
    /\ receiver' = "off"
    /\ UNCHANGED <<scanner, rounds, seen, best, backup, data, edits, intact>>

\* A step raises: the temporary file is removed on the way out. The process
\* dies: it stays. A copy that breaks off leaves half a backup. What a loss of
\* power does to files not yet on disk (neither the backup nor the directory is
\* synced) is not modelled.
UpdateBreaksOff ==
    /\ receiver \notin {"off", "listening"}
    /\ receiver' = "off"
    /\ temp' \in {NoFile, temp}
    /\ backup' \in (IF receiver = "backup" THEN {backup, NoFile} ELSE {backup})
    /\ intact' = FALSE
    /\ UNCHANGED <<scanner, rounds, seen, best, file, data, edits, previous>>

-----------------------------------------------------------------------------

\* The operator saves another valid file at any time. If an update is under
\* way, it has read the old one and will write it back.
Edit(size) ==
    /\ edits < MaxEdits /\ Loads(file) /\ size # file.fragment
    /\ edits' = edits + 1
    /\ file' = [file EXCEPT !.fragment = size]
    /\ intact' = FALSE
    /\ UNCHANGED <<scanner, receiver, rounds, seen, best, backup, temp, data,
                   previous>>

Next ==
    \/ \E n \in Totals : ScanBegins(n)
    \/ NotLocal \/ SendsProbe \/ ScanFails
    \/ ReceiverBegins \/ ReceiverEnds
    \/ \E p \in sent : Arrives(p)
    \/ UpdateReads \/ UpdateBacksUp \/ UpdateWrites
    \/ UpdateChmods \/ UpdateReplaces \/ UpdateBreaksOff
    \/ \E size \in Sizes : Edit(size)

Spec == Init /\ [][Next]_vars

-----------------------------------------------------------------------------
(* Properties.                                                             *)

\* Whatever address wins, and wherever the update breaks off, load_config
\* accepts the content of the file that is there, although it refuses addresses
\* that the scanner can bind and the receiver can be told about, such as
\* 0.0.0.0. (Whether the service may read the file is a matter of its owner.)
ConfigStillLoads == rounds > 0 => Loads(file)

\* A chosen address is one from which the receiver really got at least three
\* probes; and, when there was one scan, at least four fifths of those sent. Of
\* several scans the receiver counts the sequence numbers together, and nothing
\* is claimed about the share of their probes.
ChosenDelivers ==
    receiver \notin {"off", "listening"} =>
        LET got == {p \in seen : p.candidate = best /\ Observed[best] = best}
            out == {p \in sent : p.candidate = best}
        IN  /\ Cardinality(got) >= 3
            /\ scans = 1 => 5 * Cardinality(got) >= 4 * Cardinality(out)

\* After an update that neither broke off nor met an edit, the backup is the
\* file from before it, and the two differ in the source address only.
BackupIsPrevious ==
    receiver = "off" /\ intact =>
        /\ backup = previous
        /\ file = [previous EXCEPT !.source = file.source]

\* A file that was accepted, before or after an update, lets the agent carry
\* every message of up to MAX_MESSAGE_SIZE in packets below the MTU.
AcceptedCarries == rounds > 0 => Carries(file.fragment)

-----------------------------------------------------------------------------
(* The inductive invariants behind ConfigStillLoads, BackupIsPrevious and  *)
(* AcceptedCarries, and behind ChosenDelivers.                             *)

Updating == {"read", "backup", "write", "chmod", "replace"}

\* Only probes that came from where they say are counted, so what is chosen is
\* an address that datagrams come from.
Heard ==
    /\ \A p \in sent : p.candidate \in Bindable
    /\ \A p \in seen :
           p.candidate \in Bindable /\ Observed[p.candidate] = p.candidate
    /\ receiver \in Updating => best \in Nat /\ ValidAddress(best)

\* What is on its way into the file loads, as the file does.
Loadable ==
    /\ file \in ConfigFile /\ rounds \in Nat
    /\ receiver # "off" => rounds > 0
    /\ rounds > 0 => Loads(file)
    /\ receiver \in Updating \ {"read"} => data \in ConfigFile /\ Loads(data)
    /\ receiver \in {"chmod", "replace"} => temp \in ConfigFile /\ Loads(temp)

\* How the update that nothing disturbs gets from the file to its successor.
Undoable ==
    /\ intact \in BOOLEAN
    /\ receiver \in {"off", "listening", "read"} /\ intact =>
           backup = previous /\ file = [previous EXCEPT !.source = file.source]
    /\ receiver \in Updating \ {"read"} /\ intact =>
           data = [file EXCEPT !.source = best]
    /\ receiver \in {"write", "chmod", "replace"} /\ intact => backup = file
    /\ receiver = "chmod" /\ intact => temp = [data EXCEPT !.mode = Private]
    /\ receiver = "replace" /\ intact => temp = data

ScannerInvariant == Heard /\ Loadable /\ Undoable

\* The probes of one scan differ in sequence and candidate only, those of the
\* last scan carry its number of probes, and an update is about a candidate
\* that qualifies by what has been counted since the receiver began.
Counted ==
    /\ receiver \in {"off", "listening"} \cup Updating
    /\ seen \subseteq sent /\ IsFiniteSet(sent)
    /\ sent \subseteq [candidate : Bindable, sequence : Nat, total : Nat,
                       scan : Nat]
    /\ \A p \in sent :
           /\ p.sequence \in 1 .. p.total /\ p.scan \in 1 .. scans
           /\ p.scan = scans => p.total = total
    /\ scans \in Nat
    /\ todo # <<>> => scans > 0 /\ total \in Totals /\ next \in 1 .. total
    /\ receiver \in Updating =>
           Qualifies(best) /\ \E p \in seen : p.candidate = best

DeliveryInvariant == Heard /\ Counted

=============================================================================
