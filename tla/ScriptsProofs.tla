--------------------------- MODULE ScriptsProofs ----------------------------
(***************************************************************************)
(* Proofs about the two scripts: about SourceScanner, for all candidates,  *)
(* files and numbers of probes, scans, updates and edits, and, in its last *)
(* section, about NetworkSetup, for all values, shells and numbers of      *)
(* invocations and interrupts. The scripts share nothing.                  *)
(***************************************************************************)
EXTENDS SourceScanner, NetworkSetup, FiniteSetTheorems, WellFoundedInduction,
        TLAPS

-----------------------------------------------------------------------------
(* What the limits of load_config give.                                    *)

\* No message of an allowed length needs more fragments than the header can
\* number, whatever accepted size it is cut into.
LEMMA FragmentsBounded ==
    ASSUME NEW size \in Int, ValidFragment(size),
           NEW n \in 0 .. MAX_MESSAGE_SIZE
    PROVE  FragmentCount(n, size) \in 1 .. MAX_FRAGMENTS
<1>1. size \in Nat /\ 256 <= size /\ size <= 1391
  BY DEF ValidFragment, MAX_FRAGMENT_PAYLOAD
<1>2. n \in Nat /\ n <= 60000
  BY DEF MAX_MESSAGE_SIZE
<1>3. CASE n = 0
  BY <1>3 DEF FragmentCount, MAX_FRAGMENTS
<1>4. CASE n # 0
  <2> DEFINE q == (n + size - 1) \div size
  <2>1. q \in Int /\ q * size <= n + size - 1 /\ n + size - 1 < (q + 1) * size
    BY <1>1, <1>2
  <2>2. (q + 1) * size = q * size + size
    BY <1>1, <2>1
  <2> HIDE DEF q
  <2>3. q >= 1
    <3>1. SUFFICES ASSUME q <= 0 PROVE FALSE
      BY <2>1
    <3>2. q * size <= 0
      BY <1>1, <2>1, <3>1
    <3> QED BY <1>1, <1>2, <1>4, <2>1, <2>2, <3>2
  <2>4. q <= 256
    <3>1. SUFFICES ASSUME q >= 257 PROVE FALSE
      BY <2>1
    <3>2. q * size >= 257 * size
      BY <1>1, <2>1, <3>1
    <3> QED BY <1>1, <1>2, <2>1, <3>2
  <2> QED BY <1>4, <2>1, <2>3, <2>4 DEF FragmentCount, MAX_FRAGMENTS, q
<1> QED BY <1>3, <1>4

\* Every accepted file lets the agent carry every message: fragment_message
\* never refuses one for its number of fragments, and no packet exceeds the
\* MTU.
THEOREM LoadedCarries ==
    ASSUME NEW c \in ConfigFile, Loads(c)
    PROVE  /\ Carries(c.fragment)
           /\ \A n \in 0 .. MAX_MESSAGE_SIZE :
                  FragmentCount(n, c.fragment) \in 1 .. MAX_FRAGMENTS
<1>1. c.fragment \in Int /\ ValidFragment(c.fragment)
  BY DEF Loads, ConfigFile
<1>2. \A n \in 0 .. MAX_MESSAGE_SIZE :
          FragmentCount(n, c.fragment) \in 1 .. MAX_FRAGMENTS
  BY <1>1, FragmentsBounded
<1>3. FragmentCount(MAX_MESSAGE_SIZE, c.fragment) <= MAX_FRAGMENTS
  <2>1. MAX_MESSAGE_SIZE \in 0 .. MAX_MESSAGE_SIZE
    BY DEF MAX_MESSAGE_SIZE
  <2>2. FragmentCount(MAX_MESSAGE_SIZE, c.fragment) \in 1 .. MAX_FRAGMENTS
    BY <1>2, <2>1
  <2> QED BY <2>2 DEF MAX_FRAGMENTS
<1>4. PacketSize(c.fragment) <= 1500
  BY <1>1 DEF PacketSize, ValidFragment, MAX_FRAGMENT_PAYLOAD, FRAME_OVERHEAD
<1> QED BY <1>2, <1>3, <1>4 DEF Carries

-----------------------------------------------------------------------------
(* Files that load.                                                        *)

\* An address that can be configured may replace the source.
LEMMA SourceLoads ==
    ASSUME NEW c \in ConfigFile, Loads(c), NEW a \in Nat, ValidAddress(a)
    PROVE  /\ [c EXCEPT !.source = a] \in ConfigFile
           /\ Loads([c EXCEPT !.source = a])
<1> DEFINE d == [c EXCEPT !.source = a]
<1>1. /\ d \in ConfigFile /\ d.source = a /\ d.fragment = c.fragment
      /\ d.role = c.role /\ d.tunnelId = c.tunnelId /\ d.secret = c.secret
      /\ d.shortestTime = c.shortestTime /\ d.recvBuffer = c.recvBuffer
      /\ d.retries = c.retries /\ d.pending = c.pending /\ d.batch = c.batch
  BY DEF ConfigFile
<1> HIDE DEF d
<1> ValidIdentity(c) /\ ValidLimits(c)
  BY DEF Loads
<1>2. ValidIdentity(d)
  BY <1>1 DEF ValidIdentity
<1>3. ValidLimits(d)
  BY <1>1 DEF ValidLimits
<1>4. ValidFragment(d.fragment)
  BY <1>1 DEF Loads
<1> QED BY <1>1, <1>2, <1>3, <1>4 DEF Loads, d

\* So may any mode replace the mode.
LEMMA ModeLoads ==
    ASSUME NEW c \in ConfigFile, Loads(c), NEW m \in Nat
    PROVE  /\ [c EXCEPT !.mode = m] \in ConfigFile
           /\ Loads([c EXCEPT !.mode = m])
<1> DEFINE d == [c EXCEPT !.mode = m]
<1>1. /\ d \in ConfigFile /\ d.source = c.source /\ d.fragment = c.fragment
      /\ d.role = c.role /\ d.tunnelId = c.tunnelId /\ d.secret = c.secret
      /\ d.shortestTime = c.shortestTime /\ d.recvBuffer = c.recvBuffer
      /\ d.retries = c.retries /\ d.pending = c.pending /\ d.batch = c.batch
  BY DEF ConfigFile
<1> HIDE DEF d
<1> ValidIdentity(c) /\ ValidLimits(c)
  BY DEF Loads
<1>2. ValidIdentity(d)
  BY <1>1 DEF ValidIdentity
<1>3. ValidLimits(d)
  BY <1>1 DEF ValidLimits
<1>4. ValidFragment(d.fragment)
  BY <1>1 DEF Loads
<1> QED BY <1>1, <1>2, <1>3, <1>4 DEF Loads, d

\* And a fragment size in the range, the size.
LEMMA SizeLoads ==
    ASSUME NEW c \in ConfigFile, Loads(c), NEW n \in Int, ValidFragment(n)
    PROVE  /\ [c EXCEPT !.fragment = n] \in ConfigFile
           /\ Loads([c EXCEPT !.fragment = n])
<1> DEFINE d == [c EXCEPT !.fragment = n]
<1>1. /\ d \in ConfigFile /\ d.source = c.source /\ d.fragment = n
      /\ d.role = c.role /\ d.tunnelId = c.tunnelId /\ d.secret = c.secret
      /\ d.shortestTime = c.shortestTime /\ d.recvBuffer = c.recvBuffer
      /\ d.retries = c.retries /\ d.pending = c.pending /\ d.batch = c.batch
  BY DEF ConfigFile
<1> HIDE DEF d
<1> ValidIdentity(c) /\ ValidLimits(c)
  BY DEF Loads
<1>2. ValidIdentity(d)
  BY <1>1 DEF ValidIdentity
<1>3. ValidLimits(d)
  BY <1>1 DEF ValidLimits
<1>4. ValidFragment(d.fragment)
  BY <1>1
<1> QED BY <1>1, <1>2, <1>3, <1>4 DEF Loads, d

-----------------------------------------------------------------------------
(* The steps.                                                              *)

\* Nothing has been sent, received or written.
LEMMA InitInvariant ==
    Init => ScannerInvariant
<1> SUFFICES ASSUME Init PROVE ScannerInvariant
  OBVIOUS
<1>1. Heard
  BY DEF Init, Heard, Updating
<1>2. Loadable
  BY ScannerAssumption DEF Init, Loadable, Updating
<1>3. Undoable
  BY DEF Init, Undoable, Updating
<1> QED BY <1>1, <1>2, <1>3 DEF ScannerInvariant

\* The scanner sends only from addresses it has bound, and touches nothing at
\* the other end.
LEMMA ScanStep ==
    ASSUME ScannerInvariant,
           \/ \E n \in Totals : ScanBegins(n)
           \/ NotLocal \/ SendsProbe \/ ScanFails
    PROVE  ScannerInvariant'
<1>1. /\ receiver' = receiver /\ rounds' = rounds /\ seen' = seen /\ best' = best
      /\ file' = file /\ backup' = backup /\ temp' = temp /\ data' = data
      /\ previous' = previous /\ intact' = intact
  BY DEF ScanBegins, NotLocal, SendsProbe, ScanFails, disk, admin
<1>2. \A p \in sent' : p.candidate \in Bindable
  <2>1. CASE SendsProbe
    BY <2>1 DEF ScannerInvariant, Heard, SendsProbe, Probe
  <2>2. CASE ~SendsProbe
    <3>1. sent' = sent
      BY <2>2 DEF ScanBegins, NotLocal, ScanFails
    <3> QED BY <3>1 DEF ScannerInvariant, Heard
  <2> QED BY <2>1, <2>2
<1>3. Heard'
  BY <1>1, <1>2 DEF ScannerInvariant, Heard
<1>4. Loadable' /\ Undoable'
  BY <1>1 DEF ScannerInvariant, Loadable, Undoable
<1> QED BY <1>3, <1>4 DEF ScannerInvariant

\* run_receiver: it starts with a file that loads, counts what comes from where
\* it says, and ends with a candidate it has counted.
LEMMA ReceiverStep ==
    ASSUME ScannerInvariant,
           ReceiverBegins \/ ReceiverEnds \/ (\E p \in sent : Arrives(p))
    PROVE  ScannerInvariant'
<1>1. /\ sent' = sent /\ file' = file /\ backup' = backup /\ temp' = temp
      /\ data' = data /\ previous' = previous /\ intact' = intact
  BY DEF ReceiverBegins, ReceiverEnds, Arrives, scanner, disk, admin
<1>2. Heard /\ Loadable /\ Undoable
  BY DEF ScannerInvariant
<1>3. CASE ReceiverBegins
  <2>1. receiver = "off" /\ receiver' = "listening" /\ rounds' = rounds + 1
        /\ seen' = {} /\ Loads(file)
    BY <1>3 DEF ReceiverBegins
  <2>2. Heard'
    BY <1>1, <1>2, <2>1 DEF Heard, Updating
  <2>3. Loadable'
    BY <1>1, <1>2, <2>1 DEF Loadable, Updating
  <2>4. Undoable'
    BY <1>1, <1>2, <2>1 DEF Undoable, Updating
  <2> QED BY <2>2, <2>3, <2>4 DEF ScannerInvariant
<1>4. CASE \E p \in sent : Arrives(p)
  <2>1. PICK p \in sent : Arrives(p)
    BY <1>4
  <2>2. receiver' = receiver /\ rounds' = rounds /\ best' = best
    BY <2>1 DEF Arrives
  <2>3. \A q \in seen' : /\ q.candidate \in Bindable
                          /\ Observed[q.candidate] = q.candidate
    BY <1>2, <2>1 DEF Arrives, PeerMatches, Heard
  <2>4. Heard'
    BY <1>1, <1>2, <2>2, <2>3 DEF Heard
  <2>5. Loadable' /\ Undoable'
    BY <1>1, <1>2, <2>2 DEF Loadable, Undoable
  <2> QED BY <2>4, <2>5 DEF ScannerInvariant
<1>5. CASE ReceiverEnds
  <2>1. receiver = "listening" /\ rounds' = rounds /\ seen' = seen
        /\ receiver' \in {"off", "read"}
        /\ (receiver' = "read" => best' \in Chosen)
    BY <1>5 DEF ReceiverEnds
  <2>2. receiver' = "read" => best' \in Nat /\ ValidAddress(best')
    <3> SUFFICES ASSUME receiver' = "read"
                 PROVE  best' \in Nat /\ ValidAddress(best')
      OBVIOUS
    <3>1. PICK p \in seen : p.candidate = best'
      BY <2>1 DEF Chosen
    <3>2. p.candidate \in Bindable /\ Observed[p.candidate] = p.candidate
      BY <1>2 DEF Heard
    <3>3. \A c \in Bindable : Observed[c] \in Nat /\ ValidAddress(Observed[c])
      BY ScannerAssumption
    <3>4. Observed[p.candidate] \in Nat /\ ValidAddress(Observed[p.candidate])
      BY <3>2, <3>3
    <3> QED BY <3>1, <3>2, <3>4
  <2>3. Heard'
    BY <1>1, <1>2, <2>1, <2>2 DEF Heard, Updating
  <2>4. Loadable'
    BY <1>1, <1>2, <2>1 DEF Loadable, Updating
  <2>5. Undoable'
    BY <1>1, <1>2, <2>1 DEF Undoable, Updating
  <2> QED BY <2>3, <2>4, <2>5 DEF ScannerInvariant
<1> QED BY <1>3, <1>4, <1>5

\* _atomic_update_iran_config: the new contents are built from a file that loads
\* and a counted address, and reach the file only as a whole.
LEMMA UpdateStep ==
    ASSUME ScannerInvariant,
           \/ UpdateReads \/ UpdateBacksUp \/ UpdateWrites
           \/ UpdateChmods \/ UpdateReplaces
    PROVE  ScannerInvariant'
<1>1. sent' = sent /\ seen' = seen /\ best' = best /\ rounds' = rounds
  BY DEF UpdateReads, UpdateBacksUp, UpdateWrites, UpdateChmods,
         UpdateReplaces, scanner
<1>2. Heard /\ Loadable /\ Undoable
  BY DEF ScannerInvariant
<1>3. receiver \in Updating /\ receiver' \in Updating \cup {"off"}
  BY DEF UpdateReads, UpdateBacksUp, UpdateWrites, UpdateChmods,
         UpdateReplaces, Updating
<1>4. Heard'
  BY <1>1, <1>2, <1>3 DEF Heard, Updating
<1>5. rounds > 0 /\ Loads(file) /\ file \in ConfigFile
      /\ best \in Nat /\ ValidAddress(best)
  BY <1>2, <1>3 DEF Heard, Loadable, Updating
<1>6. file.mode \in Nat
  BY <1>5 DEF ConfigFile
<1>7. CASE UpdateReads
  <2> DEFINE d == [file EXCEPT !.source = best]
  <2>1. d \in ConfigFile /\ Loads(d)
    BY <1>5, SourceLoads
  <2>2. receiver' = "backup" /\ file' = file /\ data' = d /\ intact' = TRUE
    BY <1>7 DEF UpdateReads, disk
  <2> HIDE DEF d
  <2>3. Loadable'
    BY <1>1, <1>2, <1>5, <2>1, <2>2 DEF Loadable, Updating
  <2>4. Undoable'
    BY <1>1, <2>2 DEF Undoable, Updating, d
  <2> QED BY <1>4, <2>3, <2>4 DEF ScannerInvariant
<1>8. CASE UpdateBacksUp
  <2>1. /\ receiver = "backup" /\ receiver' = "write" /\ backup' = file
        /\ file' = file /\ data' = data /\ intact' = intact
    BY <1>8 DEF UpdateBacksUp, admin
  <2>2. Loadable'
    BY <1>1, <1>2, <1>5, <2>1 DEF Loadable, Updating
  <2>3. Undoable'
    BY <1>1, <1>2, <2>1 DEF Undoable, Updating
  <2> QED BY <1>4, <2>2, <2>3 DEF ScannerInvariant
<1>9. CASE UpdateWrites
  <2> DEFINE t == [data EXCEPT !.mode = Private]
  <2>1. /\ receiver = "write" /\ receiver' = "chmod" /\ temp' = t
        /\ file' = file /\ data' = data /\ backup' = backup
        /\ intact' = intact
    BY <1>9 DEF UpdateWrites, admin
  <2>2. data \in ConfigFile /\ Loads(data)
    BY <1>2, <2>1 DEF Loadable, Updating
  <2>3. t \in ConfigFile /\ Loads(t)
    <3>1. Private \in Nat
      BY DEF Private
    <3> QED BY <2>2, <3>1, ModeLoads
  <2>4. intact => data = [file EXCEPT !.source = best] /\ backup = file
    BY <1>2, <2>1 DEF Undoable, Updating
  <2> HIDE DEF t
  <2>5. Loadable'
    BY <1>1, <1>2, <1>5, <2>1, <2>2, <2>3 DEF Loadable, Updating
  <2>6. temp' = [data' EXCEPT !.mode = Private]
    BY <2>1 DEF t
  <2>7. Undoable'
    BY <1>1, <1>2, <2>1, <2>4, <2>6 DEF Undoable, Updating
  <2> QED BY <1>4, <2>5, <2>7 DEF ScannerInvariant
<1>10. CASE UpdateChmods
  <2> DEFINE t == [temp EXCEPT !.mode = file.mode]
  <2>1. /\ receiver = "chmod" /\ receiver' = "replace" /\ temp' = t
        /\ file' = file /\ data' = data /\ backup' = backup
        /\ intact' = intact
    BY <1>10 DEF UpdateChmods, admin
  <2>2. /\ data \in ConfigFile /\ Loads(data)
        /\ temp \in ConfigFile /\ Loads(temp)
    BY <1>2, <2>1 DEF Loadable, Updating
  <2>3. t \in ConfigFile /\ Loads(t)
    BY <1>6, <2>2, ModeLoads
  <2>4. ASSUME intact PROVE t = data
    <3>1. /\ data = [file EXCEPT !.source = best]
          /\ temp = [data EXCEPT !.mode = Private]
      BY <1>2, <2>1, <2>4 DEF Undoable, Updating
    <3>2. data.mode = file.mode
      BY <1>5, <3>1 DEF ConfigFile
    <3>3. [[data EXCEPT !.mode = Private] EXCEPT !.mode = data.mode] = data
      BY <2>2 DEF ConfigFile
    <3> QED BY <3>1, <3>2, <3>3
  <2> HIDE DEF t
  <2>5. Loadable'
    BY <1>1, <1>2, <1>5, <2>1, <2>2, <2>3 DEF Loadable, Updating
  <2>6. Undoable'
    BY <1>1, <1>2, <2>1, <2>4 DEF Undoable, Updating
  <2> QED BY <1>4, <2>5, <2>6 DEF ScannerInvariant
<1>11. CASE UpdateReplaces
  <2>1. /\ receiver = "replace" /\ receiver' = "off" /\ file' = temp
        /\ previous' = file /\ data' = data /\ backup' = backup
        /\ intact' = intact
    BY <1>11 DEF UpdateReplaces
  <2>2. temp \in ConfigFile /\ Loads(temp)
    BY <1>2, <2>1 DEF Loadable
  <2>3. Loadable'
    BY <1>1, <1>2, <2>1, <2>2 DEF Loadable, Updating
  <2>4. ASSUME intact
        PROVE  backup = file /\ temp = [file EXCEPT !.source = temp.source]
    <3>1. backup = file /\ temp = [file EXCEPT !.source = best]
      BY <1>2, <2>1, <2>4 DEF Undoable, Updating
    <3>2. temp.source = best
      BY <1>5, <3>1 DEF ConfigFile
    <3> QED BY <3>1, <3>2
  <2>5. Undoable'
    BY <1>2, <2>1, <2>4 DEF Undoable, Updating
  <2> QED BY <1>4, <2>3, <2>5 DEF ScannerInvariant
<1> QED BY <1>7, <1>8, <1>9, <1>10, <1>11

\* Failures, crashes and edits by hand.
LEMMA DisturbedStep ==
    ASSUME ScannerInvariant,
           UpdateBreaksOff \/ (\E n \in Sizes : Edit(n))
    PROVE  ScannerInvariant'
<1>1. sent' = sent /\ seen' = seen /\ best' = best /\ rounds' = rounds
      /\ data' = data /\ intact' = FALSE
  BY DEF UpdateBreaksOff, Edit, scanner
<1>2. Heard /\ Loadable /\ Undoable
  BY DEF ScannerInvariant
<1>3. Undoable'
  BY <1>1 DEF Undoable
<1>4. CASE UpdateBreaksOff
  <2>1. receiver' = "off" /\ file' = file
    BY <1>4 DEF UpdateBreaksOff
  <2>2. Heard'
    BY <1>1, <1>2, <2>1 DEF Heard, Updating
  <2>3. Loadable'
    BY <1>1, <1>2, <2>1 DEF Loadable, Updating
  <2> QED BY <1>3, <2>2, <2>3 DEF ScannerInvariant
<1>5. CASE \E n \in Sizes : Edit(n)
  <2>1. PICK n \in Sizes : Edit(n)
    BY <1>5
  <2>2. /\ receiver' = receiver /\ temp' = temp /\ Loads(file)
        /\ file' = [file EXCEPT !.fragment = n]
    BY <2>1 DEF Edit
  <2>3. n \in Int /\ ValidFragment(n)
    BY ScannerAssumption
  <2>4. file' \in ConfigFile /\ Loads(file')
    BY <1>2, <2>2, <2>3, SizeLoads DEF Loadable
  <2>5. Heard'
    BY <1>1, <1>2, <2>2 DEF Heard
  <2>6. Loadable'
    BY <1>1, <1>2, <2>2, <2>4 DEF Loadable
  <2> QED BY <1>3, <2>5, <2>6 DEF ScannerInvariant
<1> QED BY <1>4, <1>5

-----------------------------------------------------------------------------
(* What the counts of the receiver say.                                    *)

\* The statistics of a candidate that was heard: as many sequence numbers as
\* probes at most, and all of them real numbers.
LEMMA ReceivedBound ==
    ASSUME IsFiniteSet(seen), NEW c
    PROVE  /\ IsFiniteSet(ProbesOf(c)) /\ Cardinality(ProbesOf(c)) \in Nat
           /\ Received(c) \in Nat /\ Received(c) <= Cardinality(ProbesOf(c))
<1> DEFINE S == ProbesOf(c)
           Seqs == {p.sequence : p \in S}
           f == [p \in S |-> p.sequence]
<1>1. IsFiniteSet(S)
  BY FS_Subset DEF ProbesOf
<1>2. f \in Surjection(S, Seqs)
  BY DEF Surjection
<1> HIDE DEF f
<1>3. IsFiniteSet(Seqs) /\ Cardinality(Seqs) <= Cardinality(S)
  BY <1>1, <1>2, FS_Surjection
<1> QED BY <1>1, <1>3, FS_CardinalityType DEF Received

\* One scan sends a candidate as many probes as it says, at most.
LEMMA ScanSends ==
    ASSUME Counted, scans = 1, NEW c
    PROVE  LET out == {p \in sent : p.candidate = c}
           IN  out # {} => /\ total \in Nat
                           /\ IsFiniteSet(out) /\ Cardinality(out) <= total
<1> DEFINE out == {p \in sent : p.candidate = c}
           f == [p \in out |-> p.sequence]
<1>1. SUFFICES ASSUME out # {}
               PROVE  /\ total \in Nat
                      /\ IsFiniteSet(out) /\ Cardinality(out) <= total
  OBVIOUS
<1>2. \A p \in out : /\ p.total = total /\ p.scan = 1 /\ p.total \in Nat
                     /\ p.sequence \in 1 .. total
  BY DEF Counted
<1>3. total \in Nat
  BY <1>1, <1>2
<1>4. f \in [out -> 1 .. total]
  BY <1>2
<1>5. ASSUME NEW p \in out, NEW q \in out, f[p] = f[q] PROVE p = q
  <2>1. /\ p.candidate = q.candidate /\ p.sequence = q.sequence
        /\ p.total = q.total /\ p.scan = q.scan
    BY <1>2, <1>5
  <2>2. p \in [candidate : Bindable, sequence : Nat, total : Nat, scan : Nat]
        /\ q \in [candidate : Bindable, sequence : Nat, total : Nat, scan : Nat]
    BY DEF Counted
  <2> QED BY <2>1, <2>2
<1> HIDE DEF f
<1>6. f \in Injection(out, 1 .. total)
  BY <1>4, <1>5 DEF Injection, IsInjective
<1>7. IsFiniteSet(1 .. total) /\ Cardinality(1 .. total) = total
  BY <1>3, FS_Interval
<1> QED BY <1>3, <1>6, <1>7, FS_Injection

\* A candidate that qualifies was heard three times; and of one scan, all the
\* probes it was sent but a fifth.
LEMMA QualifiedDelivers ==
    DeliveryInvariant => ChosenDelivers
<1> SUFFICES ASSUME DeliveryInvariant, receiver \notin {"off", "listening"}
             PROVE  LET got == {p \in seen : /\ p.candidate = best
                                             /\ Observed[best] = best}
                        out == {p \in sent : p.candidate = best}
                    IN  /\ Cardinality(got) >= 3
                        /\ scans = 1 =>
                               5 * Cardinality(got) >= 4 * Cardinality(out)
  BY DEF ChosenDelivers
<1> DEFINE got == {p \in seen : p.candidate = best /\ Observed[best] = best}
           out == {p \in sent : p.candidate = best}
<1>1. Heard /\ Counted /\ Qualifies(best)
      /\ \E p \in seen : p.candidate = best
  BY DEF DeliveryInvariant, Counted
<1>2. got = ProbesOf(best)
  BY <1>1 DEF Heard, ProbesOf
<1>3. IsFiniteSet(seen)
  BY <1>1, FS_Subset DEF Counted
<1>4. /\ IsFiniteSet(got) /\ Cardinality(got) \in Nat
      /\ Received(best) \in Nat /\ Received(best) <= Cardinality(got)
  BY <1>2, <1>3, ReceivedBound
<1>5. Cardinality(got) >= 3
  BY <1>1, <1>4 DEF Qualifies
<1>6. ASSUME scans = 1 PROVE 5 * Cardinality(got) >= 4 * Cardinality(out)
  <2>1. out # {} /\ \A p \in ProbesOf(best) : p \in out
    BY <1>1 DEF Counted, ProbesOf
  <2>2. total \in Nat /\ IsFiniteSet(out) /\ Cardinality(out) <= total
    BY <1>1, <1>6, <2>1, ScanSends
  <2>3. \A p \in ProbesOf(best) : p.total = total
    BY <1>1, <1>6, <2>1 DEF Counted
  <2>4. {p.total : p \in ProbesOf(best)} = {total}
    BY <1>1, <2>3 DEF ProbesOf
  <2>5. Declared(best) = total
    BY <2>2, <2>3, <2>4 DEF Declared
  <2>6. 5 * (total - Received(best)) <= total
    BY <1>1, <2>5 DEF Qualifies
  <2>7. Cardinality(out) \in Nat
    BY <2>2, FS_CardinalityType
  <2> HIDE DEF got, out
  <2> QED BY <1>4, <2>2, <2>6, <2>7
<1> QED BY <1>5, <1>6

\* A probe that is sent is one of its scan, with the next number.
LEMMA ProbeCounted ==
    ASSUME Counted, SendsProbe
    PROVE  Counted'
<1>1. /\ todo # <<>> /\ Head(todo) \in Bindable
      /\ sent' = sent \cup {Probe}
      /\ next' = (IF next = total THEN 1 ELSE next + 1)
      /\ todo' = (IF next = total THEN Tail(todo) ELSE todo)
      /\ UNCHANGED <<total, scans, receiver, seen, best>>
  BY DEF SendsProbe
<1>2. /\ seen \subseteq sent /\ IsFiniteSet(sent) /\ scans \in Nat
      /\ scans > 0 /\ total \in Totals /\ next \in 1 .. total
  BY <1>1 DEF Counted
<1>3. total \in Nat \ {0} /\ next \in Nat
  <2>1. Totals \subseteq 1 .. 10000
    BY ScannerAssumption
  <2>2. total \in 1 .. 10000
    BY <1>2, <2>1
  <2>3. total \in Nat \ {0}
    BY <2>2
  <2> QED BY <1>2, <2>3
<1>4. /\ Probe \in [candidate : Bindable, sequence : Nat, total : Nat,
                    scan : Nat]
      /\ Probe.sequence \in 1 .. Probe.total /\ Probe.total = total
      /\ Probe.scan \in 1 .. scans
  BY <1>1, <1>2, <1>3 DEF Probe
<1> HIDE DEF Probe
<1>5. seen' \subseteq sent' /\ IsFiniteSet(sent')
  BY <1>1, <1>2, FS_AddElement
<1>6. sent' \subseteq [candidate : Bindable, sequence : Nat, total : Nat,
                       scan : Nat]
  BY <1>1, <1>4 DEF Counted
<1>7. \A p \in sent' :
          /\ p.sequence \in 1 .. p.total /\ p.scan \in 1 .. scans'
          /\ p.scan = scans' => p.total = total'
  BY <1>1, <1>4 DEF Counted
<1>8. todo' # <<>> => scans' > 0 /\ total' \in Totals /\ next' \in 1 .. total'
  BY <1>1, <1>2, <1>3
<1>9. receiver' \in Updating =>
          Qualifies(best)' /\ \E p \in seen' : p.candidate = best'
  BY <1>1 DEF Counted, Qualifies, Received, Declared, ProbesOf
<1> QED BY <1>1, <1>2, <1>5, <1>6, <1>7, <1>8, <1>9 DEF Counted

\* The other steps of the scanner send nothing; a new scan has a number that no
\* probe carries yet.
LEMMA ScanCounted ==
    ASSUME Counted, NotLocal \/ ScanFails \/ \E n \in Totals : ScanBegins(n)
    PROVE  Counted'
<1>1. UNCHANGED <<sent, receiver, seen, best>>
  BY DEF NotLocal, ScanFails, ScanBegins
<1>2. receiver' \in Updating =>
          Qualifies(best)' /\ \E p \in seen' : p.candidate = best'
  BY <1>1 DEF Counted, Qualifies, Received, Declared, ProbesOf
<1>3. CASE NotLocal \/ ScanFails
  <2>1. UNCHANGED <<total, next, scans>> /\ (todo' # <<>> => todo # <<>>)
    BY <1>3 DEF NotLocal, ScanFails
  <2> QED BY <1>1, <1>2, <2>1 DEF Counted
<1>4. ASSUME NEW n \in Totals, ScanBegins(n) PROVE Counted'
  <2>1. total' = n /\ next' = 1 /\ scans' = scans + 1 /\ scans \in Nat
    BY <1>4 DEF ScanBegins, Counted
  <2>2. n \in Nat \ {0}
    <3>1. Totals \subseteq 1 .. 10000
      BY ScannerAssumption
    <3>2. n \in 1 .. 10000
      BY <1>4, <3>1
    <3> QED BY <3>2
  <2>3. \A p \in sent : p.scan \in 1 .. scans' /\ p.scan # scans'
    BY <2>1 DEF Counted
  <2>4. scans' > 0 /\ total' \in Totals /\ next' \in 1 .. total'
    BY <2>1, <2>2
  <2>5. scans' \in Nat
    BY <2>1
  <2> QED BY <1>1, <1>2, <2>3, <2>4, <2>5 DEF Counted
<1> QED BY <1>3, <1>4

\* The receiver counts what was sent, and chooses among what it counted; the
\* update and the operator leave the counts alone.
LEMMA ReceiverCounted ==
    ASSUME Counted, UNCHANGED scanner,
           \/ ReceiverBegins \/ ReceiverEnds \/ \E p \in sent : Arrives(p)
           \/ UpdateReads \/ UpdateBacksUp \/ UpdateWrites
           \/ UpdateChmods \/ UpdateReplaces \/ UpdateBreaksOff
           \/ (\E size \in Sizes : Edit(size))
           \/ UNCHANGED vars
    PROVE  Counted'
<1> DEFINE States == {"off", "listening"} \cup Updating
           Good == receiver \in Updating =>
                       Qualifies(best) /\ \E p \in seen : p.candidate = best
<1>1. UNCHANGED <<todo, total, next, scans, sent>>
  BY DEF scanner
<1>2. SUFFICES receiver' \in States /\ seen' \subseteq sent /\ Good'
  BY <1>1 DEF Counted
<1>3. receiver \in States /\ seen \subseteq sent /\ Good
  BY DEF Counted
<1>4. ASSUME UNCHANGED <<seen, best>>, receiver' \in States,
             receiver' \in Updating => receiver \in Updating
      PROVE  receiver' \in States /\ seen' \subseteq sent /\ Good'
  BY <1>3, <1>4 DEF Qualifies, Received, Declared, ProbesOf
<1>5. CASE ReceiverBegins
  BY <1>5 DEF ReceiverBegins, Updating
<1>6. CASE ReceiverEnds
  <2>1. /\ receiver = "listening" /\ UNCHANGED seen
        /\ receiver' \in {"off", "read"}
        /\ receiver' = "read" => best' \in Chosen
    BY <1>6 DEF ReceiverEnds
  <2>2. \A c \in Chosen : Qualifies(c) /\ \E p \in seen : p.candidate = c
    BY DEF Chosen
  <2>3. receiver' \in States /\ (receiver' \in Updating => receiver' = "read")
    BY <2>1 DEF Updating
  <2>4. ASSUME receiver' \in Updating
        PROVE  Qualifies(best)' /\ \E p \in seen' : p.candidate = best'
    <3>1. Qualifies(best') /\ \E p \in seen : p.candidate = best'
      BY <2>1, <2>2, <2>3, <2>4
    <3> QED BY <2>1, <3>1 DEF Qualifies, Received, Declared, ProbesOf
  <2> QED BY <1>3, <2>1, <2>3, <2>4
<1>7. CASE \E p \in sent : Arrives(p)
  <2>1. /\ receiver = "listening" /\ receiver' = receiver
        /\ seen' \subseteq sent
    BY <1>3, <1>7 DEF Arrives
  <2> QED BY <2>1 DEF Updating
<1>8. CASE \/ UpdateReads \/ UpdateBacksUp \/ UpdateWrites
           \/ UpdateChmods \/ UpdateReplaces \/ UpdateBreaksOff
  <2>1. /\ UNCHANGED <<seen, best>> /\ receiver' \in States
        /\ receiver \notin {"off", "listening"}
    BY <1>8 DEF UpdateReads, UpdateBacksUp, UpdateWrites, UpdateChmods,
                UpdateReplaces, UpdateBreaksOff, Updating
  <2> QED BY <1>3, <1>4, <2>1
<1>9. CASE (\E size \in Sizes : Edit(size)) \/ UNCHANGED vars
  <2>1. UNCHANGED <<seen, best, receiver>>
    BY <1>9 DEF Edit, vars
  <2> QED BY <1>3, <1>4, <2>1
<1> QED BY <1>5, <1>6, <1>7, <1>8, <1>9

-----------------------------------------------------------------------------
(* The theorems.                                                           *)

\* The invariant holds in every state of the scanner, the receiver and the file.
THEOREM ScannerInvariance ==
    Spec => []ScannerInvariant
<1>1. ScannerInvariant /\ [Next]_vars => ScannerInvariant'
  <2> SUFFICES ASSUME ScannerInvariant, [Next]_vars PROVE ScannerInvariant'
    OBVIOUS
  <2>1. CASE Next
    BY <2>1, ScanStep, ReceiverStep, UpdateStep, DisturbedStep DEF Next
  <2>2. CASE UNCHANGED vars
    <3>1. /\ sent' = sent /\ seen' = seen /\ best' = best
          /\ receiver' = receiver /\ rounds' = rounds /\ file' = file
          /\ backup' = backup /\ temp' = temp /\ data' = data
          /\ previous' = previous /\ intact' = intact
      BY <2>2 DEF vars, scanner, disk, admin
    <3>2. Heard'
      BY <3>1 DEF ScannerInvariant, Heard
    <3>3. Loadable' /\ Undoable'
      BY <3>1 DEF ScannerInvariant, Loadable, Undoable
    <3> QED BY <3>2, <3>3 DEF ScannerInvariant
  <2> QED BY <2>1, <2>2
<1> QED BY InitInvariant, <1>1, PTL DEF Spec

\* Once a receiver has been started, load_config accepts the content of the
\* configuration file at every moment: no scan, update, failing step, killed
\* process or valid edit leaves one that it refuses.
THEOREM FileAlwaysLoads ==
    Spec => []ConfigStillLoads
<1>1. ScannerInvariant => ConfigStillLoads
  BY DEF ScannerInvariant, Loadable, ConfigStillLoads
<1> QED BY <1>1, ScannerInvariance, PTL

\* An update that neither breaks off nor meets an edit changes the source
\* address only, and its backup is the file from before.
THEOREM UpdateIsUndoable ==
    Spec => []BackupIsPrevious
<1>1. ScannerInvariant => BackupIsPrevious
  BY DEF ScannerInvariant, Undoable, BackupIsPrevious
<1> QED BY <1>1, ScannerInvariance, PTL

\* The agent that starts with an accepted file carries every message.
THEOREM FileAlwaysCarries ==
    Spec => []AcceptedCarries
<1>1. ScannerInvariant => AcceptedCarries
  <2> SUFFICES ASSUME ScannerInvariant, rounds > 0 PROVE Carries(file.fragment)
    BY DEF AcceptedCarries
  <2>1. file \in ConfigFile /\ Loads(file)
    BY DEF ScannerInvariant, Loadable
  <2> QED BY <2>1, LoadedCarries
<1> QED BY <1>1, ScannerInvariance, PTL

\* The receiver recommends, and writes into the configuration, only an address
\* from which it got three probes, and in one scan four fifths of those sent.
THEOREM ChosenHasDelivered ==
    Spec => []ChosenDelivers
<1>1. Init => Counted
  BY FS_EmptySet DEF Init, Counted, Updating
<1>2. ScannerInvariant /\ Counted /\ [Next]_vars => Counted'
  <2> SUFFICES ASSUME ScannerInvariant, Counted, [Next]_vars PROVE Counted'
    OBVIOUS
  <2>1. CASE SendsProbe
    BY <2>1, ProbeCounted
  <2>2. CASE NotLocal \/ ScanFails \/ \E n \in Totals : ScanBegins(n)
    BY <2>2, ScanCounted
  <2>3. CASE \/ ReceiverBegins \/ ReceiverEnds \/ \E p \in sent : Arrives(p)
             \/ UpdateReads \/ UpdateBacksUp \/ UpdateWrites
             \/ UpdateChmods \/ UpdateReplaces \/ UpdateBreaksOff
             \/ (\E size \in Sizes : Edit(size))
             \/ UNCHANGED vars
    <3>1. UNCHANGED scanner
      BY <2>3 DEF ReceiverBegins, ReceiverEnds, Arrives, UpdateReads,
                  UpdateBacksUp, UpdateWrites, UpdateChmods, UpdateReplaces,
                  UpdateBreaksOff, Edit, vars
    <3> QED BY <2>3, <3>1, ReceiverCounted
  <2> QED BY <2>1, <2>2, <2>3 DEF Next
<1>3. ScannerInvariant /\ Counted => ChosenDelivers
  BY QualifiedDelivers DEF ScannerInvariant, DeliveryInvariant
<1> QED BY <1>1, <1>2, <1>3, ScannerInvariance, PTL DEF Spec

-----------------------------------------------------------------------------
(* setup-iran-network.sh.                                                  *)

\* A set of natural numbers has a least element.
LEMMA LeastExists ==
    ASSUME NEW T \in SUBSET Nat, T # {}
    PROVE  \E x \in T : \A y \in T : x <= y
<1>1. PICK x \in T : \A y \in T : ~ (<<y, x>> \in OpToRel(<, Nat))
  BY WFMin, NatLessThanWellFounded
<1>2. \A y \in T : ~ (y < x)
  BY <1>1 DEF OpToRel
<1> QED BY <1>2

\* The first route of a table is one of it, and none has a smaller metric.
LEMMA FirstIsLeast ==
    ASSUME NEW t \in [Metric -> Value \cup {Unset}], ~NoRoute(t)
    PROVE  /\ First(t) \in Metric /\ t[First(t)] # Unset
           /\ \A k \in Metric : t[k] # Unset => First(t) <= k
<1> DEFINE T == {m \in Metric : t[m] # Unset}
<1>1. T \in SUBSET Nat /\ T # {}
  BY NetworkAssumption DEF NoRoute
<1>2. PICK m \in T : \A k \in T : m <= k
  BY <1>1, LeastExists
<1>3. m \in Metric /\ t[m] # Unset /\ \A k \in Metric : t[k] # Unset => m <= k
  BY <1>2
<1> QED BY <1>3 DEF First

\* A route without a metric is the first.
LEMMA ZeroIsFirst ==
    ASSUME NEW t \in [Metric -> Value \cup {Unset}], t[0] # Unset
    PROVE  ~NoRoute(t) /\ First(t) = 0 /\ FirstLine(t) = <<0, t[0]>>
<1>1. ~NoRoute(t) /\ 0 \in Metric /\ Metric \subseteq Nat
  BY NetworkAssumption DEF NoRoute
<1>2. First(t) \in Metric /\ First(t) <= 0
  BY <1>1, FirstIsLeast
<1> HIDE DEF First
<1>3. First(t) = 0
  <2>1. First(t) \in Nat
    BY <1>1, <1>2
  <2> QED BY <1>2, <2>1
<1> QED BY <1>1, <1>3 DEF FirstLine

\* What is printed of a table is a line.
LEMMA FirstLineIsLine ==
    ASSUME NEW t \in [Metric -> Value \cup {Unset}], ~NoRoute(t)
    PROVE  FirstLine(t) \in Lines
<1>1. First(t) \in Metric /\ t[First(t)] \in Value
  BY FirstIsLeast
<1> QED BY <1>1 DEF FirstLine, Lines

\* Lines and what is not one.
LEMMA LineFacts ==
    /\ \A line \in Lines : /\ line[1] \in Metric /\ line[2] \in Value
                           /\ line # Absent /\ line # Empty /\ line # Unset
    /\ Absent # Empty /\ Unset \notin Value /\ 0 \in Metric
BY NetworkAssumption DEF Lines

\* sysctl -w and ip route replace change one entry of a table.
LEMMA PutIsTable ==
    ASSUME NEW t \in [Metric -> Value \cup {Unset}], NEW line \in Lines
    PROVE  /\ Put(t, line) \in [Metric -> Value \cup {Unset}]
           /\ \A m \in Metric : Put(t, line)[m] =
                  (IF m = line[1] THEN line[2] ELSE t[m])
<1>1. line[1] \in Metric /\ line[2] \in Value
  BY LineFacts
<1> QED BY <1>1 DEF Put

\* ip route del leaves a table.
LEMMA DeletedIsTable ==
    ASSUME NEW t \in [Metric -> Value \cup {Unset}]
    PROVE  Deleted(t) \in [Metric -> Value \cup {Unset}]
BY DEF Deleted

\* Of routes that can be put back, a restore puts back all, if nothing but the
\* route of metric 0 has changed.
LEMMA RestoreUndoes ==
    ASSUME NEW t \in [Metric -> Value \cup {Unset}],
           NEW u \in [Metric -> Value \cup {Unset}],
           Restorable(u), \A m \in Metric \ {0} : t[m] = u[m]
    PROVE  /\ ~NoRoute(u) => Put(t, FirstLine(u)) = u
           /\ NoRoute(u) => Deleted(t) = u
           /\ NoRoute(u) /\ NoRoute(t) => t = u
<1>0. 0 \in Metric /\ Unset \notin Value
  BY LineFacts
<1>1. ASSUME ~NoRoute(u) PROVE Put(t, FirstLine(u)) = u
  <2>1. u[0] # Unset
    BY <1>1 DEF Restorable
  <2>2. FirstLine(u) = <<0, u[0]>>
    BY <2>1, ZeroIsFirst
  <2>3. Put(t, FirstLine(u)) = [t EXCEPT ![0] = u[0]]
    BY <2>2 DEF Put
  <2> QED BY <1>0, <2>3
<1>2. ASSUME NoRoute(u), NoRoute(t) PROVE t = u
  BY <1>2 DEF NoRoute
<1>3. ASSUME NoRoute(u), ~NoRoute(t) PROVE Deleted(t) = u
  <2>1. \A m \in Metric \ {0} : t[m] = Unset
    BY <1>3 DEF NoRoute
  <2>2. t[0] # Unset
    BY <1>3, <2>1 DEF NoRoute
  <2>3. Deleted(t) = [t EXCEPT ![0] = Unset]
    BY <1>3, <2>2, ZeroIsFirst DEF Deleted
  <2>4. \A m \in Metric : u[m] = Unset
    BY <1>3 DEF NoRoute
  <2> QED BY <1>0, <2>1, <2>3, <2>4
<1>4. ASSUME NoRoute(u), NoRoute(t) PROVE Deleted(t) = u
  BY <1>2, <1>4 DEF Deleted
<1> QED BY <1>1, <1>2, <1>3, <1>4

\* Before the first invocation there is nothing to roll back.
LEMMA FirstInvariant ==
    ASSUME SetupInit
    PROVE  RollbackInvariant
<1>1. TypeOK
  BY NetworkAssumption DEF SetupInit, TypeOK, Steps
<1>2. LooseOrInitial
  BY DEF SetupInit, LooseOrInitial
<1>3. Alone
  BY DEF SetupInit, Alone
<1>4. Saved
  BY LineFacts DEF SetupInit, Saved
<1>5. ~broken
  BY DEF SetupInit
<1> QED BY <1>1, <1>2, <1>3, <1>4, <1>5 DEF RollbackInvariant

\* What an invariant state gives of the values, with rp_filter in metric 0.
LEMMA Typed ==
    ASSUME TypeOK
    PROVE  /\ step \in [Shell -> Steps]
           /\ value \in [Shell -> Lines \cup {Unset}]
           /\ state \in {Absent, Empty} \cup Lines
           /\ {setting, original, initial} \subseteq
                  [Metric -> Value \cup {Unset}]
           /\ ~route => \A m \in Metric :
                  /\ setting[m] \in Value <=> m = 0
                  /\ original[m] \in Value <=> m = 0
                  /\ initial[m] \in Value <=> m = 0
BY DEF TypeOK, Tables

\* Every step keeps the types.
LEMMA TypeKept ==
    ASSUME TypeOK, LooseOrInitial, [SetupNext]_setupVars
    PROVE  TypeOK'
<1>0. /\ step \in [Shell -> Steps] /\ value \in [Shell -> Lines \cup {Unset}]
      /\ state \in {Absent, Empty} \cup Lines
      /\ setting \in Tables(route)
      /\ setting \in [Metric -> Value \cup {Unset}]
      /\ ~route => setting[0] \in Value
  BY Typed, LineFacts DEF TypeOK
<1>1. CASE UNCHANGED setupVars
  BY <1>1 DEF setupVars, history, TypeOK
<1>2. ASSUME NEW s \in Shell, NEW v \in Value, SetBegins(s, v)
      PROVE  TypeOK'
  <2>1. <<0, v>> \in Lines /\ <<0, v>> \in {0} \X Value
    BY LineFacts DEF Lines
  <2>2. value' \in [Shell -> Lines \cup {Unset}]
    BY <1>0, <1>2, <2>1 DEF SetBegins
  <2>3. \A o \in Shell : step'[o] \in {"create", "save", "apply"} =>
            value'[o] \in {0} \X Value
    BY <1>0, <1>2, <2>1 DEF SetBegins, Begins, TypeOK
  <2>4. step' \in [Shell -> Steps]
    BY <1>2 DEF SetBegins, Begins, FirstStep, TypeOK, Steps
  <2>5. /\ overlap' \in BOOLEAN /\ broken' \in BOOLEAN
        /\ UNCHANGED <<route, setting, state, initial>>
        /\ original' \in {setting, original}
    BY <1>2 DEF SetBegins, Begins
  <2> QED BY <2>2, <2>3, <2>4, <2>5 DEF TypeOK
<1>3. ASSUME NEW s \in Shell, RestoreBegins(s) PROVE TypeOK'
  <2>1. step' \in [Shell -> Steps] /\ overlap' \in BOOLEAN
    BY <1>3 DEF RestoreBegins, Begins, TypeOK, Steps
  <2>2. \A o \in Shell : step'[o] \in {"create", "save", "apply"} =>
            value[o] \in {0} \X Value
    BY <1>0, <1>3 DEF RestoreBegins, Begins, TypeOK
  <2> QED BY <1>3, <2>1, <2>2 DEF RestoreBegins, Begins, TypeOK
<1>4. ASSUME NEW s \in Shell,
             \/ Creates(s) \/ Saves(s) \/ Applies(s) \/ RestoreReads(s)
             \/ Restores(s) \/ Removes(s) \/ DeleteFails(s) \/ Interrupt(s)
      PROVE  TypeOK'
  <2>1. /\ step' \in [Shell -> Steps]
        /\ \A o \in Shell : step'[o] \in {"create", "save", "apply"} =>
               step[o] \in {"create", "save", "apply"}
    BY <1>0, <1>4
       DEF Creates, Saves, Applies, RestoreReads, Restores, Removes,
           DeleteFails, Interrupt, Runs, Steps
  <2>2. /\ UNCHANGED <<route, overlap, initial, original>>
        /\ broken' \in BOOLEAN
    BY <1>4 DEF Creates, Saves, Applies, RestoreReads, Restores, Removes,
                DeleteFails, Interrupt, Runs, history, TypeOK
  <2>3. state' \in {Absent, Empty} \cup Lines
    <3>1. CASE Saves(s)
      BY <1>0, <3>1, FirstLineIsLine DEF Saves
    <3>2. CASE \/ Creates(s) \/ Applies(s) \/ RestoreReads(s) \/ Restores(s)
               \/ Removes(s) \/ DeleteFails(s) \/ Interrupt(s)
      BY <1>0, <3>2 DEF Creates, Applies, RestoreReads, Restores, Removes,
                        DeleteFails, Interrupt
    <3> QED BY <1>4, <3>1, <3>2
  <2>4. /\ value' \in [Shell -> Lines \cup {Unset}]
        /\ \A o \in Shell : step'[o] \in {"create", "save", "apply"} =>
               value'[o] = value[o]
    <3>1. CASE RestoreReads(s)
      BY <1>0, <3>1 DEF RestoreReads, Runs, Readable
    <3>2. CASE \/ Creates(s) \/ Saves(s) \/ Applies(s) \/ Restores(s)
               \/ Removes(s) \/ DeleteFails(s) \/ Interrupt(s)
      BY <1>0, <3>2 DEF Creates, Saves, Applies, Restores, Removes,
                        DeleteFails, Interrupt
    <3> QED BY <1>4, <3>1, <3>2
  <2>5. setting' \in Tables(route)
    <3>1. CASE \/ Creates(s) \/ Saves(s) \/ RestoreReads(s) \/ Removes(s)
               \/ DeleteFails(s) \/ Interrupt(s)
      BY <1>0, <3>1 DEF Creates, Saves, RestoreReads, Removes, DeleteFails,
                        Interrupt
    <3>2. ASSUME NEW line \in Lines, ~route => line[1] = 0,
                 setting' = Put(setting, line)
          PROVE  setting' \in Tables(route)
      <4>1. /\ setting' \in [Metric -> Value \cup {Unset}]
            /\ \A m \in Metric : setting'[m] =
                   (IF m = line[1] THEN line[2] ELSE setting[m])
        BY <1>0, <3>2, PutIsTable
      <4>2. ~route => \A m \in Metric : setting'[m] \in Value <=> m = 0
        BY <3>2, <4>1, LineFacts, Typed
      <4> QED BY <4>1, <4>2 DEF Tables
    <3>3. CASE Applies(s)
      <4>1. value[s] \in {0} \X Value /\ setting' = Put(setting, value[s])
        BY <3>3 DEF Applies, Runs, TypeOK
      <4>2. value[s] \in Lines /\ value[s][1] = 0
        BY <4>1, LineFacts DEF Lines
      <4> QED BY <3>2, <4>1, <4>2
    <3>4. CASE Restores(s) /\ value[s] # Unset
      <4>1. value[s] \in Lines /\ setting' = Put(setting, value[s])
        BY <1>0, <3>4 DEF Restores
      <4>2. ~route => value[s][1] = 0
        BY <3>4 DEF Restores, Runs, LooseOrInitial
      <4> QED BY <3>2, <4>1, <4>2
    <3>5. CASE Restores(s) /\ value[s] = Unset
      <4>1. route
        <5>1. ASSUME ~route PROVE FALSE
          <6>1. value[s] \in {<<0, initial[0]>>, <<0, Loose>>}
            BY <3>5, <5>1 DEF Restores, Runs, LooseOrInitial
          <6>2. initial[0] \in Value /\ Loose \in Value /\ 0 \in Metric
            BY <5>1, LineFacts, Typed, NetworkAssumption
          <6>3. value[s] \in Lines
            BY <6>1, <6>2 DEF Lines
          <6> QED BY <3>5, <6>3, LineFacts
        <5> QED BY <5>1
      <4>2. setting' \in [Metric -> Value \cup {Unset}]
        BY <1>0, <3>5, DeletedIsTable DEF Restores
      <4> QED BY <4>1, <4>2 DEF Tables
    <3> QED BY <1>4, <3>1, <3>3, <3>4, <3>5
  <2>6. \A o \in Shell : step'[o] \in {"create", "save", "apply"} =>
            value'[o] \in {0} \X Value
    BY <2>1, <2>4 DEF TypeOK
  <2> QED BY <2>1, <2>2, <2>3, <2>4, <2>5, <2>6 DEF TypeOK
<1> QED BY <1>1, <1>2, <1>3, <1>4 DEF SetupNext

\* Nothing but the first value and the loose one is saved, read or written.
LEMMA LooseKept ==
    ASSUME TypeOK, LooseOrInitial, [SetupNext]_setupVars
    PROVE  LooseOrInitial'
<1> DEFINE Known == {<<0, initial[0]>>, <<0, Loose>>}
<1>0. /\ step \in [Shell -> Steps] /\ value \in [Shell -> Lines \cup {Unset}]
      /\ state \in {Absent, Empty} \cup Lines /\ Absent # Empty
      /\ setting \in [Metric -> Value \cup {Unset}] /\ 0 \in Metric
      /\ ~route => setting[0] \in Value /\ initial[0] \in Value
      /\ Unset \notin Value
  BY Typed, LineFacts
<1>1. CASE UNCHANGED setupVars
  BY <1>1 DEF setupVars, history, LooseOrInitial
<1>2. ASSUME NEW s \in Shell, NEW v \in Value, SetBegins(s, v)
      PROVE  LooseOrInitial'
  BY <1>0, <1>2 DEF SetBegins, Begins, FirstStep, LooseOrInitial
<1>3. ASSUME NEW s \in Shell, RestoreBegins(s) PROVE LooseOrInitial'
  BY <1>0, <1>3 DEF RestoreBegins, Begins, LooseOrInitial
<1>4. ASSUME NEW s \in Shell, Applies(s) \/ Restores(s)
      PROVE  LooseOrInitial'
  <2>1. /\ UNCHANGED <<route, initial, state, value>>
        /\ step' \in {[step EXCEPT ![s] = "idle"],
                      [step EXCEPT ![s] = "remove"]}
        /\ step'[s] = "remove" => step[s] = "restore"
    BY <1>0, <1>4 DEF Applies, Restores, Runs, history
  <2>2. ~route => setting'[0] \in {initial[0], Loose}
    <3>1. SUFFICES ASSUME ~route PROVE setting'[0] \in {initial[0], Loose}
      OBVIOUS
    <3>2. value[s] \in Known
      BY <1>4, <3>1 DEF Applies, Restores, Runs, LooseOrInitial
    <3>3. value[s] \in Lines /\ value[s] # Unset
      <4>1. initial[0] \in Value /\ Loose \in Value
        BY <1>0, <3>1, NetworkAssumption
      <4>2. value[s] \in Lines
        BY <1>0, <3>2, <4>1 DEF Lines
      <4> QED BY <4>2, LineFacts
    <3>4. setting' = Put(setting, value[s])
      BY <1>4, <3>3 DEF Applies, Restores
    <3>5. setting'[0] = value[s][2]
      BY <1>0, <3>2, <3>3, <3>4, PutIsTable
    <3> QED BY <3>2, <3>5
  <2> QED BY <1>0, <2>1, <2>2 DEF LooseOrInitial
<1>5. ASSUME NEW s \in Shell, Saves(s) PROVE LooseOrInitial'
  <2>1. ~route => FirstLine(setting) = <<0, setting[0]>>
    BY <1>0, ZeroIsFirst
  <2> QED BY <1>0, <1>5, <2>1 DEF Saves, Runs, history, LooseOrInitial
<1>6. ASSUME NEW s \in Shell, RestoreReads(s) PROVE LooseOrInitial'
  BY <1>0, <1>6 DEF RestoreReads, Readable, Runs, history, LooseOrInitial
<1>7. ASSUME NEW s \in Shell, Removes(s) PROVE LooseOrInitial'
  BY <1>0, <1>7 DEF Removes, history, LooseOrInitial
<1>8. ASSUME NEW s \in Shell, Creates(s) \/ DeleteFails(s) \/ Interrupt(s)
      PROVE  LooseOrInitial'
  BY <1>0, <1>8
     DEF Creates, DeleteFails, Interrupt, Runs, history, LooseOrInitial
<1> QED BY <1>1, <1>2, <1>3, <1>4, <1>5, <1>6, <1>7, <1>8 DEF SetupNext

\* Only routes are not saved or not deleted: there always is an rp_filter.
LEMMA BrokenKept ==
    ASSUME RollbackInvariant, [SetupNext]_setupVars
    PROVE  (broken => route)'
<1>0. broken => route
  BY DEF RollbackInvariant
<1>1. CASE UNCHANGED setupVars
  BY <1>0, <1>1 DEF setupVars, history
<1>2. ASSUME NEW s \in Shell,
             (\E v \in Value : SetBegins(s, v)) \/ RestoreBegins(s)
      PROVE  (broken => route)'
  BY <1>0, <1>2 DEF SetBegins, RestoreBegins, Begins
<1>3. ASSUME NEW s \in Shell,
             \/ Creates(s) \/ Saves(s) \/ Applies(s)
             \/ RestoreReads(s) \/ Restores(s) \/ Removes(s) \/ Interrupt(s)
      PROVE  (broken => route)'
  BY <1>0, <1>3 DEF Creates, Saves, Applies, RestoreReads, Restores, Removes,
                    Interrupt, Runs, history
<1>4. ASSUME NEW s \in Shell, DeleteFails(s)
      PROVE  (broken => route)'
  <2>1. ASSUME ~route PROVE FALSE
    <3>1. value[s] \in {<<0, initial[0]>>, <<0, Loose>>} /\ value[s] = Unset
      BY <1>4, <2>1 DEF DeleteFails, RollbackInvariant, LooseOrInitial
    <3>2. initial[0] \in Value /\ Loose \in Value /\ 0 \in Metric
      BY <2>1, LineFacts, Typed, NetworkAssumption DEF RollbackInvariant
    <3>3. value[s] \in Lines
      BY <3>1, <3>2 DEF Lines
    <3> QED BY <3>1, <3>3, LineFacts
  <2>2. route' = route
    BY <1>4 DEF DeleteFails
  <2> QED BY <2>1, <2>2
<1> QED BY <1>1, <1>2, <1>3, <1>4 DEF SetupNext

\* Who was alone stays so, until an invocation begins that overlaps.
LEMMA AloneKept ==
    ASSUME RollbackInvariant, [SetupNext]_setupVars, ~overlap'
    PROVE  ~overlap /\ Alone /\ Alone'
<1>0. step \in [Shell -> Steps] /\ (~overlap => Alone)
  BY DEF RollbackInvariant, TypeOK
<1>1. CASE UNCHANGED setupVars
  BY <1>0, <1>1 DEF setupVars, history, Alone
<1>2. ASSUME NEW s \in Shell, NEW v \in Value, SetBegins(s, v)
      PROVE  ~overlap /\ Alone /\ Alone'
  <2>1. /\ ~overlap
        /\ step[s] = "idle" /\ step' = [step EXCEPT ![s] = FirstStep]
        /\ \A o \in Shell \ {s} : step[o] = "idle"
    BY <1>2 DEF SetBegins, Begins, FirstStep
  <2>2. \A o \in Shell \ {s} : step'[o] = "idle"
    BY <1>0, <2>1
  <2> QED BY <1>0, <2>1, <2>2 DEF Alone
<1>3. ASSUME NEW s \in Shell, RestoreBegins(s)
      PROVE  ~overlap /\ Alone /\ Alone'
  <2>1. /\ ~overlap /\ route' = route
        /\ step[s] = "idle" /\ step' = [step EXCEPT ![s] = "read"]
        /\ \A o \in Shell \ {s} :
               route \/ step[o] \in {"create", "save", "apply"} =>
                   step[o] = "idle"
    BY <1>3 DEF RestoreBegins, Begins
  <2>2. step'[s] = "read" /\ \A o \in Shell \ {s} : step'[o] = step[o]
    BY <1>0, <2>1
  <2> QED BY <1>0, <2>1, <2>2 DEF Alone
<1>4. ASSUME NEW s \in Shell,
             \/ Creates(s) \/ Saves(s) \/ Applies(s) \/ RestoreReads(s)
             \/ Restores(s) \/ Removes(s) \/ DeleteFails(s) \/ Interrupt(s)
      PROVE  ~overlap /\ Alone /\ Alone'
  <2>1. \A o \in Shell :
            /\ step'[o] # "idle" => step[o] # "idle"
            /\ step'[o] \in {"create", "save", "apply"} =>
                   step[o] \in {"create", "save", "apply"}
    BY <1>0, <1>4
       DEF Creates, Saves, Applies, RestoreReads, Restores, Removes,
           DeleteFails, Interrupt, Runs
  <2>2. UNCHANGED <<route, overlap>>
    BY <1>4 DEF Creates, Saves, Applies, RestoreReads, Restores, Removes,
                DeleteFails, Interrupt, Runs, history
  <2>3. ~overlap /\ Alone
    BY <1>0, <2>2
  <2> QED BY <2>1, <2>2, <2>3 DEF Alone
<1> QED BY <1>1, <1>2, <1>3, <1>4 DEF SetupNext

\* What is saved of the setting while nothing overlaps or breaks is what the
\* set that is alone found there.
LEMMA SavedKept ==
    ASSUME RollbackInvariant, [SetupNext]_setupVars,
           ~overlap', ~broken', Restorable(original')
    PROVE  Saved'
<1>0. /\ step \in [Shell -> Steps] /\ value \in [Shell -> Lines \cup {Unset}]
      /\ state \in {Absent, Empty} \cup Lines
      /\ setting \in [Metric -> Value \cup {Unset}]
      /\ original \in [Metric -> Value \cup {Unset}]
      /\ Absent # Empty
  BY Typed, LineFacts DEF RollbackInvariant
<1>1. ~overlap /\ Alone
  BY AloneKept
<1>2. ASSUME ~broken, original' = original PROVE Saved
  BY <1>1, <1>2 DEF RollbackInvariant
<1> DEFINE OldLine == FirstLine(original)
           NoLine == NoRoute(original)
<1>3. ~NoLine => OldLine \in Lines
  BY <1>0, FirstLineIsLine
<1>4. /\ Absent \notin Lines /\ Empty \notin Lines /\ Unset \notin Lines
  BY LineFacts
<1>5. CASE UNCHANGED setupVars
  <2>1. Saved
    BY <1>2, <1>5 DEF setupVars, history
  <2> QED BY <1>5, <2>1 DEF setupVars, history, Saved
<1>6. ASSUME NEW s \in Shell, NEW v \in Value, SetBegins(s, v)
      PROVE  Saved'
  <2>1. /\ step[s] = "idle" /\ step' = [step EXCEPT ![s] = FirstStep]
        /\ original' = (IF state = Absent THEN setting ELSE original)
        /\ broken /\ state # Absent => broken'
        /\ UNCHANGED <<route, setting, state>>
    BY <1>6 DEF SetBegins, Begins
  <2>2. \A o \in Shell \ {s} : step[o] = "idle"
    BY <1>6, <2>1 DEF SetBegins, Begins, FirstStep
  <2>3. step'[s] = FirstStep /\ \A o \in Shell \ {s} : step'[o] = "idle"
    BY <1>0, <2>1, <2>2
  <2>4. CASE state = Absent
    <3>1. step'[s] = "create" /\ original' = setting'
      BY <2>1, <2>3, <2>4 DEF FirstStep
    <3> QED BY <1>0, <2>1, <2>3, <2>4, <3>1 DEF Saved
  <2>5. CASE state # Absent
    <3>1. step'[s] = "apply" /\ original' = original /\ ~broken
      BY <2>1, <2>3, <2>5 DEF FirstStep
    <3>2. Saved
      BY <1>2, <3>1
    <3> QED BY <2>1, <2>2, <2>3, <3>1, <3>2 DEF Saved
  <2> QED BY <2>4, <2>5
<1>7. ASSUME NEW s \in Shell, RestoreBegins(s)
      PROVE  Saved'
  <2>1. /\ step[s] = "idle" /\ step' = [step EXCEPT ![s] = "read"]
        /\ state # Absent
        /\ UNCHANGED <<route, setting, state, value, original, broken>>
    BY <1>7 DEF RestoreBegins, Begins
  <2>2. step'[s] = "read" /\ \A o \in Shell \ {s} : step'[o] = step[o]
    BY <1>0, <2>1
  <2>3. Saved
    BY <1>2, <2>1
  <2> QED BY <2>1, <2>2, <2>3 DEF Saved
<1>8. ASSUME NEW s \in Shell, Creates(s)
      PROVE  Saved'
  <2>1. /\ step[s] = "create" /\ step' = [step EXCEPT ![s] = "save"]
        /\ state' = Empty
        /\ UNCHANGED <<route, setting, value, original, broken>>
    BY <1>8 DEF Creates, Runs, history
  <2>2. step'[s] = "save" /\ \A o \in Shell \ {s} : step'[o] = step[o]
    BY <1>0, <2>1
  <2>3. Saved
    BY <1>2, <2>1
  <2> QED BY <1>0, <1>1, <2>1, <2>2, <2>3 DEF Saved, Alone
<1>9. ASSUME NEW s \in Shell, Saves(s)
      PROVE  Saved'
  <2>1. /\ step[s] = "save" /\ step' = [step EXCEPT ![s] = "apply"]
        /\ state' = (IF NoRoute(setting) THEN state ELSE FirstLine(setting))
        /\ UNCHANGED <<route, setting, value, original, broken>>
    BY <1>9 DEF Saves, Runs, history
  <2>2. step'[s] = "apply" /\ \A o \in Shell \ {s} : step'[o] = step[o]
    BY <1>0, <2>1
  <2>3. Saved
    BY <1>2, <2>1
  <2>4. setting = original /\ \A o \in Shell \ {s} : step[o] = "idle"
    BY <1>1, <2>1, <2>3 DEF Saved, Alone
  <2>5. state' = IF NoLine THEN state ELSE OldLine
    BY <2>1, <2>4
  <2> HIDE DEF NoLine, OldLine
  <2>6. \A o \in Shell : step'[o] \in {"apply", "idle"}
    BY <2>2, <2>4
  <2>7. /\ state' \notin {Absent, Empty} => ~NoLine /\ state' = OldLine
        /\ route' /\ state' = Empty => NoLine
    <3>1. state \notin {Absent, Empty} => ~NoLine /\ state = OldLine
      BY <2>3 DEF Saved, NoLine, OldLine
    <3> QED BY <1>3, <1>4, <2>5, <3>1
  <2> QED BY <2>1, <2>3, <2>4, <2>6, <2>7 DEF Saved, NoLine, OldLine
<1>10. ASSUME NEW s \in Shell, Applies(s)
       PROVE  Saved'
  <2>1. /\ step[s] = "apply" /\ step' = [step EXCEPT ![s] = "idle"]
        /\ setting' = Put(setting, value[s])
        /\ UNCHANGED <<route, state, value, original, broken>>
    BY <1>10 DEF Applies, Runs, history
  <2>2. step'[s] = "idle" /\ \A o \in Shell \ {s} : step'[o] = step[o]
    BY <1>0, <2>1
  <2>3. Saved
    BY <1>2, <2>1
  <2>4. \A o \in Shell \ {s} : step[o] = "idle"
    BY <1>1, <2>1 DEF Alone
  <2>5. value[s] \in Lines /\ value[s][1] = 0
    <3>1. value[s] \in {0} \X Value
      BY <2>1 DEF RollbackInvariant, TypeOK
    <3> QED BY <3>1, LineFacts DEF Lines
  <2>6. \A m \in Metric \ {0} : setting'[m] = setting[m]
    BY <1>0, <2>1, <2>5, PutIsTable
  <2> QED BY <2>1, <2>2, <2>3, <2>4, <2>6 DEF Saved
<1>11. ASSUME NEW s \in Shell, RestoreReads(s)
       PROVE  Saved'
  <2>1. /\ step[s] = "read"
        /\ step' = [step EXCEPT ![s] = IF Readable THEN "restore" ELSE "idle"]
        /\ value' = [value EXCEPT ![s] =
                         IF state \in {Absent, Empty} THEN Unset ELSE state]
        /\ UNCHANGED <<route, setting, state, original, broken>>
    BY <1>11 DEF RestoreReads, Runs, history
  <2>2. /\ step'[s] \in {"restore", "idle"}
        /\ step'[s] = "restore" => Readable
        /\ value'[s] = IF state \in {Absent, Empty} THEN Unset ELSE state
        /\ \A o \in Shell \ {s} : step'[o] = step[o] /\ value'[o] = value[o]
    BY <1>0, <2>1
  <2>3. Saved
    BY <1>2, <2>1
  <2>4. step'[s] = "restore" => value'[s] = IF NoLine THEN Unset ELSE OldLine
    <3>1. CASE state \in {Absent, Empty} /\ Readable
      <4>1. route /\ state = Empty
        BY <2>1, <2>3, <3>1 DEF Readable, Saved
      <4>2. \A o \in Shell : step[o] # "save"
        BY <1>1, <2>1, <4>1 DEF Alone
      <4> QED BY <2>2, <2>3, <4>1, <4>2 DEF Saved
    <3>2. CASE state \notin {Absent, Empty}
      BY <2>2, <2>3, <3>2 DEF Saved
    <3> QED BY <2>2, <3>1, <3>2
  <2> QED BY <2>1, <2>2, <2>3, <2>4 DEF Saved
<1>12. ASSUME NEW s \in Shell, Restores(s)
       PROVE  Saved'
  <2>1. /\ step[s] = "restore" /\ step' = [step EXCEPT ![s] = "remove"]
        /\ setting' = (IF value[s] = Unset THEN Deleted(setting)
                       ELSE Put(setting, value[s]))
        /\ UNCHANGED <<route, state, value, original, broken>>
    BY <1>12 DEF Restores, Runs, history
  <2>2. step'[s] = "remove" /\ \A o \in Shell \ {s} : step'[o] = step[o]
    BY <1>0, <2>1
  <2>3. Saved
    BY <1>2, <2>1
  <2>4. value[s] = (IF NoLine THEN Unset ELSE OldLine) /\ Restorable(original)
    BY <2>1, <2>3 DEF Saved
  <2>5. setting' = IF NoLine THEN Deleted(setting) ELSE Put(setting, OldLine)
    <3> HIDE DEF NoLine, OldLine
    <3> QED BY <1>3, <1>4, <2>1, <2>4
  <2>6. setting' = original
    <3>1. \A m \in Metric \ {0} : setting[m] = original[m]
      BY <2>3 DEF Saved
    <3> QED BY <1>0, <2>4, <2>5, <3>1, RestoreUndoes
  <2> QED BY <2>1, <2>2, <2>3, <2>6 DEF Saved
<1>13. ASSUME NEW s \in Shell, Removes(s)
       PROVE  Saved'
  <2>1. /\ step[s] = "remove" /\ state' = Absent
        /\ UNCHANGED <<route, setting, value, original, broken>>
    BY <1>13 DEF Removes, history
  <2>2. Saved
    BY <1>2, <2>1
  <2>3. /\ step'[s] = "idle"
        /\ \A o \in Shell \ {s} : /\ step'[o] \in {step[o], "apply"}
                                  /\ route => step'[o] = "idle"
    <3>1. route => \A o \in Shell \ {s} : step[o] = "idle"
      BY <1>1, <2>1 DEF Alone
    <3> QED BY <1>0, <1>13, <3>1 DEF Removes
  <2>4. \A o \in Shell : step'[o] # "save"
    BY <1>0, <1>13 DEF Removes
  <2> QED BY <1>0, <2>1, <2>2, <2>3, <2>4 DEF Saved
<1>14. ASSUME NEW s \in Shell, DeleteFails(s)
       PROVE  Saved'
  <2>1. /\ step[s] = "restore" /\ step' = [step EXCEPT ![s] = "remove"]
        /\ value[s] = Unset /\ ~broken /\ NoRoute(setting)
        /\ UNCHANGED <<route, setting, state, value, original>>
    BY <1>14 DEF DeleteFails
  <2>2. step'[s] = "remove" /\ \A o \in Shell \ {s} : step'[o] = step[o]
    BY <1>0, <2>1
  <2>3. Saved
    BY <1>2, <2>1
  <2>4. NoRoute(original)
    <3>1. value[s] = IF NoLine THEN Unset ELSE OldLine
      BY <2>1, <2>3 DEF Saved
    <3> HIDE DEF OldLine
    <3> QED BY <1>3, <1>4, <2>1, <3>1
  <2>5. setting = original
    <3>1. \A m \in Metric \ {0} : setting[m] = original[m]
      BY <2>3 DEF Saved
    <3>2. Restorable(original)
      BY <2>1
    <3> QED BY <1>0, <2>1, <2>4, <3>1, <3>2, RestoreUndoes
  <2> QED BY <2>1, <2>2, <2>3, <2>5 DEF Saved
<1>15. ASSUME NEW s \in Shell, Interrupt(s)
       PROVE  Saved'
  <2>1. /\ step' = [step EXCEPT ![s] = "idle"]
        /\ ~broken /\ (route /\ step[s] = "save" => NoRoute(setting))
        /\ UNCHANGED <<route, setting, state, value, original>>
    BY <1>15 DEF Interrupt
  <2>2. step'[s] = "idle" /\ \A o \in Shell \ {s} : step'[o] = step[o]
    BY <1>0, <2>1
  <2>3. Saved
    BY <1>2, <2>1
  <2>4. route /\ step[s] = "save" => NoRoute(original)
    BY <2>1, <2>3 DEF Saved
  <2> QED BY <2>1, <2>2, <2>3, <2>4 DEF Saved
<1> QED BY <1>5, <1>6, <1>7, <1>8, <1>9, <1>10, <1>11, <1>12, <1>13, <1>14,
           <1>15
           DEF SetupNext

\* The invariant holds throughout, for any shells, values and numbers of
\* invocations and interrupts.
THEOREM RollbackInvariance ==
    SetupSpec => []RollbackInvariant
<1>1. SetupInit => RollbackInvariant
  BY FirstInvariant
<1>2. RollbackInvariant /\ [SetupNext]_setupVars => RollbackInvariant'
  BY TypeKept, LooseKept, BrokenKept, AloneKept, SavedKept
     DEF RollbackInvariant
<1> QED BY <1>1, <1>2, PTL DEF SetupSpec

\* --restore-rp-filter puts back what was there before the first change,
\* whoever was interrupted where or raced whom in restoring. --restore-route
\* does if no two invocations about the host met, none ended while it saved a
\* route, no failure of ip route del was ignored, and the host had no route at
\* first or one without a metric.
THEOREM RollbackRestores ==
    SetupSpec => []RestoreSurvives
<1>1. RollbackInvariant => RestoreSurvives
  BY DEF RollbackInvariant, Saved, RestoreSurvives
<1> QED BY <1>1, RollbackInvariance, PTL

\* No race or broken state file writes into rp_filter anything but its first
\* value and the loose one.
THEOREM FilterOnlyLoosened ==
    SetupSpec => []OnlyLoosened
<1>1. RollbackInvariant => OnlyLoosened
  BY DEF RollbackInvariant, LooseOrInitial, OnlyLoosened
<1> QED BY <1>1, RollbackInvariance, PTL

=============================================================================
