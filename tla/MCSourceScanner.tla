-------------------------- MODULE MCSourceScanner ---------------------------
(* Small instances of SourceScanner.                                         *)
EXTENDS SourceScanner

\* 0 is 0.0.0.0, which can be bound and whose probes leave from 1; 1 and 2 are
\* addresses of the host, 3 is one of another.
MCCandidates == <<0, 1, 2, 3>>
MCBindable == {0, 1, 2}
MCObserved == [c \in 0 .. 3 |-> IF c = 0 THEN 1 ELSE c]

Valid == [role |-> "iran", tunnelId |-> 16, secret |-> 32, shortestTime |-> 1,
          recvBuffer |-> 65536, fragment |-> 1200, retries |-> 8,
          pending |-> 2048, batch |-> 128, source |-> None, mode |-> 416]

\* The ends of every range, and one step beyond.
MCFiles ==
    {[Valid EXCEPT !.fragment = n] : n \in {1, 255, 256, 1391, 1392}}
    \cup {[Valid EXCEPT !.role = "foreign"], [Valid EXCEPT !.role = "other"],
          [Valid EXCEPT !.tunnelId = 15], [Valid EXCEPT !.secret = 31],
          [Valid EXCEPT !.shortestTime = 0], [Valid EXCEPT !.recvBuffer = 65535],
          [Valid EXCEPT !.retries = 101], [Valid EXCEPT !.pending = 0],
          [Valid EXCEPT !.batch = 100001], [Valid EXCEPT !.source = 0]}

=============================================================================
