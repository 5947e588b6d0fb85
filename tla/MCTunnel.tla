------------------------------ MODULE MCTunnel ------------------------------
(* Small instances of Tunnel.                                               *)
EXTENDS Tunnel

Each(up, down) == [iran |-> up, foreign |-> down]

\* A single message up the tunnel, with lost and late fragments, retransmission,
\* and a clean restart or a crash.
ReliableUp(answers, stops, falls) ==
    [reliable |-> TRUE, fec |-> TRUE, counts |-> {2}, messages |-> Each(1, 0),
     sequences |-> Each(3, answers), pings |-> 0, restarts |-> stops,
     crashes |-> Each(falls, falls)]

\* Messages of either size both ways and keepalives, without reliability.
UnreliableBoth ==
    [reliable |-> FALSE, fec |-> TRUE, counts |-> {1, 2}, messages |-> Each(1, 1),
     sequences |-> Each(4, 4), pings |-> 1, restarts |-> 0,
     crashes |-> Each(0, 0)]

\* A message of one fragment, on a path that works again.
Plain(offered, stops) ==
    [reliable |-> TRUE, fec |-> TRUE, counts |-> {1}, messages |-> offered,
     sequences |-> Each(4, 4), pings |-> 0, restarts |-> stops,
     crashes |-> Each(0, 0)]

PlainRestart == {Plain(Each(1, 0), 1)}

\* Both directions, with and without reliability.
Deliveries ==
    {ReliableUp(2, 0, 1), ReliableUp(1, 1, 0), UnreliableBoth,
     Plain(Each(1, 1), 0)} \cup PlainRestart

=============================================================================
