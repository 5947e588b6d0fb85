------------------------------- MODULE Config -------------------------------
(***************************************************************************)
(* load_config of h3ntun/config.py: which configuration files the agents   *)
(* and the tools accept, and what the limits it enforces mean for the      *)
(* fragments and frames of h3ntun/reliability.py and h3ntun/protocol.py.   *)
(*                                                                         *)
(* A file is a record of what the checks look at: the role, the lengths of *)
(* the decoded credentials (0 when they do not decode), the smallest of    *)
(* the five times, the sizes, and the configured source address; mode are  *)
(* its permissions. Addresses are numbers; the syntax of the values and    *)
(* the other endpoints are left out.                                       *)
(***************************************************************************)
EXTENDS Integers

CONSTANTS
    Unspecified,  \* 0.0.0.0
    Multicast,    \* the multicast addresses
    None          \* no source configured

ConfigFile ==
    [role : STRING, tunnelId : Nat, secret : Nat, shortestTime : Int,
     recvBuffer : Int, fragment : Int, retries : Int, pending : Int,
     batch : Int, source : Nat \cup {None}, mode : Nat]

MAX_FRAGMENT_PAYLOAD == 1391
MAX_MESSAGE_SIZE == 60000
MAX_FRAGMENTS == 256
FRAME_OVERHEAD == 65 + 16

\* Mutant: no room for the authentication tag.
ValidFragmentWide(n) == 256 <= n /\ n <= MAX_FRAGMENT_PAYLOAD + 16

ValidFragment(n) == 256 <= n /\ n <= MAX_FRAGMENT_PAYLOAD

\* parse_ipv4
ValidAddress(a) == a # Unspecified /\ a \notin Multicast

\* _decode_tunnel_id, _decode_secret and the role.
ValidIdentity(c) ==
    /\ c.role \in {"iran", "foreign"}
    /\ c.tunnelId = 16 /\ c.secret >= 32

\* A time that is not finite is modelled as one that is not positive: both are
\* refused.
ValidLimits(c) ==
    /\ c.shortestTime > 0 /\ c.recvBuffer >= 65536
    /\ 0 <= c.retries /\ c.retries <= 100
    /\ 1 <= c.pending /\ c.pending <= 100000
    /\ 1 <= c.batch /\ c.batch <= 100000

\* Everything load_config insists on.
Loads(c) ==
    /\ ValidIdentity(c)
    /\ ValidLimits(c)
    /\ ValidFragment(c.fragment)
    /\ c.source = None \/ ValidAddress(c.source)

-----------------------------------------------------------------------------

\* fragment_message: how many pieces n bytes are cut into.
FragmentCount(n, size) == IF n = 0 THEN 1 ELSE (n + size - 1) \div size

\* A full fragment, sealed, with its UDP and IPv4 headers.
PacketSize(size) == size + FRAME_OVERHEAD + 8 + 20

\* What an accepted fragment size has to give: no message the protocol allows
\* is refused for its number of fragments, and no packet exceeds the Ethernet
\* MTU that the comment on MAX_FRAGMENT_PAYLOAD is about.
Carries(size) ==
    /\ FragmentCount(MAX_MESSAGE_SIZE, size) <= MAX_FRAGMENTS
    /\ PacketSize(size) <= 1500

=============================================================================
