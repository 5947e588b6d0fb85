---------------------------- MODULE MCReassembler ----------------------------
(* A small instance of Reassembler: messages of two fragments and parity,    *)
(* and messages of a single fragment, each kind interchangeable.             *)
EXTENDS Reassembler

CONSTANTS Split, Single

FragmentCount == [k \in Split \cup Single |-> IF k \in Split THEN 2 ELSE 1]

Messages == Split \cup Single

KindSymmetry == Permutations(Split) \cup Permutations(Single)

=============================================================================
