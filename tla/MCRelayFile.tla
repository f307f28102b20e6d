---------------------------- MODULE MCRelayFile ----------------------------
(* Instances of RelayFile for TLC.                                         *)
EXTENDS RelayFile, TLC

CONSTANTS s1, s2

(* All senders send the same file, or each one its own.                    *)
SameContent == [p \in Senders |-> "c"]
OwnContent == [p \in Senders |-> IF p = s1 THEN "c1" ELSE "c2"]

(* Bound: the second fault only while nothing is sent back.                *)
SecondFaultAlone == waiter.back = "none" \/ budget.faults > 0

(* Slots and inodes are interchangeable.                                   *)
Symmetry == Permutations(Streams) \cup Permutations(Inodes)

=============================================================================
