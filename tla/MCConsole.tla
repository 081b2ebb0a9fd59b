------------------------------ MODULE MCConsole ------------------------------
(* An instance of Console for TLC: ann has mail, bob has none. *)
EXTENDS Console, TLC

CONSTANTS ann, bob, e1, m1, m2

MCOwner == [e \in Emails |-> ann]
MutationSymmetry == Permutations(Mutations)
=============================================================================
