----------------------------- MODULE MCStorage ------------------------------
(***************************************************************************)
(* Instances of Storage for TLC.                                           *)
(***************************************************************************)
EXTENDS Storage, TLC

(* No substatus has a retention. *)
NoSubstatusTTL == [s \in Substatuses |-> 0]

SymmetricFiles == Permutations(Files)

=============================================================================
