----------------------------- MODULE MCReports ------------------------------
(***************************************************************************)
(* Instances of Reports for TLC: values of the constants that a            *)
(* configuration file cannot write, and the symmetries of its sets.        *)
(***************************************************************************)
EXTENDS Reports, TLC

(* The closed substatus keeps reports for one day of two ticks. *)
ShortSubstatusTTL == [s \in Substatuses |-> 2]

(* Recipients that may grant access are alike, and so are attachments. *)
SymmetricAccess  == Permutations(CanGrant) \cup Permutations(Files)
SymmetricReports == Permutations(Reports)

=============================================================================
