--------------------------- MODULE MCTransactions ---------------------------
(***************************************************************************)
(* Instances of Transactions for TLC: recipients, attachments, threads and *)
(* the tips that are not made yet are interchangeable.                     *)
(***************************************************************************)
EXTENDS Transactions, TLC

Symmetric ==
  Permutations(Users) \cup Permutations(Files) \cup Permutations(Threads)
    \cup Permutations(FirstTips) \cup Permutations(Tips \ FirstTips)

=============================================================================
