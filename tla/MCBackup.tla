------------------------------ MODULE MCBackup ------------------------------
(***************************************************************************)
(* Backup on small instances.                                              *)
(***************************************************************************)
EXTENDS Backup

NightlyAndRequest == {"nightly", "request"}
OneRequest        == {"request"}

\* Months of two days.
ShortMonths == [d \in 0 .. MaxDay |-> d \div 2]

=============================================================================
