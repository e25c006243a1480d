-------------------------- MODULE MCSessionBuilder --------------------------
(***************************************************************************)
(* SessionBuilder on small instances: a day of four units with a buffer of *)
(* half a day, like the 24 and 12 hours of the code.                       *)
(***************************************************************************)
EXTENDS SessionBuilder

TwoDevices == {1, 2}
OneDevice  == {1}
FirstDays  == {0, 1}
FirstDay   == {0}

=============================================================================
