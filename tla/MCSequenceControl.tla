------------------------- MODULE MCSequenceControl -------------------------
(***************************************************************************)
(* Stations for model checking SequenceControl.                            *)
(***************************************************************************)
EXTENDS SequenceControl

CONSTANTS c1, c2, scm

OneClient == {c1}
TwoClients == {c1, c2}
=============================================================================
