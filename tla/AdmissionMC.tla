---------------------------- MODULE AdmissionMC ----------------------------
(* Admission for TLC: the cfgs give model values for the agents.             *)
EXTENDS Admission
=============================================================================
