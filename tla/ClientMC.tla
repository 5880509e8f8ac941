------------------------------ MODULE ClientMC ------------------------------
(* Client for TLC: the cfgs give model values for names and contents, and    *)
(* say which acts the users have.                                            *)
EXTENDS Client
=============================================================================
