----------------------------- MODULE ElectionMC -----------------------------
(* Election for TLC: the cfgs give the number of backups and say whether    *)
(* they may die.  Every variable ranges over a finite set, except the ring's *)
(* channels, which the election itself keeps short.                          *)
EXTENDS Election
=============================================================================
