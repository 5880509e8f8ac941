----------------------------- MODULE DevicesMC -----------------------------
(* Devices for TLC: the cfgs give the hosts, the backups and the bounds.     *)
EXTENDS Devices
=============================================================================
