--------------------------- MODULE ReplicationMC ---------------------------
(* Replication for TLC: model values for servers, devices, files, versions. *)
EXTENDS Replication

=============================================================================
