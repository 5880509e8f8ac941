----------------------------- MODULE Replication -----------------------------
(***************************************************************************)
(* How a user's files reach the user's devices and the backup servers.     *)
(*                                                                         *)
(* The main server has a session thread per device, which carries out its  *)
(* uploads and deletes; a joiner thread per backup server, which adds it   *)
(* to the server list and sends it all there is; and a heartbeat thread.   *)
(* They all write to the same sockets, a packet at a time.  A file goes as *)
(* a packet with its name and one packet per fragment, and whoever reads   *)
(* it takes what comes after the name for fragments.  Sessions and joiners *)
(* hold access_server_list while they write to the backups, but joiners    *)
(* let go of it before the files, and the heartbeat never takes it.        *)
(*                                                                         *)
(* A fragment is named by the version of the file it belongs to, and       *)
(* Overlaps says which threads may run beside others.  A file is read when *)
(* send_file opens it and written when receive_file closes it: both fit    *)
(* the streams' buffers.  Files have a fragment at least, and fewer than   *)
(* the receiver's counter, of Width bits, can count.                       *)
(***************************************************************************)
EXTENDS Naturals, Sequences, FiniteSets, SequencesExt

CONSTANTS
  Main, Device, Backup,  \* the main server, the user's devices, the backups
  File, Version, Sizes,  \* the file names, contents and numbers of fragments
  Restarted,             \* the backups that run again on the files of an earlier run
  Width,                 \* the bits of seq_num: 16
  Gone, Junk, Stray,     \* no file; what is no fragment; a name of no file
  Old,                   \* what a file holds since the earlier run
  Free,                  \* nobody holds access_server_list
  Overlaps,              \* "session", "join", "beat": what may overlap others
  Window,                \* the packets a socket holds before write() blocks
  MaxChanges, MaxBeats   \* bounds on what devices do, and on the heartbeats

ASSUME ReplicationAssumption ==
  /\ Width \in Nat \ {0} /\ 2^Width \in Nat \ {0, 1} /\ Sizes \subseteq 1 .. 2^Width - 1
  /\ Window \in Nat \ {0}
  /\ MaxChanges \in Nat /\ MaxBeats \in Nat
  /\ Overlaps \subseteq {"session", "join", "beat"}
  /\ IsFiniteSet(Device) /\ IsFiniteSet(File) /\ File # {}
  /\ Device \cap Backup = {} /\ Main \notin Device \cup Backup
  /\ Free \notin Device \cup Backup
  /\ Restarted \subseteq Backup /\ Old \notin Version \cup {Junk}
  /\ File \cap Version = {} /\ {Junk, Stray} \cap (File \cup Version) = {}
  /\ Gone \notin File \cup {Stray} /\ Gone \notin Seq(Version \cup {Junk, Old})

Thread  == Device \cup Backup
Reader  == Device \cup Backup
Content == Seq(Version \cup {Junk, Old})

VARIABLES
  disk,      \* the files of the main server and of each reader
  chan,      \* the packets under way to each reader's socket
  list,      \* the main server's server list, oldest first
  lock,      \* access_server_list
  pc, job,   \* where each thread is, and the change a session carries out
  plan, out, \* what a thread has yet to send, and to write of its open file
  mode,      \* which receive loop a reader is in
  into, got, \* the file it receives, and the packets it received of it
  peers,     \* the server list of each backup
  changes, beats  \* how many changes and heartbeats there have been

main    == <<list, lock, pc, job, plan, out, changes, beats>>
readers == <<mode, into, got, peers>>
vars    == <<disk, chan, main, readers>>

\* The packets.  A joiner's names say whether they are the last.
Name(p)        == [type |-> "data", payload |-> p, total |-> 1]
SyncName(p, l) == [type |-> "data", payload |-> p, total |-> 1, last |-> l]
Part(v, n)     == [type |-> "data", payload |-> v, total |-> n]
DeleteCmd(p)   == [type |-> "cmd", payload |-> p, total |-> 1]
ServerInfo(s)  == [type |-> "server", payload |-> s, total |-> 1]
Eot            == [type |-> "eot", payload |-> Junk, total |-> 1]
Beat           == [type |-> "beat", payload |-> Junk, total |-> 1]
Err            == [type |-> "err", payload |-> Junk, total |-> 0]

Packet ==
  [type : {"data", "cmd", "server", "eot", "beat", "err"},
   payload : File \cup Version \cup {Junk} \cup Seq(Backup), total : Nat]
  \cup [type : {"data"}, payload : File, total : Nat, last : BOOLEAN]

Send == [to : Reader, packet : Packet]

TypeOK ==
  /\ disk \in [{Main} \cup Reader -> [File -> Content \cup {Gone}]]
  /\ chan \in [Reader -> Seq(Packet)]
  /\ list \in Seq(Backup)
  /\ lock \in Thread \cup {Free}
  /\ pc \in [Thread -> {"idle", "receive", "orphan", "devices", "backups",
                        "out", "list", "clients", "files", "in"}]
  /\ job \in [Device -> [op : {"upload", "delete"}, path : File, content : Content]]
  /\ plan \in [Thread -> Seq(Send)]
  /\ out \in [Thread -> Seq(Send)]
  /\ mode \in [Reader -> {"servers", "clients", "sync_dir", "sync", "down"}]
  /\ into \in [Reader -> File \cup {Stray, Gone}]
  /\ got \in [Reader -> 0 .. 2^Width - 1]
  /\ peers \in [Backup -> Seq(Backup)]
  /\ changes \in 0 .. MaxChanges /\ beats \in 0 .. MaxBeats

Init ==
  /\ \E f \in [File -> {<<v>> : v \in Version} \cup {Gone}] :
       disk = [s \in {Main} \cup Reader |->
                 CASE s \in Restarted -> [p \in File |-> <<Old>>]
                   [] s \in Backup \ Restarted -> [p \in File |-> Gone]
                   [] OTHER -> f]
  /\ chan = [r \in Reader |-> <<>>]
  /\ list = <<>> /\ lock = Free
  /\ pc = [t \in Thread |-> IF t \in Device THEN "idle" ELSE "out"]
  /\ job = [d \in Device |-> [op |-> "delete", path |-> CHOOSE p \in File : TRUE, content |-> <<>>]]
  /\ plan = [t \in Thread |-> <<>>]
  /\ out = [t \in Thread |-> <<>>]
  /\ mode = [r \in Reader |-> IF r \in Device THEN "sync" ELSE "servers"]
  /\ into = [r \in Reader |-> Gone]
  /\ got = [r \in Reader |-> 0]
  /\ peers = [b \in Backup |-> <<>>]
  /\ changes = 0 /\ beats = 0

-----------------------------------------------------------------------------
(* Who may run beside whom.                                                *)

Busy(t) == pc[t] \notin {"idle", "out", "in"}

Apart(kind, threads) == kind \in Overlaps \/ \A t \in threads : ~Busy(t)

MayChange == Apart("session", Device) /\ Apart("join", Backup)
MayJoin   == Apart("join", Thread)
MayBeat   == Apart("beat", Thread)

-----------------------------------------------------------------------------
(* What a thread writes.                                                   *)

Room(r) == Len(chan[r]) < Window

Write(r, packet) == Room(r) /\ chan' = [chan EXCEPT ![r] = Append(@, packet)]

To(targets, packet) == [i \in DOMAIN targets |-> [to |-> targets[i], packet |-> packet]]

\* With a total that counts one fragment too many.
SendFileRoundedUp(r, content) ==
  IF content = Gone THEN <<[to |-> r, packet |-> Err]>>
  ELSE [i \in DOMAIN content |-> [to |-> r, packet |-> Part(content[i], Len(content) + 1)]]

\* What send_file writes of a file to r.
SendFile(r, content) ==
  IF content = Gone THEN <<[to |-> r, packet |-> Err]>>
  ELSE [i \in DOMAIN content |-> [to |-> r, packet |-> Part(content[i], Len(content))]]

\* t sends the next name, of a file to delete or to open and send after it.
SendNext(t) ==
  /\ plan[t] # <<>> /\ out[t] = <<>>
  /\ LET next == Head(plan[t]) IN
       /\ Write(next.to, next.packet)
       /\ out' = [out EXCEPT ![t] =
                    IF next.packet.type = "data"
                    THEN SendFile(next.to, disk[Main][next.packet.payload])
                    ELSE <<>>]
  /\ plan' = [plan EXCEPT ![t] = Tail(@)]
  /\ UNCHANGED <<disk, list, lock, pc, job, changes, beats, readers>>

WritePart(t) ==
  /\ out[t] # <<>>
  /\ Write(Head(out[t]).to, Head(out[t]).packet)
  /\ out' = [out EXCEPT ![t] = Tail(@)]
  /\ UNCHANGED <<disk, list, lock, pc, job, plan, changes, beats, readers>>

Sent(t) == plan[t] = <<>> /\ out[t] = <<>>

-----------------------------------------------------------------------------
(* A session: upload and delete_server_file.                               *)

\* Without the second device.
FirstDeviceSocket == SubSeq(SetToSeq(Device), 1, 1)

\* The slots of the user's client node.
DeviceSockets == SetToSeq(Device)

NameOf(d) ==
  IF job[d].op = "upload" THEN Name(job[d].path) ELSE DeleteCmd(job[d].path)

\* The command comes in and receive_file creates or empties the file.
BeginUpload(d, p, v, n) ==
  /\ pc[d] = "idle" /\ MayChange /\ changes < MaxChanges
  /\ changes' = changes + 1
  /\ disk' = [disk EXCEPT ![Main][p] = <<>>]
  /\ job' = [job EXCEPT ![d] = [op |-> "upload", path |-> p,
                                content |-> [i \in 1 .. n |-> v]]]
  /\ pc' = [pc EXCEPT ![d] = "receive"]
  /\ UNCHANGED <<chan, list, lock, plan, out, beats, readers>>

\* What is written from the start of a file leaves a longer file's tail.
Overwrite(old, new) ==
  new \o SubSeq(old, Len(new) + 1, Len(old))

\* receive_file closes the file, which may have been deleted meanwhile.
EndUpload(d) ==
  /\ pc[d] \in {"receive", "orphan"}
  /\ disk' = IF pc[d] = "orphan" THEN disk
             ELSE [disk EXCEPT ![Main][job[d].path] = Overwrite(@, job[d].content)]
  /\ plan' = [plan EXCEPT ![d] = To(DeviceSockets, NameOf(d))]
  /\ pc' = [pc EXCEPT ![d] = "devices"]
  /\ UNCHANGED <<chan, list, lock, job, out, changes, beats, readers>>

\* A file that is not there is not propagated.
BeginDelete(d, p) ==
  /\ pc[d] = "idle" /\ MayChange /\ changes < MaxChanges
  /\ disk[Main][p] # Gone
  /\ changes' = changes + 1
  /\ disk' = [disk EXCEPT ![Main][p] = Gone]
  /\ job' = [job EXCEPT ![d] = [op |-> "delete", path |-> p, content |-> <<>>]]
  /\ plan' = [plan EXCEPT ![d] = To(DeviceSockets, DeleteCmd(p))]
  /\ pc' = [t \in Thread |->
              IF t = d THEN "devices"
              ELSE IF pc[t] = "receive" /\ job[t].path = p THEN "orphan" ELSE pc[t]]
  /\ UNCHANGED <<chan, list, lock, out, beats, readers>>

\* Without the mutex.
LockServerListNot(d) ==
  /\ pc[d] = "devices" /\ Sent(d)
  /\ lock' = d
  /\ plan' = [plan EXCEPT ![d] = To(list, NameOf(d))]
  /\ pc' = [pc EXCEPT ![d] = "backups"]
  /\ UNCHANGED <<disk, chan, list, job, out, changes, beats, readers>>

\* The devices have it: the session locks the server list and goes through it.
LockServerList(d) ==
  /\ pc[d] = "devices" /\ Sent(d)
  /\ lock = Free
  /\ lock' = d
  /\ plan' = [plan EXCEPT ![d] = To(list, NameOf(d))]
  /\ pc' = [pc EXCEPT ![d] = "backups"]
  /\ UNCHANGED <<disk, chan, list, job, out, changes, beats, readers>>

UnlockServerList(d) ==
  /\ pc[d] = "backups" /\ Sent(d)
  /\ lock' = Free
  /\ pc' = [pc EXCEPT ![d] = "idle"]
  /\ UNCHANGED <<disk, chan, list, job, plan, out, changes, beats, readers>>

Session(d) ==
  \/ \E p \in File, v \in Version, n \in Sizes : BeginUpload(d, p, v, n)
  \/ \E p \in File : BeginDelete(d, p)

-----------------------------------------------------------------------------
(* A joiner: add_backup_server.                                            *)

\* b goes on the list unannounced.
AddBackupServerSilently(b) ==
  /\ pc[b] = "out" /\ MayJoin /\ lock = Free
  /\ lock' = b
  /\ list' = Append(list, b)
  /\ pc' = [pc EXCEPT ![b] = "list"]
  /\ UNCHANGED <<disk, chan, job, plan, out, changes, beats, readers>>

\* The others hear of b before b is on the list.
AddBackupServer(b) ==
  /\ pc[b] = "out" /\ MayJoin /\ lock = Free
  /\ \A r \in ToSet(list) : Room(r)
  /\ lock' = b
  /\ chan' = [r \in Reader |->
                IF r \in ToSet(list) THEN Append(chan[r], ServerInfo(<<b>>)) ELSE chan[r]]
  /\ list' = Append(list, b)
  /\ pc' = [pc EXCEPT ![b] = "list"]
  /\ UNCHANGED <<disk, job, plan, out, changes, beats, readers>>

BackupServerList(b) ==
  /\ pc[b] = "list"
  /\ Write(b, ServerInfo(list))
  /\ lock' = Free
  /\ pc' = [pc EXCEPT ![b] = "clients"]
  /\ UNCHANGED <<disk, list, job, plan, out, changes, beats, readers>>

BackupClientList(b) ==
  /\ pc[b] = "clients"
  /\ Write(b, Eot)
  /\ pc' = [pc EXCEPT ![b] = "files"]
  /\ UNCHANGED <<disk, list, lock, job, plan, out, changes, beats, readers>>

\* The directory is read once, in any order; an empty one is said to be empty.
BackupSyncDir(b) ==
  /\ pc[b] = "files"
  /\ LET paths == {p \in File : disk[Main][p] # Gone}
         n     == Cardinality(paths)
     IN  \E order \in SetToSeqs(paths) :
           /\ plan' = [plan EXCEPT ![b] =
                         [i \in 1 .. n |-> [to |-> b, packet |-> SyncName(order[i], i = n)]]]
           /\ out' = [out EXCEPT ![b] =
                        IF n = 0 THEN <<[to |-> b, packet |-> Err]>> ELSE <<>>]
  /\ pc' = [pc EXCEPT ![b] = "backups"]
  /\ UNCHANGED <<disk, chan, list, lock, job, changes, beats, readers>>

Joined(b) ==
  /\ pc[b] = "backups" /\ Sent(b)
  /\ pc' = [pc EXCEPT ![b] = "in"]
  /\ UNCHANGED <<disk, chan, list, lock, job, plan, out, changes, beats, readers>>

\* heartbeat_protocol goes through the list without the lock.
Heartbeat(b) ==
  /\ b \in ToSet(list) /\ MayBeat /\ beats < MaxBeats
  /\ Write(b, Beat)
  /\ beats' = beats + 1
  /\ UNCHANGED <<disk, list, lock, pc, job, plan, out, changes, readers>>

-----------------------------------------------------------------------------
(* A reader: a backup server or the fetch thread of a device.              *)

Packets(r) == mode[r] # "down" /\ chan[r] # <<>>

Take(r) == chan' = [chan EXCEPT ![r] = Tail(@)]

Packet1(r) == Head(chan[r])

\* receive_server_list takes the first packet for the list.  A heartbeat's
\* payload holds no name, and a string made of none ends the program.
ReceiveServerList(r) ==
  /\ mode[r] = "servers" /\ Packets(r)
  /\ Take(r)
  /\ IF Packet1(r).type = "server"
     THEN /\ peers' = [peers EXCEPT ![r] = Packet1(r).payload]
          /\ mode' = [mode EXCEPT ![r] = "clients"]
     ELSE /\ mode' = [mode EXCEPT ![r] = "down"]
          /\ UNCHANGED peers
  /\ UNCHANGED <<disk, main, into, got>>

\* receive_client_list drops what is neither a client nor the end.
ReceiveClientList(r) ==
  /\ mode[r] = "clients" /\ Packets(r)
  /\ Take(r)
  /\ mode' = [mode EXCEPT ![r] = IF Packet1(r).type = "eot" THEN "sync_dir" ELSE @]
  /\ UNCHANGED <<disk, main, into, got, peers>>

\* Opened to append.
OpenAtEnd(r, p) ==
  /\ into' = [into EXCEPT ![r] = p]
  /\ got' = [got EXCEPT ![r] = 0]
  /\ disk' = IF p = Stray \/ disk[r][p] # Gone THEN disk ELSE [disk EXCEPT ![r][p] = <<>>]

\* receive_file opens p, which empties it.
Open(r, p) ==
  /\ into' = [into EXCEPT ![r] = p]
  /\ got' = [got EXCEPT ![r] = 0]
  /\ disk' = IF p = Stray THEN disk ELSE [disk EXCEPT ![r][p] = <<>>]

\* receive_sync_dir_files ends after the last name's file, and at any packet
\* that is no name with its number, which is lost.
ReceiveSyncDir(r) ==
  /\ mode[r] = "sync_dir" /\ Packets(r) /\ into[r] = Gone
  /\ Take(r)
  /\ IF "last" \in DOMAIN Packet1(r)
     THEN /\ Open(r, Packet1(r).payload)
          /\ mode' = [mode EXCEPT ![r] = IF Packet1(r).last THEN "sync" ELSE @]
     ELSE /\ mode' = [mode EXCEPT ![r] = "sync"]
          /\ UNCHANGED <<disk, into, got>>
  /\ UNCHANGED <<main, peers>>

\* seq_num++.
Count(n) == (n + 1) % 2^Width

\* receive_file writes whatever comes, and removes the file at an error.
ReceivePart(r) ==
  /\ into[r] # Gone /\ Packets(r)
  /\ Take(r)
  /\ LET packet   == Packet1(r)
         fragment == IF packet.payload \in Version THEN packet.payload ELSE Junk
         content  == IF packet.type = "err" THEN Gone ELSE Append(disk[r][into[r]], fragment)
     IN  /\ disk' = IF into[r] = Stray THEN disk ELSE [disk EXCEPT ![r][into[r]] = content]
         /\ got' = [got EXCEPT ![r] = Count(@)]
         /\ into' = IF packet.type = "err" \/ Count(got[r]) = packet.total
                    THEN [into EXCEPT ![r] = Gone] ELSE into
  /\ UNCHANGED <<main, mode, peers>>

\* await_sync, of a server or of a device.
Sync(r) == mode[r] = "sync" /\ Packets(r) /\ into[r] = Gone

SyncFile(r) ==
  /\ Sync(r) /\ Packet1(r).type = "data" /\ Packet1(r).payload \in File
  /\ Take(r)
  /\ Open(r, Packet1(r).payload)
  /\ UNCHANGED <<main, mode, peers>>

\* A fragment for a name: of a file that is none of the user's, or of none,
\* which ends the program.
SyncFragment(r) ==
  /\ Sync(r) /\ Packet1(r).type = "data" /\ Packet1(r).payload \notin File
  /\ Take(r)
  /\ \/ Open(r, Stray) /\ UNCHANGED mode
     \/ mode' = [mode EXCEPT ![r] = "down"] /\ UNCHANGED <<disk, into, got>>
  /\ UNCHANGED <<main, peers>>

SyncDelete(r) ==
  /\ Sync(r) /\ Packet1(r).type = "cmd"
  /\ Take(r)
  /\ disk' = [disk EXCEPT ![r][Packet1(r).payload] = Gone]
  /\ UNCHANGED <<main, mode, into, got, peers>>

\* The payload is added as it is.
SyncServerUnparsed(r) ==
  /\ Sync(r) /\ Packet1(r).type = "server"
  /\ Take(r)
  /\ peers' = [peers EXCEPT ![r] = Append(@, Packet1(r).payload)]
  /\ UNCHANGED <<disk, main, mode, into, got>>

SyncServer(r) ==
  /\ Sync(r) /\ Packet1(r).type = "server"
  /\ Take(r)
  /\ LET server == Head(Packet1(r).payload)
     IN  peers' = [peers EXCEPT ![r] = IF server \in ToSet(@) THEN @ ELSE Append(@, server)]
  /\ UNCHANGED <<disk, main, mode, into, got>>

SyncNothing(r) ==
  /\ Sync(r) /\ Packet1(r).type \in {"beat", "err", "eot"}
  /\ Take(r)
  /\ UNCHANGED <<disk, main, readers>>

Receive(r) ==
  \/ ReceiveServerList(r) \/ ReceiveClientList(r) \/ ReceiveSyncDir(r)
  \/ ReceivePart(r)
  \/ SyncFile(r) \/ SyncFragment(r) \/ SyncDelete(r) \/ SyncServer(r) \/ SyncNothing(r)

\* What a thread does once it has begun.
Proceed(t) ==
  \/ SendNext(t) \/ WritePart(t)
  \/ t \in Device /\ (EndUpload(t) \/ LockServerList(t) \/ UnlockServerList(t))
  \/ t \in Backup /\ (BackupServerList(t) \/ BackupClientList(t) \/ BackupSyncDir(t) \/ Joined(t))

Next ==
  \/ \E t \in Thread : Proceed(t)
  \/ \E d \in Device : Session(d)
  \/ \E b \in Backup : AddBackupServer(b) \/ Heartbeat(b)
  \/ \E r \in Reader : Receive(r)

Spec == Init /\ [][Next]_vars

\* Threads that have begun are scheduled, and so are the readers.
Fairness ==
  /\ \A t \in Thread : WF_vars(Proceed(t))
  /\ \A r \in Reader : WF_vars(Receive(r))

FairSpec == Spec /\ Fairness

-----------------------------------------------------------------------------
(* Properties.                                                             *)

\* access_server_list lets one session at a time write to the backups, and
\* none while a joiner puts its server on the list.
Sending(t) == out[t] # <<>> /\ Head(out[t]).to \in Backup

OneSender ==
  /\ \A d, e \in Device : Sending(d) /\ Sending(e) => d = e
  /\ \A d \in Device, b \in Backup : Sending(d) => pc[b] # "list"

\* All is written and read.
Settled == (\A t \in Thread : ~Busy(t)) /\ (\A r \in Reader : chan[r] = <<>>)

\* A backup server on the list holds the main server's files, with their
\* contents: the one the election picks goes on with them.  Nothing clears the
\* directory of one that runs again: it may also hold, as it was, a file of
\* the earlier run that the main server no longer has, and nothing else.
Relic(b, p) == b \in Restarted /\ disk[b][p] = <<Old>> /\ disk[Main][p] = Gone

BackupsAgree ==
  Settled => \A b \in ToSet(list), p \in File :
               disk[b][p] = disk[Main][p] \/ Relic(b, p)

\* So do the user's devices.
DevicesAgree == Settled => \A d \in Device : disk[d] = disk[Main]

\* Every backup server has the same server list, in the same order: the ring
\* and the ids of the election are made of it.
RostersAgree == Settled => \A b \in ToSet(list) : peers[b] = list

\* A reader that has opened a file gets all of it and closes it.
TransferEnds == \A r \in Reader : into[r] # Gone ~> into[r] = Gone

=============================================================================
