------------------------------ MODULE Devices ------------------------------
(***************************************************************************)
(* Which devices of a user the servers know.                               *)
(*                                                                         *)
(* The main server's client_list has two slots for the user.  A session    *)
(* takes one when its device is admitted and frees it when the device      *)
(* exits, both under access_device_list, and tells the backup servers      *)
(* afterwards, under access_server_list.  A backup that joins gets the     *)
(* list, and then what changes.  A backup that takes over for a dead main  *)
(* server has the host names without sockets and connects to each of them, *)
(* one thread a slot.                                                      *)
(*                                                                         *)
(* Sockets are their session's number, 0 for (0, 0, 0).  A node of the     *)
(* list without devices is no node.  connect_hand admits one device at a   *)
(* time, which Admission shows.  Files, heartbeats and the election are    *)
(* left out: the backup that takes over is any, and it does so once.       *)
(***************************************************************************)
EXTENDS Naturals, Sequences, FiniteSets, SequencesExt

CONSTANTS
  Host, NoHost,     \* the host names of devices, and the empty one
  Primary, Backup,  \* the first main server, the backups
  Nobody,           \* no main server
  MaxSessions,      \* how many sessions there are
  MaxActs,          \* how often a program is started, stopped or killed
  MaxHasty          \* how many of these happen before all is settled

ASSUME DevicesAssumption ==
  /\ NoHost \notin Host /\ Primary \notin Backup
  /\ Nobody \notin Backup \cup {Primary}
  /\ IsFiniteSet(Backup)
  /\ MaxSessions \in Nat /\ MaxActs \in Nat /\ MaxHasty \in Nat

Server  == Backup \cup {Primary}
Session == 1 .. MaxSessions
Slot    == [host : Host \cup {NoHost}, session : {0} \cup Session]
Device  == {1, 2}

VARIABLES
  main,     \* the server that is main
  list,     \* client_list of each server: the user's two slots
  session,  \* the threads of sessions: where they are, and their host name
  device,   \* the client programs: where they are, and their session
  serves,   \* server_list of the main server: the backups it tells
  joiner,   \* the handlers of the backups' connections
  feed,     \* the packets sent to each backup
  place,    \* the backups
  thread,   \* the threads of reconnect_to_clients, one for each slot
  acts,     \* how many acts there were
  hasty,    \* how many of them happened before all was settled
  twins     \* whether a program started on a host that was listed already

vars == <<main, list, session, device, serves, joiner, feed, place, thread, acts,
          hasty, twins>>

NoSlot == [host |-> NoHost, session |-> 0]
Empty  == [k \in Device |-> NoSlot]

\* Packets to backups: CLIENTINFO of one device or of a node, the end of the
\* list, and DELETEDEVICE.
Info(h)    == [type |-> "info", host |-> h]
Node(l)    == [type |-> "node", hosts |-> [k \in Device |-> l[k].host]]
Eot        == [type |-> "eot"]
Deleted(h) == [type |-> "delete", host |-> h]

Packet ==
  [type : {"info", "delete"}, host : Host]
    \cup [type : {"node"}, hosts : [Device -> Host \cup {NoHost}]]
    \cup [type : {"eot"}]

TypeOK ==
  /\ main \in Server \cup {Nobody}
  /\ list \in [Server -> [Device -> Slot]]
  /\ \A n \in Server : \A k \in Device :
       list[n][k].session # 0 => list[n][k].host # NoHost
  /\ session \in [Session ->
       [at : {"none", "hello", "full", "listed", "reply", "serving", "exit",
              "removed", "closed"},
        host : Host \cup {NoHost}]]
  /\ device \in [Host -> [at : {"off", "joining", "on", "stranded"}, session : {0} \cup Session]]
  /\ serves \in Seq(Backup)
  /\ joiner \in [Backup -> {"none", "clients", "eot", "done"}]
  /\ feed \in [Backup -> Seq(Packet)]
  /\ place \in [Backup -> {"out", "list", "sync", "down", "main"}]
  /\ thread \in [Device -> [at : {"none", "wait", "connect", "add", "done"},
                            host : Host \cup {NoHost}, session : {0} \cup Session]]
  /\ acts \in 0 .. MaxActs /\ hasty \in 0 .. MaxHasty /\ twins \in BOOLEAN

Init ==
  /\ main = Primary
  /\ list = [n \in Server |-> Empty]
  /\ session = [s \in Session |-> [at |-> "none", host |-> NoHost]]
  /\ device = [h \in Host |-> [at |-> "off", session |-> 0]]
  /\ serves = <<>> /\ joiner = [b \in Backup |-> "none"]
  /\ feed = [b \in Backup |-> <<>>] /\ place = [b \in Backup |-> "out"]
  /\ thread = [k \in Device |-> [at |-> "none", host |-> NoHost, session |-> 0]]
  /\ acts = 0 /\ hasty = 0 /\ twins = FALSE

-----------------------------------------------------------------------------
(* ClientList.                                                             *)

Free(slot, h) == slot.session = 0 /\ slot.host \in {NoHost, h}

Full(l, h) == \A k \in Device : ~Free(l[k], h)

\* add_device: the first free slot, if there is one.
Add(l, h, s) ==
  LET slot == [host |-> h, session |-> s]
  IN  IF Free(l[1], h) THEN [l EXCEPT ![1] = slot]
      ELSE IF Free(l[2], h) THEN [l EXCEPT ![2] = slot]
      ELSE l

\* The host name is cleared and the sockets stay.
RemoveHostOnly(l, s) ==
  [k \in Device |-> IF l[k].session = s THEN [l[k] EXCEPT !.host = NoHost] ELSE l[k]]

\* remove_device by sockets: a node with no sockets left is deleted, with the
\* host name that may wait for some in the other slot.
RemoveSockets(l, s) ==
  LET rest == [k \in Device |-> IF l[k].session = s THEN NoSlot ELSE l[k]]
  IN  IF \E k \in Device : rest[k].session # 0 THEN rest
      ELSE IF rest = l THEN l ELSE Empty

\* remove_device by host name: the first slot with it.
RemoveHost(l, h) ==
  IF l[1].host = h THEN [l EXCEPT ![1] = NoSlot]
  ELSE IF l[2].host = h THEN [l EXCEPT ![2] = NoSlot]
  ELSE l

Hosts(l) == {l[k].host : k \in Device} \ {NoHost}

-----------------------------------------------------------------------------
Admitting == {"hello", "full", "listed", "reply"}

\* Every change of the main server's list has reached every backup, and every
\* device it lists after a fail-over is connected.
Settled ==
  /\ main # Nobody
  /\ \A s \in Session : session[s].at \in {"none", "serving", "closed"}
  /\ \A b \in Backup : feed[b] = <<>> /\ joiner[b] \in {"none", "done"}
  /\ \A k \in Device : thread[k].at \in {"none", "done"}

Act ==
  /\ acts < MaxActs /\ acts' = acts + 1
  /\ hasty' = IF Settled THEN hasty ELSE hasty + 1
  /\ hasty' <= MaxHasty
  /\ UNCHANGED twins

Rest == UNCHANGED <<acts, hasty, twins>>

\* Session s is a new one.
New(s) == session[s].at = "none" /\ \A t \in Session : session[t].at = "none" => s <= t

\* The session's thread is the main server's: those of a dead one are gone.
At(s, at) == main # Nobody /\ session[s].at = at

Goes(s, at) == session' = [session EXCEPT ![s].at = at]

\* Under access_server_list, so that nothing comes between two backups.
Tell(packet) ==
  feed' = [b \in Backup |-> IF Contains(serves, b) THEN Append(feed[b], packet) ELSE feed[b]]

-----------------------------------------------------------------------------
(* Devices come.                                                           *)

\* A client program starts on host h and is admitted.
Start(h) ==
  /\ Act /\ main # Nobody
  /\ device[h].at = "off"
  /\ \A t \in Session : session[t].at \notin Admitting
  /\ \E s \in Session :
       /\ New(s)
       /\ session' = [session EXCEPT ![s] = [at |-> "hello", host |-> h]]
       /\ device' = [device EXCEPT ![h] = [at |-> "joining", session |-> s]]
  /\ UNCHANGED <<main, list, serves, joiner, feed, place, thread>>

\* start_communications: take a slot ...
AddDevice(s) ==
  /\ At(s, "hello")
  /\ list' = [list EXCEPT ![main] = Add(@, session[s].host, s)]
  /\ Goes(s, IF Full(list[main], session[s].host) THEN "full" ELSE "listed")
  /\ twins' = (twins \/ session[s].host \in Hosts(list[main]))
  /\ UNCHANGED <<main, device, serves, joiner, feed, place, thread, acts, hasty>>

\* The reply before the list's change is propagated.
PropagateDeviceNot(s) ==
  /\ At(s, "listed")
  /\ Goes(s, "reply")
  /\ UNCHANGED <<main, list, device, serves, joiner, feed, place, thread>> /\ Rest

\* ... tell the backups ...
PropagateDevice(s) ==
  /\ At(s, "listed")
  /\ Tell(Info(session[s].host))
  /\ Goes(s, "reply")
  /\ UNCHANGED <<main, list, device, serves, joiner, place, thread>> /\ Rest

\* ... and send the user's files.
GetSyncDir(s) ==
  /\ At(s, "reply")
  /\ Goes(s, "serving")
  /\ device' = [device EXCEPT ![session[s].host].at = "on"]
  /\ UNCHANGED <<main, list, serves, joiner, feed, place, thread>> /\ Rest

\* A third device is told to exit: it sends EXIT, like any that exits.
Reject(s) ==
  /\ At(s, "full")
  /\ Goes(s, "exit")
  /\ device' = [device EXCEPT ![session[s].host] = [at |-> "off", session |-> 0]]
  /\ UNCHANGED <<main, list, serves, joiner, feed, place, thread>> /\ Rest

-----------------------------------------------------------------------------
(* Devices go.                                                             *)

Exit(h) ==
  /\ Act /\ main # Nobody
  /\ device[h].at = "on"
  /\ Goes(device[h].session, "exit")
  /\ device' = [device EXCEPT ![h] = [at |-> "off", session |-> 0]]
  /\ UNCHANGED <<main, list, serves, joiner, feed, place, thread>>

\* The session reads the end of a killed program's connection for ever.
Kill(h) ==
  /\ Act
  /\ device[h].at \in {"on", "stranded"}
  /\ device' = [device EXCEPT ![h] = [at |-> "off", session |-> 0]]
  /\ UNCHANGED <<main, list, session, serves, joiner, feed, place, thread>>

\* end_communications with the host name for the sockets.
EndCommunicationsByHost(s) ==
  /\ At(s, "exit")
  /\ list' = [list EXCEPT ![main] = RemoveHost(@, session[s].host)]
  /\ Goes(s, "removed")
  /\ UNCHANGED <<main, device, serves, joiner, feed, place, thread>> /\ Rest

\* end_communications: free the slot, whichever has these sockets ...
EndCommunications(s) ==
  /\ At(s, "exit")
  /\ list' = [list EXCEPT ![main] = RemoveSockets(@, s)]
  /\ Goes(s, "removed")
  /\ UNCHANGED <<main, device, serves, joiner, feed, place, thread>> /\ Rest

\* ... tell the backups, and close the sockets.
PropagateRemoval(s) ==
  /\ At(s, "removed")
  /\ Tell(Deleted(session[s].host))
  /\ Goes(s, "closed")
  /\ UNCHANGED <<main, list, device, serves, joiner, place, thread>> /\ Rest

SessionThread ==
  \E s \in Session :
    \/ AddDevice(s) \/ PropagateDevice(s) \/ GetSyncDir(s) \/ Reject(s)
    \/ EndCommunications(s) \/ PropagateRemoval(s)

-----------------------------------------------------------------------------
(* Backups.                                                                *)

\* add_backup_server: from here on the backup is told of changes ...
AddBackupServer(b) ==
  /\ Act /\ main = Primary
  /\ place[b] = "out"
  /\ \A t \in Session : session[t].at \notin Admitting
  /\ serves' = Append(serves, b)
  /\ joiner' = [joiner EXCEPT ![b] = "clients"]
  /\ place' = [place EXCEPT ![b] = "list"]
  /\ UNCHANGED <<main, list, session, device, feed, thread>>

\* ... backup_client_list: it gets the list, and then ...
SendClients(b) ==
  /\ main # Nobody /\ joiner[b] = "clients"
  /\ feed' = IF list[main] = Empty THEN feed
             ELSE [feed EXCEPT ![b] = Append(@, Node(list[main]))]
  /\ joiner' = [joiner EXCEPT ![b] = "eot"]
  /\ UNCHANGED <<main, list, session, device, serves, place, thread>> /\ Rest

\* ... its end.
SendEot(b) ==
  /\ main # Nobody /\ joiner[b] = "eot"
  /\ feed' = [feed EXCEPT ![b] = Append(@, Eot)]
  /\ joiner' = [joiner EXCEPT ![b] = "done"]
  /\ UNCHANGED <<main, list, session, device, serves, place, thread>> /\ Rest

\* The next packet; a joining backup looks for a second host name.
Receives(b, at, type) ==
  /\ place[b] = at /\ b # main
  /\ feed[b] # <<>> /\ Head(feed[b]).type = type
  /\ feed' = [feed EXCEPT ![b] = Tail(@)]
  /\ UNCHANGED <<main, session, device, serves, joiner, thread>> /\ Rest

\* receive_client_list.
ReceiveNode(b) ==
  /\ Receives(b, "list", "node")
  /\ LET hosts  == Head(feed[b]).hosts
         With(l, k) == IF hosts[k] = NoHost THEN l ELSE Add(l, hosts[k], 0)
     IN  list' = [list EXCEPT ![b] = With(With(@, 1), 2)]
  /\ UNCHANGED place

ReceiveEot(b) ==
  /\ Receives(b, "list", "eot")
  /\ place' = [place EXCEPT ![b] = "sync"]
  /\ UNCHANGED list

\* A change in between has one name less, and strtok returns NULL ...
ReceiveUnparsed(b) ==
  /\ Receives(b, "list", "info")
  /\ place' = [place EXCEPT ![b] = "down"]
  /\ UNCHANGED list

\* ... or is no packet of the list.
ReceiveNothing(b) ==
  /\ Receives(b, "list", "delete")
  /\ UNCHANGED <<list, place>>

\* await_sync.
SyncInfo(b) ==
  /\ Receives(b, "sync", "info")
  /\ list' = [list EXCEPT ![b] = Add(@, Head(feed[b]).host, 0)]
  /\ UNCHANGED place

SyncDelete(b) ==
  /\ Receives(b, "sync", "delete")
  /\ list' = [list EXCEPT ![b] = RemoveHost(@, Head(feed[b]).host)]
  /\ UNCHANGED place

BackupThread(b) ==
  \/ SendClients(b) \/ SendEot(b)
  \/ ReceiveNode(b) \/ ReceiveEot(b) \/ ReceiveUnparsed(b) \/ ReceiveNothing(b)
  \/ SyncInfo(b) \/ SyncDelete(b)

-----------------------------------------------------------------------------
(* The main server dies.                                                   *)

\* A program that was being admitted reads for ever and is killed.
Die ==
  /\ Act /\ main = Primary
  /\ \E b \in Backup : place[b] = "sync"
  /\ main' = Nobody
  /\ serves' = <<>>
  /\ joiner' = [b \in Backup |-> "done"]
  /\ session' = [s \in Session |->
       IF session[s].at = "none" THEN session[s] ELSE [session[s] EXCEPT !.at = "closed"]]
  /\ device' = [h \in Host |->
       CASE device[h].at = "on" -> [device[h] EXCEPT !.at = "stranded"]
         [] device[h].at = "joining" -> [at |-> "off", session |-> 0]
         [] OTHER -> device[h]]
  /\ UNCHANGED <<list, feed, place, thread>>

\* evolve_into_main, with the other backups attached: the election's timers
\* wait for silence, so all have read what they were sent.
\* reconnect_to_clients has a thread for every slot with a host name.
Evolve(b) ==
  /\ main = Nobody /\ place[b] = "sync"
  /\ \A c \in Backup : place[c] # "main" /\ (feed[c] = <<>> \/ place[c] = "down")
  /\ main' = b
  /\ place' = [place EXCEPT ![b] = "main"]
  /\ \E others \in SetToSeqs({c \in Backup \ {b} : place[c] = "sync"}) : serves' = others
  /\ thread' = [k \in Device |->
       [at |-> IF list[b][k].host = NoHost THEN "none" ELSE "wait",
        host |-> list[b][k].host, session |-> 0]]
  /\ UNCHANGED <<list, session, device, joiner, feed>> /\ Rest

\* The mutex is kept while the session lasts.
LockHandComKept(k) ==
  /\ main # Nobody /\ thread[k].at = "wait"
  /\ \A j \in Device : thread[j].at \in {"none", "wait"}
  /\ thread' = [thread EXCEPT ![k].at = "connect"]
  /\ UNCHANGED <<main, list, session, device, serves, joiner, feed, place>> /\ Rest

\* connect_to_client_hostname: connect_hand_com admits one thread ...
LockHandCom(k) ==
  /\ main # Nobody /\ thread[k].at = "wait"
  /\ \A j \in Device : thread[j].at # "connect"
  /\ thread' = [thread EXCEPT ![k].at = "connect"]
  /\ UNCHANGED <<main, list, session, device, serves, joiner, feed, place>> /\ Rest

\* ... which retries until a client accepts three connections: one that runs,
\* whatever it is connected to.
ConnectToClient(k) ==
  /\ main # Nobody /\ thread[k].at = "connect"
  /\ device[thread[k].host].at \in {"stranded", "on"}
  /\ \E s \in Session :
       /\ New(s)
       /\ session' = [session EXCEPT ![s] = [at |-> "serving", host |-> thread[k].host]]
       /\ device' = [device EXCEPT ![thread[k].host] = [at |-> "on", session |-> s]]
       /\ thread' = [thread EXCEPT ![k].at = "add", ![k].session = s]
  /\ UNCHANGED <<main, list, serves, joiner, feed, place>> /\ Rest

\* The device is connected to and not listed with its sockets.
AddReconnectedNot(k) ==
  /\ main # Nobody /\ thread[k].at = "add"
  /\ thread' = [thread EXCEPT ![k].at = "done"]
  /\ UNCHANGED <<main, list, session, device, serves, joiner, feed, place>> /\ Rest

\* Whether the list was full is not looked at.
AddReconnected(k) ==
  /\ main # Nobody /\ thread[k].at = "add"
  /\ list' = [list EXCEPT ![main] = Add(@, thread[k].host, thread[k].session)]
  /\ thread' = [thread EXCEPT ![k].at = "done"]
  /\ UNCHANGED <<main, session, device, serves, joiner, feed, place>> /\ Rest

\* The host of a killed program may be gone too: gethostbyname fails, exit(0).
HostUnknown(k) ==
  /\ main # Nobody /\ thread[k].at = "wait" /\ device[thread[k].host].at = "off"
  /\ main' = Nobody
  /\ serves' = <<>>
  /\ UNCHANGED <<list, session, device, joiner, feed, place, thread>> /\ Rest

ReconnectThread == \E k \in Device : ConnectToClient(k) \/ AddReconnected(k)

-----------------------------------------------------------------------------
Next ==
  \/ \E h \in Host : Start(h) \/ Exit(h) \/ Kill(h)
  \/ SessionThread
  \/ \E b \in Backup : AddBackupServer(b) \/ BackupThread(b) \/ Evolve(b)
  \/ Die
  \/ ReconnectThread \/ \E k \in Device : LockHandCom(k) \/ HostUnknown(k)

Spec == Init /\ [][Next]_vars

\* Threads are scheduled, backups read, and an election ends with a main
\* server (Election shows when).  Nobody acts, and no host vanishes, of need.
Fairness ==
  /\ WF_vars(SessionThread) /\ WF_vars(ReconnectThread)
  /\ \A k \in Device : WF_vars(LockHandCom(k))
  /\ \A b \in Backup : WF_vars(BackupThread(b))
  /\ WF_vars(\E b \in Backup : Evolve(b))

FairSpec == Spec /\ Fairness

-----------------------------------------------------------------------------
(* Properties.                                                             *)

On(h)     == device[h].at = "on"
Listed(h) == \E k \in Device : list[main][k] = [host |-> h, session |-> device[h].session]

\* A slot is freed by the end of its own session and by nothing else: not by
\* a rejected device, not by another one of the same host name, and nobody
\* overwrites it.
OwnSlotFreed ==
  [][main' = main /\ main # Nobody =>
       \A k \in Device :
         LET s == list[main][k].session
         IN  s # 0 /\ list'[main][k] # list[main][k] => session[s].at = "exit"]_vars

\* A device that is served is listed with the sockets it uses, so that it gets
\* what the other one changes, also after a fail-over.
ServedIsListed ==
  Settled /\ hasty = 0 => \A h \in Host : On(h) => Listed(h)

\* When all is settled the backups know the host names that the main server
\* knows: programs came and went, backups joined, and one took over, each after
\* the last one was settled.  Once a program started on a host that is listed,
\* which is one whose last program was killed, a host name may be in two slots,
\* or in one that is not the session's, and the lists differ: until a backup
\* takes over they still have every device that is served and none that is not
\* listed.
BackupsKnowDevices ==
  Settled /\ hasty = 0 =>
    \A b \in Backup : place[b] = "sync" =>
      /\ ~twins => Hosts(list[b]) = Hosts(list[main])
      /\ main = Primary =>
           /\ {h \in Host : On(h)} \subseteq Hosts(list[b])
           /\ Hosts(list[b]) \subseteq Hosts(list[main])

Stranded(h) == main \in Backup /\ device[h].at = "stranded"

\* Each device the dead main server had is connected to by the new one, unless
\* another one of the list is gone.
Reattached ==
  \A h \in Host :
    (Stranded(h) /\ hasty = 0)
      ~> (~Stranded(h) \/ \E k \in Device :
            thread[k].at # "none" /\ device[thread[k].host].at = "off")

\* What the comment on reconnect_to_clients says: it reconnects to all of them,
\* with a thread for each.
ReconnectsToAll == \A h \in Host : (Stranded(h) /\ hasty = 0) ~> ~Stranded(h)

=============================================================================
