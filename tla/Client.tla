------------------------------- MODULE Client -------------------------------
(***************************************************************************)
(* One device of a user, and its session on the main server.               *)
(*                                                                         *)
(* The client program runs four threads.  The command thread carries out   *)
(* what the user asks for and reads the answers from the command socket.   *)
(* The watcher turns inotify events of sync_dir into requests on the same  *)
(* socket and files on the upload socket, unless the event's name is in    *)
(* paths, the list of changes to expect.  The fetcher applies what other   *)
(* devices (and this one) changed, and puts the names in paths.  The       *)
(* accepting thread swaps the three sockets when a new main server calls.  *)
(*                                                                         *)
(* A file and its name are one message here, as are all fragments of a     *)
(* file; an empty file has none, and what send_file cannot open is sent as *)
(* an error, which is the content Gone.  The other device and its session  *)
(* are the peer's actions.  The hidden menu entry GET_SYNC_DIR, the exit   *)
(* and rejected clients are left out.                                      *)
(***************************************************************************)
EXTENDS Naturals, Sequences, FiniteSets, SequencesExt

CONSTANTS
  File, Version,   \* the names in sync_dir, and contents of at least a byte
  Empty, Gone,     \* the content of an empty file; no file
  Cut,             \* a file whose sender died half-way
  Old,             \* the sets of files a directory may start with
  MaxAcks,         \* how many unread acknowledgements are told from more
  MaxActs,         \* how often users act, and main servers die
  Acts             \* which of those the instance has

ASSUME ClientAssumption ==
  /\ {Empty, Gone, Cut} \cap Version = {}
  /\ Empty # Gone /\ Empty # Cut /\ Gone # Cut
  /\ IsFiniteSet(File) /\ Gone \notin File /\ Old \subseteq SUBSET File
  /\ MaxActs \in Nat /\ MaxAcks \in Nat \ {0}

VARIABLES
  local,    \* sync_dir
  watched,  \* did sync_dir exist when the watch was added?
  events,   \* the inotify events not yet handled
  paths,    \* how often a name is in the list of expected changes
  user,     \* the command thread: its place, what it was asked, of which file
  watcher,  \* the watcher: the file it has announced and not sent yet
  fetcher,  \* the fetcher: the file it is receiving
  stale,    \* threads that still read a socket the accepting thread closed
  alive,    \* the client program runs
  link,     \* its sockets: "up", their server "dead", "closed" by the client
  toServer, \* the command socket, to the server ...
  replies,  \* ... and back
  uploads,  \* the upload socket
  fetch,    \* the fetch socket
  session,  \* the session thread: its place and its request
  served,   \* the user's files on the main server
  backup,   \* and on the backup servers
  acts,     \* how many acts there were
  care,     \* how patient the users were, ...
  wanted,   \* ... what they want the files to be, and ...
  muted     \* ... the files changed on a device that expects a change of them:
            \* only the properties read these

client == <<local, watched, events, paths, user, watcher, fetcher, stale, alive>>
server == <<session, served, backup>>
vars   == <<client, link, toServer, replies, uploads, fetch, server, acts, care, wanted, muted>>

Idle == [name |-> Gone]

Request(op, p) == [op |-> op, name |-> p]

\* Packets on the command socket towards the client.
Name(p, l) == [type |-> "name", name |-> p, last |-> l]
Info(l)    == [type |-> "info", last |-> l]
Data(c)    == [type |-> "data", content |-> c]
Ack        == [type |-> "success"]
Err        == [type |-> "err"]

Content == Version \cup {Empty}
Disk    == [File -> Content \cup {Gone}]
Event   == [op : {"write", "delete"}, name : File]

TypeOK ==
  /\ local \in Disk /\ served \in Disk /\ backup \in Disk
  /\ watched \in BOOLEAN /\ alive \in BOOLEAN
  /\ events \in Seq(Event)
  /\ paths \in [File -> Nat]
  /\ user.at \in {"erase", "sync", "sync_file", "menu", "file", "data", "infos", "response"}
  /\ watcher.name \in File \cup {Gone}
  /\ fetcher.name \in File \cup {Gone}
  /\ stale \subseteq {"user", "fetcher"}
  /\ link \in {"up", "dead", "closed"}
  /\ toServer \in Seq([op : {"upload", "download", "delete", "list"}, name : File])
  /\ \A i \in DOMAIN replies : replies[i].type \in {"name", "info", "data", "success", "err"}
  /\ uploads \in Seq(Version \cup {Gone})
  /\ \A i \in DOMAIN fetch : fetch[i].name \in File
  /\ session.at \in {"hello", "idle", "receive", "devices", "backups", "gone"}
  /\ acts \in 0 .. MaxActs
  /\ care \in {"settled", "hasty", "raced"} /\ wanted \in Disk /\ muted \subseteq File
  /\ \A i \in DOMAIN fetch : fetch[i].op \in {"file", "delete"}

\* The program starts on a directory with files of an earlier run, if any.
Before == {d \in [File -> Version \cup {Gone}] : {p \in File : d[p] # Gone} \in Old}

Init ==
  /\ local \in Before /\ served \in Before /\ backup = served
  /\ watched \in BOOLEAN
  /\ ~watched => local = [p \in File |-> Gone]
  /\ events = <<>> /\ paths = [p \in File |-> 0]
  /\ user = [at |-> "erase", op |-> "sync", name |-> Gone]
  /\ watcher = Idle /\ fetcher = Idle /\ stale = {} /\ alive = TRUE
  /\ link = "up" /\ toServer = <<>> /\ replies = <<>> /\ uploads = <<>> /\ fetch = <<>>
  /\ session = [at |-> "hello", op |-> "sync", name |-> Gone]
  /\ acts = 0 /\ care = "settled" /\ wanted = served /\ muted = {}

\* connect_client_to_server is through, and the threads run.
Started == user.at \notin {"erase", "sync", "sync_file"}

Quiet ==
  /\ Started /\ user.at \in {"menu", "response"}
  /\ watcher = Idle /\ fetcher = Idle /\ stale = {}
  /\ link = "up" /\ session.at = "idle"
  /\ events = <<>> /\ toServer = <<>> /\ uploads = <<>> /\ fetch = <<>>

\* A user, or the death of a main server.
Act(kind) ==
  /\ kind \in Acts /\ acts < MaxActs
  /\ acts' = acts + 1
  /\ care' = IF care = "settled" /\ ~Quiet THEN "hasty" ELSE care

\* What the user wants of file p from here on.
Wants(p, c) ==
  wanted' = IF care' = "settled" THEN [wanted EXCEPT ![p] = c] ELSE wanted

\* What a user of this device changes: the event may be taken for an echo.
Changes(p, c) ==
  /\ Wants(p, c)
  /\ muted' = IF paths[p] > 0 THEN muted \cup {p} ELSE muted

-----------------------------------------------------------------------------
(* sync_dir, its events, and the list of expected changes.                 *)

\* inotify merges an event with an equal one that is next to it and unread.
\* An event stays in this queue until the watcher handles it, also while it
\* is in the watcher's buffer, where nothing merges with it any more.
Notify(queue, op, p) ==
  LET event == [op |-> op, name |-> p]
  IN  IF ~watched THEN {queue}
      ELSE {Append(queue, event)} \cup
           (IF queue # <<>> /\ Last(queue) = event THEN {queue} ELSE {})

Store(p, c) ==
  /\ local' = [local EXCEPT ![p] = c]
  /\ events' \in Notify(events, "write", p)

\* fs::remove of what is not there does nothing.
RemoveFile(p) ==
  /\ local' = [local EXCEPT ![p] = Gone]
  /\ events' \in IF local[p] = Gone THEN {events} ELSE Notify(events, "delete", p)

AddPathNot(p) == UNCHANGED <<paths, alive, care>>

\* The list is shared without a lock: what the fetcher appends while the
\* watcher searches or erases may be lost, or end the program; once is enough.
AddPath(p) ==
  \/ /\ paths' = [paths EXCEPT ![p] = @ + 1]
     /\ UNCHANGED <<alive, care>>
  \/ /\ events # <<>> /\ care # "raced"
     /\ care' = "raced"
     /\ alive' \in BOOLEAN
     /\ UNCHANGED paths

-----------------------------------------------------------------------------
(* Writing to the server.  What is written to a dead server's socket is    *)
(* lost, but for the first time it may already end the program; and what   *)
(* is written between close() and the new connection does.                 *)

Write(queue, packet) ==
  \/ /\ link = "up"
     /\ queue' = Append(queue, packet)
     /\ UNCHANGED alive
  \/ /\ link = "dead"
     /\ UNCHANGED <<queue, alive>>
  \/ /\ link # "up"
     /\ alive' = FALSE
     /\ UNCHANGED queue

\* send_file sends no packet at all of an empty file.
SendFile(c) ==
  IF c = Empty THEN UNCHANGED <<uploads, alive>> ELSE Write(uploads, c)

-----------------------------------------------------------------------------
(* The user's own changes of sync_dir.                                     *)

Save(p) ==
  /\ \/ Act("save") /\ \E v \in Version : Store(p, v) /\ Changes(p, v)
     \/ Act("touch") /\ Store(p, Empty) /\ Changes(p, Empty)
  /\ UNCHANGED <<watched, paths, user, watcher, fetcher, stale, alive, link,
                 toServer, replies, uploads, fetch, server>>

Delete(p) ==
  /\ Act("delete")
  /\ local[p] # Gone
  /\ RemoveFile(p) /\ Changes(p, Gone)
  /\ UNCHANGED <<watched, paths, user, watcher, fetcher, stale, alive, link,
                 toServer, replies, uploads, fetch, server>>

-----------------------------------------------------------------------------
(* check_dir_updates.                                                      *)

Event1 == Head(events)

Watching == alive /\ Started /\ watcher = Idle /\ events # <<>>

\* One entry of the list is erased, whether or not there is one.
WatchEchoUnchecked ==
  /\ Watching
  /\ paths' = [paths EXCEPT ![Event1.name] = @ - 1]
  /\ events' = Tail(events)
  /\ UNCHANGED <<local, watched, user, watcher, fetcher, stale, alive, link,
                 toServer, replies, uploads, fetch, server, acts, care, wanted, muted>>

\* An expected event: one entry of the list is erased.
WatchEcho ==
  /\ Watching /\ paths[Event1.name] > 0
  /\ paths' = [paths EXCEPT ![Event1.name] = @ - 1]
  /\ events' = Tail(events)
  /\ UNCHANGED <<local, watched, user, watcher, fetcher, stale, alive, link,
                 toServer, replies, uploads, fetch, server, acts, care, wanted, muted>>

WatchUpload ==
  /\ Watching /\ paths[Event1.name] = 0 /\ Event1.op = "write"
  /\ Write(toServer, Request("upload", Event1.name))
  /\ watcher' = [name |-> Event1.name]
  /\ events' = Tail(events)
  /\ UNCHANGED <<local, watched, paths, user, fetcher, stale, link,
                 replies, uploads, fetch, server, acts, care, wanted, muted>>

WatchSendFile ==
  /\ alive /\ watcher # Idle
  /\ SendFile(local[watcher.name])
  /\ watcher' = Idle
  /\ UNCHANGED <<local, watched, events, paths, user, fetcher, stale, link,
                 toServer, replies, fetch, server, acts, care, wanted, muted>>

WatchDelete ==
  /\ Watching /\ paths[Event1.name] = 0 /\ Event1.op = "delete"
  /\ Write(toServer, Request("delete", Event1.name))
  /\ events' = Tail(events)
  /\ UNCHANGED <<local, watched, paths, user, watcher, fetcher, stale, link,
                 replies, uploads, fetch, server, acts, care, wanted, muted>>

Watch == WatchEcho \/ WatchUpload \/ WatchSendFile \/ WatchDelete

-----------------------------------------------------------------------------
(* await_sync of the client.                                               *)

Fetching(op) ==
  /\ alive /\ Started /\ fetcher = Idle
  /\ fetch # <<>> /\ Head(fetch).op = op

FetchDelete ==
  /\ Fetching("delete")
  /\ AddPath(Head(fetch).name)
  /\ RemoveFile(Head(fetch).name)
  /\ fetch' = Tail(fetch)
  /\ UNCHANGED <<watched, user, watcher, fetcher, stale, link,
                 toServer, replies, uploads, server, acts, wanted, muted>>

\* The file is emptied when it is opened ...
FetchOpen ==
  /\ Fetching("file")
  /\ AddPath(Head(fetch).name)
  /\ local' = [local EXCEPT ![Head(fetch).name] = Empty]
  /\ fetcher' = Head(fetch)
  /\ fetch' = Tail(fetch)
  /\ UNCHANGED <<watched, events, user, watcher, stale, link,
                 toServer, replies, uploads, server, acts, wanted, muted>>

\* ... and written, with an event, when it is closed.
FetchClose ==
  /\ alive /\ fetcher # Idle /\ "fetcher" \notin stale
  /\ fetcher.content \in Version
  /\ Store(fetcher.name, fetcher.content)
  /\ fetcher' = Idle
  /\ UNCHANGED <<watched, paths, user, watcher, stale, alive, link,
                 toServer, replies, uploads, fetch, server, acts, care, wanted, muted>>

\* An error, be it the sender's or the closed socket's: closed and removed.
FetchError ==
  /\ alive /\ fetcher # Idle
  /\ "fetcher" \in stale \/ fetcher.content = Gone
  /\ local' = [local EXCEPT ![fetcher.name] = Gone]
  /\ \E queue \in Notify(events, "write", fetcher.name) :
       events' \in Notify(queue, "delete", fetcher.name)
  /\ fetcher' = Idle
  /\ stale' = stale \ {"fetcher"}
  /\ UNCHANGED <<watched, paths, user, watcher, alive, link,
                 toServer, replies, uploads, fetch, server, acts, care, wanted, muted>>

Fetch == FetchDelete \/ FetchOpen \/ FetchClose \/ FetchError

-----------------------------------------------------------------------------
(* The command thread: connect_client_to_server, then commands.            *)

At(place) == alive /\ user.at = place

Goes(place) == user' = [user EXCEPT !.at = place]

\* erase_dir: every file is an expected change, and removed.
EraseDir ==
  /\ At("erase")
  /\ LET files == {p \in File : local[p] # Gone}
     IN  \E order \in SetToSeqs(files) :
           /\ paths' = [p \in File |-> IF p \in files THEN paths[p] + 1 ELSE paths[p]]
           /\ events' = events \o
                IF watched THEN [i \in DOMAIN order |-> [op |-> "delete", name |-> order[i]]]
                ELSE <<>>
  /\ local' = [p \in File |-> Gone]
  /\ Goes("sync")
  /\ UNCHANGED <<watched, watcher, fetcher, stale, alive, link,
                 toServer, replies, uploads, fetch, server, acts, care, wanted, muted>>

\* The next packet, and what a closed socket gives instead.
Reads(packet) ==
  \/ /\ "user" \in stale \/ link = "closed"
     /\ packet = Err
     /\ stale' = stale \ {"user"}
     /\ UNCHANGED replies
  \/ /\ "user" \notin stale
     /\ replies # <<>> /\ packet = Head(replies)
     /\ replies' = Tail(replies)
     /\ UNCHANGED stale

\* receive_sync_dir_files: a name ...
ReceiveName ==
  /\ At("sync")
  /\ \E packet \in ToSet(replies) \cup {Err} :
       /\ Reads(packet)
       /\ IF packet.type = "name"
          THEN /\ paths' = [paths EXCEPT ![packet.name] = @ + 1]
               /\ local' = [local EXCEPT ![packet.name] = Empty]
               /\ user' = [at |-> "sync_file", op |-> IF packet.last THEN "last" ELSE "sync",
                           name |-> packet.name]
          ELSE /\ Goes("menu")
               /\ UNCHANGED <<paths, local>>
  /\ UNCHANGED <<watched, events, watcher, fetcher, alive, link,
                 toServer, uploads, fetch, server, acts, care, wanted, muted>>

\* ... and the file of that name.
ReceiveFile ==
  /\ At("sync_file")
  /\ replies # <<>>
  /\ Store(user.name, Head(replies).content)
  /\ replies' = Tail(replies)
  /\ Goes(IF user.op = "last" THEN "menu" ELSE "sync")
  /\ UNCHANGED <<watched, paths, watcher, fetcher, stale, alive, link,
                 toServer, uploads, fetch, server, acts, care, wanted, muted>>

\* Commands that begin with a request.
Command(kind, p, place) ==
  /\ At("menu") /\ Act(kind)
  /\ Write(toServer, Request(kind, p))
  /\ user' = [at |-> place, op |-> kind, name |-> p]
  /\ UNCHANGED <<local, watched, events, paths, watcher, fetcher, stale, link,
                 replies, uploads, fetch, server, wanted, muted>>

\* Commands that send nothing themselves.
LocalCommand(p) ==
  /\ At("menu")
  /\ \/ Act("remove") /\ RemoveFile(p) /\ Changes(p, Gone)
     \/ Act("list_client") /\ UNCHANGED <<local, events, wanted, muted>>
  /\ user' = [at |-> "response", op |-> "local", name |-> p]
  /\ UNCHANGED <<watched, paths, watcher, fetcher, stale, alive, link,
                 toServer, replies, uploads, fetch, server>>

Menu(p) ==
  \/ Command("upload", p, "file") \/ Command("download", p, "data")
  \/ Command("list", p, "infos") \/ LocalCommand(p)

\* upload: the file is one from anywhere, or there is none: the user who
\* names one that does not exist is taken to want what happens, its removal.
SendUpload ==
  /\ At("file") /\ UNCHANGED <<care, muted>>
  /\ \E c \in Version \cup {Gone} : SendFile(c) /\ Wants(user.name, c)
  /\ Goes("response")
  /\ UNCHANGED <<local, watched, events, paths, watcher, fetcher, stale, link,
                 toServer, replies, fetch, server, acts>>

\* download: receive_file takes whatever comes, and is done after one packet
\* that says it is the only one.
ReceiveDownload ==
  /\ At("data")
  /\ \E packet \in ToSet(replies) \cup {Err} : Reads(packet)
  /\ Goes("response")
  /\ UNCHANGED <<local, watched, events, paths, watcher, fetcher, alive, link,
                 toServer, uploads, fetch, server, acts, care, wanted, muted>>

\* receive_list_server_times ends at the last info and at anything else.
ReceiveInfo ==
  /\ At("infos")
  /\ \E packet \in ToSet(replies) \cup {Err} :
       /\ Reads(packet)
       /\ Goes(IF packet.type = "info" /\ ~packet.last THEN "infos" ELSE "response")
  /\ UNCHANGED <<local, watched, events, paths, watcher, fetcher, alive, link,
                 toServer, uploads, fetch, server, acts, care, wanted, muted>>

\* get_response takes the next packet for the answer.
GetResponse ==
  /\ At("response")
  /\ \E packet \in ToSet(replies) \cup {Err} : Reads(packet)
  /\ Goes("menu")
  /\ UNCHANGED <<local, watched, events, paths, watcher, fetcher, alive, link,
                 toServer, uploads, fetch, server, acts, care, wanted, muted>>

CommandThread ==
  \/ EraseDir \/ ReceiveName \/ ReceiveFile
  \/ SendUpload \/ ReceiveDownload \/ ReceiveInfo \/ GetResponse

-----------------------------------------------------------------------------
(* The session thread of the main server.                                  *)

Serves(place) == link = "up" /\ session.at = place

Continue(place) == session' = [session EXCEPT !.at = place]

\* start_communications ends with the user's files.
SendSyncDir ==
  /\ Serves("hello") /\ user.at # "erase"
  /\ LET files == {p \in File : served[p] # Gone}
         n     == Cardinality(files)
     IN  \E order \in SetToSeqs(files) :
           replies' = replies \o
             IF n = 0 THEN <<Err>>
             ELSE [i \in 1 .. 2*n |->
                     IF i % 2 = 1 THEN Name(order[(i + 1) \div 2], i + 1 = 2*n)
                     ELSE Data(served[order[i \div 2]])]
  /\ Continue("idle")
  /\ UNCHANGED <<client, link, toServer, uploads, fetch, served, backup, acts, care, wanted, muted>>

\* Nobody reads the acknowledgements of the watcher's changes.
Acknowledge ==
  LET all == Append(replies, Ack)
  IN  replies' = IF Cardinality({i \in DOMAIN all : all[i] = Ack}) > MaxAcks
                 THEN replies ELSE all

\* await_command_packet.
Takes(op, p) ==
  /\ Serves("idle")
  /\ toServer # <<>> /\ Head(toServer) = Request(op, p)
  /\ toServer' = Tail(toServer)

\* receive_file empties the file before the first fragment comes.
TakeUpload(p) ==
  /\ Takes("upload", p)
  /\ served' = [served EXCEPT ![p] = Empty]
  /\ session' = [at |-> "receive", op |-> "file", name |-> p]
  /\ UNCHANGED <<client, link, replies, uploads, fetch, backup, acts, care, wanted, muted>>

ReceiveUpload ==
  /\ Serves("receive") /\ uploads # <<>>
  /\ served' = [served EXCEPT ![session.name] = Head(uploads)]
  /\ uploads' = Tail(uploads)
  /\ Continue("devices")
  /\ UNCHANGED <<client, link, toServer, replies, fetch, backup, acts, care, wanted, muted>>

\* The file is removed and nobody told.
TakeDeleteOnly(p) ==
  /\ Takes("delete", p)
  /\ served' = [served EXCEPT ![p] = Gone]
  /\ Acknowledge
  /\ UNCHANGED <<client, link, uploads, fetch, session, backup, acts, care, wanted, muted>>

TakeDelete(p) ==
  /\ Takes("delete", p)
  /\ IF served[p] = Gone
     THEN /\ Acknowledge
          /\ UNCHANGED <<served, session>>
     ELSE /\ served' = [served EXCEPT ![p] = Gone]
          /\ session' = [at |-> "devices", op |-> "delete", name |-> p]
          /\ UNCHANGED replies
  /\ UNCHANGED <<client, link, uploads, fetch, backup, acts, care, wanted, muted>>

ToDevice(op, p) == [op |-> op, name |-> p, content |-> served[p]]

\* The change goes to both devices, the one it came from included ...
PropagateToDevices ==
  /\ Serves("devices")
  /\ fetch' = Append(fetch, ToDevice(session.op, session.name))
  /\ Continue("backups")
  /\ UNCHANGED <<client, link, toServer, replies, uploads, served, backup,
                 acts, care, wanted, muted>>

\* No acknowledgement.
PropagateToBackupsSilently ==
  /\ Serves("backups")
  /\ backup' = [backup EXCEPT ![session.name] = served[session.name]]
  /\ Continue("idle")
  /\ UNCHANGED <<client, link, toServer, replies, uploads, fetch, served,
                 acts, care, wanted, muted>>

\* ... then to the backups, and is acknowledged.
PropagateToBackups ==
  /\ Serves("backups")
  /\ backup' = [backup EXCEPT ![session.name] = served[session.name]]
  /\ Acknowledge
  /\ Continue("idle")
  /\ UNCHANGED <<client, link, toServer, uploads, fetch, served, acts, care, wanted, muted>>

TakeDownload(p) ==
  /\ Takes("download", p)
  /\ replies' = replies \o <<IF served[p] = Gone THEN Err ELSE Data(served[p]), Ack>>
  /\ UNCHANGED <<client, link, uploads, fetch, server, acts, care, wanted, muted>>

TakeList(p) ==
  /\ Takes("list", p)
  /\ LET n == Cardinality({f \in File : served[f] # Gone})
     IN  replies' = replies \o
           (IF n = 0 THEN <<Err>> ELSE [i \in 1 .. n |-> Info(i = n)]) \o <<Ack>>
  /\ UNCHANGED <<client, link, uploads, fetch, server, acts, care, wanted, muted>>

Session ==
  \/ SendSyncDir \/ ReceiveUpload \/ PropagateToDevices \/ PropagateToBackups
  \/ \E p \in File : TakeUpload(p) \/ TakeDelete(p) \/ TakeDownload(p) \/ TakeList(p)

\* The session of the user's other device.
Peer(p) ==
  /\ link = "up"
  /\ \/ Act("peer_save") /\ \E v \in Version : served' = [served EXCEPT ![p] = v]
     \/ Act("peer_delete") /\ served[p] # Gone /\ served' = [served EXCEPT ![p] = Gone]
  /\ Wants(p, served'[p])
  /\ fetch' = Append(fetch, [op |-> IF served'[p] = Gone THEN "delete" ELSE "file",
                             name |-> p, content |-> served'[p]])
  /\ backup' = [backup EXCEPT ![p] = served'[p]]
  /\ UNCHANGED <<client, link, toServer, replies, uploads, session, muted>>

-----------------------------------------------------------------------------
(* The main server dies, and an elected backup connects to the client.     *)

\* A file on its way to the device may be cut.
Die ==
  /\ Act("die") /\ link = "up" /\ Started
  /\ link' = "dead"
  /\ toServer' = <<>> /\ uploads' = <<>>
  /\ \/ UNCHANGED fetch
     \/ /\ session.at = "devices" /\ session.op = "file"
        /\ fetch' = Append(fetch, [op |-> "file", name |-> session.name, content |-> Cut])
  /\ served' = backup
  /\ Continue("gone")
  /\ UNCHANGED <<client, replies, backup, wanted, muted>>

\* accept_connections, at the first contact.  The threads that read the old
\* sockets get an error, now or later: their descriptors name new sockets.
CloseSockets ==
  /\ alive /\ link = "dead"
  /\ link' = "closed"
  /\ replies' = <<>> /\ fetch' = <<>>
  /\ stale' = {t \in {"user", "fetcher"} :
                 \/ t = "user" /\ user.at \in {"data", "infos", "response"}
                 \/ t = "fetcher" /\ fetcher # Idle}
  /\ user' = [user EXCEPT !.op = IF user.at = "menu" THEN @ ELSE "cut"]
  /\ UNCHANGED <<local, watched, events, paths, watcher, fetcher, alive,
                 toServer, uploads, server, acts, care, wanted, muted>>

SetSockets ==
  /\ alive /\ link = "closed"
  /\ link' = "up"
  /\ session' = [at |-> "idle", op |-> "sync", name |-> Gone]
  /\ UNCHANGED <<client, toServer, replies, uploads, fetch, served, backup,
                 acts, care, wanted, muted>>

Accept == CloseSockets \/ SetSockets

-----------------------------------------------------------------------------
Next ==
  \/ \E p \in File : Save(p) \/ Delete(p) \/ Menu(p) \/ Peer(p)
  \/ Watch \/ Fetch \/ CommandThread \/ Session
  \/ Die \/ Accept

Spec == Init /\ [][Next]_vars

\* Threads are scheduled; nobody has to act, and no server to die.
Fairness ==
  /\ WF_vars(Watch) /\ WF_vars(Fetch) /\ WF_vars(CommandThread)
  /\ WF_vars(Session) /\ WF_vars(Accept)

FairSpec == Spec /\ Fairness

-----------------------------------------------------------------------------
(* Properties.                                                             *)

Agree(p) == local[p] = wanted[p] /\ served[p] = wanted[p] /\ backup[p] = wanted[p]

\* Users who wait until all is quiet find what they made of the files on the
\* device, the main server and the backups: start-up erased nothing but the
\* device's old files, check_dir_updates sent each of their changes and no
\* echo, and the fetcher applied the others, also after a fail-over.  Only a
\* file that was changed while an expected change of it never came, which is
\* what the device's own delete leaves behind, may differ.
DirectoryAgrees ==
  Quiet /\ alive /\ watched /\ care = "settled" => \A p \in File \ muted : Agree(p)

\* The server waits for a file that was empty when it was to be sent.
Stuck == session.at = "receive" /\ uploads = <<>> /\ watcher = Idle /\ user.at # "file"

\* A change a device sent comes back to it and is applied and watched there
\* like another's; it is not sent once more, and so on for ever.
EchoesEnd ==
  <>[][WatchUpload \/ WatchDelete => care \in {"hasty", "raced"}]_vars

\* Every command that asks the server something gets back to the menu, unless
\* its main server dies or that session waits.
CommandEnds ==
  (user.at # "menu" /\ user.op \in {"sync", "last", "upload", "download", "list"})
     ~> (user.at = "menu" \/ user.op = "cut" \/ Stuck \/ ~alive)

=============================================================================
