---------------------------- MODULE ClientProofs ----------------------------
(***************************************************************************)
(* For every set of files and contents, all acts and every bound: Client   *)
(* is type correct.  A packet is read for what the command thread expects, *)
(* so this takes what start_communications has written by then: names and  *)
(* files by turns, or one error (StartInv).                                *)
(***************************************************************************)
EXTENDS Client, SequenceTheorems, FiniteSetTheorems, TLAPS

-----------------------------------------------------------------------------
(* Types, with what each place in the code implies for the names.          *)

\* Packets on the command socket towards the client, entries on the fetch
\* socket, and requests.
Packet ==
  [type : {"name"}, name : File, last : BOOLEAN]
    \cup [type : {"info"}, last : BOOLEAN]
    \cup [type : {"data"}, content : Content] \cup {Ack, Err}
Entry  == [op : {"file", "delete"}, name : File, content : Content \cup {Gone, Cut}]
Order  == [op : {"upload", "download", "delete", "list"}, name : File]

DiskType == local \in Disk /\ served \in Disk /\ backup \in Disk /\ wanted \in Disk

QueueType ==
  /\ events \in Seq(Event) /\ paths \in [File -> Nat]
  /\ toServer \in Seq(Order) /\ replies \in Seq(Packet)
  /\ uploads \in Seq(Version \cup {Gone}) /\ fetch \in Seq(Entry)

UserType ==
  /\ user \in [at : {"erase", "sync", "sync_file", "menu", "file", "data", "infos", "response"},
               op : {"sync", "last", "upload", "download", "list", "local", "cut"},
               name : File \cup {Gone}]
  /\ user.at \in {"sync_file", "file"} => user.name \in File

SessionType ==
  /\ session \in [at : {"hello", "idle", "receive", "devices", "backups", "gone"},
                  op : {"sync", "file", "delete"}, name : File \cup {Gone}]
  /\ session.at \in {"receive", "devices", "backups"} => session.name \in File /\ session.op # "sync"

ThreadType ==
  /\ watcher \in [name : File \cup {Gone}] /\ fetcher \in Entry \cup {Idle}
  /\ stale \in SUBSET {"user", "fetcher"} /\ link \in {"up", "dead", "closed"}
  /\ watched \in BOOLEAN /\ alive \in BOOLEAN

CountType ==
  /\ acts \in 0 .. MaxActs /\ care \in {"settled", "hasty", "raced"}
  /\ muted \in SUBSET File

TypeInv == DiskType /\ QueueType /\ UserType /\ SessionType /\ ThreadType /\ CountType

\* Names and files by turns, counted from the last one, which is a file.
Turns(r) ==
  \A i \in 1 .. Len(r) :
    IF (Len(r) - i) % 2 = 0 THEN r[i].type = "data"
    ELSE r[i].type = "name" /\ r[i].last = (i = Len(r) - 1)

\* Until the files are read there is nothing else on any socket, and nobody
\* but the command thread and the session does anything.
StartInv ==
  /\ user.at = "erase" => session.at = "hello"
  /\ session.at = "hello" => user.at \in {"erase", "sync"}
  /\ ~Started =>
       /\ session.at \in {"hello", "idle"} /\ link = "up" /\ alive
       /\ watcher = Idle /\ fetcher = Idle /\ stale = {}
       /\ toServer = <<>> /\ uploads = <<>>
       /\ session.at = "hello" => replies = <<>>
  /\ user.at = "sync" /\ session.at = "idle" =>
       replies = <<Err>> \/ (Turns(replies) /\ replies # <<>> /\ Len(replies) % 2 = 0)
  /\ user.at = "sync_file" =>
       Turns(replies) /\ Len(replies) % 2 = 1 /\ (user.op = "last" <=> Len(replies) = 1)

\* TypeInv says more than TypeOK.
LEMMA TypeOKFollows == TypeInv => TypeOK
<1>. SUFFICES ASSUME TypeInv PROVE TypeOK
  OBVIOUS
<1>1. /\ \A i \in DOMAIN replies : replies[i] \in Packet
      /\ \A i \in DOMAIN fetch : fetch[i] \in Entry
  BY ElementOfSeq, LenProperties DEF TypeInv, QueueType
<1>2. /\ \A i \in DOMAIN replies : replies[i].type \in {"name", "info", "data", "success", "err"}
      /\ \A i \in DOMAIN fetch : fetch[i].name \in File /\ fetch[i].op \in {"file", "delete"}
  BY <1>1 DEF Packet, Entry, Ack, Err
<1>3. watcher.name \in File \cup {Gone} /\ fetcher.name \in File \cup {Gone}
  BY DEF TypeInv, ThreadType, Entry, Idle
<1>. QED
  BY <1>2, <1>3 DEF TypeOK, TypeInv, DiskType, QueueType, UserType, SessionType, ThreadType,
                    CountType, Order

\* The types hold at the start.
LEMMA TypeInit == Init => TypeInv
<1>. SUFFICES ASSUME Init PROVE TypeInv
  OBVIOUS
<1>1. DiskType
  BY DEF Init, DiskType, Before, Disk, Content
<1>2. QueueType
  BY DEF Init, QueueType
<1>3. UserType /\ SessionType /\ ThreadType /\ CountType
  BY ClientAssumption DEF Init, UserType, SessionType, ThreadType, CountType, Idle
<1>. QED  BY <1>1, <1>2, <1>3 DEF TypeInv

\* What is read, and what is left.
LEMMA Reading ==
  ASSUME NEW S, NEW q \in Seq(S), q # <<>>
  PROVE  /\ Head(q) \in S /\ Tail(q) \in Seq(S) /\ Head(q) = q[1]
         /\ Len(q) \in Nat /\ Len(q) >= 1 /\ Len(Tail(q)) = Len(q) - 1
         /\ \A i \in 1 .. Len(q) - 1 : Tail(q)[i] = q[i+1]
         /\ \A i \in 1 .. Len(q) : q[i] \in S
<1>1. Len(q) \in Nat /\ Len(q) >= 1
  BY EmptySeq, LenProperties
<1>2. \A i \in 1 .. Len(q) : q[i] \in S
  BY ElementOfSeq
<1>. QED  BY <1>1, <1>2, HeadTailProperties

\* A change of sync_dir and its event.
LEMMA NotifyIs ==
  ASSUME NEW queue \in Seq(Event), NEW op \in {"write", "delete"}, NEW p \in File
  PROVE  Notify(queue, op, p) \subseteq Seq(Event)
<1>1. [op |-> op, name |-> p] \in Event
  BY DEF Event
<1>. QED  BY <1>1, AppendProperties DEF Notify

\* A file that is written, and its event.
LEMMA StoreIs ==
  ASSUME TypeInv, NEW p \in File, NEW c \in Content, Store(p, c)
  PROVE  local' \in Disk /\ events' \in Seq(Event)
<1>1. Notify(events, "write", p) \subseteq Seq(Event)
  BY NotifyIs DEF TypeInv, QueueType
<1>. QED  BY <1>1 DEF Store, TypeInv, DiskType, Disk

\* A file that is removed, and its event.
LEMMA RemoveIs ==
  ASSUME TypeInv, NEW p \in File, RemoveFile(p)
  PROVE  local' \in Disk /\ events' \in Seq(Event)
<1>1. Notify(events, "delete", p) \subseteq Seq(Event)
  BY NotifyIs DEF TypeInv, QueueType
<1>. QED  BY <1>1 DEF RemoveFile, TypeInv, DiskType, QueueType, Disk

\* A change to expect, or one that is lost.
LEMMA AddPathIs ==
  ASSUME TypeInv, NEW p \in File, AddPath(p)
  PROVE  /\ paths' \in [File -> Nat] /\ alive' \in BOOLEAN
         /\ care' \in {"settled", "hasty", "raced"}
BY DEF AddPath, TypeInv, QueueType, ThreadType, CountType

\* A write appends what is written, or nothing.
LEMMA RequestIs ==
  ASSUME TypeInv, NEW o \in Order, Write(toServer, o)
  PROVE  toServer' \in Seq(Order) /\ alive' \in BOOLEAN
<1>1. toServer \in Seq(Order) /\ alive \in BOOLEAN
  BY DEF TypeInv, QueueType, ThreadType
<1>2. Append(toServer, o) \in Seq(Order)
  BY <1>1, AppendProperties
<1>. QED  BY <1>1, <1>2 DEF Write

\* A file on the upload socket.
LEMMA FileIs ==
  ASSUME TypeInv, NEW c \in Content \cup {Gone}, SendFile(c)
  PROVE  uploads' \in Seq(Version \cup {Gone}) /\ alive' \in BOOLEAN
<1>1. CASE c = Empty
  BY <1>1 DEF SendFile, TypeInv, QueueType, ThreadType
<1>2. CASE c # Empty
  <2>1. c \in Version \cup {Gone}
    BY <1>2 DEF Content
  <2>2. uploads \in Seq(Version \cup {Gone}) /\ alive \in BOOLEAN
    BY DEF TypeInv, QueueType, ThreadType
  <2>3. Append(uploads, c) \in Seq(Version \cup {Gone})
    BY <2>1, <2>2, AppendProperties
  <2>. QED  BY <1>2, <2>2, <2>3 DEF SendFile, Write
<1>. QED  BY <1>1, <1>2

\* An act, and what it says of the files.
LEMMA ActIs ==
  ASSUME TypeInv, NEW kind, Act(kind)
  PROVE  acts' \in 0 .. MaxActs /\ care' \in {"settled", "hasty", "raced"}
BY ClientAssumption DEF Act, TypeInv, CountType

\* What the users want of the files after an act.
LEMMA WantsIs ==
  ASSUME TypeInv, NEW p \in File, NEW c \in Content \cup {Gone}
  PROVE  /\ Wants(p, c) => wanted' \in Disk
         /\ Changes(p, c) => wanted' \in Disk /\ muted' \in SUBSET File
BY DEF Wants, Changes, TypeInv, DiskType, CountType, Disk

\* The next packet of the command socket.
LEMMA ReadsIs ==
  ASSUME TypeInv, NEW packet, Reads(packet)
  PROVE  /\ packet \in Packet /\ replies' \in Seq(Packet)
         /\ stale' \in SUBSET {"user", "fetcher"}
<1>1. Err \in Packet
  BY DEF Packet
<1>2. replies \in Seq(Packet) /\ stale \in SUBSET {"user", "fetcher"}
  BY DEF TypeInv, QueueType, ThreadType
<1>3. replies # <<>> => Head(replies) \in Packet /\ Tail(replies) \in Seq(Packet)
  BY <1>2, Reading
<1>. QED  BY <1>1, <1>2, <1>3 DEF Reads

\* The user's own changes.
LEMMA TypeUser ==
  ASSUME TypeInv, NEW p \in File, Save(p) \/ Delete(p) \/ Menu(p)
  PROVE  TypeInv'
<1>. USE DEF TypeInv
<1>1. ASSUME Save(p) PROVE TypeInv'
  <2>1. PICK c \in Content : \E kind : Act(kind) /\ Store(p, c) /\ Changes(p, c)
    BY <1>1 DEF Save, Content
  <2>2. local' \in Disk /\ events' \in Seq(Event)
    BY <2>1, StoreIs
  <2>3. acts' \in 0 .. MaxActs /\ care' \in {"settled", "hasty", "raced"}
    BY <2>1, ActIs
  <2>4. wanted' \in Disk /\ muted' \in SUBSET File
    BY <2>1, WantsIs
  <2>. QED
    BY <1>1, <2>2, <2>3, <2>4
    DEF Save, server, DiskType, QueueType, UserType, SessionType, ThreadType, CountType
<1>2. ASSUME Delete(p) PROVE TypeInv'
  <2>1. local' \in Disk /\ events' \in Seq(Event)
    BY <1>2, RemoveIs DEF Delete
  <2>2. acts' \in 0 .. MaxActs /\ care' \in {"settled", "hasty", "raced"}
    BY <1>2, ActIs DEF Delete
  <2>3. wanted' \in Disk /\ muted' \in SUBSET File
    BY <1>2, WantsIs DEF Delete
  <2>. QED
    BY <1>2, <2>1, <2>2, <2>3
    DEF Delete, server, DiskType, QueueType, UserType, SessionType, ThreadType, CountType
<1>3. ASSUME LocalCommand(p) PROVE TypeInv'
  <2>1. local' \in Disk /\ events' \in Seq(Event)
    BY <1>3, RemoveIs DEF LocalCommand, DiskType, QueueType
  <2>2. acts' \in 0 .. MaxActs /\ care' \in {"settled", "hasty", "raced"}
    BY <1>3, ActIs DEF LocalCommand
  <2>3. wanted' \in Disk /\ muted' \in SUBSET File
    BY <1>3, WantsIs DEF LocalCommand, DiskType, CountType
  <2>. QED
    BY <1>3, <2>1, <2>2, <2>3
    DEF LocalCommand, server, DiskType, QueueType, UserType, SessionType, ThreadType, CountType
<1>4. ASSUME NEW kind \in {"upload", "download", "list"}, NEW place \in {"file", "data", "infos"},
             Command(kind, p, place)
      PROVE  TypeInv'
  <2>1. Request(kind, p) \in Order
    BY DEF Request, Order
  <2>2. toServer' \in Seq(Order) /\ alive' \in BOOLEAN
    BY <1>4, <2>1, RequestIs DEF Command
  <2>3. acts' \in 0 .. MaxActs /\ care' \in {"settled", "hasty", "raced"}
    BY <1>4, ActIs DEF Command
  <2>. QED
    BY <1>4, <2>2, <2>3
    DEF Command, server, DiskType, QueueType, UserType, SessionType, ThreadType, CountType
<1>. QED  BY <1>1, <1>2, <1>3, <1>4 DEF Menu

\* The watcher.
LEMMA TypeWatch ==
  ASSUME TypeInv, Watch
  PROVE  TypeInv'
<1>. USE DEF TypeInv
<1>1. Watching => /\ Event1 \in Event /\ Event1.name \in File
                  /\ Tail(events) \in Seq(Event)
  <2>1. events \in Seq(Event)
    BY DEF QueueType
  <2>2. events # <<>> => Head(events) \in Event /\ Tail(events) \in Seq(Event)
    BY <2>1, Reading
  <2>. QED  BY <2>2 DEF Watching, Event1, Event
<1>2. ASSUME WatchEcho PROVE TypeInv'
  BY <1>1, <1>2 DEF WatchEcho, server, DiskType, QueueType, UserType, SessionType, ThreadType, CountType
<1>3. ASSUME WatchUpload PROVE TypeInv'
  <2>1. Request("upload", Event1.name) \in Order
    BY <1>1, <1>3 DEF WatchUpload, Request, Order
  <2>2. toServer' \in Seq(Order) /\ alive' \in BOOLEAN
    BY <1>3, <2>1, RequestIs DEF WatchUpload
  <2>. QED
    BY <1>1, <1>3, <2>2
    DEF WatchUpload, server, DiskType, QueueType, UserType, SessionType, ThreadType, CountType
<1>4. ASSUME WatchSendFile PROVE TypeInv'
  <2>1. watcher.name \in File
    BY <1>4 DEF WatchSendFile, ThreadType, Idle
  <2>2. local[watcher.name] \in Content \cup {Gone}
    BY <2>1 DEF DiskType, Disk
  <2>3. uploads' \in Seq(Version \cup {Gone}) /\ alive' \in BOOLEAN
    <3>1. PICK c \in Content \cup {Gone} : c = local[watcher.name]
      BY <2>2
    <3>2. SendFile(c)
      BY <1>4, <3>1 DEF WatchSendFile, SendFile, Write
    <3>3. TypeInv
      OBVIOUS
    <3>. HIDE DEF TypeInv
    <3>. QED  BY <3>2, <3>3, FileIs
  <2>4. watcher' \in [name : File \cup {Gone}]
    BY <1>4 DEF WatchSendFile, Idle
  <2>. QED
    BY <1>4, <2>3, <2>4
    DEF WatchSendFile, server, DiskType, QueueType, UserType, SessionType, ThreadType, CountType
<1>5. ASSUME WatchDelete PROVE TypeInv'
  <2>1. Request("delete", Event1.name) \in Order
    BY <1>1, <1>5 DEF WatchDelete, Request, Order
  <2>2. toServer' \in Seq(Order) /\ alive' \in BOOLEAN
    BY <1>5, <2>1, RequestIs DEF WatchDelete
  <2>. QED
    BY <1>1, <1>5, <2>2
    DEF WatchDelete, server, DiskType, QueueType, UserType, SessionType, ThreadType, CountType
<1>. QED  BY <1>2, <1>3, <1>4, <1>5 DEF Watch

\* The fetcher.
LEMMA TypeFetch ==
  ASSUME TypeInv, Fetch
  PROVE  TypeInv'
<1>. USE DEF TypeInv
<1>1. fetch # <<>> => Head(fetch) \in Entry /\ Tail(fetch) \in Seq(Entry)
  BY Reading DEF QueueType
<1>2. \A x \in Entry : /\ x.name \in File /\ x.op \in {"file", "delete"}
                       /\ x.content \in Content \cup {Gone, Cut}
  BY DEF Entry
<1>3. Empty \in Content /\ Version \subseteq Content
  BY DEF Content
<1>4. ASSUME FetchDelete PROVE TypeInv'
  <2>1. Head(fetch).name \in File /\ Tail(fetch) \in Seq(Entry)
    BY <1>1, <1>2, <1>4 DEF FetchDelete, Fetching
  <2>2. /\ paths' \in [File -> Nat] /\ alive' \in BOOLEAN
        /\ care' \in {"settled", "hasty", "raced"}
    BY <1>4, <2>1, AddPathIs DEF FetchDelete
  <2>3. local' \in Disk /\ events' \in Seq(Event)
    BY <1>4, <2>1, RemoveIs DEF FetchDelete
  <2>. QED
    BY <1>4, <2>1, <2>2, <2>3
    DEF FetchDelete, server, DiskType, QueueType, UserType, SessionType, ThreadType, CountType
<1>5. ASSUME FetchOpen PROVE TypeInv'
  <2>1. Head(fetch) \in Entry /\ Head(fetch).name \in File /\ Tail(fetch) \in Seq(Entry)
    BY <1>1, <1>2, <1>5 DEF FetchOpen, Fetching
  <2>2. /\ paths' \in [File -> Nat] /\ alive' \in BOOLEAN
        /\ care' \in {"settled", "hasty", "raced"}
    BY <1>5, <2>1, AddPathIs DEF FetchOpen
  <2>3. local' \in Disk
    BY <1>3, <1>5, <2>1 DEF FetchOpen, DiskType, Disk
  <2>. QED
    BY <1>5, <2>1, <2>2, <2>3
    DEF FetchOpen, server, DiskType, QueueType, UserType, SessionType, ThreadType, CountType
<1>6. ASSUME FetchClose PROVE TypeInv'
  <2>1. fetcher.name \in File /\ fetcher.content \in Content
    BY <1>2, <1>3, <1>6 DEF FetchClose, ThreadType
  <2>2. local' \in Disk /\ events' \in Seq(Event)
    BY <1>6, <2>1, StoreIs DEF FetchClose
  <2>. QED
    BY <1>6, <2>2
    DEF FetchClose, server, DiskType, QueueType, UserType, SessionType, ThreadType, CountType
<1>7. ASSUME FetchError PROVE TypeInv'
  <2>1. fetcher.name \in File
    BY <1>2, <1>7 DEF FetchError, ThreadType
  <2>2. local' \in Disk
    BY <1>7, <2>1 DEF FetchError, DiskType, Disk
  <2>3. events' \in Seq(Event)
    BY <1>7, <2>1, NotifyIs DEF FetchError, QueueType
  <2>. QED
    BY <1>7, <2>2, <2>3
    DEF FetchError, server, DiskType, QueueType, UserType, SessionType, ThreadType, CountType
<1>. QED  BY <1>4, <1>5, <1>6, <1>7 DEF Fetch

\* The places of the command thread.
LEMMA GoesIs ==
  ASSUME TypeInv,
         NEW place \in {"sync", "menu", "infos", "response"}, Goes(place)
  PROVE  UserType'
BY DEF Goes, TypeInv, UserType

\* The files in a directory, in some order: each of them, once.
LEMMA OrderIs ==
  ASSUME NEW S \in SUBSET File, NEW order \in SetToSeqs(S)
  PROVE  /\ Cardinality(S) \in Nat /\ (Cardinality(S) = 0 <=> S = {})
         /\ order \in Seq(S) /\ Len(order) = Cardinality(S)
         /\ DOMAIN order = 1 .. Cardinality(S)
         /\ \A i \in 1 .. Cardinality(S) : order[i] \in S
         /\ \A i, j \in 1 .. Cardinality(S) : order[i] = order[j] => i = j
         /\ \A p \in S : \E i \in 1 .. Cardinality(S) : order[i] = p
<1>. DEFINE n == Cardinality(S)
<1>1. IsFiniteSet(S)
  BY FS_Subset, ClientAssumption
<1>2. n \in Nat /\ (n = 0 <=> S = {})
  BY <1>1, FS_CardinalityType, FS_EmptySet
<1>3. order \in [1 .. n -> S] /\ \A i, j \in 1 .. n : i # j => order[i] # order[j]
  BY DEF SetToSeqs
<1>4. ASSUME NEW p \in S, \A i \in 1 .. n : order[i] # p PROVE FALSE
  <2>1. IsFiniteSet(S \ {p}) /\ Cardinality(S \ {p}) = n - 1
    BY <1>1, FS_RemoveElement
  <2>2. IsFiniteSet(1 .. n) /\ Cardinality(1 .. n) = n
    BY <1>2, FS_Interval
  <2>3. order \in [1 .. n -> S \ {p}]
    BY <1>3, <1>4
  <2>4. \E i, j \in 1 .. n : i # j /\ order[i] = order[j]
    <3>. HIDE DEF n
    <3>. QED  BY <1>2, <2>1, <2>2, <2>3, FS_PigeonHole
  <2>. QED  BY <1>3, <2>4
<1>. HIDE DEF n
<1>5. order \in Seq(S)
  BY <1>2, <1>3, SeqDef
<1>6. Len(order) = n
  BY <1>2, <1>3, <1>5, LenProperties
<1>. QED  BY <1>2, <1>3, <1>4, <1>5, <1>6 DEF n

\* The events of the files that are erased.
LEMMA EraseIs ==
  ASSUME TypeInv, EraseDir
  PROVE  events' \in Seq(Event) /\ paths' \in [File -> Nat]
<1>. DEFINE files == {p \in File : local[p] # Gone}
<1>1. PICK order \in SetToSeqs(files) :
        /\ paths' = [p \in File |-> IF p \in files THEN paths[p] + 1 ELSE paths[p]]
        /\ events' = events \o
             IF watched THEN [i \in DOMAIN order |-> [op |-> "delete", name |-> order[i]]]
             ELSE <<>>
  BY DEF EraseDir
<1>. DEFINE gone == [i \in DOMAIN order |-> [op |-> "delete", name |-> order[i]]]
<1>2. events \in Seq(Event) /\ paths \in [File -> Nat]
  BY DEF TypeInv, QueueType
<1>3. /\ Cardinality(files) \in Nat /\ DOMAIN order = 1 .. Cardinality(files)
      /\ \A i \in 1 .. Cardinality(files) : order[i] \in files
  BY OrderIs
<1>4. gone \in [1 .. Cardinality(files) -> Event]
  BY <1>3 DEF Event
<1>5. gone \in Seq(Event)
  <2>. HIDE DEF gone, files
  <2>1. PICK n \in Nat : gone \in [1 .. n -> Event]
    BY <1>3, <1>4
  <2>. QED  BY <2>1, SeqDef
<1>6. events \o gone \in Seq(Event) /\ events \o <<>> = events
  BY <1>2, <1>5, ConcatProperties, ConcatEmptySeq
<1>7. paths' \in [File -> Nat]
  BY <1>1, <1>2
<1>. HIDE DEF gone, files
<1>. QED  BY <1>1, <1>2, <1>6, <1>7 DEF gone

\* The command thread.  What it takes for a file is one, by StartInv.
LEMMA TypeCommand ==
  ASSUME TypeInv, StartInv, CommandThread
  PROVE  TypeInv'
<1>. USE DEF TypeInv
<1>1. ASSUME EraseDir PROVE TypeInv'
  <2>1. events' \in Seq(Event) /\ paths' \in [File -> Nat]
    BY <1>1, EraseIs
  <2>2. local' \in Disk
    BY <1>1 DEF EraseDir, Disk
  <2>3. UserType'
    BY <1>1, GoesIs DEF EraseDir
  <2>. QED
    BY <1>1, <2>1, <2>2, <2>3
    DEF EraseDir, server, DiskType, QueueType, SessionType, ThreadType, CountType
<1>2. ASSUME ReceiveName PROVE TypeInv'
  <2>1. PICK packet : /\ Reads(packet)
                      /\ IF packet.type = "name"
                         THEN /\ paths' = [paths EXCEPT ![packet.name] = @ + 1]
                              /\ local' = [local EXCEPT ![packet.name] = Empty]
                              /\ user' = [at |-> "sync_file",
                                          op |-> IF packet.last THEN "last" ELSE "sync",
                                          name |-> packet.name]
                         ELSE Goes("menu") /\ UNCHANGED <<paths, local>>
    BY <1>2 DEF ReceiveName
  <2>2. /\ packet \in Packet /\ replies' \in Seq(Packet)
        /\ stale' \in SUBSET {"user", "fetcher"}
    BY <2>1, ReadsIs
  <2>3. packet.type = "name" => packet.name \in File
    BY <2>2 DEF Packet, Ack, Err
  <2>4. paths' \in [File -> Nat] /\ local' \in Disk
    <3>1. CASE packet.type = "name"
      <4>. DEFINE p == packet.name
      <4>1. /\ p \in File /\ paths' = [paths EXCEPT ![p] = @ + 1]
            /\ local' = [local EXCEPT ![p] = Empty]
        BY <2>1, <2>3, <3>1
      <4>. HIDE DEF p
      <4>. QED  BY <4>1 DEF QueueType, DiskType, Disk, Content
    <3>2. CASE packet.type # "name"
      BY <2>1, <3>2 DEF QueueType, DiskType
    <3>. QED  BY <3>1, <3>2
  <2>5. UserType'
    <3>1. CASE packet.type = "name"
      BY <2>1, <2>3, <3>1 DEF UserType
    <3>2. CASE packet.type # "name"
      BY <2>1, <3>2, GoesIs
    <3>. QED  BY <3>1, <3>2
  <2>. QED
    BY <1>2, <2>2, <2>4, <2>5
    DEF ReceiveName, server, DiskType, QueueType, SessionType, ThreadType, CountType
<1>3. ASSUME ReceiveFile PROVE TypeInv'
  <2>1. replies \in Seq(Packet) /\ replies # <<>> /\ user.name \in File
    BY <1>3 DEF ReceiveFile, At, QueueType, UserType
  <2>2. Head(replies) \in Packet /\ Tail(replies) \in Seq(Packet) /\ Head(replies) = replies[1]
        /\ Len(replies) \in Nat /\ Len(replies) >= 1
    BY <2>1, Reading
  <2>3. replies[1].type = "data"
    <3>1. Turns(replies) /\ Len(replies) % 2 = 1
      BY <1>3 DEF ReceiveFile, At, StartInv
    <3>2. (Len(replies) - 1) % 2 = 0 /\ 1 \in 1 .. Len(replies)
      BY <2>2, <3>1
    <3>. QED  BY <3>1, <3>2 DEF Turns
  <2>4. Head(replies).content \in Content
    BY <2>2, <2>3 DEF Packet, Ack, Err
  <2>5. local' \in Disk /\ events' \in Seq(Event)
    BY <1>3, <2>1, <2>4, StoreIs DEF ReceiveFile
  <2>6. UserType'
    BY <1>3, GoesIs DEF ReceiveFile
  <2>. QED
    BY <1>3, <2>2, <2>5, <2>6
    DEF ReceiveFile, server, DiskType, QueueType, SessionType, ThreadType, CountType
<1>4. ASSUME SendUpload PROVE TypeInv'
  <2>1. PICK c \in Version \cup {Gone} : SendFile(c) /\ Wants(user.name, c)
    BY <1>4 DEF SendUpload
  <2>2. c \in Content \cup {Gone} /\ user.name \in File
    BY <1>4 DEF SendUpload, At, UserType, Content
  <2>3. uploads' \in Seq(Version \cup {Gone}) /\ alive' \in BOOLEAN
    BY <2>1, <2>2, FileIs
  <2>4. wanted' \in Disk
    BY <2>1, <2>2, WantsIs
  <2>5. UserType'
    BY <1>4, GoesIs DEF SendUpload
  <2>. QED
    BY <1>4, <2>3, <2>4, <2>5
    DEF SendUpload, server, DiskType, QueueType, SessionType, ThreadType, CountType
<1>5. ASSUME ReceiveDownload PROVE TypeInv'
  <2>1. replies' \in Seq(Packet) /\ stale' \in SUBSET {"user", "fetcher"}
    BY <1>5, ReadsIs DEF ReceiveDownload
  <2>2. UserType'
    BY <1>5, GoesIs DEF ReceiveDownload
  <2>. QED
    BY <1>5, <2>1, <2>2
    DEF ReceiveDownload, server, DiskType, QueueType, SessionType, ThreadType, CountType
<1>6. ASSUME ReceiveInfo PROVE TypeInv'
  <2>1. replies' \in Seq(Packet) /\ stale' \in SUBSET {"user", "fetcher"}
    BY <1>6, ReadsIs DEF ReceiveInfo
  <2>2. UserType'
    BY <1>6, GoesIs DEF ReceiveInfo
  <2>. QED
    BY <1>6, <2>1, <2>2
    DEF ReceiveInfo, server, DiskType, QueueType, SessionType, ThreadType, CountType
<1>7. ASSUME GetResponse PROVE TypeInv'
  <2>1. replies' \in Seq(Packet) /\ stale' \in SUBSET {"user", "fetcher"}
    BY <1>7, ReadsIs DEF GetResponse
  <2>2. UserType'
    BY <1>7, GoesIs DEF GetResponse
  <2>. QED
    BY <1>7, <2>1, <2>2
    DEF GetResponse, server, DiskType, QueueType, SessionType, ThreadType, CountType
<1>. QED  BY <1>1, <1>2, <1>3, <1>4, <1>5, <1>6, <1>7 DEF CommandThread

\* How many files the user has on the server.
LEMMA CountIs ==
  ASSUME NEW S \in SUBSET File
  PROVE  Cardinality(S) \in Nat /\ (Cardinality(S) = 0 <=> S = {})
BY FS_Subset, FS_CardinalityType, FS_EmptySet, ClientAssumption

\* What a new session sends: names and files by turns, or that there is none.
LEMMA SyncDirIs ==
  ASSUME TypeInv, SendSyncDir
  PROVE  \E r \in Seq(Packet) :
           /\ replies' = replies \o r
           /\ r = <<Err>> \/ (Turns(r) /\ r # <<>> /\ Len(r) % 2 = 0)
<1>. DEFINE files == {p \in File : served[p] # Gone}
            m == Cardinality(files)
<1>1. PICK order \in SetToSeqs(files) :
        replies' = replies \o
          IF m = 0 THEN <<Err>>
          ELSE [i \in 1 .. 2*m |->
                  IF i % 2 = 1 THEN Name(order[(i + 1) \div 2], i + 1 = 2*m)
                  ELSE Data(served[order[i \div 2]])]
  BY DEF SendSyncDir
<1>2. PICK n \in Nat : n = m
  BY CountIs
<1>3. \A i \in 1 .. n : order[i] \in files
  BY <1>2, OrderIs
<1>4. \A i \in 1 .. n : order[i] \in File /\ served[order[i]] \in Content
  BY <1>3 DEF TypeInv, DiskType, Disk
<1>. DEFINE r == [i \in 1 .. 2*n |->
                    IF i % 2 = 1 THEN Name(order[(i + 1) \div 2], i + 1 = 2*n)
                    ELSE Data(served[order[i \div 2]])]
<1>5. replies' = replies \o IF n = 0 THEN <<Err>> ELSE r
  BY <1>1, <1>2
<1>6. CASE n = 0
  <2>1. <<Err>> \in Seq(Packet)
    BY DEF Packet
  <2>. QED  BY <1>5, <1>6, <2>1
<1>7. CASE n # 0
  <2>. HIDE DEF m, files
  <2>1. \A i \in 1 .. 2*n : /\ i % 2 = 1 => (i + 1) \div 2 \in 1 .. n
                            /\ i % 2 # 1 => i \div 2 \in 1 .. n
    OBVIOUS
  <2>2. ASSUME NEW i \in 1 .. 2*n PROVE r[i] \in Packet
    <3>1. CASE i % 2 = 1
      <4>1. r[i] = Name(order[(i + 1) \div 2], i + 1 = 2*n)
        BY <3>1
      <4>2. order[(i + 1) \div 2] \in File
        BY <1>4, <2>1, <3>1
      <4>3. \A p \in File, b \in BOOLEAN : Name(p, b) \in Packet
        BY DEF Name, Packet
      <4>4. (i + 1 = 2*n) \in BOOLEAN
        OBVIOUS
      <4>. HIDE DEF r
      <4>. QED  BY <4>1, <4>2, <4>3, <4>4
    <3>2. CASE i % 2 # 1
      <4>1. r[i] = Data(served[order[i \div 2]])
        BY <3>2
      <4>2. served[order[i \div 2]] \in Content
        BY <1>4, <2>1, <3>2
      <4>. QED  BY <4>1, <4>2 DEF Data, Packet
    <3>. QED  BY <3>1, <3>2
  <2>3. r \in [1 .. 2*n -> Packet] /\ 2*n \in Nat
    BY <2>2
  <2>4. /\ \A i \in 1 .. 2*n : i % 2 = 1 => r[i].type = "name" /\ r[i].last = (i + 1 = 2*n)
        /\ \A i \in 1 .. 2*n : i % 2 # 1 => r[i].type = "data"
    BY DEF Name, Data
  <2>. HIDE DEF r
  <2>5. r \in Seq(Packet)
    BY <2>3, SeqDef
  <2>6. Len(r) = 2*n
    BY <2>3, <2>5, LenProperties
  <2>7. Turns(r)
    <3>1. \A i \in 1 .. 2*n : (2*n - i) % 2 = 0 <=> i % 2 # 1
      OBVIOUS
    <3>2. \A i \in 1 .. 2*n : i + 1 = 2*n <=> i = 2*n - 1
      OBVIOUS
    <3>. SUFFICES ASSUME NEW i \in 1 .. 2*n
                  PROVE  IF (2*n - i) % 2 = 0 THEN r[i].type = "data"
                         ELSE r[i].type = "name" /\ r[i].last = (i = 2*n - 1)
      BY <2>6 DEF Turns
    <3>3. (2*n - i) % 2 = 0 <=> i % 2 # 1
      BY <3>1
    <3>4. (i + 1 = 2*n) = (i = 2*n - 1)
      BY <3>2
    <3>5. CASE i % 2 = 1
      <4>1. r[i].type = "name" /\ r[i].last = (i = 2*n - 1)
        BY <2>4, <3>4, <3>5
      <4>. QED  BY <3>3, <3>5, <4>1
    <3>6. CASE i % 2 # 1
      BY <2>4, <3>3, <3>6
    <3>. QED  BY <3>5, <3>6
  <2>8. r # <<>> /\ Len(r) % 2 = 0
    BY <1>7, <2>5, <2>6, EmptySeq
  <2>. QED  BY <1>5, <1>7, <2>5, <2>7, <2>8
<1>. QED  BY <1>6, <1>7

\* An acknowledgement is appended, or one more is not told from those there.
LEMMA AckIs ==
  ASSUME TypeInv, Acknowledge
  PROVE  replies' \in Seq(Packet)
<1>1. replies \in Seq(Packet) /\ Ack \in Packet
  BY DEF TypeInv, QueueType, Packet
<1>2. Append(replies, Ack) \in Seq(Packet)
  BY <1>1, AppendProperties
<1>. QED  BY <1>1, <1>2 DEF Acknowledge

\* The next request, and what is left.
LEMMA TakesIs ==
  ASSUME TypeInv, NEW op, NEW p \in File, Takes(op, p)
  PROVE  toServer' \in Seq(Order)
<1>1. toServer \in Seq(Order) /\ toServer # <<>> /\ toServer' = Tail(toServer)
  BY DEF Takes, TypeInv, QueueType
<1>. QED  BY <1>1, Reading

\* The session thread.
LEMMA TypeSession ==
  ASSUME TypeInv, Session
  PROVE  TypeInv'
<1>. USE DEF TypeInv
<1>1. ASSUME SendSyncDir PROVE TypeInv'
  <2>1. PICK r \in Seq(Packet) : replies' = replies \o r
    BY <1>1, SyncDirIs
  <2>2. replies \in Seq(Packet)
    BY DEF QueueType
  <2>3. replies' \in Seq(Packet)
    BY <2>1, <2>2, ConcatProperties
  <2>4. /\ session' = [session EXCEPT !.at = "idle"]
        /\ UNCHANGED <<client, link, toServer, uploads, fetch, served, backup, acts, care, wanted, muted>>
    BY <1>1 DEF SendSyncDir, Continue
  <2>5. SessionType'
    BY <2>4 DEF SessionType
  <2>. QED
    BY <2>3, <2>4, <2>5 DEF client, DiskType, QueueType, UserType, ThreadType, CountType
<1>2. ASSUME ReceiveUpload PROVE TypeInv'
  <2>1. uploads \in Seq(Version \cup {Gone}) /\ uploads # <<>>
    BY <1>2 DEF ReceiveUpload, QueueType
  <2>2. Head(uploads) \in Version \cup {Gone} /\ Tail(uploads) \in Seq(Version \cup {Gone})
    BY <2>1, Reading
  <2>3. served' \in Disk
    BY <1>2, <2>2 DEF ReceiveUpload, DiskType, Disk, Content
  <2>4. SessionType'
    BY <1>2 DEF ReceiveUpload, Serves, Continue, SessionType
  <2>. QED
    BY <1>2, <2>2, <2>3, <2>4
    DEF ReceiveUpload, client, DiskType, QueueType, UserType, ThreadType, CountType
<1>3. ASSUME PropagateToDevices PROVE TypeInv'
  <2>1. session.op \in {"file", "delete"} /\ session.name \in File
    BY <1>3 DEF PropagateToDevices, Serves, SessionType
  <2>2. served[session.name] \in Content \cup {Gone}
    BY <2>1 DEF DiskType, Disk
  <2>3. ToDevice(session.op, session.name) \in Entry
    BY <2>1, <2>2 DEF ToDevice, Entry
  <2>4. fetch \in Seq(Entry)
    BY DEF QueueType
  <2>5. fetch' \in Seq(Entry)
    BY <1>3, <2>3, <2>4, AppendProperties DEF PropagateToDevices
  <2>6. SessionType'
    BY <1>3 DEF PropagateToDevices, Serves, Continue, SessionType
  <2>. QED
    BY <1>3, <2>5, <2>6
    DEF PropagateToDevices, client, DiskType, QueueType, UserType, ThreadType, CountType
<1>4. ASSUME PropagateToBackups PROVE TypeInv'
  <2>1. replies' \in Seq(Packet)
    BY <1>4, AckIs DEF PropagateToBackups
  <2>2. session.name \in File
    BY <1>4 DEF PropagateToBackups, Serves, SessionType
  <2>3. backup' \in Disk
    BY <1>4, <2>2 DEF PropagateToBackups, DiskType, Disk
  <2>4. SessionType'
    BY <1>4 DEF PropagateToBackups, Serves, Continue, SessionType
  <2>. QED
    BY <1>4, <2>1, <2>3, <2>4
    DEF PropagateToBackups, client, DiskType, QueueType, UserType, ThreadType, CountType
<1>5. ASSUME NEW p \in File, TakeUpload(p) PROVE TypeInv'
  <2>1. toServer' \in Seq(Order)
    BY <1>5, TakesIs DEF TakeUpload
  <2>2. served' \in Disk
    BY <1>5 DEF TakeUpload, DiskType, Disk, Content
  <2>. QED
    BY <1>5, <2>1, <2>2
    DEF TakeUpload, client, DiskType, QueueType, UserType, SessionType, ThreadType, CountType
<1>6. ASSUME NEW p \in File, TakeDelete(p) PROVE TypeInv'
  <2>1. toServer' \in Seq(Order)
    BY <1>6, TakesIs DEF TakeDelete
  <2>2. replies' \in Seq(Packet)
    BY <1>6, AckIs DEF TakeDelete, QueueType
  <2>3. served' \in Disk
    BY <1>6 DEF TakeDelete, DiskType, Disk
  <2>4. SessionType'
    BY <1>6 DEF TakeDelete, SessionType
  <2>. QED
    BY <1>6, <2>1, <2>2, <2>3, <2>4
    DEF TakeDelete, client, DiskType, QueueType, UserType, ThreadType, CountType
<1>7. ASSUME NEW p \in File, TakeDownload(p) PROVE TypeInv'
  <2>1. toServer' \in Seq(Order)
    BY <1>7, TakesIs DEF TakeDownload
  <2>2. (IF served[p] = Gone THEN Err ELSE Data(served[p])) \in Packet /\ Ack \in Packet
    BY DEF DiskType, Disk, Data, Packet
  <2>3. PICK x \in Packet : replies' = replies \o <<x, Ack>>
    BY <1>7, <2>2 DEF TakeDownload
  <2>4. <<x, Ack>> \in Seq(Packet) /\ replies \in Seq(Packet)
    BY <2>2, <2>3 DEF QueueType
  <2>5. replies' \in Seq(Packet)
    BY <2>3, <2>4, ConcatProperties
  <2>. QED
    BY <1>7, <2>1, <2>5
    DEF TakeDownload, server, client, DiskType, QueueType, UserType, SessionType, ThreadType, CountType
<1>8. ASSUME NEW p \in File, TakeList(p) PROVE TypeInv'
  <2>. DEFINE m == Cardinality({f \in File : served[f] # Gone})
  <2>1. toServer' \in Seq(Order)
    BY <1>8, TakesIs DEF TakeList
  <2>2. PICK n \in Nat : n = m
    BY CountIs
  <2>. DEFINE infos == [i \in 1 .. n |-> Info(i = n)]
  <2>3. infos \in [1 .. n -> Packet]
    BY DEF Info, Packet
  <2>4. replies' = replies \o (IF n = 0 THEN <<Err>> ELSE infos) \o <<Ack>>
    BY <1>8, <2>2 DEF TakeList
  <2>. HIDE DEF infos, m
  <2>5. infos \in Seq(Packet)
    BY <2>3, SeqDef
  <2>6. <<Ack>> \in Seq(Packet) /\ <<Err>> \in Seq(Packet) /\ replies \in Seq(Packet)
    BY DEF QueueType, Packet
  <2>7. (IF n = 0 THEN <<Err>> ELSE infos) \in Seq(Packet)
    BY <2>5, <2>6
  <2>8. PICK some \in Seq(Packet) : replies' = replies \o some \o <<Ack>>
    BY <2>4, <2>7
  <2>9. replies \o some \in Seq(Packet)
    BY <2>6, <2>8, ConcatProperties
  <2>10. replies' \in Seq(Packet)
    BY <2>6, <2>8, <2>9, ConcatProperties
  <2>. QED
    BY <1>8, <2>1, <2>10
    DEF TakeList, server, client, DiskType, QueueType, UserType, SessionType, ThreadType, CountType
<1>. QED  BY <1>1, <1>2, <1>3, <1>4, <1>5, <1>6, <1>7, <1>8 DEF Session

\* The peer, a main server's death, and the new one's sockets.
LEMMA TypeOthers ==
  ASSUME TypeInv, (\E p \in File : Peer(p)) \/ Die \/ Accept
  PROVE  TypeInv'
<1>. USE DEF TypeInv
<1>1. fetch \in Seq(Entry) /\ backup \in Disk /\ served \in Disk
  BY DEF QueueType, DiskType
<1>2. ASSUME NEW p \in File, Peer(p) PROVE TypeInv'
  <2>1. PICK c \in Content \cup {Gone} : served' = [served EXCEPT ![p] = c]
    BY <1>2 DEF Peer, Content
  <2>2. served' \in Disk /\ served'[p] = c
    BY <1>1, <2>1 DEF Disk
  <2>3. backup' \in Disk
    BY <1>1, <1>2, <2>2 DEF Peer, Disk
  <2>4. PICK e \in Entry : fetch' = Append(fetch, e)
    BY <1>2, <2>1, <2>2 DEF Peer, Entry
  <2>5. fetch' \in Seq(Entry)
    BY <1>1, <2>4, AppendProperties
  <2>6. wanted' \in Disk
    BY <1>2, <2>2, WantsIs DEF Peer
  <2>7. acts' \in 0 .. MaxActs /\ care' \in {"settled", "hasty", "raced"}
    BY <1>2, ActIs DEF Peer
  <2>. QED
    BY <1>2, <2>2, <2>3, <2>5, <2>6, <2>7
    DEF Peer, client, DiskType, QueueType, UserType, SessionType, ThreadType, CountType
<1>3. ASSUME Die PROVE TypeInv'
  <2>1. fetch' \in Seq(Entry)
    <3>1. CASE UNCHANGED fetch
      BY <1>1, <3>1
    <3>2. CASE /\ session.at = "devices" /\ session.op = "file"
               /\ fetch' = Append(fetch, [op |-> "file", name |-> session.name, content |-> Cut])
      <4>1. [op |-> "file", name |-> session.name, content |-> Cut] \in Entry
        BY <3>2 DEF SessionType, Entry
      <4>. QED  BY <1>1, <3>2, <4>1, AppendProperties
    <3>. QED  BY <1>3, <3>1, <3>2 DEF Die
  <2>2. acts' \in 0 .. MaxActs /\ care' \in {"settled", "hasty", "raced"}
    BY <1>3, ActIs DEF Die
  <2>3. SessionType'
    BY <1>3 DEF Die, Continue, SessionType
  <2>. QED
    BY <1>3, <2>1, <2>2, <2>3
    DEF Die, client, DiskType, QueueType, UserType, ThreadType, CountType
<1>4. ASSUME CloseSockets PROVE TypeInv'
  <2>1. UserType'
    BY <1>4 DEF CloseSockets, UserType
  <2>. QED
    BY <1>4, <2>1 DEF CloseSockets, server, DiskType, QueueType, SessionType, ThreadType, CountType
<1>5. ASSUME SetSockets PROVE TypeInv'
  BY <1>5
  DEF SetSockets, client, DiskType, QueueType, UserType, SessionType, ThreadType, CountType
<1>. QED  BY <1>2, <1>3, <1>4, <1>5 DEF Accept

\* Nothing disturbs the types.
LEMMA TypeStep ==
  ASSUME TypeInv, StartInv, [Next]_vars
  PROVE  TypeInv'
<1>1. CASE Next
  <2>1. ASSUME NEW p \in File, Save(p) \/ Delete(p) \/ Menu(p) PROVE TypeInv'
    BY <2>1, TypeUser
  <2>2. ASSUME (\E p \in File : Peer(p)) \/ Die \/ Accept PROVE TypeInv'
    BY <2>2, TypeOthers
  <2>. QED  BY <1>1, <2>1, <2>2, TypeWatch, TypeFetch, TypeCommand, TypeSession DEF Next
<1>2. CASE UNCHANGED vars
  BY <1>2
  DEF vars, client, server, TypeInv, DiskType, QueueType, UserType, SessionType, ThreadType, CountType
<1>. QED  BY <1>1, <1>2

-----------------------------------------------------------------------------
(* start_communications is read as it was written.                         *)

\* The turns are counted from the end, so reading does not disturb them.
LEMMA TurnsTail ==
  ASSUME NEW q \in Seq(Packet), q # <<>>, Turns(q)
  PROVE  Turns(Tail(q))
<1>1. PICK n \in Nat : n = Len(q)
  BY Reading
<1>2. /\ n >= 1 /\ Len(Tail(q)) = n - 1
      /\ \A i \in 1 .. n - 1 : Tail(q)[i] = q[i+1]
  BY <1>1, Reading
<1>3. \A i \in 1 .. n : IF (n - i) % 2 = 0 THEN q[i].type = "data"
                        ELSE q[i].type = "name" /\ q[i].last = (i = n - 1)
  BY <1>1 DEF Turns
<1>4. ASSUME NEW i \in 1 .. n - 1
      PROVE  IF (n - 1 - i) % 2 = 0 THEN q[i+1].type = "data"
             ELSE q[i+1].type = "name" /\ q[i+1].last = (i = n - 1 - 1)
  <2>1. i + 1 \in 1 .. n /\ n - (i + 1) = n - 1 - i /\ (i + 1 = n - 1) = (i = n - 1 - 1)
    BY <1>2
  <2>2. IF (n - (i + 1)) % 2 = 0 THEN q[i+1].type = "data"
        ELSE q[i+1].type = "name" /\ q[i+1].last = (i + 1 = n - 1)
    BY <1>3, <2>1
  <2>. QED  BY <2>1, <2>2
<1>. QED  BY <1>2, <1>4 DEF Turns

\* Before the client has started nothing was sent.
LEMMA StartInit == Init => StartInv
BY DEF Init, StartInv, Started

\* Once it has, it does not start again.
LEMMA StartedStep ==
  ASSUME TypeInv, StartInv, Started, Next
  PROVE  Started' /\ session'.at # "hello"
<1>1. session.at # "hello" /\ user.at \notin {"erase", "sync", "sync_file"}
  BY DEF StartInv, Started
<1>. USE DEF TypeInv, UserType, SessionType
<1>2. ASSUME NEW p \in File, Save(p) \/ Delete(p) PROVE UNCHANGED <<user, session>>
  BY <1>2 DEF Save, Delete, server
<1>3. ASSUME NEW p \in File, Menu(p)
      PROVE  /\ user'.at \in {"file", "data", "infos", "response"}
             /\ UNCHANGED session
  BY <1>3 DEF Menu, Command, LocalCommand, server
<1>4. ASSUME NEW p \in File, Peer(p) PROVE UNCHANGED <<user, session>>
  BY <1>4 DEF Peer, client
<1>5. ASSUME Watch \/ Fetch PROVE UNCHANGED <<user, session>>
  BY <1>5 DEF Watch, WatchEcho, WatchUpload, WatchSendFile, WatchDelete,
              Fetch, FetchDelete, FetchOpen, FetchClose, FetchError, server
<1>6. ASSUME CommandThread PROVE /\ user'.at \in {"menu", "infos", "response"}
                                 /\ UNCHANGED session
  BY <1>1, <1>6 DEF CommandThread, EraseDir, ReceiveName, ReceiveFile, SendUpload, ReceiveDownload,
                    ReceiveInfo, GetResponse, At, Goes, server
<1>7. ASSUME Session PROVE session'.at # "hello" /\ UNCHANGED user
  <2>1. ASSUME ReceiveUpload \/ PropagateToDevices \/ PropagateToBackups
        PROVE  session'.at # "hello" /\ UNCHANGED user
    BY <2>1 DEF ReceiveUpload, PropagateToDevices, PropagateToBackups, Continue, client
  <2>2. ASSUME NEW p \in File, TakeUpload(p) \/ TakeDelete(p) \/ TakeDownload(p) \/ TakeList(p)
        PROVE  session'.at # "hello" /\ UNCHANGED user
    BY <1>1, <2>2 DEF TakeUpload, TakeDelete, TakeDownload, TakeList, server, client
  <2>3. ~SendSyncDir
    BY <1>1 DEF SendSyncDir, Serves
  <2>. QED  BY <1>7, <2>1, <2>2, <2>3 DEF Session
<1>8. ASSUME Die \/ Accept PROVE session'.at # "hello" /\ user'.at = user.at
  BY <1>1, <1>8 DEF Die, Accept, CloseSockets, SetSockets, Continue, client, server
<1>. QED
  BY <1>1, <1>2, <1>3, <1>4, <1>5, <1>6, <1>7, <1>8 DEF Next, Started

\* The command thread reads what the session has written, and only the two of
\* them, the users and the peer act until then.
LEMMA StartStep ==
  ASSUME TypeInv, StartInv, [Next]_vars
  PROVE  StartInv'
<1>1. CASE UNCHANGED vars
  BY <1>1 DEF vars, client, server, StartInv, Started, Turns
<1>2. CASE Started /\ Next
  BY <1>2, StartedStep DEF StartInv, Started
<1>3. CASE ~Started /\ Next
  <2>1. /\ session.at \in {"hello", "idle"} /\ link = "up" /\ alive
        /\ watcher = Idle /\ fetcher = Idle /\ stale = {}
        /\ toServer = <<>> /\ uploads = <<>>
        /\ session.at = "hello" => replies = <<>>
        /\ user.at = "erase" => session.at = "hello"
        /\ session.at = "hello" => user.at \in {"erase", "sync"}
    BY <1>3 DEF StartInv
  <2>2. user.at \in {"erase", "sync", "sync_file"}
    BY <1>3 DEF Started
  <2>3. replies \in Seq(Packet)
    BY DEF TypeInv, QueueType
  <2>4. ASSUME NEW p \in File, Save(p) \/ Delete(p) \/ Peer(p)
        PROVE  UNCHANGED <<user, session, link, alive, watcher, fetcher, stale, toServer, uploads, replies>>
    BY <2>4 DEF Save, Delete, Peer, client, server
  <2>5. /\ \A p \in File : ~Menu(p)
        /\ ~Watch /\ ~Fetch /\ ~Die /\ ~Accept
    BY <1>3, <2>1, <2>2
    DEF Menu, Command, LocalCommand, At, Watch, WatchEcho, WatchUpload, WatchSendFile, WatchDelete,
        Watching, Fetch, FetchDelete, FetchOpen, FetchClose, FetchError, Fetching, Die, Accept,
        CloseSockets, SetSockets
  <2>6. ASSUME CommandThread
        PROVE  /\ UNCHANGED <<session, link, alive, watcher, fetcher, toServer, uploads>>
               /\ \/ user.at = "erase" /\ user'.at = "sync" /\ UNCHANGED <<stale, replies>>
                  \/ ReceiveName \/ ReceiveFile
    <3>1. EraseDir \/ ReceiveName \/ ReceiveFile
      BY <2>2, <2>6 DEF CommandThread, SendUpload, ReceiveDownload, ReceiveInfo, GetResponse, At
    <3>2. ASSUME EraseDir
          PROVE  /\ UNCHANGED <<session, link, alive, watcher, fetcher, toServer, uploads, stale, replies>>
                 /\ user.at = "erase" /\ user'.at = "sync"
      BY <3>2 DEF EraseDir, At, Goes, server, TypeInv, UserType
    <3>. QED  BY <3>1, <3>2 DEF ReceiveName, ReceiveFile, server
  <2>7. ASSUME ReceiveName
        PROVE  /\ user.at = "sync" /\ session.at = "idle" /\ stale' = {}
               /\ \/ user'.at = "menu"
                  \/ /\ user'.at = "sync_file" /\ Turns(replies') /\ Len(replies') % 2 = 1
                     /\ user'.op = "last" <=> Len(replies') = 1
    <3>1. PICK packet : /\ Reads(packet)
                        /\ packet.type = "name" =>
                             user' = [at |-> "sync_file",
                                      op |-> IF packet.last THEN "last" ELSE "sync",
                                      name |-> packet.name]
                        /\ packet.type # "name" => Goes("menu")
      BY <2>7 DEF ReceiveName
    <3>2. /\ replies # <<>> /\ packet = Head(replies) /\ replies' = Tail(replies) /\ stale' = {}
      BY <2>1, <3>1 DEF Reads
    <3>3. user.at = "sync" /\ session.at = "idle"
      BY <2>1, <2>7, <3>2 DEF ReceiveName, At
    <3>4. CASE replies = <<Err>>
      <4>1. packet.type # "name"
        BY <3>2, <3>4 DEF Err
      <4>2. user'.at = "menu"
        BY <3>1, <4>1 DEF Goes, TypeInv, UserType
      <4>. QED  BY <3>2, <3>3, <4>2
    <3>5. CASE Turns(replies) /\ replies # <<>> /\ Len(replies) % 2 = 0
      <4>1. PICK n \in Nat : /\ n = Len(replies) /\ n >= 1 /\ Len(Tail(replies)) = n - 1
                             /\ Head(replies) = replies[1]
        BY <2>3, <3>5, Reading
      <4>2. 1 \in 1 .. n /\ (n - 1) % 2 = 1 /\ ((1 = n - 1) <=> (n - 1 = 1))
        BY <3>5, <4>1
      <4>3. packet.type = "name" /\ packet.last = (1 = n - 1)
        <5>1. (n - 1) % 2 # 0
          BY <4>2
        <5>. QED  BY <3>2, <3>5, <4>1, <4>2, <5>1 DEF Turns
      <4>4. user'.at = "sync_file" /\ (user'.op = "last" <=> n - 1 = 1)
        <5>1. user' = [at |-> "sync_file", op |-> IF packet.last THEN "last" ELSE "sync",
                       name |-> packet.name]
          BY <3>1, <4>3
        <5>2. user'.at = "sync_file" /\ user'.op = IF packet.last THEN "last" ELSE "sync"
          BY <5>1
        <5>3. CASE n - 1 = 1
          BY <4>2, <4>3, <5>2, <5>3
        <5>4. CASE n - 1 # 1
          BY <4>2, <4>3, <5>2, <5>4
        <5>. QED  BY <5>3, <5>4
      <4>5. Turns(replies') /\ Len(replies') = n - 1
        BY <2>3, <3>2, <3>5, <4>1, TurnsTail
      <4>. QED  BY <3>2, <3>3, <4>2, <4>4, <4>5
    <3>. QED  BY <3>3, <3>4, <3>5 DEF StartInv
  <2>8. ASSUME ReceiveFile
        PROVE  /\ user.at = "sync_file" /\ session.at = "idle" /\ stale' = {}
               /\ \/ user'.at = "menu"
                  \/ /\ user'.at = "sync" /\ Turns(replies') /\ replies' # <<>>
                     /\ Len(replies') % 2 = 0
    <3>1. user.at = "sync_file" /\ session.at = "idle" /\ stale' = {}
      BY <2>1, <2>8 DEF ReceiveFile, At
    <3>2. /\ Turns(replies) /\ Len(replies) % 2 = 1 /\ replies # <<>> /\ replies' = Tail(replies)
          /\ user.op = "last" <=> Len(replies) = 1
      BY <2>8, <3>1 DEF ReceiveFile, StartInv
    <3>3. PICK n \in Nat : n = Len(replies) /\ n >= 1 /\ Len(Tail(replies)) = n - 1
      BY <2>3, <3>2, Reading
    <3>4. CASE user.op = "last"
      BY <2>8, <3>1, <3>4 DEF ReceiveFile, Goes, TypeInv, UserType
    <3>5. CASE user.op # "last"
      <4>1. user'.at = "sync"
        BY <2>8, <3>5 DEF ReceiveFile, Goes, TypeInv, UserType
      <4>2. (n - 1) % 2 = 0 /\ n - 1 # 0
        BY <3>2, <3>3, <3>5
      <4>3. Turns(replies') /\ Len(replies') = n - 1
        BY <2>3, <3>2, <3>3, TurnsTail
      <4>4. replies' # <<>>
        BY <4>2, <4>3, EmptySeq
      <4>. QED  BY <3>1, <4>1, <4>2, <4>3, <4>4
    <3>. QED  BY <3>4, <3>5
  <2>9. ASSUME Session
        PROVE  /\ user.at = "sync" /\ session'.at = "idle"
               /\ UNCHANGED <<user, link, alive, watcher, fetcher, stale, toServer, uploads>>
               /\ replies' = <<Err>> \/ (Turns(replies') /\ replies' # <<>> /\ Len(replies') % 2 = 0)
    <3>1. SendSyncDir
      BY <2>1, <2>9 DEF Session, ReceiveUpload, PropagateToDevices, PropagateToBackups, TakeUpload,
                        TakeDelete, TakeDownload, TakeList, Takes, Serves
    <3>2. PICK r \in Seq(Packet) :
            /\ replies' = replies \o r
            /\ r = <<Err>> \/ (Turns(r) /\ r # <<>> /\ Len(r) % 2 = 0)
      BY <3>1, SyncDirIs
    <3>3. session.at = "hello" /\ user.at = "sync" /\ replies = <<>>
      BY <2>1, <3>1 DEF SendSyncDir, Serves
    <3>4. replies' = r
      BY <3>2, <3>3, ConcatEmptySeq
    <3>5. /\ session'.at = "idle"
          /\ UNCHANGED <<user, link, alive, watcher, fetcher, stale, toServer, uploads>>
      BY <3>1 DEF SendSyncDir, Continue, client, TypeInv, SessionType
    <3>. QED  BY <3>2, <3>3, <3>4, <3>5
  <2>10. ASSUME NEW p \in File, Save(p) \/ Delete(p) \/ Peer(p) PROVE StartInv'
    BY <2>4, <2>10 DEF StartInv, Started
  <2>11. ASSUME CommandThread PROVE StartInv'
    BY <2>1, <2>6, <2>7, <2>8, <2>11 DEF StartInv, Started
  <2>12. ASSUME Session PROVE StartInv'
    BY <2>1, <2>9, <2>12 DEF StartInv, Started
  <2>. QED  BY <1>3, <2>5, <2>10, <2>11, <2>12 DEF Next
<1>. QED  BY <1>1, <1>2, <1>3

\* Every variable keeps its type: among the rest, no thread ever takes a packet
\* that lacks what it reads of it, no file gets a content that is none, and
\* check_dir_updates erases from paths only what is there.
THEOREM TypeCorrect == Spec => []TypeOK
<1>1. Init => TypeInv /\ StartInv
  BY TypeInit, StartInit
<1>2. TypeInv /\ StartInv /\ [Next]_vars => TypeInv' /\ StartInv'
  BY TypeStep, StartStep
<1>3. TypeInv /\ StartInv => TypeOK
  BY TypeOKFollows
<1>. QED  BY <1>1, <1>2, <1>3, PTL DEF Spec

=============================================================================
