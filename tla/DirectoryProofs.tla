--------------------------- MODULE DirectoryProofs ---------------------------
(***************************************************************************)
(* For every set of files and contents, all acts and every bound: users    *)
(* who wait until all is quiet find their changes everywhere               *)
(* (DirectoryAgrees).                                                      *)
(*                                                                         *)
(* Such users act one at a time, so of all files at most one is being      *)
(* handled.  From one quiet state to the next it goes through stages:      *)
(* changed on the device, announced and sent, told to the devices, fetched *)
(* again, copied to the backups; what is left then is events that paths    *)
(* expects.  StageInv says where the file's content is at each.            *)
(***************************************************************************)
EXTENDS ClientProofs

-----------------------------------------------------------------------------
(* The stages.                                                             *)

\* Users waited so far, and the program runs and watches sync_dir.
Calm == care = "settled" /\ alive /\ watched

Written(p) == [op |-> "write", name |-> p]
Deleted(p) == [op |-> "delete", name |-> p]

Seen(e) == e \in ToSet(events)

\* Each event of the queue q has an entry of its own in the list, which has
\* n[p] of file p.
Expected(q, n) ==
  /\ IsInjective(q)
  /\ \A p \in File :
       /\ Written(p) \in ToSet(q) \/ Deleted(p) \in ToSet(q) => n[p] >= 1
       /\ Written(p) \in ToSet(q) /\ Deleted(p) \in ToSet(q) => n[p] >= 2

\* Every event that is still to be handled is expected.
Covered == Expected(events, paths)

\* Nothing is on its way to the server, or to the device.
NoneSent == toServer = <<>> /\ uploads = <<>> /\ watcher = Idle /\ user.at # "file"
NoneTold == fetch = <<>> /\ fetcher = Idle

Waits     == session.at = "idle"
Copies(p) == session.at = "backups" /\ session.name = p

\* The files start_communications has yet to send, with their contents.
IsName(r, i, p) == r[i].type = "name" /\ r[i].name = p

Coming(r) == {p \in File : \E i \in 1 .. Len(r) : IsName(r, i, p)}

Directory(r) ==
  \A p \in File :
    /\ \A i \in 1 .. Len(r) : IsName(r, i, p) => i < Len(r) /\ r[i+1] = Data(served[p])
    /\ \A i, j \in 1 .. Len(r) : IsName(r, i, p) /\ IsName(r, j, p) => i = j

\* The file whose name has been read.
Opened(p) ==
  /\ p \notin Coming(replies) /\ Head(replies) = Data(served[p])
  /\ ~Seen(Written(p)) /\ paths[p] >= 1
  /\ Seen(Deleted(p)) => paths[p] >= 2

Starting ==
  /\ muted = {} /\ NoneTold /\ Covered /\ served = wanted /\ backup = wanted
  /\ user.at = "erase" => events = <<>>
  /\ session.at = "hello" /\ user.at = "sync" =>
       \A p \in File : local[p] = Gone /\ ~Seen(Written(p))
  /\ Waits =>
       /\ Directory(replies)
       /\ \A p \in Coming(replies) : ~Seen(Written(p))
       /\ \A p \in File \ Coming(replies) :
            (user.at = "sync_file" /\ user.name = p) \/ local[p] = served[p]
  /\ user.at = "sync_file" => Opened(user.name)

\* The main server is dead, or its successor has not connected yet.
Lost ==
  /\ link # "up" /\ session.at = "gone"
  /\ NoneSent /\ NoneTold /\ events = <<>>
  /\ \A p \in File \ muted : Agree(p)

\* All that is left is a copy to the backups and expected events.
Draining ==
  /\ NoneSent /\ NoneTold /\ Covered
  /\ session.at \in {"idle", "backups"}
  /\ \A p \in File \ muted :
       /\ local[p] = wanted[p] /\ served[p] = wanted[p]
       /\ Copies(p) \/ backup[p] = wanted[p]

\* A change of the device's user that the watcher has not seen yet.
Changed(p) ==
  /\ NoneSent /\ NoneTold /\ Waits
  /\ events = <<Written(p)>> \/ events = <<Deleted(p)>>
  /\ paths[p] = 0
  /\ p \notin muted => /\ local[p] = wanted[p] /\ served[p] = backup[p]
                       /\ events = <<Deleted(p)>> => wanted[p] = Gone

\* An announced file that the watcher or the command thread sends.
Uploading(p) ==
  /\ NoneTold /\ events = <<>>
  /\ \/ Waits /\ toServer = <<Request("upload", p)>>
     \/ session = [at |-> "receive", op |-> "file", name |-> p] /\ toServer = <<>>
  /\ \/ /\ watcher = [name |-> p] /\ user.at # "file" /\ uploads = <<>>
        /\ p \notin muted => local[p] = wanted[p]
     \/ watcher = Idle /\ user.at = "file" /\ user.name = p /\ uploads = <<>>
     \/ watcher = Idle /\ user.at # "file" /\ uploads = <<>>
     \/ /\ watcher = Idle /\ user.at # "file"
        /\ \E c \in Version \cup {Gone} : uploads = <<c>> /\ (p \notin muted => c = wanted[p])

\* A delete that the server has not read yet.
Deleting(p) ==
  /\ NoneTold /\ events = <<>>
  /\ toServer = <<Request("delete", p)>> /\ uploads = <<>> /\ watcher = Idle /\ user.at # "file"
  /\ Waits \/ Copies(p)
  /\ p \notin muted => /\ local[p] = Gone /\ wanted[p] = Gone
                       /\ IF Waits THEN served[p] = backup[p] ELSE served[p] = Gone

\* A request that changes nothing.
Asking(p) ==
  /\ NoneTold /\ events = <<>>
  /\ toServer \in {<<Request("download", p)>>, <<Request("list", p)>>}
  /\ uploads = <<>> /\ watcher = Idle /\ user.at # "file" /\ Waits
  /\ p \notin muted => Agree(p)

\* The server has the change.
Telling(p) ==
  /\ NoneSent /\ NoneTold /\ events = <<>>
  /\ session.at = "devices" /\ session.name = p
  /\ p \notin muted => served[p] = wanted[p] /\ (session.op = "delete" => wanted[p] = Gone)

\* The device is told of the change, be it its own.
Told(p, x) ==
  /\ NoneSent /\ events = <<>> /\ (Waits \/ Copies(p))
  /\ \/ fetch = <<x>> /\ fetcher = Idle
     \/ fetch = <<>> /\ fetcher = x /\ paths[p] >= 1
  /\ x.name = p
  /\ p \notin muted => /\ served[p] = wanted[p] /\ (Waits => backup[p] = wanted[p])
                       /\ x.content = wanted[p] /\ (x.op = "delete" => wanted[p] = Gone)

\* The file could not be read at its sender and is removed again: one of the
\* two events is not expected, and sent as a delete.
Removed(p) ==
  /\ NoneSent /\ NoneTold /\ (Waits \/ Copies(p))
  /\ \/ events = <<Written(p), Deleted(p)>> /\ paths[p] = 1
     \/ events = <<Deleted(p)>> /\ paths[p] = 0
  /\ p \notin muted => /\ local[p] = Gone /\ served[p] = Gone /\ wanted[p] = Gone
                       /\ Waits => backup[p] = Gone

Others(p) == \A q \in File \ (muted \cup {p}) : Agree(q)

Handled(p) ==
  /\ Others(p)
  /\ \/ Changed(p) \/ Uploading(p) \/ Deleting(p) \/ Asking(p) \/ Telling(p) \/ Removed(p)
     \/ \E x \in Entry : Told(p, x)

Running ==
  \/ Lost
  \/ link = "up" /\ Draining
  \/ link = "up" /\ \E p \in File : Handled(p)

StageInv ==
  Calm => \/ ~Started /\ Starting
          \/ Started /\ "fetcher" \notin stale /\ Running

-----------------------------------------------------------------------------
(* Patience, queues and events.                                            *)

\* Nobody becomes patient again, and no program comes back.
LEMMA CalmBefore ==
  ASSUME TypeInv, [Next]_vars, Calm'
  PROVE  Calm
<1>. USE DEF Calm
<1>1. \A kind : Act(kind) => care = "settled"
  BY DEF Act
<1>2. \A p : AddPath(p) => alive /\ care = "settled"
  BY DEF AddPath
<1>3. ASSUME NEW p \in File, Save(p) \/ Delete(p) \/ Menu(p) \/ Peer(p) PROVE Calm
  BY <1>1, <1>3 DEF Save, Delete, Menu, Command, LocalCommand, Peer, At, client
<1>4. ASSUME Watch PROVE Calm
  BY <1>4 DEF Watch, WatchEcho, WatchUpload, WatchSendFile, WatchDelete, Watching
<1>5. ASSUME Fetch PROVE Calm
  BY <1>2, <1>5 DEF Fetch, FetchDelete, FetchOpen, FetchClose, FetchError, Fetching
<1>6. ASSUME CommandThread PROVE Calm
  <2>1. alive
    BY <1>6 DEF CommandThread, EraseDir, ReceiveName, ReceiveFile, SendUpload, ReceiveDownload,
                ReceiveInfo, GetResponse, At
  <2>2. UNCHANGED <<care, watched>>
    BY <1>6 DEF CommandThread, EraseDir, ReceiveName, ReceiveFile, SendUpload, ReceiveDownload,
                ReceiveInfo, GetResponse
  <2>. QED  BY <2>1, <2>2
<1>7. ASSUME Session PROVE Calm
  <2>1. UNCHANGED <<client, care>>
    BY <1>7 DEF Session, SendSyncDir, ReceiveUpload, PropagateToDevices, PropagateToBackups,
                TakeUpload, TakeDelete, TakeDownload, TakeList
  <2>. QED  BY <2>1 DEF client
<1>8. ASSUME Die \/ Accept PROVE Calm
  BY <1>1, <1>8 DEF Die, Accept, CloseSockets, SetSockets, client
<1>9. ASSUME UNCHANGED vars PROVE Calm
  BY <1>9 DEF vars, client
<1>. QED  BY <1>3, <1>4, <1>5, <1>6, <1>7, <1>8, <1>9 DEF Next

\* A user who waits acts when all is quiet.
LEMMA ActsWhenQuiet ==
  ASSUME Calm, Calm', NEW kind, Act(kind)
  PROVE  Quiet
BY DEF Calm, Act

\* Queues of one.
LEMMA Singles ==
  ASSUME NEW x
  PROVE  /\ <<x>> # <<>> /\ Head(<<x>>) = x /\ Tail(<<x>>) = <<>> /\ Append(<<>>, x) = <<x>>
         /\ Last(<<x>>) = x /\ ToSet(<<x>>) = {x} /\ IsInjective(<<x>>)
<1>1. Last(<<x>>) = x
  BY DEF Last
<1>2. ToSet(<<x>>) = {x} /\ IsInjective(<<x>>)
  BY DEF ToSet, IsInjective
<1>. QED  BY <1>1, <1>2

\* Queues of two.
LEMMA Pairs ==
  ASSUME NEW x, NEW y
  PROVE  /\ Append(<<x>>, y) = <<x, y>> /\ <<x, y>> # <<>>
         /\ Head(<<x, y>>) = x /\ Tail(<<x, y>>) = <<y>>
         /\ <<x>> = <<y>> => x = y
         /\ ToSet(<<x, y>>) = {x, y} /\ (x # y => IsInjective(<<x, y>>))
<1>1. Append(<<x>>, y) = <<x, y>>
  <2>1. <<x>> \in Seq({x, y}) /\ <<x, y>> \in Seq({x, y}) /\ Len(<<x>>) = 1 /\ Len(<<x, y>>) = 2
    OBVIOUS
  <2>2. /\ Append(<<x>>, y) \in Seq({x, y}) /\ Len(Append(<<x>>, y)) = 2
        /\ Append(<<x>>, y)[1] = x /\ Append(<<x>>, y)[2] = y
    BY <2>1, AppendProperties
  <2>3. \A i \in 1 .. 2 : Append(<<x>>, y)[i] = <<x, y>>[i]
    BY <2>2
  <2>. QED  BY <2>1, <2>2, <2>3, SeqEqual
<1>2. <<x>> = <<y>> => x = y
  OBVIOUS
<1>3. ToSet(<<x, y>>) = {x, y}
  BY DEF ToSet
<1>4. x # y => IsInjective(<<x, y>>)
  BY DEF IsInjective
<1>. QED  BY <1>1, <1>2, <1>3, <1>4

\* The queue that holds nothing.
LEMMA Nothing == ToSet(<<>>) = {} /\ IsInjective(<<>>)
BY DEF ToSet, IsInjective

\* What is in a queue after its head is read.
LEMMA ReadIs ==
  ASSUME NEW S, NEW q \in Seq(S), q # <<>>
  PROVE  /\ Head(q) \in ToSet(q) /\ ToSet(q) = {Head(q)} \cup ToSet(Tail(q))
         /\ IsInjective(q) => IsInjective(Tail(q)) /\ Head(q) \notin ToSet(Tail(q))
<1>1. PICK t : t = Tail(q)
  OBVIOUS
<1>2. PICK n \in Nat :
        /\ Len(q) = n /\ n >= 1 /\ Len(t) = n - 1 /\ Head(q) = q[1]
        /\ \A i \in 1 .. n - 1 : t[i] = q[i+1]
        /\ t \in Seq(S)
  BY <1>1, Reading
<1>3. DOMAIN q = 1 .. n /\ DOMAIN t = 1 .. n - 1
  BY <1>2, LenProperties
<1>4. 1 \in 1 .. n /\ \A i \in 1 .. n - 1 : i + 1 \in 1 .. n /\ i + 1 # 1
  BY <1>2
<1>5. \A i \in 1 .. n : i = 1 \/ (i - 1 \in 1 .. n - 1 /\ q[i] = t[i-1])
  BY <1>2
<1>6. \A y : y \in ToSet(q) <=> y = q[1] \/ y \in ToSet(t)
  <2>1. ASSUME NEW y \in ToSet(q) PROVE y = q[1] \/ y \in ToSet(t)
    <3>1. PICK i \in 1 .. n : y = q[i]
      BY <1>3 DEF ToSet
    <3>. QED  BY <1>3, <1>5, <3>1 DEF ToSet
  <2>2. ASSUME NEW y \in ToSet(t) PROVE y \in ToSet(q)
    <3>1. PICK i \in 1 .. n - 1 : y = t[i]
      BY <1>3 DEF ToSet
    <3>2. y = q[i+1] /\ i + 1 \in 1 .. n
      BY <1>2, <1>4, <3>1
    <3>. QED  BY <1>3, <3>2 DEF ToSet
  <2>3. q[1] \in ToSet(q)
    BY <1>3, <1>4 DEF ToSet
  <2>. QED  BY <2>1, <2>2, <2>3
<1>7. ASSUME IsInjective(q) PROVE IsInjective(t) /\ q[1] \notin ToSet(t)
  <2>1. \A i, j \in 1 .. n : q[i] = q[j] => i = j
    BY <1>3, <1>7 DEF IsInjective
  <2>2. \A i, j \in 1 .. n - 1 : t[i] = t[j] => i = j
    <3>. TAKE i, j \in 1 .. n - 1
    <3>1. t[i] = q[i+1] /\ t[j] = q[j+1] /\ i + 1 \in 1 .. n /\ j + 1 \in 1 .. n
      BY <1>2, <1>4
    <3>2. t[i] = t[j] => i + 1 = j + 1
      BY <2>1, <3>1
    <3>. QED  BY <3>2
  <2>3. \A i \in 1 .. n - 1 : t[i] # q[1]
    BY <1>2, <1>4, <2>1
  <2>. QED  BY <1>3, <2>2, <2>3 DEF ToSet, IsInjective
<1>. QED  BY <1>1, <1>2, <1>6, <1>7

\* What is in a queue after something is appended.
LEMMA AppendIs ==
  ASSUME NEW S, NEW q \in Seq(S), NEW x \in S
  PROVE  /\ ToSet(Append(q, x)) = ToSet(q) \cup {x}
         /\ IsInjective(q) /\ x \notin ToSet(q) => IsInjective(Append(q, x))
<1>1. PICK n \in Nat : n = Len(q) /\ DOMAIN q = 1 .. n
  BY LenProperties
<1>2. /\ Append(q, x) \in Seq(S) /\ Len(Append(q, x)) = n + 1
      /\ \A i \in 1 .. n : Append(q, x)[i] = q[i]
      /\ Append(q, x)[n + 1] = x
  BY <1>1, AppendProperties
<1>3. DOMAIN Append(q, x) = 1 .. n + 1
  BY <1>2, LenProperties
<1>4. 1 .. n + 1 = (1 .. n) \cup {n + 1}
  BY <1>1
<1>. QED  BY <1>1, <1>2, <1>3, <1>4 DEF ToSet, IsInjective

\* No event needs no entry.
LEMMA ExpectedNone == \A n : Expected(<<>>, n)
BY Nothing DEF Expected

\* One event needs one entry.
LEMMA ExpectedAlone ==
  ASSUME NEW op \in {"write", "delete"}, NEW p \in File
  PROVE  \A n : n[p] >= 1 => Expected(<<[op |-> op, name |-> p]>>, n)
<1>. DEFINE e == [op |-> op, name |-> p]
<1>1. IsInjective(<<e>>) /\ ToSet(<<e>>) = {e}
  BY Singles
<1>2. \A q \in File : /\ Written(q) = e \/ Deleted(q) = e => q = p
                      /\ ~(Written(q) = e /\ Deleted(q) = e)
  BY DEF Written, Deleted
<1>. HIDE DEF e
<1>3. ASSUME NEW n, n[p] >= 1 PROVE Expected(<<e>>, n)
  BY <1>1, <1>2, <1>3 DEF Expected
<1>. QED  BY <1>3 DEF e

\* A write and a delete of one file need two.
LEMMA ExpectedBoth ==
  ASSUME NEW p \in File
  PROVE  \A n : n[p] \in Nat /\ n[p] >= 2 => Expected(<<Written(p), Deleted(p)>>, n)
<1>1. Written(p) # Deleted(p)
  BY DEF Written, Deleted
<1>2. /\ IsInjective(<<Written(p), Deleted(p)>>)
      /\ ToSet(<<Written(p), Deleted(p)>>) = {Written(p), Deleted(p)}
  BY <1>1, Pairs
<1>3. \A q \in File : Written(q) \in {Written(p), Deleted(p)} \/ Deleted(q) \in {Written(p), Deleted(p)}
                        => q = p
  BY DEF Written, Deleted
<1>. QED  BY <1>2, <1>3 DEF Expected

\* An event that is taken off the queue takes its name off the list.
LEMMA ExpectedTail ==
  ASSUME NEW q \in Seq(Event), q # <<>>, NEW n \in [File -> Nat], Expected(q, n)
  PROVE  Expected(Tail(q), [n EXCEPT ![Head(q).name] = @ - 1])
<1>1. PICK t, e : t = Tail(q) /\ e = Head(q)
  OBVIOUS
<1>2. PICK m : m = [n EXCEPT ![e.name] = @ - 1]
  OBVIOUS
<1>3. e \in Event
  BY <1>1, Reading
<1>4. ToSet(q) = {e} \cup ToSet(t) /\ e \notin ToSet(t) /\ IsInjective(t)
  BY <1>1, ReadIs DEF Expected
<1>5. ASSUME NEW p \in File
      PROVE  /\ Written(p) \in ToSet(t) \/ Deleted(p) \in ToSet(t) => m[p] >= 1
             /\ Written(p) \in ToSet(t) /\ Deleted(p) \in ToSet(t) => m[p] >= 2
  <2>1. /\ Written(p) \in ToSet(q) \/ Deleted(p) \in ToSet(q) => n[p] >= 1
        /\ Written(p) \in ToSet(q) /\ Deleted(p) \in ToSet(q) => n[p] >= 2
    BY DEF Expected
  <2>2. CASE e.name # p
    BY <1>2, <1>4, <2>1, <2>2
  <2>3. CASE e.name = p
    <3>1. e = Written(p) \/ e = Deleted(p)
      BY <1>3, <2>3 DEF Event, Written, Deleted
    <3>2. m[p] = n[p] - 1 /\ n[p] \in Nat
      BY <1>2, <2>3
    <3>. QED  BY <1>4, <2>1, <3>1, <3>2
  <2>. QED  BY <2>2, <2>3
<1>. QED  BY <1>1, <1>2, <1>4, <1>5 DEF Expected

\* An echo takes its name off the list.
LEMMA CoveredEcho ==
  ASSUME TypeInv, Covered, WatchEcho
  PROVE  Covered'
<1>1. events \in Seq(Event) /\ events # <<>> /\ paths \in [File -> Nat]
  BY DEF WatchEcho, Watching, TypeInv, QueueType
<1>2. Expected(Tail(events), [paths EXCEPT ![Head(events).name] = @ - 1])
  BY <1>1, ExpectedTail DEF Covered
<1>. QED  BY <1>2 DEF Covered, WatchEcho, Event1

\* The event of a change when there is no other.
LEMMA NotifyNow ==
  ASSUME Calm, NEW op, NEW p
  PROVE  Notify(<<>>, op, p) = {<<[op |-> op, name |-> p]>>}
BY Singles DEF Notify, Calm

-----------------------------------------------------------------------------
(* Steps that move no file.                                                *)

\* The command thread reads what has come.
Aside ==
  /\ Started' /\ user'.at # "file" /\ stale' \subseteq stale
  /\ UNCHANGED <<local, watched, events, paths, watcher, fetcher, link,
                 toServer, uploads, fetch, session, served, backup, wanted, muted>>

\* Unless it uploads, that is all the command thread does.
LEMMA AsideIs ==
  ASSUME TypeInv, Started, user.at # "file", CommandThread
  PROVE  Aside
<1>1. ReceiveDownload \/ ReceiveInfo \/ GetResponse
  BY DEF CommandThread, EraseDir, ReceiveName, ReceiveFile, SendUpload, At, Started
<1>2. \A packet : Reads(packet) => stale' \subseteq stale
  BY DEF Reads
<1>3. user'.at \in {"menu", "infos", "response"} /\ stale' \subseteq stale
  BY <1>1, <1>2 DEF ReceiveDownload, ReceiveInfo, GetResponse, Goes, TypeInv, UserType
<1>. QED
  BY <1>1, <1>3 DEF ReceiveDownload, ReceiveInfo, GetResponse, Aside, Started, server

\* It leaves the stage as it is.
LEMMA AsideKeeps ==
  ASSUME Running, user.at # "file", Aside
  PROVE  Running'
<1>. USE DEF Aside
<1>1. /\ NoneSent => NoneSent'
      /\ NoneTold => NoneTold'
      /\ Covered => Covered'
      /\ Waits' <=> Waits
      /\ \A p : (Copies(p)' <=> Copies(p)) /\ (Agree(p)' <=> Agree(p))
  BY DEF NoneSent, NoneTold, Covered, Waits, Copies, Agree
<1>2. Lost => Lost'
  BY <1>1 DEF Lost
<1>3. Draining => Draining'
  BY <1>1 DEF Draining
<1>4. ASSUME NEW p \in File, Handled(p) PROVE Handled(p)'
  <2>1. Others(p)'
    BY <1>1, <1>4 DEF Handled, Others
  <2>2. ASSUME Changed(p) PROVE Changed(p)'
    BY <1>1, <2>2 DEF Changed
  <2>3. ASSUME Uploading(p) PROVE Uploading(p)'
    BY <1>1, <2>3 DEF Uploading
  <2>4. ASSUME Deleting(p) PROVE Deleting(p)'
    BY <1>1, <2>4 DEF Deleting
  <2>5. ASSUME Asking(p) PROVE Asking(p)'
    BY <1>1, <2>5 DEF Asking
  <2>6. ASSUME Telling(p) PROVE Telling(p)'
    BY <1>1, <2>6 DEF Telling
  <2>7. ASSUME Removed(p) PROVE Removed(p)'
    BY <1>1, <2>7 DEF Removed
  <2>8. ASSUME NEW x \in Entry, Told(p, x) PROVE (\E y \in Entry : Told(p, y))'
    BY <1>1, <2>8 DEF Told
  <2>. QED
    BY <1>4, <2>1, <2>2, <2>3, <2>4, <2>5, <2>6, <2>7, <2>8 DEF Handled
<1>. QED  BY <1>2, <1>3, <1>4 DEF Running

-----------------------------------------------------------------------------
(* From stage to stage: the steps that are no acts.                        *)

Onward == Watch \/ Fetch \/ CommandThread \/ Session \/ Accept

\* Who has nothing to do.
LEMMA NoSteps ==
  /\ events = <<>> /\ watcher = Idle => ~Watch
  /\ NoneTold => ~Fetch
  /\ link = "up" => ~Accept
  /\ link # "up" => ~Session
<1>1. events = <<>> /\ watcher = Idle => ~Watch
  BY DEF Watch, WatchEcho, WatchUpload, WatchSendFile, WatchDelete, Watching
<1>2. NoneTold => ~Fetch
  BY DEF NoneTold, Fetch, FetchDelete, FetchOpen, FetchClose, FetchError, Fetching
<1>3. link = "up" => ~Accept
  BY DEF Accept, CloseSockets, SetSockets
<1>4. link # "up" => ~Session
  BY DEF Session, SendSyncDir, ReceiveUpload, PropagateToDevices, PropagateToBackups, TakeUpload,
         TakeDelete, TakeDownload, TakeList, Takes, Serves
<1>. QED  BY <1>1, <1>2, <1>3, <1>4

\* What the session can do at each of its places.
LEMMA SessionDoes ==
  ASSUME Started, StartInv, Session
  PROVE  \/ /\ session.at = "idle" /\ toServer # <<>>
            /\ \E p \in File : TakeUpload(p) \/ TakeDelete(p) \/ TakeDownload(p) \/ TakeList(p)
         \/ session.at = "receive" /\ ReceiveUpload
         \/ session.at = "devices" /\ PropagateToDevices
         \/ session.at = "backups" /\ PropagateToBackups
<1>1. ~SendSyncDir
  BY DEF SendSyncDir, Serves, StartInv, Started
<1>2. /\ ReceiveUpload => session.at = "receive"
      /\ PropagateToDevices => session.at = "devices"
      /\ PropagateToBackups => session.at = "backups"
  BY DEF ReceiveUpload, PropagateToDevices, PropagateToBackups, Serves
<1>3. \A p \in File : TakeUpload(p) \/ TakeDelete(p) \/ TakeDownload(p) \/ TakeList(p) =>
        session.at = "idle" /\ toServer # <<>>
  BY DEF TakeUpload, TakeDelete, TakeDownload, TakeList, Takes, Serves
<1>. QED  BY <1>1, <1>2, <1>3 DEF Session

\* It takes the one request there is.
LEMMA SessionTakes ==
  ASSUME Started, StartInv, Session, session.at = "idle",
         NEW op, NEW p, toServer = <<Request(op, p)>>
  PROVE  /\ toServer' = <<>>
         /\ \/ op = "upload" /\ TakeUpload(p)
            \/ op = "delete" /\ TakeDelete(p)
            \/ op = "download" /\ TakeDownload(p)
            \/ op = "list" /\ TakeList(p)
<1>1. PICK q \in File : TakeUpload(q) \/ TakeDelete(q) \/ TakeDownload(q) \/ TakeList(q)
  BY SessionDoes
<1>2. PICK r : r = Request(op, p)
  OBVIOUS
<1>3. toServer = <<r>> /\ Head(toServer) = r /\ Tail(toServer) = <<>>
  BY <1>2, Singles
<1>4. ASSUME NEW kind, Takes(kind, q) PROVE kind = op /\ q = p /\ toServer' = <<>>
  <2>1. Request(kind, q) = Request(op, p) /\ toServer' = <<>>
    BY <1>2, <1>3, <1>4 DEF Takes
  <2>. QED  BY <2>1 DEF Request
<1>5. /\ TakeUpload(q) => Takes("upload", q)
      /\ TakeDelete(q) => Takes("delete", q)
      /\ TakeDownload(q) => Takes("download", q)
      /\ TakeList(q) => Takes("list", q)
  BY DEF TakeUpload, TakeDelete, TakeDownload, TakeList
<1>. QED  BY <1>1, <1>4, <1>5

\* A dead server takes no request, and its successor finds none.
LEMMA FromLost ==
  ASSUME TypeInv, Calm, Calm', Started, Lost, Onward
  PROVE  Running'
<1>1. ~Watch /\ ~Fetch /\ ~Session
  BY NoSteps DEF Lost, NoneSent
<1>2. CASE CommandThread
  BY <1>2, AsideIs, AsideKeeps DEF Lost, NoneSent, Running
<1>3. ASSUME Accept PROVE NoneSent' /\ NoneTold' /\ events' = <<>> /\ UNCHANGED <<local, served, backup, wanted, muted>>
  <2>1. user'.at = user.at
    BY <1>3 DEF Accept, CloseSockets, SetSockets, client, TypeInv, UserType
  <2>. QED
    BY <1>3, <2>1 DEF Lost, NoneSent, NoneTold, Accept, CloseSockets, SetSockets, client, server
<1>4. CASE CloseSockets
  <2>1. link' # "up" /\ session' = session
    BY <1>4 DEF CloseSockets, server
  <2>. QED  BY <1>3, <1>4, <2>1 DEF Accept, Lost, Agree, Running
<1>5. CASE SetSockets
  <2>1. link' = "up" /\ session'.at = "idle"
    BY <1>5 DEF SetSockets
  <2>2. Covered'
    BY <1>3, <1>5, ExpectedNone DEF Accept, Covered
  <2>. QED  BY <1>3, <1>5, <2>1, <2>2 DEF Accept, Lost, Agree, Draining, Running
<1>. QED  BY <1>1, <1>2, <1>4, <1>5 DEF Onward, Accept

\* Expected events are read, and the backups get their copy.
LEMMA FromDraining ==
  ASSUME TypeInv, StartInv, Calm, Calm', Started, link = "up", Draining, Onward
  PROVE  Running'
<1>1. ~Fetch /\ ~Accept
  BY NoSteps DEF Draining
<1>2. CASE CommandThread
  BY <1>2, AsideIs, AsideKeeps DEF Draining, NoneSent, Running
<1>3. CASE Watch
  <2>1. watcher = Idle
    BY DEF Draining, NoneSent
  <2>2. ASSUME Watching PROVE paths[Event1.name] # 0
    <3>1. Event1 \in Event /\ Event1 \in ToSet(events)
      BY <2>2, Reading, ReadIs DEF Watching, Event1, TypeInv, QueueType
    <3>2. PICK p \in File : Event1.name = p /\ (Event1 = Written(p) \/ Event1 = Deleted(p))
      BY <3>1 DEF Event, Written, Deleted
    <3>3. paths[p] >= 1 /\ paths[p] \in Nat
      BY <3>1, <3>2 DEF Draining, Covered, Expected, TypeInv, QueueType
    <3>. QED  BY <3>2, <3>3
  <2>3. WatchEcho
    BY <1>3, <2>1, <2>2 DEF Watch, WatchUpload, WatchSendFile, WatchDelete
  <2>4. Covered'
    BY <2>3, CoveredEcho DEF Draining
  <2>5. UNCHANGED <<local, user, watcher, fetcher, link, toServer, uploads, fetch, session, served,
                    backup, wanted, muted>>
    BY <2>3 DEF WatchEcho, server
  <2>. QED  BY <2>4, <2>5 DEF Draining, NoneSent, NoneTold, Copies, Running
<1>4. CASE Session
  <2>1. session.at = "backups" /\ PropagateToBackups
    BY <1>4, SessionDoes DEF Draining, NoneSent
  <2>2. PICK p \in File : p = session.name
    BY <2>1 DEF TypeInv, SessionType
  <2>3. /\ backup' = [backup EXCEPT ![p] = served[p]] /\ backup \in Disk
        /\ session'.at = "idle"
        /\ UNCHANGED <<local, events, paths, user, watcher, fetcher, link, toServer, uploads, fetch,
                       served, wanted, muted>>
    BY <2>1, <2>2 DEF PropagateToBackups, Continue, client, TypeInv, DiskType, SessionType
  <2>4. \A q \in File : backup'[q] = IF q = p THEN served[p] ELSE backup[q]
    BY <2>3 DEF Disk
  <2>5. NoneSent' /\ NoneTold' /\ Covered'
    BY <2>3 DEF Draining, NoneSent, NoneTold, Covered
  <2>6. \A q \in File \ muted : Agree(q)'
    BY <2>2, <2>3, <2>4 DEF Draining, Copies, Agree
  <2>. QED  BY <2>3, <2>5, <2>6 DEF Draining, Agree, Running
<1>. QED  BY <1>1, <1>2, <1>3, <1>4 DEF Onward

\* Other files stay as they are.
LEMMA OthersKeep ==
  ASSUME NEW p \in File, Others(p), UNCHANGED muted,
         \A q \in File \ {p} : /\ local'[q] = local[q] /\ served'[q] = served[q]
                               /\ backup'[q] = backup[q] /\ wanted'[q] = wanted[q]
  PROVE  Others(p)'
BY DEF Others, Agree

\* The command thread sends a file, or only reads.
LEMMA CommandDoes ==
  ASSUME TypeInv, Started, CommandThread, Running
  PROVE  Running' \/ (user.at = "file" /\ SendUpload)
<1>1. CASE user.at # "file"
  BY <1>1, AsideIs, AsideKeeps
<1>2. CASE user.at = "file"
  BY <1>2 DEF CommandThread, EraseDir, ReceiveName, ReceiveFile, ReceiveDownload, ReceiveInfo,
              GetResponse, At
<1>. QED  BY <1>1, <1>2

\* The watcher announces the change.
LEMMA FromChanged ==
  ASSUME TypeInv, StartInv, Calm, Calm', Started, link = "up", Onward,
         NEW p \in File, Others(p), Changed(p)
  PROVE  Running'
<1>1. ~Fetch /\ ~Accept /\ ~Session
  BY NoSteps, SessionDoes DEF Changed, NoneSent, Waits
<1>2. CASE CommandThread
  <2>1. Running /\ user.at # "file"
    BY DEF Running, Handled, Changed, NoneSent
  <2>. QED  BY <1>2, <2>1, CommandDoes
<1>3. CASE Watch
  <2>1. watcher = Idle /\ toServer = <<>> /\ uploads = <<>> /\ user.at # "file" /\ NoneTold
        /\ session.at = "idle" /\ paths[p] = 0
    BY DEF Changed, NoneSent, Waits
  <2>2. PICK op \in {"write", "delete"} : events = <<[op |-> op, name |-> p]>>
    BY DEF Changed, Written, Deleted
  <2>3. Event1 = [op |-> op, name |-> p] /\ Tail(events) = <<>>
    BY <2>2, Singles DEF Event1
  <2>4. Event1.name = p /\ Event1.op = op
    BY <2>3
  <2>5. ~WatchEcho /\ ~WatchSendFile
    BY <2>1, <2>4 DEF WatchEcho, WatchSendFile
  <2>6. UNCHANGED <<local, user, fetcher, link, uploads, fetch, session, served, backup, wanted, muted>>
    BY <1>3, <2>5 DEF Watch, WatchUpload, WatchDelete, server
  <2>7. Others(p)' /\ NoneTold'
    BY <2>1, <1>3, <2>5, <2>6, OthersKeep DEF NoneTold, Watch, WatchUpload, WatchDelete
  <2>8. CASE WatchUpload
    <3>1. op = "write" /\ events' = <<>> /\ watcher' = [name |-> p]
      BY <2>3, <2>4, <2>8 DEF WatchUpload
    <3>2. toServer' = <<Request("upload", p)>>
      BY <2>1, <2>4, <2>8, Singles DEF WatchUpload, Write, Calm
    <3>3. Uploading(p)'
      BY <2>1, <2>6, <2>7, <3>1, <3>2 DEF Uploading, Changed, Waits
    <3>. QED  BY <2>6, <2>7, <3>3 DEF Handled, Running
  <2>9. CASE WatchDelete
    <3>1. op = "delete" /\ events' = <<>> /\ watcher' = Idle
      BY <2>1, <2>3, <2>4, <2>9 DEF WatchDelete
    <3>2. toServer' = <<Request("delete", p)>>
      BY <2>1, <2>4, <2>9, Singles DEF WatchDelete, Write, Calm
    <3>3. events = <<Deleted(p)>>
      BY <2>2, <3>1 DEF Deleted
    <3>4. Deleting(p)'
      BY <2>1, <2>6, <2>7, <3>1, <3>2, <3>3 DEF Deleting, Changed, Waits
    <3>. QED  BY <2>6, <2>7, <3>4 DEF Handled, Running
  <2>. QED  BY <1>3, <2>5, <2>8, <2>9 DEF Watch
<1>. QED  BY <1>1, <1>2, <1>3 DEF Onward

\* The server takes the request and the file, and the device sends it.
LEMMA FromUploading ==
  ASSUME TypeInv, StartInv, Calm, Calm', Started, link = "up", Onward,
         NEW p \in File, Others(p), Uploading(p)
  PROVE  Running'
<1>1. ~Fetch /\ ~Accept
  BY NoSteps DEF Uploading
<1>2. CASE CommandThread
  <2>1. Running
    BY DEF Running, Handled
  <2>2. ASSUME user.at = "file", SendUpload PROVE Running'
    <3>1. user.name = p /\ watcher = Idle /\ uploads = <<>>
      BY <2>2, ClientAssumption DEF Uploading
    <3>2. PICK c \in Version \cup {Gone} : SendFile(c) /\ Wants(user.name, c)
      BY <2>2 DEF SendUpload
    <3>3. c # Empty
      BY ClientAssumption
    <3>4. uploads' = <<c>>
      BY <3>1, <3>2, <3>3, Singles DEF SendFile, Write, Calm
    <3>5. wanted' = [wanted EXCEPT ![p] = c] /\ wanted \in Disk
      BY <3>1, <3>2 DEF Wants, Calm, TypeInv, DiskType
    <3>6. wanted'[p] = c /\ \A q \in File \ {p} : wanted'[q] = wanted[q]
      BY <3>5 DEF Disk
    <3>7. user'.at = "response"
          /\ UNCHANGED <<local, events, watcher, fetcher, link, toServer, fetch, session,
                         served, backup, muted>>
      BY <2>2 DEF SendUpload, Goes, server, TypeInv, UserType
    <3>8. Others(p)'
      BY <3>6, <3>7, OthersKeep
    <3>9. Uploading(p)'
      BY <3>1, <3>4, <3>6, <3>7 DEF Uploading, NoneTold, Waits
    <3>. QED  BY <3>7, <3>8, <3>9 DEF Handled, Running
  <2>. QED  BY <1>2, <2>1, <2>2, CommandDoes
<1>3. CASE Watch
  <2>1. WatchSendFile /\ watcher # Idle
    BY <1>3 DEF Watch, WatchEcho, WatchUpload, WatchSendFile, WatchDelete, Watching, Uploading
  <2>2. /\ watcher.name = p /\ user.at # "file" /\ uploads = <<>>
        /\ p \notin muted => local[p] = wanted[p]
    BY <2>1 DEF Uploading
  <2>3. /\ watcher' = Idle
        /\ UNCHANGED <<local, events, user, fetcher, link, toServer, fetch, session, served, backup,
                       wanted, muted>>
    BY <2>1 DEF WatchSendFile, server
  <2>4. \/ uploads' = <<>>
        \/ \E c \in Version \cup {Gone} : uploads' = <<c>> /\ (p \notin muted' => c = wanted'[p])
    <3>1. PICK c \in Content \cup {Gone} : c = local[p]
      BY DEF TypeInv, DiskType, Disk
    <3>2. SendFile(c)
      BY <2>1, <2>2, <3>1 DEF WatchSendFile, SendFile, Write
    <3>3. CASE c = Empty
      BY <2>2, <3>2, <3>3 DEF SendFile
    <3>4. CASE c # Empty
      <4>1. uploads' = <<c>>
        BY <2>2, <3>2, <3>4, Singles DEF SendFile, Write, Calm
      <4>2. c \in Version \cup {Gone}
        BY <3>4 DEF Content
      <4>. QED  BY <2>2, <2>3, <3>1, <4>1, <4>2
    <3>. QED  BY <3>3, <3>4
  <2>5. Others(p)'
    BY <2>3, OthersKeep
  <2>6. Uploading(p)'
    BY <2>2, <2>3, <2>4 DEF Uploading, NoneTold, Waits
  <2>. QED  BY <2>3, <2>5, <2>6 DEF Handled, Running
<1>4. CASE Session
  <2>1. CASE session.at = "idle"
    <3>1. toServer = <<Request("upload", p)>>
      BY <2>1 DEF Uploading
    <3>2. TakeUpload(p) /\ toServer' = <<>>
      BY <1>4, <2>1, <3>1, SessionTakes
    <3>3. /\ toServer' = <<>> /\ session' = [at |-> "receive", op |-> "file", name |-> p]
          /\ served' = [served EXCEPT ![p] = Empty] /\ served \in Disk
          /\ UNCHANGED <<local, events, user, watcher, fetcher, link, uploads, fetch, backup, wanted, muted>>
      BY <3>2 DEF TakeUpload, client, TypeInv, DiskType
    <3>4. \A q \in File \ {p} : served'[q] = served[q]
      BY <3>3 DEF Disk
    <3>5. Others(p)'
      BY <3>3, <3>4, OthersKeep
    <3>6. Uploading(p)'
      BY <3>3 DEF Uploading, NoneTold
    <3>. QED  BY <3>3, <3>5, <3>6 DEF Handled, Running
  <2>2. CASE session.at # "idle"
    <3>1. session = [at |-> "receive", op |-> "file", name |-> p] /\ toServer = <<>>
      BY <2>2 DEF Uploading, Waits
    <3>2. ReceiveUpload /\ session.name = p
      BY <1>4, <3>1, SessionDoes
    <3>3. PICK c \in Version \cup {Gone} : uploads = <<c>> /\ (p \notin muted => c = wanted[p])
      BY <3>2 DEF ReceiveUpload, Uploading
    <3>4. watcher = Idle /\ user.at # "file"
      BY <3>3, Singles DEF Uploading
    <3>5. /\ uploads' = <<>> /\ session'.at = "devices" /\ session'.name = p /\ session'.op = "file"
          /\ served' = [served EXCEPT ![p] = c] /\ served \in Disk
          /\ UNCHANGED <<local, events, user, watcher, fetcher, link, toServer, fetch, backup, wanted, muted>>
      BY <3>1, <3>2, <3>3, Singles DEF ReceiveUpload, Continue, client, TypeInv, DiskType
    <3>6. served'[p] = c /\ \A q \in File \ {p} : served'[q] = served[q]
      BY <3>5 DEF Disk
    <3>7. Others(p)'
      BY <3>5, <3>6, OthersKeep
    <3>8. NoneSent' /\ NoneTold' /\ events' = <<>>
      BY <3>1, <3>4, <3>5 DEF Uploading, NoneSent, NoneTold
    <3>9. Telling(p)'
      BY <3>3, <3>5, <3>6, <3>8 DEF Telling
    <3>. QED  BY <3>5, <3>7, <3>9 DEF Handled, Running
  <2>. QED  BY <2>1, <2>2
<1>. QED  BY <1>1, <1>2, <1>3, <1>4 DEF Onward

\* The backups get their copy.
LEMMA CopyIs ==
  ASSUME TypeInv, NEW p \in File, Copies(p), PropagateToBackups
  PROVE  /\ Waits' /\ backup'[p] = served[p]
         /\ \A q \in File \ {p} : backup'[q] = backup[q]
         /\ UNCHANGED <<local, events, paths, user, watcher, fetcher, link, toServer, uploads, fetch,
                        served, wanted, muted>>
<1>1. backup' = [backup EXCEPT ![p] = served[p]] /\ backup \in Disk
  BY DEF Copies, PropagateToBackups, TypeInv, DiskType
<1>2. session'.at = "idle"
  BY DEF PropagateToBackups, Continue, TypeInv, SessionType
<1>. QED  BY <1>1, <1>2 DEF PropagateToBackups, client, Disk, Waits

\* The server removes the file, or has removed it already.
LEMMA FromDeleting ==
  ASSUME TypeInv, StartInv, Calm, Calm', Started, link = "up", Onward,
         NEW p \in File, Others(p), Deleting(p)
  PROVE  Running'
<1>1. ~Fetch /\ ~Accept /\ ~Watch
  BY NoSteps DEF Deleting
<1>2. CASE CommandThread
  <2>1. Running /\ user.at # "file"
    BY DEF Running, Handled, Deleting
  <2>. QED  BY <1>2, <2>1, CommandDoes
<1>3. CASE Session /\ Copies(p)
  <2>1. PropagateToBackups
    BY <1>3, SessionDoes DEF Copies
  <2>2. /\ Waits' /\ backup'[p] = served[p]
        /\ \A q \in File \ {p} : backup'[q] = backup[q]
        /\ UNCHANGED <<local, events, paths, user, watcher, fetcher, link, toServer, uploads, fetch,
                       served, wanted, muted>>
    BY <1>3, <2>1, CopyIs
  <2>3. Others(p)'
    BY <2>2, OthersKeep
  <2>4. Deleting(p)'
    BY <1>3, <2>2 DEF Deleting, Copies, Waits, NoneTold
  <2>. QED  BY <2>2, <2>3, <2>4 DEF Handled, Running
<1>4. CASE Session /\ Waits
  <2>1. TakeDelete(p) /\ toServer' = <<>>
    <3>1. toServer = <<Request("delete", p)>> /\ session.at = "idle"
      BY <1>4 DEF Deleting, Waits
    <3>. QED  BY <1>4, <3>1, SessionTakes
  <2>2. UNCHANGED <<local, events, user, watcher, fetcher, link, uploads, fetch, backup, wanted, muted>>
    BY <2>1 DEF TakeDelete, client
  <2>3. NoneSent' /\ NoneTold' /\ events' = <<>>
    BY <2>1, <2>2 DEF Deleting, NoneSent, NoneTold
  <2>4. served \in Disk
    BY DEF TypeInv, DiskType
  <2>5. CASE served[p] = Gone
    <3>1. served' = served /\ session' = session
      BY <2>1, <2>5 DEF TakeDelete
    <3>2. \A q \in File \ muted : Agree(q)'
      BY <1>4, <2>2, <2>5, <3>1 DEF Deleting, Others, Agree
    <3>3. Covered'
      BY <2>3, ExpectedNone DEF Covered
    <3>. QED  BY <1>4, <2>2, <2>3, <3>1, <3>2, <3>3 DEF Waits, Agree, Draining, Running
  <2>6. CASE served[p] # Gone
    <3>1. /\ served' = [served EXCEPT ![p] = Gone]
          /\ session' = [at |-> "devices", op |-> "delete", name |-> p]
      BY <2>1, <2>6 DEF TakeDelete
    <3>2. served'[p] = Gone /\ \A q \in File \ {p} : served'[q] = served[q]
      BY <2>4, <3>1 DEF Disk
    <3>3. Others(p)'
      BY <2>2, <3>2, OthersKeep
    <3>4. Telling(p)'
      BY <2>2, <2>3, <3>1, <3>2 DEF Telling, Deleting
    <3>. QED  BY <2>2, <3>3, <3>4 DEF Handled, Running
  <2>. QED  BY <2>5, <2>6
<1>. QED  BY <1>1, <1>2, <1>3, <1>4 DEF Onward, Deleting

\* A request that changes nothing is answered.
LEMMA FromAsking ==
  ASSUME TypeInv, StartInv, Calm, Calm', Started, link = "up", Onward,
         NEW p \in File, Others(p), Asking(p)
  PROVE  Running'
<1>1. ~Fetch /\ ~Accept /\ ~Watch
  BY NoSteps DEF Asking
<1>2. CASE CommandThread
  <2>1. Running /\ user.at # "file"
    BY DEF Running, Handled, Asking
  <2>. QED  BY <1>2, <2>1, CommandDoes
<1>3. CASE Session
  <2>1. session.at = "idle"
    BY DEF Asking, Waits
  <2>2. PICK op \in {"download", "list"} : toServer = <<Request(op, p)>>
    BY DEF Asking
  <2>3. (TakeDownload(p) \/ TakeList(p)) /\ toServer' = <<>>
    BY <1>3, <2>1, <2>2, SessionTakes
  <2>4. UNCHANGED <<local, events, user, watcher, fetcher, link, uploads, fetch, session, served, backup, wanted, muted>>
    BY <2>3 DEF TakeDownload, TakeList, client, server
  <2>5. NoneSent' /\ NoneTold' /\ events' = <<>>
    BY <2>3, <2>4 DEF Asking, NoneSent, NoneTold
  <2>6. \A q \in File \ muted : Agree(q)'
    BY <2>4 DEF Asking, Others, Agree
  <2>7. Covered'
    BY <2>5, ExpectedNone DEF Covered
  <2>. QED  BY <2>1, <2>4, <2>5, <2>6, <2>7 DEF Agree, Draining, Running
<1>. QED  BY <1>1, <1>2, <1>3 DEF Onward

\* The devices are told.
LEMMA FromTelling ==
  ASSUME TypeInv, StartInv, Calm, Calm', Started, link = "up", Onward,
         NEW p \in File, Others(p), Telling(p)
  PROVE  Running'
<1>1. ~Fetch /\ ~Accept /\ ~Watch
  BY NoSteps DEF Telling, NoneSent
<1>2. CASE CommandThread
  <2>1. Running /\ user.at # "file"
    BY DEF Running, Handled, Telling, NoneSent
  <2>. QED  BY <1>2, <2>1, CommandDoes
<1>3. CASE Session
  <2>1. PropagateToDevices /\ session.at = "devices" /\ session.name = p
    BY <1>3, SessionDoes DEF Telling
  <2>2. PICK x : x = ToDevice(session.op, p)
    OBVIOUS
  <2>3. x \in Entry /\ x.name = p /\ x.op = session.op /\ x.content = served[p]
    <3>1. session.op \in {"file", "delete"} /\ served[p] \in Content \cup {Gone}
      BY <2>1 DEF TypeInv, SessionType, DiskType, Disk
    <3>. QED  BY <2>2, <3>1 DEF ToDevice, Entry
  <2>4. /\ fetch' = <<x>> /\ session'.at = "backups" /\ session'.name = p
        /\ UNCHANGED <<local, events, user, watcher, fetcher, link, toServer, uploads, served, backup,
                       wanted, muted>>
    BY <2>1, <2>2, Singles
    DEF Telling, NoneTold, PropagateToDevices, Continue, client, TypeInv, SessionType
  <2>5. Others(p)'
    BY <2>4, OthersKeep
  <2>6. NoneSent' /\ fetcher' = Idle
    BY <2>4 DEF Telling, NoneSent, NoneTold
  <2>7. Told(p, x)'
    BY <2>3, <2>4, <2>6 DEF Telling, Told, Copies, Waits
  <2>. QED  BY <2>3, <2>4, <2>5, <2>7 DEF Handled, Running
<1>. QED  BY <1>1, <1>2, <1>3 DEF Onward

\* The watcher sends a delete of the file that is gone already.
LEMMA FromRemoved ==
  ASSUME TypeInv, StartInv, Calm, Calm', Started, link = "up", Onward,
         NEW p \in File, Others(p), Removed(p)
  PROVE  Running'
<1>1. ~Fetch /\ ~Accept
  BY NoSteps DEF Removed
<1>2. CASE CommandThread
  <2>1. Running /\ user.at # "file"
    BY DEF Running, Handled, Removed, NoneSent
  <2>. QED  BY <1>2, <2>1, CommandDoes
<1>3. CASE Session
  <2>1. PropagateToBackups /\ Copies(p)
    BY <1>3, SessionDoes DEF Removed, NoneSent, Waits, Copies
  <2>2. /\ Waits' /\ backup'[p] = served[p]
        /\ \A q \in File \ {p} : backup'[q] = backup[q]
        /\ UNCHANGED <<local, events, paths, user, watcher, fetcher, link, toServer, uploads, fetch,
                       served, wanted, muted>>
    BY <2>1, CopyIs
  <2>3. Others(p)'
    BY <2>2, OthersKeep
  <2>4. Removed(p)'
    BY <2>2 DEF Removed, NoneSent, NoneTold
  <2>. QED  BY <2>2, <2>3, <2>4 DEF Handled, Running
<1>4. CASE Watch
  <2>1. NoneSent /\ NoneTold /\ paths \in [File -> Nat]
    BY DEF Removed, TypeInv, QueueType
  <2>2. ~WatchSendFile
    BY <2>1 DEF NoneSent, WatchSendFile
  <2>3. CASE events = <<Written(p), Deleted(p)>>
    <3>1. Event1 = Written(p) /\ Tail(events) = <<Deleted(p)>> /\ paths[p] = 1
      <4>1. Written(p) # Deleted(p) /\ <<Written(p), Deleted(p)>> # <<Deleted(p)>>
        BY DEF Written, Deleted
      <4>. QED  BY <2>3, <4>1, Pairs DEF Event1, Removed
    <3>2. Event1.name = p
      BY <3>1 DEF Written
    <3>3. WatchEcho
      BY <1>4, <2>2, <3>1, <3>2 DEF Watch, WatchUpload, WatchDelete
    <3>4. /\ events' = <<Deleted(p)>> /\ paths'[p] = 0
          /\ UNCHANGED <<local, user, watcher, fetcher, link, toServer, uploads, fetch, session, served,
                         backup, wanted, muted>>
      BY <2>1, <3>1, <3>2, <3>3 DEF WatchEcho, server
    <3>5. Others(p)'
      BY <3>4, OthersKeep
    <3>6. Removed(p)'
      BY <3>4 DEF Removed, NoneSent, NoneTold, Waits, Copies, Deleted
    <3>. QED  BY <3>4, <3>5, <3>6 DEF Handled, Running
  <2>4. CASE events = <<Deleted(p)>> /\ paths[p] = 0
    <3>1. Event1 = Deleted(p) /\ Tail(events) = <<>>
      BY <2>4, Singles DEF Event1
    <3>2. Event1.name = p /\ Event1.op = "delete"
      BY <3>1 DEF Deleted
    <3>3. WatchDelete
      BY <1>4, <2>2, <2>4, <3>2 DEF Watch, WatchEcho, WatchUpload
    <3>4. /\ events' = <<>>
          /\ UNCHANGED <<local, user, watcher, fetcher, link, uploads, fetch, session, served,
                         backup, wanted, muted>>
      BY <3>1, <3>3 DEF WatchDelete, server
    <3>5. toServer' = <<Request("delete", p)>>
      BY <2>1, <3>2, <3>3, Singles DEF WatchDelete, Write, NoneSent, Calm
    <3>6. Others(p)'
      BY <3>4, OthersKeep
    <3>7. Deleting(p)'
      BY <2>1, <3>4, <3>5 DEF Removed, Deleting, NoneSent, NoneTold, Waits, Copies
    <3>. QED  BY <3>4, <3>6, <3>7 DEF Handled, Running
  <2>. QED  BY <2>3, <2>4 DEF Removed
<1>. QED  BY <1>1, <1>2, <1>3, <1>4 DEF Onward

\* The device applies the change, with the events it expects.
LEMMA FromTold ==
  ASSUME TypeInv, StartInv, Calm, Calm', Started, link = "up", "fetcher" \notin stale, Onward,
         NEW p \in File, Others(p), NEW x \in Entry, Told(p, x)
  PROVE  Running'
<1>1. ~Accept /\ ~Watch
  BY NoSteps DEF Told, NoneSent
<1>2. CASE CommandThread
  <2>1. Running /\ user.at # "file"
    BY DEF Running, Handled, Told, NoneSent
  <2>. QED  BY <1>2, <2>1, CommandDoes
<1>3. CASE Session
  <2>1. PropagateToBackups /\ Copies(p)
    BY <1>3, SessionDoes DEF Told, NoneSent, Waits, Copies
  <2>2. /\ Waits' /\ backup'[p] = served[p]
        /\ \A q \in File \ {p} : backup'[q] = backup[q]
        /\ UNCHANGED <<local, events, paths, user, watcher, fetcher, link, toServer, uploads, fetch,
                       served, wanted, muted>>
    BY <2>1, CopyIs
  <2>3. Others(p)'
    BY <2>2, OthersKeep
  <2>4. Told(p, x)'
    BY <2>2 DEF Told, NoneSent
  <2>. QED  BY <2>2, <2>3, <2>4 DEF Handled, Running
<1>4. CASE Fetch
  <2>1. /\ NoneSent /\ events = <<>> /\ (Waits \/ Copies(p)) /\ x.name = p
        /\ p \notin muted => /\ served[p] = wanted[p] /\ (Waits => backup[p] = wanted[p])
                             /\ x.content = wanted[p] /\ (x.op = "delete" => wanted[p] = Gone)
    BY DEF Told
  <2>2. x # Idle /\ x.op \in {"file", "delete"}
    BY ClientAssumption DEF Entry, Idle
  <2>3. paths \in [File -> Nat] /\ local \in Disk
    BY DEF TypeInv, QueueType, DiskType
  <2>4. UNCHANGED <<user, watcher, link, toServer, uploads, session, served, backup, wanted, muted>>
    BY <1>4 DEF Fetch, FetchDelete, FetchOpen, FetchClose, FetchError, server
  <2>5. NoneSent' /\ (Waits \/ Copies(p))'
    BY <2>1, <2>4 DEF NoneSent, Waits, Copies
  <2>6. ASSUME NEW c, local' = [local EXCEPT ![p] = c]
        PROVE  local'[p] = c /\ Others(p)'
    <3>1. local'[p] = c /\ \A q \in File \ {p} : local'[q] = local[q]
      BY <2>3, <2>6 DEF Disk
    <3>. QED  BY <2>4, <3>1, OthersKeep
  <2>7. ASSUME Others(p)', NoneTold', Covered', p \notin muted => local'[p] = wanted[p]
        PROVE  Running'
    <3>1. Draining'
      BY <2>1, <2>4, <2>5, <2>7 DEF Draining, Others, Agree, Waits, Copies
    <3>. QED  BY <2>4, <3>1 DEF Running
  <2>8. ASSUME AddPath(p) PROVE paths'[p] >= 1
    <3>1. paths' = [paths EXCEPT ![p] = @ + 1]
      BY <2>1, <2>8 DEF AddPath
    <3>. QED  BY <2>3, <3>1
  <2>9. CASE FetchDelete
    <3>1. fetch = <<x>> /\ fetcher = Idle
      BY <2>2, <2>9 DEF FetchDelete, Fetching, Told
    <3>2. Head(fetch) = x /\ Tail(fetch) = <<>>
      BY <3>1, Singles
    <3>3. x.op = "delete" /\ AddPath(p) /\ RemoveFile(p) /\ fetch' = <<>> /\ fetcher' = Idle
      BY <2>1, <2>9, <3>1, <3>2 DEF FetchDelete, Fetching
    <3>4. events' = <<>> \/ events' = <<[op |-> "delete", name |-> p]>>
      BY <2>1, <3>3, NotifyNow DEF RemoveFile
    <3>5. Covered'
      BY <2>8, <3>3, <3>4, ExpectedNone, ExpectedAlone DEF Covered
    <3>6. local'[p] = Gone /\ Others(p)'
      BY <2>6, <3>3 DEF RemoveFile
    <3>. QED  BY <2>1, <2>7, <3>3, <3>5, <3>6 DEF NoneTold
  <2>10. CASE FetchOpen
    <3>1. fetch = <<x>> /\ fetcher = Idle
      BY <2>2, <2>10 DEF FetchOpen, Fetching, Told
    <3>2. Head(fetch) = x /\ Tail(fetch) = <<>>
      BY <3>1, Singles
    <3>3. /\ AddPath(p) /\ local' = [local EXCEPT ![p] = Empty] /\ fetcher' = x /\ fetch' = <<>>
          /\ events' = <<>>
      BY <2>1, <2>10, <3>2 DEF FetchOpen
    <3>4. Others(p)'
      BY <2>6, <3>3
    <3>5. Told(p, x)'
      BY <2>1, <2>4, <2>5, <2>8, <3>3 DEF Told, Waits
    <3>. QED  BY <2>4, <3>4, <3>5 DEF Handled, Running
  <2>11. CASE FetchClose \/ FetchError
    <3>1. fetch = <<>> /\ fetcher = x /\ paths[p] >= 1
      BY <2>11 DEF FetchClose, FetchError, Told
    <3>2. fetch' = <<>> /\ fetcher' = Idle /\ paths' = paths
      BY <2>11, <3>1 DEF FetchClose, FetchError
    <3>3. CASE FetchClose
      <4>1. Store(p, x.content)
        BY <2>1, <3>1, <3>3 DEF FetchClose
      <4>2. events' = <<[op |-> "write", name |-> p]>>
        BY <2>1, <4>1, NotifyNow DEF Store
      <4>3. Covered'
        BY <3>1, <3>2, <4>2, ExpectedAlone DEF Covered
      <4>4. local'[p] = x.content /\ Others(p)'
        BY <2>6, <4>1 DEF Store
      <4>. QED  BY <2>1, <2>7, <3>2, <4>3, <4>4 DEF NoneTold
    <3>4. CASE FetchError
      <4>1. x.content = Gone /\ local' = [local EXCEPT ![p] = Gone]
        BY <2>1, <3>1, <3>4 DEF FetchError
      <4>2. \E queue \in Notify(<<>>, "write", p) : events' \in Notify(queue, "delete", p)
        BY <2>1, <3>1, <3>4 DEF FetchError
      <4>3. events' \in Notify(<<Written(p)>>, "delete", p)
        BY <4>2, NotifyNow DEF Written
      <4>4. Last(<<Written(p)>>) # Deleted(p)
        BY Singles DEF Written, Deleted
      <4>5. events' = <<Written(p), Deleted(p)>>
        BY <4>3, <4>4, Pairs DEF Notify, Deleted, Calm
      <4>6. local'[p] = Gone /\ Others(p)'
        BY <2>6, <4>1
      <4>7. CASE paths[p] = 1
        <5>1. Removed(p)'
          BY <2>1, <2>4, <2>5, <3>2, <4>1, <4>5, <4>6, <4>7
          DEF Removed, NoneTold, Waits, Written, Deleted
        <5>. QED  BY <2>4, <4>6, <5>1 DEF Handled, Running
      <4>8. CASE paths[p] # 1
        <5>1. paths'[p] \in Nat /\ paths'[p] >= 2
          BY <2>3, <3>1, <3>2, <4>8
        <5>2. Covered'
          BY <4>5, <5>1, ExpectedBoth DEF Covered
        <5>. QED  BY <2>1, <2>7, <3>2, <4>1, <4>6, <5>2 DEF NoneTold
      <4>. QED  BY <4>7, <4>8
    <3>. QED  BY <2>11, <3>3, <3>4
  <2>. QED  BY <1>4, <2>9, <2>10, <2>11 DEF Fetch
<1>. QED  BY <1>1, <1>2, <1>3, <1>4 DEF Onward

-----------------------------------------------------------------------------
(* From one quiet state to the next: the acts.                             *)

\* When all is quiet, the files are as their users want them.
LEMMA QuietAgrees ==
  ASSUME Quiet, Running
  PROVE  /\ \A p \in File \ muted : Agree(p)
         /\ link = "up" /\ Waits /\ NoneSent /\ NoneTold /\ events = <<>>
<1>1. /\ link = "up" /\ Waits /\ NoneSent /\ NoneTold /\ events = <<>>
      /\ session.at = "idle" /\ toServer = <<>> /\ fetch = <<>> /\ fetcher = Idle
  BY DEF Quiet, Waits, NoneSent, NoneTold
<1>2. ASSUME NEW p \in File PROVE ~Handled(p)
  <2>1. ~Changed(p) /\ ~Removed(p)
    BY <1>1, Singles, Pairs DEF Changed, Removed
  <2>2. ~Uploading(p) /\ ~Deleting(p) /\ ~Asking(p) /\ ~Telling(p)
    BY <1>1, Singles DEF Uploading, Deleting, Asking, Telling
  <2>3. ASSUME NEW x \in Entry PROVE ~Told(p, x)
    <3>1. x # Idle
      BY ClientAssumption DEF Entry, Idle
    <3>. QED  BY <1>1, <3>1, Singles DEF Told
  <2>. QED  BY <2>1, <2>2, <2>3 DEF Handled
<1>3. Draining
  BY <1>1, <1>2 DEF Running, Lost
<1>. QED  BY <1>1, <1>3 DEF Draining, Copies, Agree

\* The device's user changes a file: the change is seen, or taken for an echo.
LEMMA FromChange ==
  ASSUME TypeInv, Calm, Calm', Quiet, Running, NEW p \in File, NEW c \in Content \cup {Gone},
         Changes(p, c), local' = [local EXCEPT ![p] = c],
         \/ events' = <<Written(p)>>
         \/ events' = <<Deleted(p)>> /\ c = Gone
         \/ events' = <<>> /\ local[p] = c,
         user'.at # "file",
         UNCHANGED <<paths, watcher, fetcher, link, toServer, uploads, fetch, session, served, backup>>
  PROVE  Running'
<1>1. /\ \A q \in File \ muted : Agree(q)
      /\ link = "up" /\ Waits /\ NoneSent /\ NoneTold
  BY QuietAgrees
<1>2. wanted' = [wanted EXCEPT ![p] = c] /\ wanted \in Disk /\ local \in Disk
  BY DEF Changes, Wants, Calm, TypeInv, DiskType
<1>3. /\ local'[p] = c /\ wanted'[p] = c
      /\ \A q \in File \ {p} : local'[q] = local[q] /\ wanted'[q] = wanted[q]
  BY <1>2 DEF Disk
<1>4. muted' = (IF paths[p] > 0 THEN muted \cup {p} ELSE muted) /\ paths[p] \in Nat
  BY DEF Changes, TypeInv, QueueType
<1>5. NoneSent' /\ NoneTold' /\ Waits' /\ link' = "up"
  BY <1>1 DEF NoneSent, NoneTold, Waits
<1>6. Others(p)'
  BY <1>1, <1>3, <1>4 DEF Others, Agree
<1>7. CASE paths[p] = 0 /\ events' # <<>>
  <2>1. events' = <<Written(p)>> \/ (events' = <<Deleted(p)>> /\ c = Gone)
    BY <1>7
  <2>2. events' = <<Deleted(p)>> => c = Gone
    BY <2>1, Pairs DEF Written, Deleted
  <2>3. p \notin muted => served[p] = backup[p]
    BY <1>1 DEF Agree
  <2>4. Changed(p)'
    BY <1>3, <1>4, <1>5, <1>7, <2>1, <2>2, <2>3 DEF Changed, Written, Deleted
  <2>. QED  BY <1>5, <1>6, <2>4 DEF Handled, Running
<1>8. CASE paths[p] > 0 \/ events' = <<>>
  <2>1. Covered'
    BY <1>4, <1>8, ExpectedNone, ExpectedAlone DEF Covered, Written, Deleted
  <2>2. p \notin muted' => Agree(p)'
    <3>1. CASE paths[p] > 0
      BY <1>4, <3>1
    <3>2. CASE events' = <<>>
      <4>1. local[p] = c
        BY <3>2, Singles
      <4>. QED  BY <1>1, <1>3, <1>4, <4>1 DEF Agree
    <3>. QED  BY <1>8, <3>1, <3>2
  <2>3. \A q \in File \ muted' : Agree(q)'
    BY <1>6, <2>2 DEF Others
  <2>. QED  BY <1>5, <2>1, <2>3 DEF Draining, Agree, Waits, Running
<1>. QED  BY <1>4, <1>7, <1>8

\* An act in a quiet state begins a stage.
LEMMA FromQuiet ==
  ASSUME TypeInv, Calm, Calm', Quiet, Running,
         (\E p \in File : Save(p) \/ Delete(p) \/ Menu(p) \/ Peer(p)) \/ Die
  PROVE  Running'
<1>1. /\ \A q \in File \ muted : Agree(q)
      /\ link = "up" /\ Waits /\ NoneSent /\ NoneTold /\ events = <<>>
  BY QuietAgrees
<1>2. ASSUME NEW p \in File, RemoveFile(p)
      PROVE  /\ local' = [local EXCEPT ![p] = Gone]
             /\ \/ events' = <<Deleted(p)>>
                \/ events' = <<>> /\ local[p] = Gone
  BY <1>1, <1>2, NotifyNow DEF RemoveFile, Deleted
<1>3. ASSUME NEW p \in File, Save(p) PROVE Running'
  <2>1. PICK c \in Content : Store(p, c) /\ Changes(p, c)
    BY <1>3 DEF Save, Content
  <2>2. local' = [local EXCEPT ![p] = c] /\ events' = <<Written(p)>>
    BY <1>1, <2>1, NotifyNow DEF Store, Written
  <2>3. /\ user' = user
        /\ UNCHANGED <<paths, watcher, fetcher, link, toServer, uploads, fetch, session, served, backup>>
    BY <1>3 DEF Save, server
  <2>4. user'.at # "file"
    BY <1>1, <2>3 DEF NoneSent
  <2>. QED  BY <2>1, <2>2, <2>3, <2>4, FromChange
<1>4. ASSUME NEW p \in File, Delete(p) PROVE Running'
  <2>1. RemoveFile(p) /\ Changes(p, Gone)
    BY <1>4 DEF Delete
  <2>2. /\ user' = user
        /\ UNCHANGED <<paths, watcher, fetcher, link, toServer, uploads, fetch, session, served, backup>>
    BY <1>4 DEF Delete, server
  <2>3. user'.at # "file"
    BY <1>1, <2>2 DEF NoneSent
  <2>. QED  BY <1>2, <2>1, <2>2, <2>3, FromChange
<1>5. ASSUME NEW p \in File, LocalCommand(p) PROVE Running'
  <2>1. /\ user'.at = "response"
        /\ UNCHANGED <<watched, paths, watcher, fetcher, link, toServer, uploads, fetch, session,
                       served, backup, stale>>
    BY <1>5 DEF LocalCommand, server
  <2>2. CASE RemoveFile(p) /\ Changes(p, Gone)
    BY <1>2, <2>1, <2>2, FromChange
  <2>3. CASE UNCHANGED <<local, events, wanted, muted>>
    <3>1. Started' /\ user.at # "file"
      BY <1>1, <2>1 DEF Started, NoneSent
    <3>2. Aside
      BY <2>1, <2>3, <3>1 DEF Aside
    <3>. QED  BY <3>1, <3>2, AsideKeeps
  <2>. QED  BY <1>5, <2>2, <2>3 DEF LocalCommand
<1>6. ASSUME NEW p \in File, NEW kind, NEW place, Command(kind, p, place),
             \/ kind = "upload" /\ place = "file"
             \/ kind \in {"download", "list"} /\ place # "file"
      PROVE  Running'
  <2>1. toServer' = <<Request(kind, p)>>
    BY <1>1, <1>6, Singles DEF Command, Write, NoneSent
  <2>2. /\ user' = [at |-> place, op |-> kind, name |-> p]
        /\ UNCHANGED <<local, events, paths, watcher, fetcher, link, uploads, fetch, session,
                       served, backup, wanted, muted>>
    BY <1>6 DEF Command, server
  <2>3. user'.at = place /\ user'.name = p
    BY <2>2
  <2>4. Others(p)' /\ NoneTold' /\ Waits' /\ (p \notin muted' => Agree(p)')
    BY <1>1, <2>2 DEF Others, Agree, NoneTold, Waits
  <2>5. watcher' = Idle /\ uploads' = <<>> /\ events' = <<>> /\ link' = "up"
    BY <1>1, <2>2 DEF NoneSent
  <2>6. CASE kind = "upload" /\ place = "file"
    <3>1. Uploading(p)'
      BY <2>1, <2>3, <2>4, <2>5, <2>6 DEF Uploading
    <3>. QED  BY <2>4, <2>5, <3>1 DEF Handled, Running
  <2>7. CASE kind \in {"download", "list"} /\ place # "file"
    <3>1. Asking(p)'
      BY <2>1, <2>3, <2>4, <2>5, <2>7 DEF Asking
    <3>. QED  BY <2>4, <2>5, <3>1 DEF Handled, Running
  <2>. QED  BY <1>6, <2>6, <2>7
<1>7. ASSUME NEW p \in File, Menu(p) PROVE Running'
  BY <1>5, <1>6, <1>7 DEF Menu
<1>8. ASSUME NEW p \in File, Peer(p) PROVE Running'
  <2>1. PICK c \in Content \cup {Gone} : served' = [served EXCEPT ![p] = c]
    BY <1>8 DEF Peer, Content
  <2>2. served \in Disk /\ backup \in Disk /\ wanted \in Disk
    BY DEF TypeInv, DiskType
  <2>3. served'[p] = c
    BY <2>1, <2>2 DEF Disk
  <2>4. /\ backup' = [backup EXCEPT ![p] = c] /\ wanted' = [wanted EXCEPT ![p] = c]
    BY <1>8, <2>3 DEF Peer, Wants, Calm
  <2>5. /\ backup'[p] = c /\ wanted'[p] = c
        /\ \A q \in File \ {p} : /\ served'[q] = served[q] /\ backup'[q] = backup[q]
                                 /\ wanted'[q] = wanted[q]
    BY <2>1, <2>2, <2>4 DEF Disk
  <2>6. UNCHANGED <<local, events, user, watcher, fetcher, link, toServer, uploads, session, muted>>
    BY <1>8 DEF Peer, client
  <2>7. PICK x \in Entry : /\ x.name = p /\ x.content = c /\ (x.op = "delete" => c = Gone)
                           /\ fetch' = Append(fetch, x)
    <3>. DEFINE e == [op |-> IF c = Gone THEN "delete" ELSE "file", name |-> p, content |-> c]
    <3>1. e \in Entry /\ e.name = p /\ e.content = c /\ (e.op = "delete" => c = Gone)
      BY DEF Entry
    <3>2. fetch' = Append(fetch, e)
      BY <1>8, <2>3 DEF Peer
    <3>. QED  BY <3>1, <3>2
  <2>8. fetch' = <<x>> /\ fetcher' = Idle
    BY <1>1, <2>6, <2>7, Singles DEF NoneTold
  <2>9. Others(p)'
    BY <1>1, <2>5, <2>6 DEF Others, Agree
  <2>10. NoneSent' /\ Waits' /\ events' = <<>> /\ link' = "up"
    BY <1>1, <2>6 DEF NoneSent, Waits
  <2>11. Told(p, x)'
    BY <2>3, <2>5, <2>7, <2>8, <2>10 DEF Told
  <2>. QED  BY <2>7, <2>9, <2>10, <2>11 DEF Handled, Running
<1>9. ASSUME Die PROVE Running'
  <2>1. /\ link' = "dead" /\ toServer' = <<>> /\ uploads' = <<>> /\ fetch' = fetch /\ served' = backup
        /\ session'.at = "gone"
        /\ UNCHANGED <<local, events, user, watcher, fetcher, backup, wanted, muted>>
    BY <1>1, <1>9 DEF Die, Continue, client, Waits, TypeInv, SessionType
  <2>2. NoneSent' /\ NoneTold' /\ events' = <<>>
    BY <1>1, <2>1 DEF NoneSent, NoneTold
  <2>3. \A q \in File \ muted' : Agree(q)'
    BY <1>1, <2>1 DEF Agree
  <2>. QED  BY <2>1, <2>2, <2>3 DEF Lost, Running
<1>. QED  BY <1>3, <1>4, <1>7, <1>8, <1>9

\* Once the client has started, every step leads from a stage to a stage.
LEMMA RunningStep ==
  ASSUME TypeInv, StartInv, Calm, Calm', Started, "fetcher" \notin stale, Running, Next
  PROVE  Started' /\ "fetcher" \notin stale' /\ Running'
<1>1. Started'
  BY StartedStep
<1>2. "fetcher" \notin stale'
  <2>1. ASSUME NEW p \in File, Save(p) \/ Delete(p) \/ Menu(p) \/ Peer(p) PROVE stale' = stale
    BY <2>1 DEF Save, Delete, Menu, Command, LocalCommand, Peer, client
  <2>2. ASSUME Watch \/ Fetch PROVE stale' \subseteq stale
    BY <2>2 DEF Watch, WatchEcho, WatchUpload, WatchSendFile, WatchDelete,
                Fetch, FetchDelete, FetchOpen, FetchClose, FetchError
  <2>3. ASSUME CommandThread PROVE stale' \subseteq stale
    <3>1. \A packet : Reads(packet) => stale' \subseteq stale
      BY DEF Reads
    <3>. QED
      BY <2>3, <3>1 DEF CommandThread, EraseDir, ReceiveName, ReceiveFile, SendUpload,
                        ReceiveDownload, ReceiveInfo, GetResponse
  <2>4. ASSUME Session \/ Die \/ SetSockets PROVE stale' = stale
    <3>1. UNCHANGED client
      BY <2>4 DEF Session, SendSyncDir, ReceiveUpload, PropagateToDevices, PropagateToBackups,
                  TakeUpload, TakeDelete, TakeDownload, TakeList, Die, SetSockets
    <3>. QED  BY <3>1 DEF client
  <2>5. ASSUME CloseSockets PROVE "fetcher" \notin stale'
    <3>1. fetcher = Idle
      BY <2>5 DEF CloseSockets, Running, Lost, NoneTold
    <3>. QED  BY <2>5, <3>1 DEF CloseSockets
  <2>. QED  BY <2>1, <2>2, <2>3, <2>4, <2>5 DEF Next, Accept
<1>3. CASE (\E p \in File : Save(p) \/ Delete(p) \/ Menu(p) \/ Peer(p)) \/ Die
  <2>1. Quiet
    BY <1>3, ActsWhenQuiet DEF Save, Delete, Menu, Command, LocalCommand, Peer, Die
  <2>. QED  BY <1>1, <1>2, <1>3, <2>1, FromQuiet
<1>4. CASE Onward
  <2>1. CASE Lost
    BY <1>1, <1>2, <1>4, <2>1, FromLost
  <2>2. CASE link = "up" /\ Draining
    BY <1>1, <1>2, <1>4, <2>2, FromDraining
  <2>3. ASSUME link = "up", NEW p \in File, Handled(p) PROVE Running'
    BY <1>4, <2>3, FromChanged, FromUploading, FromDeleting, FromAsking, FromTelling, FromRemoved,
       FromTold DEF Handled
  <2>. QED  BY <1>1, <1>2, <2>1, <2>2, <2>3 DEF Running
<1>. QED  BY <1>3, <1>4 DEF Next, Onward

-----------------------------------------------------------------------------
(* From the start to the first quiet state.                                *)

\* An event with an entry of its own may be added.
LEMMA ExpectedAppend ==
  ASSUME NEW q \in Seq(Event), NEW n, Expected(q, n), NEW p \in File,
         Written(p) \notin ToSet(q), n[p] >= 1, Deleted(p) \in ToSet(q) => n[p] >= 2
  PROVE  Expected(Append(q, Written(p)), n)
<1>1. Written(p) \in Event
  BY DEF Event, Written
<1>2. /\ ToSet(Append(q, Written(p))) = ToSet(q) \cup {Written(p)}
      /\ IsInjective(Append(q, Written(p)))
  BY <1>1, AppendIs DEF Expected
<1>3. \A f \in File : (Written(f) = Written(p) => f = p) /\ Deleted(f) # Written(p)
  BY DEF Written, Deleted
<1>. QED  BY <1>2, <1>3 DEF Expected

\* One more entry does no harm.
LEMMA ExpectedMore ==
  ASSUME NEW q, NEW n \in [File -> Nat], Expected(q, n), NEW p \in File
  PROVE  Expected(q, [n EXCEPT ![p] = @ + 1])
<1>1. PICK m : m = [n EXCEPT ![p] = @ + 1]
  OBVIOUS
<1>2. \A f \in File : n[f] \in Nat /\ (m[f] = n[f] \/ m[f] = n[f] + 1)
  BY <1>1
<1>3. \A f \in File : (n[f] >= 1 => m[f] >= 1) /\ (n[f] >= 2 => m[f] >= 2)
  BY <1>2
<1>. QED  BY <1>1, <1>3 DEF Expected

\* What comes after the next packet has been read.
LEMMA ComingTail ==
  ASSUME NEW q \in Seq(Packet), q # <<>>, Directory(q)
  PROVE  /\ Directory(Tail(q))
         /\ Head(q).type # "name" => Coming(Tail(q)) = Coming(q)
         /\ Head(q).type = "name" =>
              /\ Head(q).name \in Coming(q) /\ Coming(Tail(q)) = Coming(q) \ {Head(q).name}
              /\ Head(Tail(q)) = Data(served[Head(q).name])
<1>1. PICK t : t = Tail(q)
  OBVIOUS
<1>2. PICK n \in Nat : /\ n = Len(q) /\ n >= 1 /\ Len(t) = n - 1 /\ Head(q) = q[1]
                       /\ t \in Seq(Packet) /\ q[1] \in Packet
                       /\ \A i \in 1 .. n - 1 : t[i] = q[i+1]
  BY <1>1, Reading
<1>3. \A i \in 1 .. n - 1 : i + 1 \in 1 .. n /\ i + 1 # 1 /\ t[i] = q[i+1]
  BY <1>2
<1>4. \A i \in 1 .. n : i = 1 \/ (i - 1 \in 1 .. n - 1 /\ q[i] = t[i-1])
  BY <1>2
<1>5. \A p, i : i \in 1 .. n - 1 => (IsName(t, i, p) <=> IsName(q, i + 1, p))
  BY <1>3 DEF IsName
<1>6. ASSUME NEW p \in File
      PROVE  /\ \A i \in 1 .. n : IsName(q, i, p) => i < n /\ q[i+1] = Data(served[p])
             /\ \A i, j \in 1 .. n : IsName(q, i, p) /\ IsName(q, j, p) => i = j
  BY <1>2 DEF Directory
<1>7. Directory(t)
  <2>1. ASSUME NEW p \in File, NEW i \in 1 .. n - 1, IsName(t, i, p)
        PROVE  i < n - 1 /\ t[i+1] = Data(served[p])
    <3>1. i + 1 \in 1 .. n /\ IsName(q, i + 1, p)
      BY <1>3, <1>5, <2>1
    <3>2. i + 1 < n /\ q[i+1+1] = Data(served[p])
      BY <1>6, <3>1
    <3>3. i + 1 \in 1 .. n - 1
      BY <3>2
    <3>. QED  BY <1>3, <3>2, <3>3
  <2>2. ASSUME NEW p \in File, NEW i \in 1 .. n - 1, NEW j \in 1 .. n - 1,
               IsName(t, i, p), IsName(t, j, p)
        PROVE  i = j
    <3>1. i + 1 = j + 1
      BY <1>3, <1>5, <1>6, <2>2
    <3>. QED  BY <3>1
  <2>. QED  BY <1>2, <2>1, <2>2 DEF Directory
<1>8. ASSUME NEW p \in File
      PROVE  p \in Coming(q) <=> IsName(q, 1, p) \/ p \in Coming(t)
  <2>1. ASSUME p \in Coming(q) PROVE IsName(q, 1, p) \/ p \in Coming(t)
    <3>1. PICK i \in 1 .. n : IsName(q, i, p)
      BY <1>2, <2>1 DEF Coming
    <3>2. CASE i = 1
      BY <3>1, <3>2
    <3>3. CASE i # 1
      <4>1. i - 1 \in 1 .. n - 1 /\ (i - 1) + 1 = i
        BY <1>4, <3>3
      <4>2. IsName(t, i - 1, p)
        BY <1>5, <3>1, <4>1
      <4>. QED  BY <1>2, <4>1, <4>2 DEF Coming
    <3>. QED  BY <3>2, <3>3
  <2>2. ASSUME p \in Coming(t) PROVE p \in Coming(q)
    <3>1. PICK i \in 1 .. n - 1 : IsName(t, i, p)
      BY <1>2, <2>2 DEF Coming
    <3>2. i + 1 \in 1 .. n /\ IsName(q, i + 1, p)
      BY <1>3, <1>5, <3>1
    <3>. QED  BY <1>2, <3>2 DEF Coming
  <2>3. 1 \in 1 .. n
    BY <1>2
  <2>. QED  BY <1>2, <2>1, <2>2, <2>3 DEF Coming
<1>9. ASSUME NEW p \in File, IsName(q, 1, p) PROVE p \notin Coming(t)
  <2>1. ASSUME NEW i \in 1 .. n - 1, IsName(t, i, p) PROVE FALSE
    <3>1. i + 1 \in 1 .. n /\ i + 1 # 1 /\ IsName(q, i + 1, p)
      BY <1>3, <1>5, <2>1
    <3>2. 1 \in 1 .. n
      BY <1>2
    <3>. QED  BY <1>6, <1>9, <3>1, <3>2
  <2>. QED  BY <1>2, <2>1 DEF Coming
<1>10. CASE q[1].type # "name"
  <2>1. \A p \in File : p \in Coming(q) <=> p \in Coming(t)
    BY <1>8, <1>10 DEF IsName
  <2>2. Coming(q) = Coming(t)
    BY <2>1 DEF Coming
  <2>. QED  BY <1>1, <1>2, <1>7, <1>10, <2>2
<1>11. CASE q[1].type = "name"
  <2>1. PICK p \in File : p = q[1].name
    BY <1>2, <1>11 DEF Packet, Ack, Err
  <2>2. IsName(q, 1, p)
    BY <1>11, <2>1 DEF IsName
  <2>3. \A f \in File : f # p => ~IsName(q, 1, f)
    BY <2>1 DEF IsName
  <2>4. p \in Coming(q) /\ p \notin Coming(t)
    BY <1>8, <1>9, <2>2
  <2>5. \A f \in File : f \in Coming(t) <=> f \in Coming(q) /\ f # p
    BY <1>8, <2>3, <2>4
  <2>6. Coming(t) = Coming(q) \ {p}
    BY <2>5 DEF Coming
  <2>7. 1 < n /\ q[1+1] = Data(served[p])
    <3>1. 1 \in 1 .. n
      BY <1>2
    <3>. QED  BY <1>6, <2>2, <3>1
  <2>8. t # <<>> /\ 1 \in 1 .. n - 1
    BY <1>2, <2>7, EmptySeq
  <2>9. Head(t) = Data(served[p])
    <3>1. Head(t) = t[1]
      BY <1>2, <2>8, Reading
    <3>. QED  BY <1>3, <2>7, <2>8, <3>1
  <2>. QED  BY <1>1, <1>2, <1>7, <1>11, <2>1, <2>4, <2>6, <2>9
<1>. QED  BY <1>10, <1>11

\* All files are coming when start_communications has written them.
LEMMA DirectorySent ==
  ASSUME TypeInv, SendSyncDir, replies = <<>>
  PROVE  /\ Directory(replies')
         /\ Coming(replies') = {p \in File : served[p] # Gone}
<1>. DEFINE files == {p \in File : served[p] # Gone}
            m == Cardinality(files)
<1>1. PICK order \in SetToSeqs(files) :
        replies' = replies \o
          IF m = 0 THEN <<Err>>
          ELSE [i \in 1 .. 2*m |->
                  IF i % 2 = 1 THEN Name(order[(i + 1) \div 2], i + 1 = 2*m)
                  ELSE Data(served[order[i \div 2]])]
  BY DEF SendSyncDir
<1>2. PICK n \in Nat : n = m
  BY CountIs
<1>3. /\ n = 0 <=> files = {}
      /\ \A i \in 1 .. n : order[i] \in files
      /\ \A i, j \in 1 .. n : order[i] = order[j] => i = j
      /\ \A p \in files : \E i \in 1 .. n : order[i] = p
  <2>1. files \in SUBSET File
    OBVIOUS
  <2>. HIDE DEF files
  <2>. QED  BY <1>2, <2>1, OrderIs
<1>. DEFINE r == [i \in 1 .. 2*n |->
                    IF i % 2 = 1 THEN Name(order[(i + 1) \div 2], i + 1 = 2*n)
                    ELSE Data(served[order[i \div 2]])]
<1>4. replies' = replies \o IF n = 0 THEN <<Err>> ELSE r
  BY <1>1, <1>2
<1>5. files \subseteq File
  OBVIOUS
<1>. HIDE DEF files, m
<1>6. CASE n = 0
  <2>1. replies' = <<Err>>
    <3>1. <<Err>> \in Seq({Err})
      OBVIOUS
    <3>. QED  BY <1>4, <1>6, <3>1, ConcatEmptySeq
  <2>2. \A i, p : i \in 1 .. Len(<<Err>>) => ~IsName(<<Err>>, i, p)
    BY DEF IsName, Err
  <2>. QED  BY <1>3, <1>6, <2>1, <2>2 DEF Directory, Coming, files
<1>7. CASE n # 0
  <2>1. \A i \in 1 .. 2*n :
          /\ i % 2 = 1 => /\ (i + 1) \div 2 \in 1 .. n /\ i < 2*n /\ i + 1 \in 1 .. 2*n
                          /\ (i + 1) % 2 # 1 /\ i = 2 * ((i + 1) \div 2) - 1
          /\ i % 2 # 1 => i \div 2 \in 1 .. n
    OBVIOUS
  <2>2. \A i \in 1 .. n : /\ 2*i - 1 \in 1 .. 2*n /\ (2*i - 1) % 2 = 1
                          /\ ((2*i - 1) + 1) \div 2 = i
    OBVIOUS
  <2>3. \A i \in 1 .. 2*n :
          /\ i % 2 = 1 => r[i].type = "name" /\ r[i].name = order[(i + 1) \div 2]
          /\ i % 2 # 1 => r[i] = Data(served[order[i \div 2]]) /\ r[i].type # "name"
    BY DEF Name, Data
  <2>4. DOMAIN r = 1 .. 2*n
    OBVIOUS
  <2>. HIDE DEF r
  <2>5. \A i, p : i \in 1 .. 2*n => (IsName(r, i, p) <=> i % 2 = 1 /\ order[(i + 1) \div 2] = p)
    BY <2>3 DEF IsName
  <2>6. replies' = r /\ Len(r) = 2*n
    <3>1. r \in [1 .. 2*n -> {r[i] : i \in 1 .. 2*n}] /\ 2*n \in Nat
      BY DEF r
    <3>2. r \in Seq({r[i] : i \in 1 .. 2*n})
      BY <3>1, SeqDef
    <3>. QED  BY <1>4, <1>7, <2>4, <3>1, <3>2, LenProperties, ConcatEmptySeq
  <2>7. ASSUME NEW p \in File, NEW i \in 1 .. 2*n, IsName(r, i, p)
        PROVE  i < 2*n /\ r[i+1] = Data(served[p])
    <3>1. i % 2 = 1 /\ order[(i + 1) \div 2] = p
      BY <2>5, <2>7
    <3>. QED  BY <2>1, <2>3, <3>1
  <2>8. ASSUME NEW p \in File, NEW i \in 1 .. 2*n, NEW j \in 1 .. 2*n, IsName(r, i, p), IsName(r, j, p)
        PROVE  i = j
    <3>1. /\ i % 2 = 1 /\ order[(i + 1) \div 2] = p
          /\ j % 2 = 1 /\ order[(j + 1) \div 2] = p
      BY <2>5, <2>8
    <3>2. (i + 1) \div 2 = (j + 1) \div 2
      BY <1>3, <2>1, <3>1
    <3>. QED  BY <2>1, <3>1, <3>2
  <2>9. Directory(r)
    BY <2>6, <2>7, <2>8 DEF Directory
  <2>10. ASSUME NEW p \in files PROVE p \in Coming(r)
    <3>1. PICK i \in 1 .. n : order[i] = p
      BY <1>3
    <3>2. IsName(r, 2*i - 1, p)
      BY <2>2, <2>5, <3>1
    <3>. QED  BY <1>5, <2>2, <2>6, <3>2 DEF Coming
  <2>11. ASSUME NEW p \in Coming(r) PROVE p \in files
    <3>1. PICK i \in 1 .. 2*n : IsName(r, i, p)
      BY <2>6 DEF Coming
    <3>2. order[(i + 1) \div 2] = p /\ (i + 1) \div 2 \in 1 .. n
      BY <2>1, <2>5, <3>1
    <3>. QED  BY <1>3, <3>2
  <2>. QED  BY <2>6, <2>9, <2>10, <2>11 DEF files
<1>. QED  BY <1>6, <1>7

\* erase_dir: each file of an earlier run leaves one event, with its entry.
LEMMA EraseCovers ==
  ASSUME TypeInv, Calm, events = <<>>, EraseDir
  PROVE  Covered' /\ \A p \in File : ~Seen(Written(p))'
<1>. DEFINE files == {p \in File : local[p] # Gone}
<1>1. PICK order \in SetToSeqs(files) :
        /\ paths' = [p \in File |-> IF p \in files THEN paths[p] + 1 ELSE paths[p]]
        /\ events' = events \o
             IF watched THEN [i \in DOMAIN order |-> [op |-> "delete", name |-> order[i]]]
             ELSE <<>>
  BY DEF EraseDir
<1>2. files \in SUBSET File
  OBVIOUS
<1>. HIDE DEF files
<1>3. PICK n \in Nat :
        /\ DOMAIN order = 1 .. n
        /\ \A i \in 1 .. n : order[i] \in files
        /\ \A i, j \in 1 .. n : order[i] = order[j] => i = j
  BY <1>2, OrderIs
<1>. DEFINE gone == [i \in 1 .. n |-> Deleted(order[i])]
<1>4. events' = <<>> \o gone
  BY <1>1, <1>3 DEF Calm, Deleted
<1>5. \A i \in 1 .. n : gone[i] = Deleted(order[i])
  OBVIOUS
<1>6. gone \in [1 .. n -> Event]
  BY <1>2, <1>3 DEF Deleted, Event
<1>7. DOMAIN gone = 1 .. n
  OBVIOUS
<1>. HIDE DEF gone
<1>8. events' = gone
  <2>1. gone \in Seq(Event)
    BY <1>6, SeqDef
  <2>. QED  BY <1>4, <2>1, ConcatEmptySeq
<1>9. \A f, g : Deleted(f) = Deleted(g) => f = g
  BY DEF Deleted
<1>10. \A f, g : Written(f) # Deleted(g)
  BY DEF Written, Deleted
<1>11. IsInjective(gone)
  BY <1>3, <1>5, <1>7, <1>9 DEF IsInjective
<1>12. \A p \in File : Written(p) \notin ToSet(gone)
  BY <1>5, <1>7, <1>10 DEF ToSet
<1>13. ASSUME NEW p \in File, Deleted(p) \in ToSet(gone) PROVE paths'[p] >= 1
  <2>1. PICK i \in 1 .. n : Deleted(p) = gone[i]
    BY <1>7, <1>13 DEF ToSet
  <2>2. p \in files
    BY <1>3, <1>5, <1>9, <2>1
  <2>3. paths'[p] = paths[p] + 1 /\ paths[p] \in Nat
    BY <1>1, <2>2 DEF TypeInv, QueueType
  <2>. QED  BY <2>3
<1>. QED  BY <1>8, <1>11, <1>12, <1>13 DEF Covered, Expected, Seen

\* A name is read: the file is expected, and empty until its content comes.
LEMMA FromName ==
  ASSUME TypeInv, StartInv, Calm, ~Started, Starting, ReceiveName
  PROVE  (~Started' /\ Starting') \/ (Started' /\ "fetcher" \notin stale' /\ Running')
<1>1. /\ user.at = "sync" /\ Waits /\ link = "up" /\ stale = {} /\ NoneTold
      /\ toServer = <<>> /\ uploads = <<>> /\ watcher = Idle
  BY DEF ReceiveName, At, StartInv, Starting, Reads, Waits
<1>2. PICK packet :
        /\ Reads(packet)
        /\ IF packet.type = "name"
           THEN /\ paths' = [paths EXCEPT ![packet.name] = @ + 1]
                /\ local' = [local EXCEPT ![packet.name] = Empty]
                /\ user' = [at |-> "sync_file", op |-> IF packet.last THEN "last" ELSE "sync",
                            name |-> packet.name]
           ELSE Goes("menu") /\ UNCHANGED <<paths, local>>
  BY DEF ReceiveName
<1>3. /\ UNCHANGED <<watched, events, watcher, fetcher, alive, link,
                     toServer, uploads, fetch, server, wanted, muted>>
      /\ UNCHANGED <<session, served, backup>>
  BY DEF ReceiveName, server
<1>4. /\ replies \in Seq(Packet) /\ replies # <<>> /\ packet = Head(replies)
      /\ replies' = Tail(replies) /\ stale' = stale
  BY <1>1, <1>2 DEF Reads, TypeInv, QueueType
<1>5. /\ Directory(replies) /\ Covered /\ muted = {} /\ served = wanted /\ backup = wanted
      /\ \A p \in Coming(replies) : ~Seen(Written(p))
      /\ \A p \in File \ Coming(replies) : local[p] = served[p]
  BY <1>1 DEF Starting
<1>6. CASE replies = <<Err>>
  <2>1. Coming(replies) = {}
    BY <1>6 DEF Coming, IsName, Err
  <2>2. packet.type # "name"
    BY <1>4, <1>6 DEF Err
  <2>3. user'.at = "menu" /\ UNCHANGED <<paths, local>>
    BY <1>2, <2>2 DEF Goes, TypeInv, UserType
  <2>4. Draining'
    BY <1>1, <1>3, <1>5, <2>1, <2>3 DEF Draining, NoneSent, NoneTold, Covered, Waits, Copies
  <2>. QED  BY <1>1, <1>3, <1>4, <2>3, <2>4 DEF Started, Running
<1>7. CASE replies # <<Err>>
  <2>1. Turns(replies) /\ Len(replies) % 2 = 0
    BY <1>1, <1>7 DEF StartInv, Waits
  <2>2. packet.type = "name"
    <3>1. PICK n \in Nat : n = Len(replies) /\ n >= 1 /\ Head(replies) = replies[1]
      BY <1>4, Reading
    <3>2. 1 \in 1 .. n /\ (n - 1) % 2 # 0
      BY <2>1, <3>1
    <3>. QED  BY <1>4, <2>1, <3>1, <3>2 DEF Turns
  <2>3. PICK p : p = packet.name
    OBVIOUS
  <2>4. /\ Directory(replies') /\ p \in Coming(replies) /\ Coming(replies') = Coming(replies) \ {p}
        /\ Head(replies') = Data(served[p])
    BY <1>4, <1>5, <2>2, <2>3, ComingTail
  <2>5. p \in File
    BY <2>4 DEF Coming
  <2>6. /\ paths' = [paths EXCEPT ![p] = @ + 1] /\ local' = [local EXCEPT ![p] = Empty]
        /\ user'.at = "sync_file" /\ user'.name = p
    BY <1>2, <2>2, <2>3
  <2>7. paths \in [File -> Nat] /\ local \in Disk
    BY DEF TypeInv, QueueType, DiskType
  <2>8. Covered'
    BY <1>3, <1>5, <2>5, <2>6, <2>7, ExpectedMore DEF Covered
  <2>9. Opened(p)'
    <3>1. paths'[p] = paths[p] + 1 /\ paths[p] \in Nat
      BY <2>5, <2>6, <2>7
    <3>2. Seen(Deleted(p)) => paths[p] >= 1
      BY <1>5, <2>5 DEF Covered, Expected, Seen
    <3>3. paths'[p] >= 1 /\ (Seen(Deleted(p)) => paths'[p] >= 2)
      BY <3>1, <3>2
    <3>. QED  BY <1>3, <1>5, <2>4, <3>3 DEF Opened, Seen
  <2>10. ASSUME NEW q \in File, q \notin Coming(replies'), q # p PROVE local'[q] = served[q]
    <3>1. q \notin Coming(replies)
      BY <2>4, <2>10
    <3>. QED  BY <1>5, <2>6, <2>7, <2>10, <3>1 DEF Disk
  <2>11. \A q \in Coming(replies') : ~Seen(Written(q))
    BY <1>5, <2>4
  <2>12. Starting'
    BY <1>1, <1>3, <1>5, <2>4, <2>6, <2>8, <2>9, <2>10, <2>11
    DEF Starting, NoneTold, Waits, Directory, Seen
  <2>. QED  BY <2>6, <2>12 DEF Started
<1>. QED  BY <1>6, <1>7

\* Its content is read: the directory is complete after the last one.
LEMMA FromFile ==
  ASSUME TypeInv, StartInv, Calm, ~Started, Starting, ReceiveFile
  PROVE  (~Started' /\ Starting') \/ (Started' /\ "fetcher" \notin stale' /\ Running')
<1>1. /\ user.at = "sync_file" /\ Waits /\ link = "up" /\ stale = {} /\ NoneTold
      /\ toServer = <<>> /\ uploads = <<>> /\ watcher = Idle
  BY DEF ReceiveFile, At, StartInv, Starting, Waits
<1>2. PICK p \in File : p = user.name
  BY <1>1 DEF TypeInv, UserType
<1>3. /\ UNCHANGED <<watched, paths, watcher, fetcher, stale, alive, link,
                     toServer, uploads, fetch, server, wanted, muted>>
      /\ UNCHANGED <<session, served, backup>>
  BY DEF ReceiveFile, server
<1>4. /\ replies \in Seq(Packet) /\ replies # <<>> /\ replies' = Tail(replies)
      /\ Store(p, Head(replies).content)
      /\ Goes(IF user.op = "last" THEN "menu" ELSE "sync")
  BY <1>2 DEF ReceiveFile, TypeInv, QueueType
<1>5. /\ Directory(replies) /\ Covered /\ muted = {} /\ served = wanted /\ backup = wanted
      /\ Opened(p)
      /\ \A q \in Coming(replies) : ~Seen(Written(q))
      /\ \A q \in File \ Coming(replies) : q = p \/ local[q] = served[q]
  BY <1>1, <1>2 DEF Starting
<1>6. Head(replies) = Data(served[p]) /\ p \notin Coming(replies)
  BY <1>5 DEF Opened
<1>7. Directory(replies') /\ Coming(replies') = Coming(replies)
  BY <1>4, <1>5, <1>6, ComingTail DEF Data
<1>8. local' = [local EXCEPT ![p] = served[p]]
  <2>1. Data(served[p]).content = served[p]
    BY DEF Data
  <2>. QED  BY <1>4, <1>6, <2>1 DEF Store
<1>9. ASSUME NEW q \in File, q \notin Coming(replies') PROVE local'[q] = served[q]
  BY <1>5, <1>7, <1>8, <1>9 DEF TypeInv, DiskType, Disk
<1>10. events' \in {Append(events, Written(p)), events} /\ events \in Seq(Event)
  BY <1>4 DEF Store, Notify, Calm, Written, TypeInv, QueueType
<1>11. Covered'
  <2>1. /\ Expected(events, paths) /\ Written(p) \notin ToSet(events) /\ paths[p] >= 1
        /\ Deleted(p) \in ToSet(events) => paths[p] >= 2
    BY <1>5 DEF Covered, Opened, Seen
  <2>2. Expected(Append(events, Written(p)), paths)
    BY <1>10, <2>1, ExpectedAppend
  <2>. QED  BY <1>3, <1>10, <2>1, <2>2 DEF Covered
<1>12. ASSUME NEW q \in Coming(replies') PROVE ~Seen(Written(q))'
  <2>1. q # p /\ Written(q) \notin ToSet(events)
    BY <1>5, <1>6, <1>7, <1>12 DEF Seen
  <2>2. Written(p) \in Event /\ Written(q) # Written(p)
    BY <2>1 DEF Written, Event
  <2>3. ToSet(Append(events, Written(p))) = ToSet(events) \cup {Written(p)}
    BY <1>10, <2>2, AppendIs
  <2>4. Written(q) \notin ToSet(events')
    <3>1. Written(q) \notin ToSet(Append(events, Written(p)))
      BY <2>1, <2>2, <2>3
    <3>2. PICK e : e = events'
      OBVIOUS
    <3>3. e = Append(events, Written(p)) \/ e = events
      BY <1>10, <3>2
    <3>4. Written(q) \notin ToSet(e)
      BY <2>1, <3>1, <3>3
    <3>. QED  BY <3>2, <3>4
  <2>5. Written(q)' = Written(q)
    BY DEF Written
  <2>. QED  BY <2>4, <2>5 DEF Seen
<1>13. CASE user.op = "last"
  <2>1. user'.at = "menu"
    BY <1>4, <1>13 DEF Goes, TypeInv, UserType
  <2>2. Coming(replies') = {}
    <3>1. Len(replies') = 0
      BY <1>1, <1>4, <1>13, Reading DEF StartInv
    <3>. QED  BY <3>1 DEF Coming
  <2>3. \A q \in File : local'[q] = served[q]
    BY <1>9, <2>2
  <2>4. Draining'
    BY <1>1, <1>3, <1>5, <1>11, <2>1, <2>3 DEF Draining, NoneSent, NoneTold, Waits
  <2>. QED  BY <1>1, <1>3, <2>1, <2>4 DEF Started, Running
<1>14. CASE user.op # "last"
  <2>1. user'.at = "sync"
    BY <1>4, <1>14 DEF Goes, TypeInv, UserType
  <2>2. Starting'
    BY <1>1, <1>3, <1>5, <1>7, <1>9, <1>11, <1>12, <2>1
    DEF Starting, NoneTold, Waits, Directory
  <2>. QED  BY <2>1, <2>2 DEF Started
<1>. QED  BY <1>13, <1>14

\* Until the device has its directory only start_communications goes on.
LEMMA AtStart ==
  ASSUME TypeInv, StartInv, Calm, Calm', ~Started, Starting, Next
  PROVE  (~Started' /\ Starting') \/ (Started' /\ "fetcher" \notin stale' /\ Running')
<1>1. /\ session.at \in {"hello", "idle"} /\ link = "up" /\ toServer = <<>> /\ watcher = Idle
      /\ fetcher = Idle /\ stale = {}
      /\ session.at = "hello" => replies = <<>>
      /\ user.at \in {"erase", "sync", "sync_file"}
      /\ user.at = "erase" => session.at = "hello"
  BY DEF StartInv, Started
<1>2. ASSUME NEW p \in File PROVE ~Save(p) /\ ~Delete(p) /\ ~Menu(p) /\ ~Peer(p)
  BY ActsWhenQuiet DEF Save, Delete, Menu, Command, LocalCommand, Peer, Quiet
<1>3. ~Watch /\ ~Fetch /\ ~Die /\ ~Accept
  BY <1>1 DEF Watch, WatchEcho, WatchUpload, WatchSendFile, WatchDelete, Watching, Fetch, FetchDelete,
              FetchOpen, FetchClose, FetchError, Fetching, Die, Accept, CloseSockets, SetSockets
<1>4. ASSUME EraseDir PROVE ~Started' /\ Starting'
  <2>1. user.at = "erase" /\ session.at = "hello" /\ events = <<>>
    BY <1>1, <1>4 DEF EraseDir, At, Starting
  <2>2. Covered' /\ \A p \in File : ~Seen(Written(p))'
    BY <1>4, <2>1, EraseCovers
  <2>3. /\ user'.at = "sync" /\ \A p \in File : local'[p] = Gone
        /\ UNCHANGED <<fetch, fetcher, session, served, backup, wanted, muted>>
    BY <1>4 DEF EraseDir, Goes, server, TypeInv, UserType
  <2>. QED  BY <2>1, <2>2, <2>3 DEF Starting, NoneTold, Waits, Started
<1>5. ASSUME Session PROVE ~Started' /\ Starting'
  <2>1. SendSyncDir
    BY <1>1, <1>5 DEF Session, ReceiveUpload, PropagateToDevices, PropagateToBackups, TakeUpload,
                      TakeDelete, TakeDownload, TakeList, Takes, Serves
  <2>2. session.at = "hello" /\ user.at = "sync" /\ replies = <<>>
    BY <1>1, <2>1 DEF SendSyncDir, Serves, StartInv
  <2>3. /\ session'.at = "idle" /\ UNCHANGED client
        /\ UNCHANGED <<fetch, served, backup, wanted, muted>>
    BY <2>1 DEF SendSyncDir, Continue, TypeInv, SessionType
  <2>4. Directory(replies') /\ Coming(replies') = {p \in File : served[p] # Gone}
    BY <2>1, <2>2, DirectorySent
  <2>5. \A p \in File : local[p] = Gone /\ ~Seen(Written(p))
    BY <2>2 DEF Starting
  <2>. QED
    BY <2>2, <2>3, <2>4, <2>5 DEF Starting, NoneTold, Covered, Waits, Started, client, Directory, Seen
<1>6. CASE CommandThread
  <2>1. EraseDir \/ ReceiveName \/ ReceiveFile
    BY <1>1, <1>6 DEF CommandThread, SendUpload, ReceiveDownload, ReceiveInfo, GetResponse, At
  <2>. QED  BY <1>4, <2>1, FromName, FromFile
<1>. QED  BY <1>2, <1>3, <1>5, <1>6 DEF Next

-----------------------------------------------------------------------------
(* The stages follow each other.                                           *)

\* The program starts before the first of them.
LEMMA StageInit == Init => StageInv
<1>. SUFFICES ASSUME Init PROVE StageInv
  OBVIOUS
<1>1. ~Started /\ Starting
  BY ExpectedNone DEF Init, Started, Starting, NoneTold, Covered, Waits
<1>. QED  BY <1>1 DEF StageInv

\* And every step leads from one to the next, or to none.
LEMMA StageStep ==
  ASSUME TypeInv, StartInv, StageInv, [Next]_vars
  PROVE  StageInv'
<1>. SUFFICES ASSUME Calm' PROVE (~Started /\ Starting)' \/ (Started /\ "fetcher" \notin stale /\ Running)'
  BY DEF StageInv
<1>1. Calm
  BY CalmBefore
<1>2. CASE ~Started /\ Starting
  <2>1. CASE Next
    BY <1>1, <1>2, <2>1, AtStart
  <2>2. CASE UNCHANGED vars
    BY <1>2, <2>2 DEF vars, client, server, Started, Starting, NoneTold, Covered, Waits, Directory, Seen,
                      Opened
  <2>. QED  BY <2>1, <2>2
<1>3. CASE Started /\ "fetcher" \notin stale /\ Running
  <2>1. CASE Next
    BY <1>1, <1>3, <2>1, RunningStep
  <2>2. CASE UNCHANGED vars
    <3>1. UNCHANGED <<user, stale>> /\ Started'
      BY <1>3, <2>2 DEF vars, client, Started
    <3>2. Running'
      <4>1. CASE user.at # "file"
        <5>1. Aside
          BY <2>2, <3>1, <4>1 DEF vars, client, server, Aside
        <5>. QED  BY <1>3, <4>1, <5>1, AsideKeeps
      <4>2. CASE user.at = "file"
        BY <1>3, <2>2, <4>2
        DEF vars, client, server, Running, Lost, Draining, NoneSent, NoneTold, Handled, Others, Agree,
            Changed, Uploading, Deleting, Asking, Telling, Told, Removed, Waits
      <4>. QED  BY <4>1, <4>2
    <3>. QED  BY <1>3, <3>1, <3>2
  <2>. QED  BY <2>1, <2>2
<1>. QED  BY <1>1, <1>2, <1>3 DEF StageInv

\* Users who wait until all is quiet find on the device, the main server and the
\* backups what they made of each file, except one that was changed while an
\* expected change of it never came: check_dir_updates, await_sync and the
\* session lose no change of theirs, and undo none, in any number of changes of
\* any files and after any number of fail-overs.
THEOREM DirectoryAgreesAlways == Spec => []DirectoryAgrees
<1>1. Init => TypeInv /\ StartInv /\ StageInv
  BY TypeInit, StartInit, StageInit
<1>2. TypeInv /\ StartInv /\ StageInv /\ [Next]_vars => TypeInv' /\ StartInv' /\ StageInv'
  BY TypeStep, StartStep, StageStep
<1>3. StageInv => DirectoryAgrees
  BY QuietAgrees DEF StageInv, DirectoryAgrees, Calm, Quiet
<1>. QED  BY <1>1, <1>2, <1>3, PTL DEF Spec

=============================================================================
