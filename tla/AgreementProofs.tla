-------------------------- MODULE AgreementProofs --------------------------
(***************************************************************************)
(* The devices and the backup servers end with the main server's files,    *)
(* whatever is still under way to them.                                    *)
(*                                                                         *)
(* What a reader will be once it has read all that is in its socket can    *)
(* be told when each packet is written, as long as the packet is the one   *)
(* it will be waiting for then.  The invariants relate what the main       *)
(* server holds and has yet to send to what the readers will be; the       *)
(* readers' own steps bring them closer to it and change nothing else.     *)
(***************************************************************************)
EXTENDS ReplicationProofs

-----------------------------------------------------------------------------
(* What a reader will be.                                                  *)

\* What a reader is: its files, the loop it is in, the file it receives and
\* how much it has of it, and its server list.
State == [files : [File -> Content \cup {Gone}],
          mode  : {"servers", "clients", "sync_dir", "sync", "down"},
          into  : File \cup {Stray, Gone},
          got   : 0 .. 2^Width - 1,
          peers : Seq(Backup)]

View(r) == [files |-> disk[r], mode |-> mode[r], into |-> into[r], got |-> got[r],
            peers |-> IF r \in Backup THEN peers[r] ELSE <<>>]

\* A reader at s that reads k becomes e: the packets a reader waits for.
ReadsList(s, k, e) ==
  /\ s.mode = "servers" /\ s.into = Gone /\ k.type = "server"
  /\ e = [files |-> s.files, mode |-> "clients", into |-> Gone, got |-> s.got, peers |-> k.payload]

ReadsEot(s, k, e) ==
  /\ s.mode = "clients" /\ s.into = Gone /\ k.type = "eot"
  /\ e = [files |-> s.files, mode |-> "sync_dir", into |-> Gone, got |-> s.got, peers |-> s.peers]

ReadsNone(s, k, e) ==
  /\ s.mode = "sync_dir" /\ s.into = Gone /\ "last" \notin DOMAIN k
  /\ e = [files |-> s.files, mode |-> "sync", into |-> Gone, got |-> s.got, peers |-> s.peers]

ReadsName(s, k, e, m) ==
  /\ s.into = Gone /\ k.type = "data" /\ k.payload \in File
  /\ \/ s.mode = "sync_dir" /\ "last" \in DOMAIN k /\ m = IF k.last THEN "sync" ELSE "sync_dir"
     \/ s.mode = "sync" /\ m = "sync"
  /\ e = [files |-> [s.files EXCEPT ![k.payload] = <<>>], mode |-> m, into |-> k.payload,
          got |-> 0, peers |-> s.peers]

ReadsPart(s, k, e) ==
  /\ s.mode \in {"sync_dir", "sync"} /\ s.into \in File
  /\ k.type = "data" /\ k.payload \in Version /\ s.got + 1 <= 2^Width - 1
  /\ e = [files |-> [s.files EXCEPT ![s.into] = Append(@, k.payload)], mode |-> s.mode,
          into |-> IF s.got + 1 = k.total THEN Gone ELSE s.into,
          got |-> s.got + 1, peers |-> s.peers]

ReadsDelete(s, k, e) ==
  /\ s.mode = "sync" /\ s.into = Gone /\ k.type = "cmd"
  /\ e = [files |-> [s.files EXCEPT ![k.payload] = Gone], mode |-> "sync", into |-> Gone,
          got |-> s.got, peers |-> s.peers]

ReadsServer(s, k, e) ==
  /\ s.mode = "sync" /\ s.into = Gone /\ k.type = "server" /\ Head(k.payload) \notin ToSet(s.peers)
  /\ e = [files |-> s.files, mode |-> "sync", into |-> Gone, got |-> s.got,
          peers |-> Append(s.peers, Head(k.payload))]

ReadsBeat(s, k, e) == s.mode = "sync" /\ s.into = Gone /\ k.type = "beat" /\ e = s

Reads(r, s, k, e) ==
  \/ r \in Backup /\ (ReadsList(s, k, e) \/ ReadsServer(s, k, e))
  \/ ReadsEot(s, k, e) \/ ReadsNone(s, k, e) \/ ReadsPart(s, k, e)
  \/ ReadsDelete(s, k, e) \/ ReadsBeat(s, k, e)
  \/ \E m \in {"sync_dir", "sync"} : ReadsName(s, k, e, m)

\* r is at e once it has read all that is under way to it.
Leads(r, e, through) ==
  /\ through[1] = View(r) /\ through[Len(chan[r]) + 1] = e
  /\ \A i \in 1 .. Len(chan[r]) : Reads(r, through[i], chan[r][i], through[i+1])

WillBe(r, e) == \E through \in [1 .. Len(chan[r]) + 1 -> State] : Leads(r, e, through)

Follows(R, v) == v \in [R -> State] /\ \A r \in R : WillBe(r, v[r])

-----------------------------------------------------------------------------
(* What a session has done.                                                *)

\* s is n fragments into receiving the file p with content c.
Midway(s, p, c, n) ==
  /\ s.into = p /\ s.got = n /\ n \in 0 .. Len(c) - 1
  /\ s.files[p] \in Seq(Version) /\ Len(s.files[p]) = n
  /\ \A i \in 1 .. n : s.files[p][i] = c[i]

\* q is the last packets of a content c, for r.
LastOf(q, r, c) ==
  /\ Len(q) <= Len(c)
  /\ \A i \in 1 .. Len(q) : q[i] = [to |-> r, packet |-> Part(c[Len(c) - Len(q) + i], Len(c))]

\* What t has yet to write is the end of a content c, for r.
Remains(t, r, c) == c \in Seq(Version) /\ Len(c) <= 2^Width - 1 /\ LastOf(out[t], r, c)

\* d goes through the sockets q with its change: it has served those before
\* the k-th, and the k-th but for what it has yet to write.
Served(d, q) == Len(q) - Len(plan[d])

Serving(d, q, v) ==
  LET k == Served(d, q)
      p == job[d].path
      c == disk[Main][p]
  IN  /\ Len(plan[d]) <= Len(q)
      /\ \A i \in 1 .. Len(plan[d]) : plan[d][i] = [to |-> q[k+i], packet |-> NameOf(d)]
      /\ out[d] # <<>> => k >= 1 /\ Remains(d, q[k], c)
      /\ \A i \in 1 .. Len(q) :
           IF i = k /\ out[d] # <<>> THEN Midway(v[q[i]], p, c, Len(c) - Len(out[d]))
           ELSE v[q[i]].into = Gone /\ (i <= k => v[q[i]].files[p] = c)

\* What sessions keep as long as no two of them overlap: the files are whole
\* but for the one being received, and there is one change at a time.
Whole(c) == c = Gone \/ Len(c) \in 1 .. 2^Width - 1

SessionInv ==
  /\ \A d, e \in Device : Busy(d) /\ Busy(e) => d = e
  /\ \A d \in Device : pc[d] # "orphan"
  /\ \A p \in File : \/ Whole(disk[Main][p])
                     \/ \E d \in Device : pc[d] = "receive" /\ job[d].path = p
  /\ \A d \in Device : pc[d] = "receive" =>
       /\ job[d].op = "upload" /\ disk[Main][job[d].path] = <<>>
       /\ Len(job[d].content) \in 1 .. 2^Width - 1
  /\ \A d \in Device : pc[d] \in {"devices", "backups"} =>
       (job[d].op = "delete" <=> disk[Main][job[d].path] = Gone)

\* The devices will have the main server's files, but for the file of a change
\* that is not through.
DevicesWill(v) ==
  /\ \A d \in Device : pc[d] = "devices" => Serving(d, DeviceSockets, v)
  /\ \A r \in Device : v[r].mode = "sync"
  /\ (\A d \in Device : pc[d] # "devices") => \A r \in Device : v[r].into = Gone
  /\ \A r \in Device, p \in File :
       \/ v[r].files[p] = disk[Main][p]
       \/ \E d \in Device : pc[d] \in {"receive", "devices"} /\ job[d].path = p

\* A backup has what the main server has of p, or p is a file of an earlier run.
Matches(b, s, p) ==
  \/ s.files[p] = disk[Main][p]
  \/ b \in Restarted /\ s.files[p] = <<Old>> /\ disk[Main][p] = Gone

\* Nothing has come of any file.
Untouched(b, s) ==
  /\ s.into = Gone
  /\ \A p \in File : s.files[p] = Gone \/ (b \in Restarted /\ s.files[p] = <<Old>>)

\* The name of a file in what a joiner has yet to send.
Next1(b, i) == plan[b][i].packet.payload

\* A file of which some fragments have yet to be written.
Receiving(b, s) ==
  /\ out[b] # <<>> /\ s.into \in File
  /\ Remains(b, b, disk[Main][s.into])
  /\ Midway(s, s.into, disk[Main][s.into], Len(disk[Main][s.into]) - Len(out[b]))

Filling(b, s) ==
  /\ \A i \in 1 .. Len(plan[b]) :
       /\ Next1(b, i) \in File /\ disk[Main][Next1(b, i)] # Gone
       /\ plan[b][i] = [to |-> b, packet |-> SyncName(Next1(b, i), i = Len(plan[b]))]
  /\ \A i, j \in 1 .. Len(plan[b]) : Next1(b, i) = Next1(b, j) => i = j
  /\ \/ /\ out[b] = <<>> /\ s.into = Gone
        /\ s.mode = IF plan[b] = <<>> THEN "sync" ELSE "sync_dir"
     \/ /\ out[b] = <<[to |-> b, packet |-> Err]>> /\ plan[b] = <<>> /\ s.into = Gone
        /\ s.mode = "sync_dir"
     \/ /\ Receiving(b, s)
        /\ \A i \in 1 .. Len(plan[b]) : Next1(b, i) # s.into
        /\ s.mode = IF plan[b] = <<>> THEN "sync" ELSE "sync_dir"
  /\ \A p \in File : Matches(b, s, p) \/ p = s.into \/ \E i \in 1 .. Len(plan[b]) : Next1(b, i) = p

Joining(b, s) ==
  /\ pc[b] \in {"out", "list"} => s.mode = "servers" /\ Untouched(b, s)
  /\ pc[b] = "clients" => s.mode = "clients" /\ Untouched(b, s)
  /\ pc[b] = "files" => s.mode = "sync_dir" /\ Untouched(b, s)
  /\ pc[b] = "backups" => Filling(b, s)
  /\ pc[b] = "in" =>
       /\ s.mode = "sync"
       /\ (\A d \in Device : pc[d] # "backups") => s.into = Gone
       /\ \A p \in File : \/ Matches(b, s, p)
                          \/ \E d \in Device : pc[d] \in {"receive", "devices", "backups"} /\ job[d].path = p
  /\ pc[b] \notin {"out", "list"} => s.peers = list

\* One thread at a time; the server list has each server that has begun to
\* join, once; and each will have what it should at that point.
BackupsWill(v) ==
  /\ \A s, t \in Thread : Busy(s) /\ Busy(t) => s = t
  /\ \A i, j \in 1 .. Len(list) : list[i] = list[j] => i = j
  /\ \A b \in Backup : b \in ToSet(list) <=> pc[b] # "out"
  /\ \A d \in Device : pc[d] = "backups" => Serving(d, list, v)
  /\ \A b \in Backup : Joining(b, v[b])

-----------------------------------------------------------------------------
(* A reader's step takes it where its packet leads.                        *)

\* What a reader is, is one of its states.
LEMMA ViewIs ==
  ASSUME TypeInv, NEW r \in Reader
  PROVE  View(r) \in State
BY EmptySeq DEF View, State, TypeInv

\* A reader's step leaves the others and their sockets alone.
LEMMA ReadOthers ==
  ASSUME TypeInv, NEW r \in Reader, Receive(r)
  PROVE  /\ chan[r] # <<>> /\ chan' = [chan EXCEPT ![r] = Tail(@)]
         /\ \A q \in Reader \ {r} : View(q)' = View(q)
<1>0. Main \notin Reader
  BY ReplicationAssumption DEF Reader
<1>1. chan[r] # <<>> /\ chan' = [chan EXCEPT ![r] = Tail(@)]
  BY DEF Receive, ReceiveServerList, ReceiveClientList, ReceiveSyncDir, ReceivePart,
         SyncFile, SyncFragment, SyncDelete, SyncServer, SyncNothing, Sync, Packets, Take
<1>2. \A q \in Reader \ {r} :
        /\ disk'[q] = disk[q] /\ mode'[q] = mode[q] /\ into'[q] = into[q]
        /\ got'[q] = got[q] /\ (q \in Backup => peers'[q] = peers[q])
  <2>1. CASE ReceiveServerList(r) \/ ReceiveClientList(r)
    BY <1>0, <2>1 DEF ReceiveServerList, ReceiveClientList, TypeInv
  <2>2. CASE ReceiveSyncDir(r)
    BY <1>0, <2>2 DEF ReceiveSyncDir, Open, TypeInv
  <2>3. CASE ReceivePart(r)
    BY <1>0, <2>3 DEF ReceivePart, TypeInv
  <2>4. CASE SyncFile(r) \/ SyncFragment(r)
    BY <1>0, <2>4 DEF SyncFile, SyncFragment, Open, TypeInv
  <2>5. CASE SyncDelete(r) \/ SyncServer(r) \/ SyncNothing(r)
    BY <1>0, <2>5 DEF SyncDelete, SyncServer, SyncNothing, readers, TypeInv
  <2>. QED  BY <2>1, <2>2, <2>3, <2>4, <2>5 DEF Receive
<1>. QED  BY <1>1, <1>2 DEF View

\* The reader's own step is the function Reads of what it is.
LEMMA ReadSelf ==
  ASSUME TypeInv, NEW r \in Reader, Receive(r), NEW e \in State,
         Reads(r, View(r), Head(chan[r]), e)
  PROVE  View(r)' = e
<1>. DEFINE s == View(r)
            k == Head(chan[r])
<1>1. /\ s.files = disk[r] /\ s.mode = mode[r] /\ s.into = into[r] /\ s.got = got[r]
      /\ r \in Backup => s.peers = peers[r]
      /\ r \notin Backup => s.peers = <<>>
  BY DEF View
<1>2. /\ View(r)' = [files |-> disk'[r], mode |-> mode'[r], into |-> into'[r], got |-> got'[r],
                     peers |-> IF r \in Backup THEN peers'[r] ELSE <<>>]
      /\ Packet1(r) = k
  BY DEF View, Packet1
<1>3. Main \notin Reader /\ Gone \notin File /\ Stray \notin File /\ File \cap Version = {}
  BY ReplicationAssumption DEF Reader
<1>. HIDE DEF s, k
<1>4. CASE r \in Backup /\ ReadsList(s, k, e)
  <2>1. ReceiveServerList(r)
    BY <1>1, <1>4 DEF ReadsList, Receive, ReceiveClientList, ReceiveSyncDir, ReceivePart,
       SyncFile, SyncFragment, SyncDelete, SyncServer, SyncNothing, Sync
  <2>. QED  BY <1>1, <1>2, <1>4, <2>1 DEF ReadsList, ReceiveServerList, TypeInv
<1>5. CASE r \in Backup /\ ReadsServer(s, k, e)
  <2>1. SyncServer(r)
    BY <1>1, <1>2, <1>5 DEF ReadsServer, Receive, ReceiveServerList, ReceiveClientList, ReceiveSyncDir,
       ReceivePart, SyncFile, SyncFragment, SyncDelete, SyncNothing, Sync
  <2>. QED  BY <1>1, <1>2, <1>5, <2>1 DEF ReadsServer, SyncServer, TypeInv
<1>6. CASE ReadsEot(s, k, e)
  <2>1. ReceiveClientList(r)
    BY <1>1, <1>6 DEF ReadsEot, Receive, ReceiveServerList, ReceiveSyncDir, ReceivePart,
       SyncFile, SyncFragment, SyncDelete, SyncServer, SyncNothing, Sync
  <2>. QED  BY <1>1, <1>2, <1>6, <2>1 DEF ReadsEot, ReceiveClientList, TypeInv
<1>7. CASE ReadsNone(s, k, e)
  <2>1. ReceiveSyncDir(r)
    BY <1>1, <1>7 DEF ReadsNone, Receive, ReceiveServerList, ReceiveClientList, ReceivePart,
       SyncFile, SyncFragment, SyncDelete, SyncServer, SyncNothing, Sync
  <2>. QED  BY <1>1, <1>2, <1>7, <2>1 DEF ReadsNone, ReceiveSyncDir, TypeInv
<1>8. CASE ReadsPart(s, k, e)
  <2>1. ReceivePart(r)
    BY <1>1, <1>3, <1>8 DEF ReadsPart, Receive, ReceiveServerList, ReceiveClientList, ReceiveSyncDir,
       SyncFile, SyncFragment, SyncDelete, SyncServer, SyncNothing, Sync
  <2>2. Count(got[r]) = got[r] + 1
    BY <1>1, <1>8, CountIs DEF ReadsPart, TypeInv
  <2>3. /\ disk'[r] = [disk[r] EXCEPT ![into[r]] = Append(@, k.payload)]
        /\ got'[r] = got[r] + 1
        /\ into'[r] = IF got[r] + 1 = k.total THEN Gone ELSE into[r]
        /\ mode'[r] = mode[r] /\ peers' = peers
    BY <1>1, <1>2, <1>3, <1>8, <2>1, <2>2 DEF ReadsPart, ReceivePart, TypeInv
  <2>. QED  BY <1>1, <1>2, <1>8, <2>3, ZenonT(60) DEF ReadsPart
<1>9. CASE ReadsDelete(s, k, e)
  <2>1. SyncDelete(r)
    BY <1>1, <1>2, <1>9 DEF ReadsDelete, Receive, ReceiveServerList, ReceiveClientList, ReceiveSyncDir,
       ReceivePart, SyncFile, SyncFragment, SyncServer, SyncNothing, Sync
  <2>. QED  BY <1>1, <1>2, <1>3, <1>9, <2>1 DEF ReadsDelete, SyncDelete, TypeInv
<1>10. CASE ReadsBeat(s, k, e)
  <2>1. SyncNothing(r)
    BY <1>1, <1>2, <1>10 DEF ReadsBeat, Receive, ReceiveServerList, ReceiveClientList, ReceiveSyncDir,
       ReceivePart, SyncFile, SyncFragment, SyncDelete, SyncServer, Sync
  <2>. QED  BY <1>10, <2>1 DEF ReadsBeat, SyncNothing, readers, View, s
<1>11. ASSUME NEW m \in {"sync_dir", "sync"}, ReadsName(s, k, e, m) PROVE View(r)' = e
  <2>1. ReceiveSyncDir(r) \/ SyncFile(r)
    BY <1>1, <1>2, <1>11 DEF ReadsName, Receive, ReceiveServerList, ReceiveClientList,
       ReceivePart, SyncFragment, SyncDelete, SyncServer, SyncNothing, Sync
  <2>2. k.payload \in File
    BY <1>11 DEF ReadsName
  <2>3. Open(r, k.payload) /\ mode'[r] = m /\ peers' = peers
    <3>1. CASE ReceiveSyncDir(r)
      BY <1>1, <1>2, <1>11, <3>1 DEF ReadsName, ReceiveSyncDir, TypeInv
    <3>2. CASE SyncFile(r)
      BY <1>1, <1>2, <1>11, <3>2 DEF ReadsName, SyncFile, Sync, TypeInv
    <3>. QED  BY <2>1, <3>1, <3>2
  <2>4. /\ disk'[r] = [disk[r] EXCEPT ![k.payload] = <<>>]
        /\ into'[r] = k.payload /\ got'[r] = 0
    <3>1. /\ disk'[r] = [disk[r] EXCEPT ![k.payload] = <<>>]
          /\ into' = [into EXCEPT ![r] = k.payload] /\ got' = [got EXCEPT ![r] = 0]
      BY <2>2, <2>3, Opened
    <3>. QED  BY <3>1 DEF TypeInv
  <2>. QED  BY <1>1, <1>2, <1>11, <2>3, <2>4 DEF ReadsName
<1>. QED
  BY <1>4, <1>5, <1>6, <1>7, <1>8, <1>9, <1>10, <1>11 DEF Reads, s, k

\* So what it will be stays what it was.
LEMMA FollowRead ==
  ASSUME TypeInv, NEW R \in SUBSET Reader, NEW v, Follows(R, v),
         NEW r \in Reader, Receive(r)
  PROVE  Follows(R, v)'
<1>1. /\ chan[r] # <<>> /\ chan' = [chan EXCEPT ![r] = Tail(@)]
      /\ \A q \in Reader \ {r} : View(q)' = View(q)
  BY ReadOthers
<1>2. ASSUME NEW q \in R \ {r} PROVE WillBe(q, v[q])'
  <2>1. PICK through \in [1 .. Len(chan[q]) + 1 -> State] : Leads(q, v[q], through)
    BY <1>2 DEF Follows, WillBe
  <2>2. chan'[q] = chan[q] /\ View(q)' = View(q)
    BY <1>1, <1>2 DEF TypeInv
  <2>3. Leads(q, v[q], through)'
    BY <2>1, <2>2 DEF Leads
  <2>. QED  BY <2>2, <2>3 DEF WillBe
<1>3. ASSUME r \in R PROVE WillBe(r, v[r])'
  <2>1. PICK through \in [1 .. Len(chan[r]) + 1 -> State] : Leads(r, v[r], through)
    BY <1>3 DEF Follows, WillBe
  <2>2. chan[r] \in Seq(Wire)
    BY DEF TypeInv
  <2>3. /\ Head(chan[r]) = chan[r][1] /\ Len(chan[r]) \in Nat /\ Len(chan[r]) >= 1
        /\ Len(Tail(chan[r])) = Len(chan[r]) - 1
        /\ \A i \in 1 .. Len(chan[r]) - 1 : Tail(chan[r])[i] = chan[r][i+1]
    BY <1>1, <2>2, FirstOf
  <2>4. chan'[r] = Tail(chan[r])
    BY <1>1 DEF TypeInv
  <2>5. View(r)' = through[2]
    <3>1. through[2] \in State /\ Reads(r, View(r), Head(chan[r]), through[2])
      BY <2>1, <2>3 DEF Leads
    <3>. QED  BY <3>1, ReadSelf
  <2>0. PICK rest : rest = [i \in 1 .. Len(chan[r]) |-> through[i+1]]
    OBVIOUS
  <2>6. Len(chan'[r]) + 1 = Len(chan[r])
    BY <2>3, <2>4
  <2>7. rest \in [1 .. Len(chan'[r]) + 1 -> State]
    BY <2>0, <2>3, <2>6
  <2>8. Leads(r, v[r], rest)'
    <3>1. rest[1] = View(r)' /\ rest[Len(chan[r])] = v[r]
      BY <2>0, <2>1, <2>3, <2>5 DEF Leads
    <3>2. \A i \in 1 .. Len(chan'[r]) : Reads(r, rest[i], chan'[r][i], rest[i+1])
      <4>. TAKE i \in 1 .. Len(chan'[r])
      <4>1. i \in 1 .. Len(chan[r]) - 1 /\ i + 1 \in 1 .. Len(chan[r])
        BY <2>3, <2>6
      <4>2. Reads(r, through[i+1], chan[r][i+1], through[(i+1)+1])
        BY <2>1, <4>1 DEF Leads
      <4>3. rest[i] = through[i+1] /\ rest[i+1] = through[(i+1)+1] /\ chan'[r][i] = chan[r][i+1]
        BY <2>0, <2>3, <2>4, <4>1
      <4>. QED  BY <4>2, <4>3
    <3>. QED  BY <2>6, <3>1, <3>2 DEF Leads
  <2>. QED  BY <2>7, <2>8 DEF WillBe
<1>. QED  BY <1>2, <1>3 DEF Follows

\* A packet that a reader will be waiting for takes it one further.
LEMMA FollowSend ==
  ASSUME TypeInv, NEW R \in SUBSET Reader, NEW v, Follows(R, v), NEW w \in [R -> State],
         \A r \in R : View(r)' = View(r),
         \A r \in R : \/ chan'[r] = chan[r] /\ w[r] = v[r]
                      \/ \E k \in Wire : chan'[r] = Append(chan[r], k) /\ Reads(r, v[r], k, w[r])
  PROVE  Follows(R, w)'
<1>1. ASSUME NEW r \in R PROVE WillBe(r, w[r])'
  <2>1. PICK through \in [1 .. Len(chan[r]) + 1 -> State] : Leads(r, v[r], through)
    BY <1>1 DEF Follows, WillBe
  <2>2. View(r)' = View(r)
    BY <1>1
  <2>3. CASE chan'[r] = chan[r] /\ w[r] = v[r]
    <3>1. Leads(r, w[r], through)'
      BY <2>1, <2>2, <2>3 DEF Leads
    <3>. QED  BY <2>3, <3>1 DEF WillBe
  <2>4. ASSUME NEW k \in Wire, chan'[r] = Append(chan[r], k), Reads(r, v[r], k, w[r])
        PROVE  WillBe(r, w[r])'
    <3>0. PICK n : n = Len(chan[r])
      OBVIOUS
    <3>1. chan[r] \in Seq(Wire) /\ n \in Nat
      BY <3>0, LenProperties DEF TypeInv
    <3>. PICK more : more = [i \in 1 .. n + 2 |-> IF i = n + 2 THEN w[r] ELSE through[i]]
      OBVIOUS
    <3>2. /\ Len(chan'[r]) = n + 1 /\ chan'[r][n+1] = k
          /\ \A i \in 1 .. n : chan'[r][i] = chan[r][i]
      BY <2>4, <3>0, <3>1, AppendProperties
    <3>3. more \in [1 .. Len(chan'[r]) + 1 -> State]
      BY <2>1, <3>0, <3>1, <3>2
    <3>4. more[1] = View(r)' /\ more[n+2] = w[r]
      BY <2>1, <2>2, <3>0, <3>1 DEF Leads
    <3>5. \A i \in 1 .. n + 1 : Reads(r, more[i], chan'[r][i], more[i+1])
      <4>. TAKE i \in 1 .. n + 1
      <4>1. CASE i = n + 1
        <5>1. more[i] = v[r] /\ more[i+1] = w[r]
          BY <2>1, <3>0, <3>1, <4>1 DEF Leads
        <5>. QED  BY <2>4, <3>2, <4>1, <5>1
      <4>2. CASE i # n + 1
        <5>1. i \in 1 .. n /\ i \in 1 .. n + 2 /\ i + 1 \in 1 .. n + 2 /\ i # n + 2 /\ i + 1 # n + 2
          BY <3>1, <4>2
        <5>2. more[i] = through[i] /\ more[i+1] = through[i+1]
          BY <5>1
        <5>3. Reads(r, through[i], chan[r][i], through[i+1])
          BY <2>1, <3>0, <5>1 DEF Leads
        <5>. QED  BY <3>2, <5>1, <5>2, <5>3
      <4>. QED  BY <4>1, <4>2
    <3>6. Len(chan'[r]) + 1 = n + 2
      BY <3>1, <3>2
    <3>7. Leads(r, w[r], more)'
      BY <3>2, <3>4, <3>5, <3>6 DEF Leads
    <3>. QED  BY <3>3, <3>7 DEF WillBe
  <2>. QED  BY <2>3, <2>4
<1>. QED  BY <1>1 DEF Follows

\* With nothing under way, a reader is what it will be.
LEMMA Arrived ==
  ASSUME TypeInv, NEW R \in SUBSET Reader, NEW v, Follows(R, v), NEW r \in R, chan[r] = <<>>
  PROVE  v[r] = View(r)
<1>1. PICK through \in [1 .. Len(chan[r]) + 1 -> State] : Leads(r, v[r], through)
  BY DEF Follows, WillBe
<1>2. Len(chan[r]) = 0
  OBVIOUS
<1>. QED  BY <1>1, <1>2 DEF Leads

\* Nothing is under way at first.
LEMMA FollowInit ==
  ASSUME TypeInv, NEW R \in SUBSET Reader, \A r \in R : chan[r] = <<>>
  PROVE  Follows(R, [r \in R |-> View(r)])
<1>1. ASSUME NEW r \in R PROVE WillBe(r, View(r))
  <2>. DEFINE through == [i \in 1 .. 1 |-> View(r)]
  <2>1. Len(chan[r]) = 0 /\ View(r) \in State
    BY <1>1, ViewIs
  <2>2. through \in [1 .. Len(chan[r]) + 1 -> State]
    BY <2>1
  <2>3. Leads(r, View(r), through)
    BY <2>1 DEF Leads
  <2>. HIDE DEF through
  <2>. QED  BY <2>2, <2>3 DEF WillBe
<1>2. [r \in R |-> View(r)] \in [R -> State]
  BY ViewIs
<1>. QED  BY <1>1, <1>2 DEF Follows

-----------------------------------------------------------------------------
(* A file on its way.                                                      *)

\* All but file p is the same in s and e.
Beside(s, e, p) ==
  /\ e.mode = s.mode /\ e.peers = s.peers
  /\ \A f \in File \ {p} : e.files[f] = s.files[f]

\* The next fragment takes a reader one further, and the last to the end.
LEMMA PartRead ==
  ASSUME NEW s \in State, NEW p \in File, NEW c \in Seq(Version), Len(c) <= 2^Width - 1,
         NEW n, Midway(s, p, c, n), s.mode \in {"sync_dir", "sync"}
  PROVE  /\ n + 1 \in 1 .. Len(c) /\ Part(c[n+1], Len(c)) \in Wire
         /\ \E e \in State :
              /\ ReadsPart(s, Part(c[n+1], Len(c)), e) /\ Beside(s, e, p)
              /\ IF n + 1 = Len(c) THEN e.into = Gone /\ e.files[p] = c
                 ELSE Midway(e, p, c, n + 1)
<1>0. Len(c) \in Nat /\ 2^Width - 1 \in Nat
  BY LenProperties, ReplicationAssumption
<1>1. n \in Nat /\ n + 1 <= Len(c) /\ s.into = p /\ s.got = n
  BY <1>0 DEF Midway
<1>2. c[n+1] \in Version
  BY <1>0, <1>1, ElementOfSeq
<1>3. Part(c[n+1], Len(c)) \in Wire
  BY <1>0, <1>2, WireIs
<1>4. PICK h : h = Append(s.files[p], c[n+1])
  OBVIOUS
<1>5. /\ h \in Seq(Version) /\ Len(h) = n + 1
      /\ \A i \in 1 .. n + 1 : h[i] = c[i]
  <2>1. /\ s.files[p] \in Seq(Version) /\ Len(s.files[p]) = n
        /\ \A i \in 1 .. n : s.files[p][i] = c[i]
    BY DEF Midway
  <2>2. /\ h \in Seq(Version) /\ Len(h) = n + 1 /\ h[n+1] = c[n+1]
        /\ \A i \in 1 .. n : h[i] = s.files[p][i]
    BY <1>2, <1>4, <2>1, AppendProperties
  <2>. QED  BY <1>1, <2>1, <2>2
<1>6. n + 1 = Len(c) => h = c
  BY <1>5, SeqEqual
<1>7. h \in Content
  BY <1>5, Contents
<1>8. PICK e : e = [files |-> [s.files EXCEPT ![p] = h], mode |-> s.mode,
                    into |-> IF n + 1 = Len(c) THEN Gone ELSE p,
                    got |-> n + 1, peers |-> s.peers]
  OBVIOUS
<1>9. e \in State
  BY <1>0, <1>1, <1>7, <1>8 DEF State
<1>10. ReadsPart(s, Part(c[n+1], Len(c)), e)
  BY <1>0, <1>1, <1>2, <1>4, <1>8 DEF ReadsPart, Part
<1>11. /\ e.files[p] = h /\ e.mode = s.mode /\ e.peers = s.peers /\ e.got = n + 1
       /\ e.into = IF n + 1 = Len(c) THEN Gone ELSE p
       /\ \A f \in File \ {p} : e.files[f] = s.files[f]
  BY <1>8 DEF State
<1>12. n + 1 # Len(c) => Midway(e, p, c, n + 1)
  BY <1>0, <1>1, <1>5, <1>11 DEF Midway
<1>. QED
  BY <1>0, <1>1, <1>3, <1>6, <1>9, <1>10, <1>11, <1>12 DEF Beside

\* A name opens the file, to receive a content that has fragments.
LEMMA NameRead ==
  ASSUME NEW s \in State, s.into = Gone, NEW k, k.type = "data", NEW p \in File, k.payload = p,
         NEW m \in {"sync_dir", "sync"},
         \/ s.mode = "sync_dir" /\ "last" \in DOMAIN k /\ m = IF k.last THEN "sync" ELSE "sync_dir"
         \/ s.mode = "sync" /\ m = "sync",
         NEW c, Len(c) \in Nat \ {0}
  PROVE  \E e \in State :
           /\ ReadsName(s, k, e, m) /\ Midway(e, p, c, 0)
           /\ e.mode = m /\ e.peers = s.peers
           /\ \A f \in File \ {p} : e.files[f] = s.files[f]
<1>1. PICK e : e = [files |-> [s.files EXCEPT ![p] = <<>>], mode |-> m, into |-> p,
                    got |-> 0, peers |-> s.peers]
  OBVIOUS
<1>2. <<>> \in Content /\ <<>> \in Seq(Version) /\ Len(<<>>) = 0 /\ 0 \in 0 .. 2^Width - 1
  BY EmptySeq, ReplicationAssumption DEF Content
<1>3. e \in State
  BY <1>1, <1>2 DEF State
<1>4. ReadsName(s, k, e, m)
  BY <1>1 DEF ReadsName
<1>5. /\ e.files[p] = <<>> /\ e.mode = m /\ e.peers = s.peers /\ e.got = 0 /\ e.into = p
      /\ \A f \in File \ {p} : e.files[f] = s.files[f]
  BY <1>1 DEF State
<1>6. Midway(e, p, c, 0)
  BY <1>2, <1>5 DEF Midway
<1>. QED  BY <1>3, <1>4, <1>5, <1>6

\* A delete is read at once.
LEMMA DeleteRead ==
  ASSUME NEW s \in State, s.into = Gone, s.mode = "sync", NEW p \in File
  PROVE  \E e \in State :
           /\ ReadsDelete(s, DeleteCmd(p), e) /\ Beside(s, e, p)
           /\ e.into = Gone /\ e.files[p] = Gone
<1>1. PICK e : e = [files |-> [s.files EXCEPT ![p] = Gone], mode |-> "sync", into |-> Gone,
                    got |-> s.got, peers |-> s.peers]
  OBVIOUS
<1>2. e \in State
  BY <1>1 DEF State
<1>3. ReadsDelete(s, DeleteCmd(p), e)
  BY <1>1 DEF ReadsDelete, DeleteCmd
<1>4. /\ e.files[p] = Gone /\ e.mode = "sync" /\ e.peers = s.peers /\ e.into = Gone
      /\ \A f \in File \ {p} : e.files[f] = s.files[f]
  BY <1>1 DEF State
<1>. QED  BY <1>2, <1>3, <1>4 DEF Beside

\* The first of a sequence of the last fragments of c, and the others.
LEMMA LastParts ==
  ASSUME NEW S, NEW q \in Seq(S), q # <<>>, NEW r, NEW c, Len(c) \in Nat, LastOf(q, r, c)
  PROVE  /\ Len(q) \in 1 .. Len(c)
         /\ Head(q) = [to |-> r, packet |-> Part(c[Len(c) - Len(q) + 1], Len(c))]
         /\ Len(Tail(q)) = Len(q) - 1 /\ (Tail(q) = <<>> <=> Len(q) = 1)
         /\ LastOf(Tail(q), r, c)
<1>1. PICK m, n : m = Len(q) /\ n = Len(c)
  OBVIOUS
<1>2. /\ Head(q) = q[1] /\ m \in Nat /\ m >= 1 /\ n \in Nat /\ m <= n
      /\ Len(Tail(q)) = m - 1 /\ Tail(q) \in Seq(S)
      /\ \A i \in 1 .. m - 1 : Tail(q)[i] = q[i+1]
  BY <1>1, FirstOf DEF LastOf
<1>3. \A i \in 1 .. m : q[i] = [to |-> r, packet |-> Part(c[n - m + i], n)]
  BY <1>1 DEF LastOf
<1>4. q[1] = [to |-> r, packet |-> Part(c[n - m + 1], n)]
  BY <1>2, <1>3
<1>5. Tail(q) = <<>> <=> m = 1
  <2>1. Tail(q) # <<>> => Len(Tail(q)) \in Nat \ {0}
    BY <1>2, EmptySeq
  <2>2. Tail(q) = <<>> => Len(Tail(q)) = 0
    BY EmptySeq, Zenon
  <2>3. CASE Tail(q) = <<>>
    BY <1>2, <2>2, <2>3
  <2>4. CASE Tail(q) # <<>>
    BY <1>2, <2>1, <2>4
  <2>. QED  BY <2>3, <2>4
<1>6. \A i \in 1 .. m - 1 : Tail(q)[i] = [to |-> r, packet |-> Part(c[n - (m - 1) + i], n)]
  <2>. TAKE i \in 1 .. m - 1
  <2>1. i + 1 \in 1 .. m /\ n - m + (i + 1) = n - (m - 1) + i
    BY <1>2
  <2>2. q[i+1] = [to |-> r, packet |-> Part(c[n - m + (i + 1)], n)]
    BY <1>3, <2>1
  <2>. QED  BY <1>2, <2>1, <2>2
<1>7. LastOf(Tail(q), r, c)
  BY <1>1, <1>2, <1>6 DEF LastOf
<1>. QED  BY <1>1, <1>2, <1>4, <1>5, <1>7

\* What is written next of a content, and what remains after it.
LEMMA NextPart ==
  ASSUME TypeInv, NEW t \in Thread, NEW r, NEW c, Remains(t, r, c), out[t] # <<>>,
         out' = [out EXCEPT ![t] = Tail(@)]
  PROVE  /\ Len(out[t]) \in 1 .. Len(c)
         /\ Head(out[t]) = [to |-> r, packet |-> Part(c[Len(c) - Len(out[t]) + 1], Len(c))]
         /\ Len(out'[t]) = Len(out[t]) - 1 /\ (out'[t] = <<>> <=> Len(out[t]) = 1)
         /\ Remains(t, r, c)'
<1>1. PICK q : q = out[t]
  OBVIOUS
<1>2. out'[t] = Tail(q) /\ q # <<>> /\ \E S : q \in Seq(S)
  BY <1>1 DEF TypeInv
<1>3. c \in Seq(Version) /\ Len(c) <= 2^Width - 1 /\ LastOf(q, r, c)
  BY <1>1 DEF Remains
<1>4. Len(c) \in Nat
  BY <1>3, LenProperties
<1>5. /\ Len(q) \in 1 .. Len(c)
      /\ Head(q) = [to |-> r, packet |-> Part(c[Len(c) - Len(q) + 1], Len(c))]
      /\ Len(Tail(q)) = Len(q) - 1 /\ (Tail(q) = <<>> <=> Len(q) = 1)
      /\ LastOf(Tail(q), r, c)
  BY <1>2, <1>3, <1>4, LastParts
<1>6. Remains(t, r, c)'
  BY <1>2, <1>3, <1>5 DEF Remains, LastOf
<1>. QED  BY <1>1, <1>2, <1>5, <1>6

-----------------------------------------------------------------------------
(* A session serves the sockets it goes through, one after the other.      *)

\* What the readers will be, when the session d goes from v to w.
Serves(R, q, v, w, p) ==
  /\ w \in [R -> State]
  /\ \A r \in R : /\ Beside(v[r], w[r], p)
                  /\ (\A i \in 1 .. Len(q) : q[i] # r) => w[r] = v[r]

\* The session writes a name or a DELETE to the next socket.
LEMMA ServeNext ==
  ASSUME TypeInv, NEW d \in Device, NEW R \in SUBSET Reader, NEW v, Follows(R, v),
         NEW q \in Seq(R), \A i, j \in 1 .. Len(q) : q[i] = q[j] => i = j,
         \A i \in 1 .. Len(q) : v[q[i]].mode = "sync",
         NEW p, p = job[d].path, NEW c, c = disk[Main][p], Whole(c),
         job[d].op = "delete" <=> c = Gone,
         Serving(d, q, v), SendNext(d)
  PROVE  \E w : Follows(R, w)' /\ Serving(d, q, w)' /\ Serves(R, q, v, w, p)
<1>0. /\ d \in Thread /\ p \in File /\ c \in Seq(Version) \cup {Gone}
      /\ job[d].op \in {"upload", "delete"}
  BY DEF TypeInv, Thread
<1>1. /\ plan[d] # <<>> /\ out[d] = <<>>
      /\ Write(Head(plan[d]).to, Head(plan[d]).packet)
      /\ out' = [out EXCEPT ![d] = IF Head(plan[d]).packet.type = "data"
                                   THEN SendFile(Head(plan[d]).to, disk[Main][Head(plan[d]).packet.payload])
                                   ELSE <<>>]
      /\ plan' = [plan EXCEPT ![d] = Tail(@)]
      /\ UNCHANGED <<disk, job, mode, into, got, peers>>
  BY DEF SendNext, readers
<1>2. PICK n, k : n = Len(plan[d]) /\ k = Len(q) - n
  OBVIOUS
<1>3. /\ Head(plan[d]) = plan[d][1] /\ n \in Nat /\ n >= 1
      /\ Len(Tail(plan[d])) = n - 1
      /\ \A i \in 1 .. n - 1 : Tail(plan[d])[i] = plan[d][i+1]
  <2>1. \E S : plan[d] \in Seq(S)
    BY <1>0 DEF TypeInv
  <2>. QED  BY <1>1, <1>2, <2>1, FirstOf
<1>4. /\ n <= Len(q) /\ Len(q) \in Nat
      /\ \A i \in 1 .. n : plan[d][i] = [to |-> q[k+i], packet |-> NameOf(d)]
      /\ \A i \in 1 .. Len(q) : v[q[i]].into = Gone /\ (i <= k => v[q[i]].files[p] = c)
  BY <1>1, <1>2, LenProperties DEF Serving, Served
<1>5. k \in 0 .. Len(q) - 1 /\ k + 1 \in 1 .. Len(q)
  BY <1>2, <1>3, <1>4
<1>6. PICK r \in R : r = q[k+1]
  BY <1>5, ElementOfSeq
<1>7. Head(plan[d]).to = r /\ Head(plan[d]).packet = NameOf(d)
  <2>1. plan[d][1] = [to |-> q[k+1], packet |-> NameOf(d)]
    BY <1>3, <1>4
  <2>. QED  BY <1>3, <1>6, <2>1
<1>8. v[r] \in State /\ v[r].into = Gone /\ v[r].mode = "sync"
  BY <1>4, <1>5, <1>6 DEF Follows
<1>9. \E e \in State :
        /\ Reads(r, v[r], NameOf(d), e) /\ Beside(v[r], e, p)
        /\ \/ out'[d] = <<>> /\ e.into = Gone /\ e.files[p] = c
           \/ out'[d] # <<>> /\ Remains(d, r, c)' /\ Len(out'[d]) = Len(c) /\ Midway(e, p, c, 0)
  <2>1. CASE c = Gone
    <3>1. NameOf(d) = DeleteCmd(p)
      BY <2>1 DEF NameOf
    <3>2. out'[d] = <<>>
      <4>1. Head(plan[d]).packet.type = "cmd"
        BY <1>7, <3>1 DEF DeleteCmd
      <4>. QED  BY <1>0, <1>1, <4>1 DEF TypeInv
    <3>3. PICK e \in State :
            ReadsDelete(v[r], DeleteCmd(p), e) /\ Beside(v[r], e, p) /\ e.into = Gone /\ e.files[p] = Gone
      BY <1>0, <1>8, DeleteRead
    <3>. QED  BY <2>1, <3>1, <3>2, <3>3 DEF Reads
  <2>2. CASE c # Gone
    <3>1. NameOf(d) = Name(p)
      BY <1>0, <2>2 DEF NameOf
    <3>2. c \in Seq(Version) /\ Len(c) \in Nat \ {0} /\ Len(c) <= 2^Width - 1
      BY <1>0, <2>2, LenProperties DEF Whole
    <3>3. Name(p).type = "data" /\ Name(p).payload = p
      BY DEF Name
    <3>4. PICK e \in State :
            /\ ReadsName(v[r], Name(p), e, "sync") /\ Midway(e, p, c, 0)
            /\ e.mode = "sync" /\ e.peers = v[r].peers
            /\ \A f \in File \ {p} : e.files[f] = v[r].files[f]
      BY <1>0, <1>8, <3>2, <3>3, NameRead
    <3>5. out'[d] = SendFile(r, c)
      BY <1>0, <1>1, <1>7, <3>1, <3>3 DEF TypeInv
    <3>6. /\ Len(out'[d]) = Len(c)
          /\ \A i \in 1 .. Len(c) : out'[d][i] = [to |-> r, packet |-> Part(c[i], Len(c))]
      BY <2>2, <3>2, <3>5, FileSent
    <3>7. \A i \in 1 .. Len(c) : Len(c) - Len(c) + i = i
      BY <3>2
    <3>8. Remains(d, r, c)'
      BY <3>2, <3>6, <3>7 DEF Remains, LastOf
    <3>9. out'[d] # <<>>
      BY <3>2, <3>6
    <3>. QED  BY <1>8, <3>1, <3>4, <3>6, <3>8, <3>9 DEF Reads, Beside
  <2>. QED  BY <2>1, <2>2
<1>10. PICK e \in State :
        /\ Reads(r, v[r], NameOf(d), e) /\ Beside(v[r], e, p)
        /\ \/ out'[d] = <<>> /\ e.into = Gone /\ e.files[p] = c
           \/ out'[d] # <<>> /\ Remains(d, r, c)' /\ Len(out'[d]) = Len(c) /\ Midway(e, p, c, 0)
  BY <1>9
<1>11. PICK w : w = [v EXCEPT ![r] = e]
  OBVIOUS
<1>12. w \in [R -> State] /\ w[r] = e /\ \A s \in R \ {r} : w[s] = v[s]
  BY <1>11 DEF Follows
<1>13. Follows(R, w)'
  <2>1. NameOf(d) \in Wire
    BY SessionSends, WireIs
  <2>2. chan'[r] = Append(chan[r], NameOf(d)) /\ \A s \in R \ {r} : chan'[s] = chan[s]
    BY <1>1, <1>7 DEF Write, TypeInv
  <2>3. \A s \in R : View(s)' = View(s)
    BY <1>1 DEF View
  <2>4. \A s \in R : \/ chan'[s] = chan[s] /\ w[s] = v[s]
                     \/ \E x \in Wire : chan'[s] = Append(chan[s], x) /\ Reads(s, v[s], x, w[s])
    BY <1>10, <1>12, <2>1, <2>2
  <2>. QED  BY <1>12, <2>3, <2>4, FollowSend
<1>14. Serves(R, q, v, w, p)
  BY <1>5, <1>6, <1>10, <1>12 DEF Serves, Beside
<1>15. Serving(d, q, w)'
  <2>1. plan'[d] = Tail(plan[d]) /\ job' = job /\ disk' = disk /\ NameOf(d)' = NameOf(d)
    BY <1>0, <1>1 DEF TypeInv, NameOf
  <2>2. Len(plan'[d]) = n - 1 /\ Len(q) - Len(plan'[d]) = k + 1
    <3>1. Len(plan'[d]) = n - 1
      BY <1>3, <2>1
    <3>2. Len(q) \in Nat /\ n \in Nat /\ k = Len(q) - n
      BY <1>2, <1>3, <1>4
    <3>. QED  BY <3>1, <3>2
  <2>3. \A i \in 1 .. n - 1 : plan'[d][i] = [to |-> q[(k + 1) + i], packet |-> NameOf(d)]
    <3>. TAKE i \in 1 .. n - 1
    <3>0. n \in Nat /\ k \in Int
      BY <1>3, <1>4, <1>5
    <3>1. i + 1 \in 1 .. n /\ k + (i + 1) = (k + 1) + i
      BY <3>0
    <3>. QED  BY <1>3, <1>4, <2>1, <3>1
  <2>4. \A i \in 1 .. Len(q) : q[i] \in R /\ (i # k + 1 => q[i] # r)
    BY <1>5, <1>6, ElementOfSeq
  <2>5. \A i \in 1 .. Len(q) :
          IF i = k + 1 /\ out'[d] # <<>> THEN Midway(w[q[i]], p, c, Len(c) - Len(out'[d]))
          ELSE w[q[i]].into = Gone /\ (i <= k + 1 => w[q[i]].files[p] = c)
    <3>. TAKE i \in 1 .. Len(q)
    <3>1. CASE i = k + 1
      <4>1. w[q[i]] = e
        BY <1>6, <1>12, <3>1
      <4>2. CASE out'[d] = <<>>
        BY <1>10, <3>1, <4>1, <4>2
      <4>3. CASE out'[d] # <<>>
        <5>1. Len(c) \in Nat
          BY <1>10, <4>3, LenProperties DEF Remains
        <5>2. Len(c) - Len(out'[d]) = 0
          BY <1>10, <4>3, <5>1
        <5>. QED  BY <1>10, <3>1, <4>1, <4>3, <5>2
      <4>. QED  BY <4>2, <4>3
    <3>2. CASE i # k + 1
      <4>1. w[q[i]] = v[q[i]]
        BY <1>12, <2>4, <3>2
      <4>2. i <= k + 1 => i <= k
        BY <1>5, <3>2
      <4>. QED  BY <1>4, <3>2, <4>1, <4>2
    <3>. QED  BY <3>1, <3>2
  <2>6. out'[d] # <<>> => k + 1 >= 1 /\ Remains(d, q[k+1], c)'
    BY <1>5, <1>6, <1>10
  <2>7. /\ job'[d].path = p /\ disk'[Main][p] = c /\ n - 1 <= Len(q)
    BY <1>3, <1>4, <2>1
  <2>. QED  BY <2>1, <2>2, <2>3, <2>5, <2>6, <2>7 DEF Serving, Served
<1>. QED  BY <1>13, <1>14, <1>15

\* The session writes a fragment of the file it has open.
LEMMA ServePart ==
  ASSUME TypeInv, NEW d \in Device, NEW R \in SUBSET Reader, NEW v, Follows(R, v),
         NEW q \in Seq(R), \A i, j \in 1 .. Len(q) : q[i] = q[j] => i = j,
         \A i \in 1 .. Len(q) : v[q[i]].mode = "sync",
         NEW p, p = job[d].path, NEW c, c = disk[Main][p],
         Serving(d, q, v), WritePart(d)
  PROVE  \E w : Follows(R, w)' /\ Serving(d, q, w)' /\ Serves(R, q, v, w, p)
<1>0. d \in Thread /\ p \in File
  BY DEF TypeInv, Thread
<1>1. /\ out[d] # <<>>
      /\ Write(Head(out[d]).to, Head(out[d]).packet)
      /\ out' = [out EXCEPT ![d] = Tail(@)]
      /\ UNCHANGED <<disk, job, plan, mode, into, got, peers>>
  BY DEF WritePart, readers
<1>2. PICK n, k : n = Len(plan[d]) /\ k = Len(q) - n
  OBVIOUS
<1>3. /\ n \in Nat /\ n <= Len(q) /\ Len(q) \in Nat /\ k >= 1 /\ Remains(d, q[k], c)
      /\ \A i \in 1 .. n : plan[d][i] = [to |-> q[k+i], packet |-> NameOf(d)]
      /\ \A i \in 1 .. Len(q) :
           IF i = k THEN Midway(v[q[i]], p, c, Len(c) - Len(out[d]))
           ELSE v[q[i]].into = Gone /\ (i <= k => v[q[i]].files[p] = c)
  <2>1. n \in Nat /\ Len(q) \in Nat
    <3>1. \E S : plan[d] \in Seq(S)
      BY <1>0 DEF TypeInv
    <3>. QED  BY <1>2, <3>1, LenProperties
  <2>. QED  BY <1>1, <1>2, <2>1 DEF Serving, Served
<1>4. k \in 1 .. Len(q)
  BY <1>2, <1>3
<1>5. PICK r \in R : r = q[k]
  BY <1>4, ElementOfSeq
<1>6. /\ Len(out[d]) \in 1 .. Len(c)
      /\ Head(out[d]) = [to |-> r, packet |-> Part(c[Len(c) - Len(out[d]) + 1], Len(c))]
      /\ Len(out'[d]) = Len(out[d]) - 1 /\ (out'[d] = <<>> <=> Len(out[d]) = 1)
      /\ Remains(d, r, c)'
  <2>1. Remains(d, r, c)
    BY <1>3, <1>5
  <2>. QED  BY <1>0, <1>1, <2>1, NextPart
<1>7. c \in Seq(Version) /\ Len(c) \in Nat /\ Len(c) <= 2^Width - 1
  BY <1>3, LenProperties DEF Remains
<1>8. PICK l, m : l = Len(out[d]) /\ m = Len(c) - l
  OBVIOUS
<1>9. /\ Len(c) - Len(out'[d]) = m + 1
      /\ m + 1 = Len(c) <=> out'[d] = <<>>
  <2>1. l \in 1 .. Len(c) /\ Len(out'[d]) = l - 1 /\ (out'[d] = <<>> <=> l = 1)
    BY <1>6, <1>8
  <2>2. PICK z, y : z = Len(c) /\ y = Len(out'[d])
    OBVIOUS
  <2>3. z \in Nat /\ l \in 1 .. z /\ y = l - 1 /\ m = z - l
    BY <1>7, <1>8, <2>1, <2>2
  <2>4. z - y = m + 1 /\ (m + 1 = z <=> l = 1)
    BY <2>3
  <2>. QED  BY <2>1, <2>2, <2>4
<1>10. v[r] \in State /\ v[r].mode = "sync" /\ Midway(v[r], p, c, m)
  BY <1>3, <1>4, <1>5, <1>8 DEF Follows
<1>11. /\ m + 1 \in 1 .. Len(c) /\ Part(c[m+1], Len(c)) \in Wire
       /\ \E e \in State :
            /\ ReadsPart(v[r], Part(c[m+1], Len(c)), e) /\ Beside(v[r], e, p)
            /\ IF m + 1 = Len(c) THEN e.into = Gone /\ e.files[p] = c
               ELSE Midway(e, p, c, m + 1)
  BY <1>0, <1>7, <1>10, PartRead
<1>12. PICK e \in State :
            /\ ReadsPart(v[r], Part(c[m+1], Len(c)), e) /\ Beside(v[r], e, p)
            /\ IF m + 1 = Len(c) THEN e.into = Gone /\ e.files[p] = c
               ELSE Midway(e, p, c, m + 1)
  BY <1>11
<1>13. PICK w : w = [v EXCEPT ![r] = e]
  OBVIOUS
<1>14. w \in [R -> State] /\ w[r] = e /\ \A s \in R \ {r} : w[s] = v[s]
  BY <1>13 DEF Follows
<1>15. Follows(R, w)'
  <2>1. Head(out[d]).to = r /\ Head(out[d]).packet = Part(c[m+1], Len(c))
    <3>1. Len(c) - Len(out[d]) + 1 = m + 1
      BY <1>8
    <3>2. Head(out[d]) = [to |-> r, packet |-> Part(c[m+1], Len(c))]
      BY <1>6, <3>1, Zenon
    <3>. QED  BY <3>2
  <2>2. chan'[r] = Append(chan[r], Part(c[m+1], Len(c))) /\ \A s \in R \ {r} : chan'[s] = chan[s]
    BY <1>1, <2>1 DEF Write, TypeInv
  <2>3. \A s \in R : View(s)' = View(s)
    BY <1>1 DEF View
  <2>4. Reads(r, v[r], Part(c[m+1], Len(c)), e)
    BY <1>12 DEF Reads
  <2>5. \A s \in R : \/ chan'[s] = chan[s] /\ w[s] = v[s]
                     \/ \E x \in Wire : chan'[s] = Append(chan[s], x) /\ Reads(s, v[s], x, w[s])
    BY <1>11, <1>14, <2>2, <2>4
  <2>. QED  BY <1>14, <2>3, <2>5, FollowSend
<1>16. Serves(R, q, v, w, p)
  BY <1>4, <1>5, <1>12, <1>14 DEF Serves, Beside
<1>17. Serving(d, q, w)'
  <2>1. plan' = plan /\ job' = job /\ disk' = disk /\ NameOf(d)' = NameOf(d)
    BY <1>1 DEF NameOf
  <2>2. \A i \in 1 .. Len(q) : q[i] \in R /\ (i # k => q[i] # r)
    BY <1>4, <1>5, ElementOfSeq
  <2>3. \A i \in 1 .. Len(q) :
          IF i = k /\ out'[d] # <<>> THEN Midway(w[q[i]], p, c, Len(c) - Len(out'[d]))
          ELSE w[q[i]].into = Gone /\ (i <= k => w[q[i]].files[p] = c)
    <3>. TAKE i \in 1 .. Len(q)
    <3>1. CASE i = k
      <4>1. w[q[i]] = e
        BY <1>5, <1>14, <3>1
      <4>. QED  BY <1>9, <1>12, <3>1, <4>1
    <3>2. CASE i # k
      <4>1. w[q[i]] = v[q[i]]
        BY <1>14, <2>2, <3>2
      <4>. QED  BY <1>3, <3>2, <4>1
    <3>. QED  BY <3>1, <3>2
  <2>. QED  BY <1>2, <1>3, <1>5, <1>6, <2>1, <2>3 DEF Serving, Served
<1>. QED  BY <1>15, <1>16, <1>17

-----------------------------------------------------------------------------
(* One session at a time.                                                  *)

\* At the start no session is busy, and all files are whole.
LEMMA SessionInit == TypeInv /\ Init => SessionInv
<1>. SUFFICES ASSUME TypeInv, Init PROVE SessionInv
  OBVIOUS
<1>1. \A d \in Device : pc[d] = "idle"
  BY DEF Init, Thread
<1>2. \A p \in File : disk[Main][p] = Gone \/ \E v \in Version : disk[Main][p] = <<v>>
  <2>1. PICK f \in [File -> {<<v>> : v \in Version} \cup {Gone}] :
         disk = [s \in {Main} \cup Reader |->
                   CASE s \in Restarted -> [p \in File |-> <<Old>>]
                     [] s \in Backup \ Restarted -> [p \in File |-> Gone]
                     [] OTHER -> f]
    BY DEF Init
  <2>2. disk[Main] = f
    BY <2>1, ReplicationAssumption
  <2>. QED  BY <2>2
<1>3. \A p \in File : Whole(disk[Main][p])
  <2>1. \A v \in Version : Len(<<v>>) = 1
    OBVIOUS
  <2>2. 1 \in 1 .. 2^Width - 1
    BY ReplicationAssumption
  <2>. QED  BY <1>2, <2>1, <2>2 DEF Whole
<1>. QED  BY <1>1, <1>3 DEF SessionInv, Busy

\* A step that leaves the sessions and the main server's files alone.
LEMMA SessionKept ==
  ASSUME SessionInv, disk'[Main] = disk[Main], job' = job,
         \A d \in Device : pc'[d] = pc[d]
  PROVE  SessionInv'
BY DEF SessionInv, Busy, Whole

\* One session, that receives nothing, beside the idle ones.
LEMMA SessionAlone ==
  ASSUME NEW d \in Device, \A e \in Device \ {d} : pc'[e] = "idle",
         pc'[d] \in {"idle", "devices", "backups"},
         \A f \in File : Whole(disk'[Main][f]),
         pc'[d] \in {"devices", "backups"} =>
           (job'[d].op = "delete" <=> disk'[Main][job'[d].path] = Gone)
  PROVE  SessionInv'
<1>1. \A e \in Device : pc'[e] \notin {"receive", "orphan"}
  OBVIOUS
<1>2. \A e \in Device : pc'[e] # "idle" => e = d
  OBVIOUS
<1>. QED  BY <1>1, <1>2 DEF SessionInv, Busy, Whole

\* The steps of a session, when no other is busy.
LEMMA SessionSteps ==
  ASSUME TypeInv, LockInv, SessionInv, "session" \notin Overlaps, NEW d \in Device,
         Session(d) \/ EndUpload(d) \/ LockServerList(d) \/ UnlockServerList(d)
  PROVE  SessionInv' /\ \A e \in Device \ {d} : pc[e] = "idle" /\ pc'[e] = "idle"
<1>0. Device \subseteq Thread /\ Main \notin Reader
  BY ReplicationAssumption DEF Thread, Reader
<1>1. MayChange => \A e \in Device : ~ Busy(e)
  BY DEF MayChange, Apart
<1>2. \A e \in Device : ~ Busy(e) => pc[e] = "idle"
  BY DEF LockInv, Busy
<1>3. \A e \in Device \ {d} : pc[e] = "idle"
  <2>1. CASE Session(d)
    BY <1>1, <1>2, <2>1 DEF Session, BeginUpload, BeginDelete
  <2>2. CASE EndUpload(d) \/ LockServerList(d) \/ UnlockServerList(d)
    <3>1. Busy(d)
      BY <2>2 DEF EndUpload, LockServerList, UnlockServerList, Busy
    <3>. QED  BY <1>2, <3>1 DEF SessionInv
  <2>. QED  BY <2>1, <2>2
<1>4. \A e \in Device \ {d} : pc'[e] = "idle"
  BY <1>0, <1>3 DEF Session, BeginUpload, BeginDelete, EndUpload, LockServerList,
     UnlockServerList, TypeInv
<1>5. ASSUME NEW p \in File, NEW v \in Version, NEW n \in Sizes, BeginUpload(d, p, v, n)
      PROVE  SessionInv'
  <2>1. pc'[d] = "receive" /\ pc[d] = "idle"
    BY <1>0, <1>5 DEF BeginUpload, TypeInv
  <2>2. job'[d].op = "upload" /\ job'[d].path = p /\ job'[d].content = [i \in 1 .. n |-> v]
    BY <1>5 DEF BeginUpload, TypeInv
  <2>3. disk'[Main][p] = <<>> /\ \A f \in File \ {p} : disk'[Main][f] = disk[Main][f]
    BY <1>5 DEF BeginUpload, TypeInv
  <2>4. n \in 1 .. 2^Width - 1 /\ n \in Nat
    BY ReplicationAssumption
  <2>5. Len(job'[d].content) = n
    <3>1. [i \in 1 .. n |-> v] \in [1 .. n -> Version]
      OBVIOUS
    <3>. QED  BY <2>2, <2>4, <3>1, IsSeq
  <2>6. \A f \in File \ {p} : Whole(disk'[Main][f])
    BY <1>3, <2>1, <2>3 DEF SessionInv, Whole
  <2>. QED  BY <1>4, <2>1, <2>2, <2>3, <2>4, <2>5, <2>6 DEF SessionInv, Busy, Whole
<1>6. ASSUME NEW p \in File, BeginDelete(d, p) PROVE SessionInv'
  <2>1. pc'[d] = "devices" /\ pc[d] = "idle"
    BY <1>0, <1>6 DEF BeginDelete, TypeInv
  <2>2. job'[d].op = "delete" /\ job'[d].path = p
    BY <1>6 DEF BeginDelete, TypeInv
  <2>3. disk'[Main][p] = Gone /\ \A f \in File \ {p} : disk'[Main][f] = disk[Main][f]
    BY <1>6 DEF BeginDelete, TypeInv
  <2>4. \A f \in File : Whole(disk'[Main][f])
    BY <1>3, <2>1, <2>3 DEF SessionInv, Whole
  <2>. QED  BY <1>4, <2>1, <2>2, <2>3, <2>4, SessionAlone
<1>7. CASE EndUpload(d)
  <2>0. pc[d] = "receive" /\ pc'[d] = "devices" /\ job' = job
    BY <1>0, <1>7 DEF EndUpload, TypeInv, SessionInv
  <2>. DEFINE p == job[d].path
  <2>1. p \in File /\ job[d].op = "upload" /\ disk[Main][p] = <<>>
        /\ job[d].content \in Seq(Version) /\ Len(job[d].content) \in 1 .. 2^Width - 1
    BY <2>0 DEF SessionInv, TypeInv
  <2>2. Overwrite(<<>>, job[d].content) = job[d].content
    <3>1. <<>> \in Seq(Version) /\ Len(<<>>) = 0
      BY EmptySeq
    <3>. QED  BY <2>1, <3>1, OverwriteIs
  <2>3. /\ disk'[Main][p] = job[d].content
        /\ \A f \in File \ {p} : disk'[Main][f] = disk[Main][f]
    BY <1>7, <2>0, <2>1, <2>2 DEF EndUpload, TypeInv
  <2>4. job[d].content # Gone
    BY <2>1, Contents, IsThere
  <2>5. \A f \in File : Whole(disk'[Main][f])
    BY <1>3, <2>0, <2>1, <2>3 DEF SessionInv, Whole
  <2>6. pc'[d] \in {"devices", "backups"} =>
          (job'[d].op = "delete" <=> disk'[Main][job'[d].path] = Gone)
    BY <2>0, <2>1, <2>3, <2>4
  <2>7. pc'[d] \in {"idle", "devices", "backups"}
    BY <2>0
  <2>. QED  BY <1>3, <1>4, <2>5, <2>6, <2>7, SessionAlone
<1>8. CASE LockServerList(d) \/ UnlockServerList(d)
  <2>1. /\ pc[d] \in {"devices", "backups"} /\ pc'[d] \in {"idle", "backups"}
        /\ disk' = disk /\ job' = job
    BY <1>0, <1>8 DEF LockServerList, UnlockServerList, TypeInv
  <2>2. \A f \in File : Whole(disk'[Main][f])
    BY <1>3, <2>1 DEF SessionInv, Whole
  <2>3. pc'[d] \in {"devices", "backups"} =>
          (job'[d].op = "delete" <=> disk'[Main][job'[d].path] = Gone)
    BY <2>1 DEF SessionInv
  <2>4. pc'[d] \in {"idle", "devices", "backups"}
    BY <2>1
  <2>. QED  BY <1>3, <1>4, <2>2, <2>3, <2>4, SessionAlone
<1>. QED  BY <1>3, <1>4, <1>5, <1>6, <1>7, <1>8 DEF Session

\* The other steps change no file of the main server's and no session.
LEMMA SessionRest ==
  ASSUME TypeInv,
         \/ \E t \in Thread : SendNext(t) \/ WritePart(t)
         \/ \E b \in Backup : AddBackupServer(b) \/ BackupServerList(b) \/ BackupClientList(b)
                              \/ BackupSyncDir(b) \/ Joined(b) \/ Heartbeat(b)
         \/ \E r \in Reader : Receive(r)
         \/ UNCHANGED vars
  PROVE  disk'[Main] = disk[Main] /\ job' = job /\ \A d \in Device : pc'[d] = pc[d]
<1>0. Device \cap Backup = {} /\ Device \subseteq Thread
  BY ReplicationAssumption DEF Thread
<1>1. ASSUME NEW t \in Thread, SendNext(t) \/ WritePart(t)
      PROVE  disk' = disk /\ job' = job /\ pc' = pc
  BY <1>1 DEF SendNext, WritePart
<1>2. ASSUME NEW b \in Backup,
             AddBackupServer(b) \/ BackupServerList(b) \/ BackupClientList(b)
               \/ BackupSyncDir(b) \/ Joined(b) \/ Heartbeat(b)
      PROVE  disk' = disk /\ job' = job /\ \A d \in Device : pc'[d] = pc[d]
  BY <1>0, <1>2 DEF AddBackupServer, BackupServerList, BackupClientList, BackupSyncDir,
     Joined, Heartbeat, TypeInv
<1>3. ASSUME NEW r \in Reader, Receive(r)
      PROVE  disk'[Main] = disk[Main] /\ job' = job /\ pc' = pc
  BY <1>3, TypeReceive DEF main
<1>. QED  BY <1>1, <1>2, <1>3 DEF vars, main

\* One session at a time, in every step.
LEMMA SessionStep ==
  ASSUME "session" \notin Overlaps
  PROVE  TypeInv /\ LockInv /\ SessionInv /\ [Next]_vars => SessionInv'
<1>. SUFFICES ASSUME TypeInv, LockInv, SessionInv, [Next]_vars PROVE SessionInv'
  OBVIOUS
<1>1. ASSUME NEW d \in Device,
             Session(d) \/ EndUpload(d) \/ LockServerList(d) \/ UnlockServerList(d)
      PROVE  SessionInv'
  BY <1>1, SessionSteps
<1>. QED  BY <1>1, SessionRest, SessionKept DEF Next, Proceed

\* A session that has yet to name its file to all of q.
LEMMA ServeFirst ==
  ASSUME NEW d \in Device, NEW S, NEW q \in Seq(S), NEW v,
         plan'[d] = To(q, NameOf(d)'), out'[d] = <<>>,
         \A i \in 1 .. Len(q) : v[q[i]].into = Gone
  PROVE  Serving(d, q, v)'
<1>1. PICK name : name = NameOf(d)'
  OBVIOUS
<1>2. /\ Len(plan'[d]) = Len(q) /\ Len(q) \in Nat
      /\ \A i \in 1 .. Len(q) : plan'[d][i] = [to |-> q[i], packet |-> name]
  BY <1>1, ToEach, LenProperties
<1>3. Len(q) - Len(plan'[d]) = 0 /\ \A i \in 1 .. Len(q) : 0 + i = i /\ ~ (i <= 0)
  BY <1>2
<1>. QED  BY <1>1, <1>2, <1>3 DEF Serving, Served

\* A session that has sent all has served all of q.
LEMMA ServeLast ==
  ASSUME NEW d \in Device, NEW S, NEW q \in Seq(S), NEW v, Serving(d, q, v), Sent(d)
  PROVE  \A i \in 1 .. Len(q) : v[q[i]].into = Gone /\ v[q[i]].files[job[d].path] = disk[Main][job[d].path]
<1>1. plan[d] = <<>> /\ out[d] = <<>> /\ Len(plan[d]) = 0 /\ Len(q) \in Nat
  BY LenProperties DEF Sent
<1>2. Len(q) - Len(plan[d]) = Len(q)
  BY <1>1
<1>3. \A i \in 1 .. Len(q) : i <= Len(q)
  BY <1>1
<1>. QED  BY <1>1, <1>2, <1>3 DEF Serving, Served

-----------------------------------------------------------------------------
(* The devices.                                                            *)

DevicesInv == \E v : Follows(Device, v) /\ DevicesWill(v)

\* At the start there is nothing to read, and all have the same files.
LEMMA DevicesInit == TypeInv /\ Init => DevicesInv
<1>. SUFFICES ASSUME TypeInv, Init PROVE DevicesInv
  OBVIOUS
<1>1. PICK v : v = [r \in Device |-> View(r)]
  OBVIOUS
<1>2. Device \in SUBSET Reader /\ Device \subseteq Thread
  BY DEF Reader, Thread
<1>3. Follows(Device, v)
  BY <1>1, <1>2, FollowInit DEF Init
<1>4. \A r \in Device : disk[r] = disk[Main]
  <2>1. PICK f \in [File -> {<<v1>> : v1 \in Version} \cup {Gone}] :
         disk = [s \in {Main} \cup Reader |->
                   CASE s \in Restarted -> [p \in File |-> <<Old>>]
                     [] s \in Backup \ Restarted -> [p \in File |-> Gone]
                     [] OTHER -> f]
    BY DEF Init
  <2>2. disk[Main] = f /\ \A r \in Device : disk[r] = f
    BY <1>2, <2>1, ReplicationAssumption
  <2>. QED  BY <2>2
<1>5. \A r \in Device : v[r].files = disk[Main] /\ v[r].mode = "sync" /\ v[r].into = Gone
  BY <1>1, <1>2, <1>4 DEF View, Init
<1>6. \A d \in Device : pc[d] = "idle"
  BY <1>2 DEF Init
<1>. QED  BY <1>3, <1>5, <1>6 DEF DevicesInv, DevicesWill

\* Nothing that a device or a session before the mutex has to do with.
LEMMA DevicesKept ==
  ASSUME TypeInv, NEW v, Follows(Device, v), DevicesWill(v),
         \A r \in Device : View(r)' = View(r) /\ chan'[r] = chan[r],
         disk'[Main] = disk[Main], job' = job, \A d \in Device : pc'[d] = pc[d],
         \A d \in Device : pc[d] = "devices" => plan'[d] = plan[d] /\ out'[d] = out[d]
  PROVE  DevicesInv'
<1>1. Device \in SUBSET Reader /\ v \in [Device -> State]
  BY DEF Reader, Follows
<1>2. Follows(Device, v)'
  BY <1>1, FollowSend
<1>3. PICK q : q = DeviceSockets
  OBVIOUS
<1>4. \A d \in Device : pc[d] = "devices" => Serving(d, DeviceSockets, v)'
  <2>. SUFFICES ASSUME NEW d \in Device, pc[d] = "devices" PROVE Serving(d, q, v)'
    BY <1>3 DEF DeviceSockets
  <2>1. Serving(d, q, v)
    BY <1>3 DEF DevicesWill
  <2>2. plan'[d] = plan[d] /\ out'[d] = out[d] /\ NameOf(d)' = NameOf(d)
    BY DEF NameOf
  <2>. QED  BY <2>1, <2>2, ZenonT(60) DEF Serving, Served, Remains
<1>5. DevicesWill(v)'
  BY <1>4 DEF DevicesWill
<1>. QED  BY <1>2, <1>5 DEF DevicesInv

\* Reading changes nothing of what a device will be.
LEMMA DevicesRead ==
  ASSUME TypeInv, DevicesInv, NEW r \in Reader, Receive(r)
  PROVE  DevicesInv'
<1>1. PICK v : Follows(Device, v) /\ DevicesWill(v)
  BY DEF DevicesInv
<1>2. Follows(Device, v)'
  BY <1>1, FollowRead DEF Reader
<1>3. disk'[Main] = disk[Main] /\ UNCHANGED <<list, lock, pc, job, plan, out, changes, beats>>
  BY TypeReceive DEF main
<1>4. PICK q : q = DeviceSockets
  OBVIOUS
<1>5. \A d \in Device : Serving(d, q, v) => Serving(d, q, v)'
  BY <1>3 DEF Serving, Served, Remains, NameOf
<1>6. DevicesWill(v)'
  BY <1>1, <1>3, <1>4, <1>5 DEF DevicesWill, DeviceSockets
<1>. QED  BY <1>2, <1>6 DEF DevicesInv

\* A session that writes to the devices serves them.
LEMMA DevicesServed ==
  ASSUME TypeInv, LockInv, SessionInv, DevicesInv, NEW d \in Device, pc[d] = "devices",
         SendNext(d) \/ WritePart(d)
  PROVE  DevicesInv'
<1>1. PICK v : Follows(Device, v) /\ DevicesWill(v)
  BY DEF DevicesInv
<1>2. PICK q : q = DeviceSockets
  OBVIOUS
<1>3. PICK p, c : p = job[d].path /\ c = disk[Main][p]
  OBVIOUS
<1>4. /\ q \in Seq(Device) /\ \A i, j \in 1 .. Len(q) : q[i] = q[j] => i = j
      /\ \A i \in 1 .. Len(q) : q[i] \in Device
  BY <1>2, Slots, ElementOfSeq
<1>5. Device \in SUBSET Reader /\ p \in File
  BY <1>3 DEF Reader, TypeInv
<1>6. Serving(d, q, v) /\ \A i \in 1 .. Len(q) : v[q[i]].mode = "sync"
  BY <1>1, <1>2, <1>4 DEF DevicesWill
<1>7. \A e \in Device : e # d => pc[e] = "idle"
  BY DEF SessionInv, LockInv, Busy
<1>8. Whole(c) /\ (job[d].op = "delete" <=> c = Gone)
  <2>1. \A e \in Device : pc[e] # "receive"
    BY <1>7
  <2>. QED  BY <1>3, <1>5, <2>1 DEF SessionInv
<1>9. \E w : Follows(Device, w)' /\ Serving(d, q, w)' /\ Serves(Device, q, v, w, p)
  BY <1>1, <1>3, <1>4, <1>5, <1>6, <1>8, ServeNext, ServePart
<1>10. PICK w : Follows(Device, w)' /\ Serving(d, q, w)' /\ Serves(Device, q, v, w, p)
  BY <1>9
<1>11. UNCHANGED <<disk, pc, job>>
  BY DEF SendNext, WritePart
<1>12. \A r \in Device : w[r].mode = "sync"
  BY <1>1, <1>10 DEF DevicesWill, Serves, Beside
<1>13. \A r \in Device, f \in File : f # p => w[r].files[f] = disk[Main][f]
  BY <1>1, <1>3, <1>7, <1>10 DEF DevicesWill, Serves, Beside
<1>14. \A e \in Device : pc[e] = "devices" => Serving(e, DeviceSockets, w)'
  BY <1>2, <1>7, <1>10 DEF DeviceSockets
<1>15. DevicesWill(w)'
  BY <1>3, <1>11, <1>12, <1>13, <1>14 DEF DevicesWill
<1>. QED  BY <1>10, <1>15 DEF DevicesInv

\* The others write to the backups.
LEMMA DevicesSpared ==
  ASSUME TypeInv, LockInv, DevicesInv, NEW t \in Thread, t \in Device => pc[t] # "devices",
         SendNext(t) \/ WritePart(t)
  PROVE  DevicesInv'
<1>0. Device \cap Backup = {}
  BY ReplicationAssumption
<1>1. Targets(t) \subseteq Backup
  BY DEF Targets, Thread
<1>2. /\ UNCHANGED <<disk, pc, job, mode, into, got, peers>>
      /\ \A u \in Thread \ {t} : plan'[u] = plan[u] /\ out'[u] = out[u]
  BY DEF SendNext, WritePart, readers, TypeInv
<1>3. \A r \in Device : chan'[r] = chan[r]
  <2>1. CASE SendNext(t)
    <3>1. plan[t] # <<>> /\ OnlyTo(plan[t], Targets(t)) /\ \E S : plan[t] \in Seq(S)
      BY <2>1 DEF SendNext, LockInv, TypeInv
    <3>2. Head(plan[t]).to \in Backup
      BY <1>1, <3>1, RestTo
    <3>. QED  BY <1>0, <2>1, <3>2, SMTT(60) DEF SendNext, Write, TypeInv
  <2>2. CASE WritePart(t)
    <3>1. out[t] # <<>> /\ OnlyTo(out[t], Targets(t)) /\ \E S : out[t] \in Seq(S)
      BY <2>2 DEF WritePart, LockInv, TypeInv
    <3>2. Head(out[t]).to \in Backup
      BY <1>1, <3>1, RestTo
    <3>. QED  BY <1>0, <2>2, <3>2, SMTT(60) DEF WritePart, Write, TypeInv
  <2>. QED  BY <2>1, <2>2
<1>4. \A r \in Device : View(r)' = View(r)
  BY <1>2 DEF View
<1>5. \A d \in Device : pc[d] = "devices" => plan'[d] = plan[d] /\ out'[d] = out[d]
  BY <1>2 DEF Thread
<1>6. PICK v : Follows(Device, v) /\ DevicesWill(v)
  BY DEF DevicesInv
<1>. QED  BY <1>2, <1>3, <1>4, <1>5, <1>6, DevicesKept

\* So do the joiners and the heartbeat.
LEMMA DevicesJoin ==
  ASSUME TypeInv, DevicesInv, NEW b \in Backup,
         AddBackupServer(b) \/ BackupServerList(b) \/ BackupClientList(b)
           \/ BackupSyncDir(b) \/ Joined(b) \/ Heartbeat(b)
  PROVE  DevicesInv'
<1>0. Device \cap Backup = {} /\ Device \subseteq Thread /\ Reader = Thread
  BY ReplicationAssumption DEF Thread, Reader
<1>1. UNCHANGED <<disk, job, mode, into, got, peers>> /\ \A d \in Device : pc'[d] = pc[d]
  BY <1>0 DEF AddBackupServer, BackupServerList, BackupClientList, BackupSyncDir, Joined,
     Heartbeat, readers, TypeInv
<1>2. \A d \in Device : plan'[d] = plan[d] /\ out'[d] = out[d]
  <2>1. CASE BackupSyncDir(b)
    BY <1>0, <2>1 DEF BackupSyncDir, TypeInv
  <2>. QED
    BY <2>1 DEF AddBackupServer, BackupServerList, BackupClientList, Joined, Heartbeat
<1>3. \A r \in Device : chan'[r] = chan[r]
  <2>1. CASE AddBackupServer(b)
    <3>1. ToSet(list) \subseteq Backup
      BY ElementOfSeq DEF TypeInv, ToSet
    <3>. QED  BY <1>0, <2>1, <3>1 DEF AddBackupServer
  <2>. QED
    BY <1>0, <2>1 DEF BackupServerList, BackupClientList, BackupSyncDir, Joined, Heartbeat, Write, TypeInv
<1>4. \A r \in Device : View(r)' = View(r)
  BY <1>1 DEF View
<1>5. PICK v : Follows(Device, v) /\ DevicesWill(v)
  BY DEF DevicesInv
<1>. QED  BY <1>1, <1>2, <1>3, <1>4, <1>5, DevicesKept

\* A session turns to the devices, and from them to the backups.
LEMMA DevicesSession ==
  ASSUME TypeInv, LockInv, SessionInv, DevicesInv, "session" \notin Overlaps, NEW d \in Device,
         Session(d) \/ EndUpload(d) \/ LockServerList(d) \/ UnlockServerList(d)
  PROVE  DevicesInv'
<1>0. Device \subseteq Thread /\ Device \in SUBSET Reader /\ Main \notin Reader
  BY ReplicationAssumption DEF Thread, Reader
<1>1. PICK v : Follows(Device, v) /\ DevicesWill(v)
  BY DEF DevicesInv
<1>2. \A e \in Device \ {d} : pc[e] = "idle" /\ pc'[e] = "idle"
  BY SessionSteps
<1>3. PICK q : q = DeviceSockets
  OBVIOUS
<1>4. q \in Seq(Device) /\ \A r \in Device : \E i \in 1 .. Len(q) : q[i] = r
  BY <1>3, Slots
<1>5. Follows(Device, v)'
  <2>1. UNCHANGED <<chan, mode, into, got, peers>> /\ \A r \in Device : disk'[r] = disk[r]
    BY <1>0 DEF Session, BeginUpload, BeginDelete, EndUpload, LockServerList, UnlockServerList,
       readers, TypeInv
  <2>2. \A r \in Device : View(r)' = View(r)
    BY <2>1 DEF View
  <2>3. v \in [Device -> State]
    BY <1>1 DEF Follows
  <2>. QED  BY <1>0, <1>1, <2>1, <2>2, <2>3, FollowSend
<1>6. \A r \in Device : v[r].mode = "sync"
  BY <1>1 DEF DevicesWill
<1>7. \A i \in 1 .. Len(q) : q[i] \in Device
  BY <1>4, ElementOfSeq
<1>8. ASSUME NEW p \in File, NEW u \in Version, NEW n \in Sizes, BeginUpload(d, p, u, n)
      PROVE  DevicesWill(v)'
  <2>1. /\ pc[d] = "idle" /\ pc'[d] = "receive" /\ job'[d].path = p
        /\ \A f \in File \ {p} : disk'[Main][f] = disk[Main][f]
    BY <1>0, <1>8 DEF BeginUpload, TypeInv
  <2>. QED  BY <1>1, <1>2, <2>1 DEF DevicesWill
<1>9. ASSUME NEW p \in File, BeginDelete(d, p) PROVE DevicesWill(v)'
  <2>1. /\ pc[d] = "idle" /\ pc'[d] = "devices" /\ job'[d].path = p
        /\ \A f \in File \ {p} : disk'[Main][f] = disk[Main][f]
        /\ plan'[d] = To(q, DeleteCmd(p)) /\ NameOf(d)' = DeleteCmd(p)
    BY <1>0, <1>3, <1>9 DEF BeginDelete, TypeInv, NameOf
  <2>2. out'[d] = <<>>
    BY <1>9, <2>1 DEF BeginDelete, LockInv, Sent
  <2>3. \A r \in Device : v[r].into = Gone
    BY <1>1, <1>2, <2>1 DEF DevicesWill
  <2>4. Serving(d, q, v)'
    BY <1>4, <1>7, <2>1, <2>2, <2>3, ServeFirst
  <2>5. Serving(d, DeviceSockets, v)'
    BY <1>3, <2>4 DEF DeviceSockets
  <2>6. \A r \in Device, f \in File \ {p} : v[r].files[f] = disk[Main][f]
    BY <1>1, <1>2, <2>1 DEF DevicesWill
  <2>. QED  BY <1>2, <1>6, <2>1, <2>5, <2>6 DEF DevicesWill
<1>10. ASSUME EndUpload(d) PROVE DevicesWill(v)'
  <2>1. /\ pc[d] = "receive" /\ pc'[d] = "devices" /\ job' = job
        /\ \A f \in File \ {job[d].path} : disk'[Main][f] = disk[Main][f]
        /\ plan'[d] = To(q, NameOf(d)) /\ NameOf(d)' = NameOf(d)
    BY <1>0, <1>3, <1>10 DEF EndUpload, TypeInv, NameOf, SessionInv
  <2>2. out'[d] = <<>>
    BY <1>10, <2>1 DEF EndUpload, LockInv, Sent
  <2>3. \A r \in Device : v[r].into = Gone
    BY <1>1, <1>2, <2>1 DEF DevicesWill
  <2>4. Serving(d, q, v)'
    BY <1>4, <1>7, <2>1, <2>2, <2>3, ServeFirst
  <2>5. Serving(d, DeviceSockets, v)'
    BY <1>3, <2>4 DEF DeviceSockets
  <2>6. \A r \in Device, f \in File \ {job[d].path} : v[r].files[f] = disk[Main][f]
    BY <1>1, <1>2, <2>1 DEF DevicesWill
  <2>. QED  BY <1>2, <1>6, <2>1, <2>5, <2>6 DEF DevicesWill
<1>11. ASSUME LockServerList(d) PROVE DevicesWill(v)'
  <2>1. /\ pc[d] = "devices" /\ Sent(d) /\ pc'[d] = "backups" /\ job' = job /\ disk' = disk
    BY <1>0, <1>11 DEF LockServerList, TypeInv
  <2>2. Serving(d, q, v)
    BY <1>1, <1>3, <2>1 DEF DevicesWill
  <2>3. \A i \in 1 .. Len(q) : v[q[i]].into = Gone /\ v[q[i]].files[job[d].path] = disk[Main][job[d].path]
    BY <1>4, <2>1, <2>2, ServeLast
  <2>4. \A r \in Device : v[r].into = Gone /\ v[r].files[job[d].path] = disk[Main][job[d].path]
    BY <1>4, <2>3, SMTT(60)
  <2>5. \A r \in Device, f \in File : v[r].files[f] = disk[Main][f]
    BY <1>1, <1>2, <2>4 DEF DevicesWill
  <2>. QED  BY <1>2, <1>6, <2>1, <2>4, <2>5 DEF DevicesWill
<1>12. ASSUME UnlockServerList(d) PROVE DevicesWill(v)'
  <2>1. pc[d] = "backups" /\ pc'[d] = "idle" /\ job' = job /\ disk' = disk
    BY <1>0, <1>12 DEF UnlockServerList, TypeInv
  <2>2. \A e \in Device : pc[e] \notin {"receive", "devices"} /\ pc'[e] # "devices"
    BY <1>2, <2>1
  <2>3. \A r \in Device : v[r].into = Gone /\ \A f \in File : v[r].files[f] = disk[Main][f]
    BY <1>1, <2>2 DEF DevicesWill
  <2>. QED  BY <1>6, <2>1, <2>2, <2>3 DEF DevicesWill
<1>13. DevicesWill(v)'
  BY <1>8, <1>9, <1>10, <1>11, <1>12 DEF Session
<1>. QED  BY <1>5, <1>13 DEF DevicesInv

\* The devices will have the main server's files but for what the session has yet
\* to write.
LEMMA DevicesStep ==
  ASSUME "session" \notin Overlaps
  PROVE  TypeInv /\ LockInv /\ SessionInv /\ DevicesInv /\ [Next]_vars => DevicesInv'
<1>. SUFFICES ASSUME TypeInv, LockInv, SessionInv, DevicesInv, [Next]_vars PROVE DevicesInv'
  OBVIOUS
<1>1. CASE UNCHANGED vars
  <2>1. PICK v : Follows(Device, v) /\ DevicesWill(v)
    BY DEF DevicesInv
  <2>2. UNCHANGED <<disk, chan, pc, job, plan, out, mode, into, got, peers>>
    BY <1>1 DEF vars, main, readers
  <2>3. \A r \in Device : View(r)' = View(r)
    BY <2>2 DEF View
  <2>. QED  BY <2>1, <2>2, <2>3, DevicesKept
<1>2. ASSUME NEW t \in Thread, SendNext(t) \/ WritePart(t) PROVE DevicesInv'
  BY <1>2, DevicesServed, DevicesSpared
<1>3. ASSUME NEW d \in Device,
             Session(d) \/ EndUpload(d) \/ LockServerList(d) \/ UnlockServerList(d)
      PROVE  DevicesInv'
  BY <1>3, DevicesSession
<1>4. ASSUME NEW b \in Backup,
             AddBackupServer(b) \/ BackupServerList(b) \/ BackupClientList(b)
               \/ BackupSyncDir(b) \/ Joined(b) \/ Heartbeat(b)
      PROVE  DevicesInv'
  BY <1>4, DevicesJoin
<1>5. ASSUME NEW r \in Reader, Receive(r) PROVE DevicesInv'
  BY <1>5, DevicesRead
<1>. QED  BY <1>1, <1>2, <1>3, <1>4, <1>5 DEF Next, Proceed

\* With nothing under way, what the devices will be is what they are.
LEMMA DevicesSettled == TypeInv /\ LockInv /\ DevicesInv => DevicesAgree
<1>. SUFFICES ASSUME TypeInv, LockInv, DevicesInv, Settled, NEW r \in Device
              PROVE  disk[r] = disk[Main]
  BY DEF DevicesAgree
<1>1. PICK v : Follows(Device, v) /\ DevicesWill(v)
  BY DEF DevicesInv
<1>2. Device \in SUBSET Reader /\ chan[r] = <<>> /\ \A d \in Device : pc[d] = "idle"
  BY DEF Settled, Reader, Thread, Busy, LockInv
<1>3. v[r] = View(r)
  BY <1>1, <1>2, Arrived
<1>4. \A p \in File : disk[r][p] = disk[Main][p]
  BY <1>1, <1>2, <1>3 DEF DevicesWill, View
<1>5. disk[r] \in [File -> Content \cup {Gone}] /\ disk[Main] \in [File -> Content \cup {Gone}]
  BY <1>2 DEF TypeInv
<1>. QED  BY <1>4, <1>5

\* As long as no two sessions overlap, whatever joins and heartbeats do, the
\* devices end with the main server's files: all of them, and nothing else.
THEOREM DevicesAgreeAlways ==
  ASSUME "session" \notin Overlaps
  PROVE  Spec => []DevicesAgree
<1>1. Init => TypeInv /\ LockInv /\ SessionInv /\ DevicesInv
  BY TypeInit, LockInit, SessionInit, DevicesInit
<1>2. TypeInv /\ LockInv /\ SessionInv /\ DevicesInv /\ [Next]_vars
        => (TypeInv /\ LockInv /\ SessionInv /\ DevicesInv)'
  BY TypeStep, LockStep, SessionStep, DevicesStep
<1>. QED  BY <1>1, <1>2, DevicesSettled, PTL DEF Spec

-----------------------------------------------------------------------------
(* The backup servers.                                                     *)

BackupsInv == \E v : Follows(Backup, v) /\ BackupsWill(v)

\* A step that leaves a joiner and the main server's files alone.
LEMMA FillingKept ==
  ASSUME NEW b \in Backup, NEW s, Filling(b, s), disk'[Main] = disk[Main],
         plan'[b] = plan[b], out'[b] = out[b]
  PROVE  Filling(b, s)'
<1>1. \A i : Next1(b, i)' = Next1(b, i)
  BY DEF Next1
<1>2. \A p \in File : Matches(b, s, p)' <=> Matches(b, s, p)
  BY DEF Matches
<1>3. Receiving(b, s) => Receiving(b, s)'
  BY DEF Receiving, Remains, Midway
<1>4. \A i \in 1 .. Len(plan'[b]) :
        /\ Next1(b, i)' \in File /\ disk'[Main][Next1(b, i)'] # Gone
        /\ plan'[b][i] = [to |-> b, packet |-> SyncName(Next1(b, i)', i = Len(plan'[b]))]
  BY <1>1 DEF Filling
<1>5. /\ \A i, j \in 1 .. Len(plan'[b]) : Next1(b, i)' = Next1(b, j)' => i = j
      /\ \A p \in File :
           Matches(b, s, p)' \/ p = s.into \/ \E i \in 1 .. Len(plan'[b]) : Next1(b, i)' = p
  BY <1>1, <1>2 DEF Filling
<1>. QED  BY <1>1, <1>3, <1>4, <1>5 DEF Filling

\* The same of the joiner's backup, also before it is filled and after.
LEMMA JoiningKept ==
  ASSUME NEW b \in Backup, NEW s, Joining(b, s), list' = list, disk'[Main] = disk[Main], job' = job,
         \A d \in Device : pc'[d] = pc[d],
         pc'[b] = pc[b], plan'[b] = plan[b], out'[b] = out[b]
  PROVE  Joining(b, s)'
<1>1. Filling(b, s) => Filling(b, s)'
  BY FillingKept
<1>. QED  BY <1>1 DEF Joining, Untouched, Matches

\* The same of all backups, and of the session that serves them.
LEMMA BackupsKept ==
  ASSUME NEW v, BackupsWill(v), list' = list, pc' = pc, job' = job, disk'[Main] = disk[Main],
         \A b \in Backup : plan'[b] = plan[b] /\ out'[b] = out[b],
         \A d \in Device : pc[d] = "backups" => plan'[d] = plan[d] /\ out'[d] = out[d]
  PROVE  BackupsWill(v)'
<1>1. \A b \in Backup : Joining(b, v[b])'
  BY JoiningKept DEF BackupsWill
<1>2. \A d \in Device : pc[d] = "backups" => Serving(d, list, v)'
  <2>. SUFFICES ASSUME NEW d \in Device, pc[d] = "backups" PROVE Serving(d, list, v)'
    OBVIOUS
  <2>1. Serving(d, list, v)
    BY DEF BackupsWill
  <2>2. plan'[d] = plan[d] /\ out'[d] = out[d] /\ NameOf(d)' = NameOf(d)
    BY DEF NameOf
  <2>. QED  BY <2>1, <2>2, ZenonT(60) DEF Serving, Served, Remains
<1>. QED  BY <1>1, <1>2 DEF BackupsWill, Busy

\* At the start no backup is listed.
LEMMA BackupsInit == TypeInv /\ Init => BackupsInv
<1>. SUFFICES ASSUME TypeInv, Init PROVE BackupsInv
  OBVIOUS
<1>0. Backup \in SUBSET Reader /\ Thread = Device \cup Backup /\ Device \cap Backup = {}
  BY ReplicationAssumption DEF Reader, Thread
<1>1. PICK v : v = [r \in Backup |-> View(r)]
  OBVIOUS
<1>2. Follows(Backup, v)
  BY <1>0, <1>1, FollowInit DEF Init
<1>3. \A b \in Backup, p \in File :
        disk[b][p] = Gone \/ (b \in Restarted /\ disk[b][p] = <<Old>>)
  <2>1. PICK f \in [File -> {<<v1>> : v1 \in Version} \cup {Gone}] :
         disk = [s \in {Main} \cup Reader |->
                   CASE s \in Restarted -> [p \in File |-> <<Old>>]
                     [] s \in Backup \ Restarted -> [p \in File |-> Gone]
                     [] OTHER -> f]
    BY DEF Init
  <2>. TAKE b \in Backup, p \in File
  <2>2. CASE b \in Restarted
    BY <1>0, <2>1, <2>2
  <2>3. CASE b \notin Restarted
    BY <1>0, <2>1, <2>3
  <2>. QED  BY <2>2, <2>3
<1>4. \A b \in Backup : v[b].files = disk[b] /\ v[b].mode = "servers" /\ v[b].into = Gone
  BY <1>0, <1>1 DEF View, Init
<1>5. \A d \in Device : pc[d] = "idle"
  BY <1>0 DEF Init
<1>6. \A b \in Backup : pc[b] = "out"
  BY <1>0 DEF Init
<1>7. \A b \in Backup : Joining(b, v[b])
  BY <1>3, <1>4, <1>6 DEF Joining, Untouched
<1>8. Len(list) = 0 /\ ToSet(list) = {}
  BY DEF Init, ToSet
<1>. QED  BY <1>0, <1>2, <1>5, <1>6, <1>7, <1>8 DEF BackupsInv, BackupsWill, Busy

\* Reading changes nothing of what a backup will be.
LEMMA BackupsRead ==
  ASSUME TypeInv, BackupsInv, NEW r \in Reader, Receive(r)
  PROVE  BackupsInv'
<1>1. PICK v : Follows(Backup, v) /\ BackupsWill(v)
  BY DEF BackupsInv
<1>2. Follows(Backup, v)'
  BY <1>1, FollowRead DEF Reader
<1>3. disk'[Main] = disk[Main] /\ UNCHANGED <<list, lock, pc, job, plan, out, changes, beats>>
  BY TypeReceive DEF main
<1>4. BackupsWill(v)'
  BY <1>1, <1>3, BackupsKept
<1>. QED  BY <1>2, <1>4 DEF BackupsInv

\* A session that writes to the backups serves them.
LEMMA BackupsServed ==
  ASSUME TypeInv, LockInv, SessionInv, BackupsInv, NEW d \in Device, pc[d] = "backups",
         SendNext(d) \/ WritePart(d)
  PROVE  BackupsInv'
<1>0. Backup \in SUBSET Reader /\ Thread = Device \cup Backup /\ Device \cap Backup = {}
  BY ReplicationAssumption DEF Reader, Thread
<1>1. PICK v : Follows(Backup, v) /\ BackupsWill(v)
  BY DEF BackupsInv
<1>2. PICK p, c : p = job[d].path /\ c = disk[Main][p]
  OBVIOUS
<1>3. /\ list \in Seq(Backup) /\ \A i, j \in 1 .. Len(list) : list[i] = list[j] => i = j
      /\ \A i \in 1 .. Len(list) : list[i] \in Backup /\ list[i] \in ToSet(list)
  BY <1>1, ElementOfSeq DEF BackupsWill, TypeInv, ToSet
<1>4. p \in File
  BY <1>2 DEF TypeInv
<1>5. /\ \A e \in Device : e # d => pc[e] = "idle"
      /\ \A b \in Backup : pc[b] \in {"out", "in"}
  BY <1>0, <1>1 DEF BackupsWill, LockInv, Busy
<1>6. \A b \in Backup : b \in ToSet(list) <=> pc[b] = "in"
  BY <1>1, <1>5 DEF BackupsWill
<1>7. Serving(d, list, v) /\ \A i \in 1 .. Len(list) : v[list[i]].mode = "sync"
  BY <1>1, <1>3, <1>6 DEF BackupsWill, Joining
<1>8. Whole(c) /\ (job[d].op = "delete" <=> c = Gone)
  <2>1. \A e \in Device : pc[e] # "receive"
    BY <1>5
  <2>. QED  BY <1>2, <1>4, <2>1 DEF SessionInv
<1>9. PICK q : q = list
  OBVIOUS
<1>10. \E w : Follows(Backup, w)' /\ Serving(d, q, w)' /\ Serves(Backup, q, v, w, p)
  BY <1>0, <1>1, <1>2, <1>3, <1>7, <1>8, <1>9, ServeNext, ServePart
<1>11. PICK w : Follows(Backup, w)' /\ Serving(d, q, w)' /\ Serves(Backup, q, v, w, p)
  BY <1>10
<1>12. /\ UNCHANGED <<disk, list, pc, job>>
       /\ \A b \in Backup : plan'[b] = plan[b] /\ out'[b] = out[b]
  BY <1>0 DEF SendNext, WritePart, TypeInv
<1>13. ASSUME NEW b \in Backup PROVE Joining(b, w[b])'
  <2>1. Joining(b, v[b]) /\ Beside(v[b], w[b], p)
    BY <1>1, <1>11 DEF BackupsWill, Serves
  <2>2. CASE pc[b] = "out"
    <3>1. w[b] = v[b]
      BY <1>3, <1>6, <1>9, <1>11, <2>2 DEF Serves
    <3>. QED  BY <1>12, <2>1, <3>1, JoiningKept
  <2>3. CASE pc[b] = "in"
    <3>1. w[b].mode = "sync" /\ w[b].peers = list
      BY <2>1, <2>3 DEF Joining, Beside
    <3>2. \A f \in File \ {p} : Matches(b, w[b], f)
      <4>. SUFFICES ASSUME NEW f \in File \ {p} PROVE Matches(b, w[b], f)
        OBVIOUS
      <4>1. \A e \in Device : pc[e] \in {"receive", "devices", "backups"} => job[e].path = p
        BY <1>2, <1>5
      <4>2. Matches(b, v[b], f)
        BY <2>1, <2>3, <4>1 DEF Joining
      <4>. QED  BY <2>1, <4>2 DEF Matches, Beside
    <3>. QED  BY <1>2, <1>12, <2>3, <3>1, <3>2 DEF Joining, Matches
  <2>. QED  BY <1>5, <2>2, <2>3
<1>14. \A e \in Device : pc[e] = "backups" => Serving(e, list, w)'
  <2>1. list' = q
    BY <1>9, <1>12
  <2>. QED  BY <1>5, <1>11, <2>1
<1>15. BackupsWill(w)'
  BY <1>1, <1>12, <1>13, <1>14 DEF BackupsWill, Busy
<1>. QED  BY <1>11, <1>15 DEF BackupsInv

\* Before the mutex a session writes to the devices.
LEMMA BackupsSpared ==
  ASSUME TypeInv, LockInv, BackupsInv, NEW d \in Device, pc[d] # "backups",
         SendNext(d) \/ WritePart(d)
  PROVE  BackupsInv'
<1>0. Backup \in SUBSET Reader /\ Thread = Device \cup Backup /\ Device \cap Backup = {}
  BY ReplicationAssumption DEF Reader, Thread
<1>1. pc[d] = "devices" /\ Targets(d) = Device
  BY <1>0 DEF LockInv, SendNext, WritePart, Sent, Targets
<1>2. /\ UNCHANGED <<disk, list, pc, job, mode, into, got, peers>>
      /\ \A u \in Thread \ {d} : plan'[u] = plan[u] /\ out'[u] = out[u]
  BY <1>0 DEF SendNext, WritePart, readers, TypeInv
<1>3. \A r \in Backup : chan'[r] = chan[r]
  <2>1. CASE SendNext(d)
    <3>1. plan[d] # <<>> /\ OnlyTo(plan[d], Targets(d)) /\ \E S : plan[d] \in Seq(S)
      BY <1>0, <2>1 DEF SendNext, LockInv, TypeInv
    <3>2. Head(plan[d]).to \in Device
      BY <1>1, <3>1, RestTo
    <3>. QED  BY <1>0, <2>1, <3>2 DEF SendNext, Write, TypeInv
  <2>2. CASE WritePart(d)
    <3>1. out[d] # <<>> /\ OnlyTo(out[d], Targets(d)) /\ \E S : out[d] \in Seq(S)
      BY <1>0, <2>2 DEF WritePart, LockInv, TypeInv
    <3>2. Head(out[d]).to \in Device
      BY <1>1, <3>1, RestTo
    <3>. QED  BY <1>0, <2>2, <3>2 DEF WritePart, Write, TypeInv
  <2>. QED  BY <2>1, <2>2
<1>4. \A r \in Backup : View(r)' = View(r)
  BY <1>2 DEF View
<1>5. PICK v : Follows(Backup, v) /\ BackupsWill(v)
  BY DEF BackupsInv
<1>6. Follows(Backup, v)'
  <2>1. v \in [Backup -> State]
    BY <1>5 DEF Follows
  <2>. QED  BY <1>0, <1>3, <1>4, <1>5, <2>1, FollowSend
<1>7. BackupsWill(v)'
  <2>1. \A b \in Backup : plan'[b] = plan[b] /\ out'[b] = out[b]
    BY <1>0, <1>2
  <2>2. \A e \in Device : pc[e] = "backups" => plan'[e] = plan[e] /\ out'[e] = out[e]
    BY <1>0, <1>1, <1>2
  <2>. QED  BY <1>2, <1>5, <2>1, <2>2, BackupsKept
<1>. QED  BY <1>6, <1>7 DEF BackupsInv

\* A session alone takes its change of the file p one further.
LEMMA BackupsTurn ==
  ASSUME TypeInv, LockInv, NEW v, BackupsWill(v), NEW d \in Device, NEW p \in File,
         \A t \in Thread \ {d} : pc[t] \in {"idle", "out", "in"} /\ pc'[t] = pc[t],
         list' = list, \A f \in File \ {p} : disk'[Main][f] = disk[Main][f],
         pc[d] = "idle" \/ job[d].path = p,
         \A b \in Backup : pc[b] = "in" =>
           /\ pc'[d] = "backups" \/ v[b].into = Gone
           /\ \/ pc'[d] \in {"receive", "devices", "backups"} /\ job'[d].path = p
              \/ Matches(b, v[b], p)',
         pc'[d] = "backups" => Serving(d, list, v)'
  PROVE  BackupsWill(v)'
<1>0. Thread = Device \cup Backup /\ Device \cap Backup = {}
  BY ReplicationAssumption DEF Thread
<1>1. \A t \in Thread \ {d} : ~ (pc'[t] \notin {"idle", "out", "in"})
  OBVIOUS
<1>2. \A s, t \in Thread : Busy(s)' /\ Busy(t)' => s = t
  BY <1>1 DEF Busy
<1>3. \A e \in Device : pc'[e] = "backups" => Serving(e, list, v)'
  BY <1>0, <1>1
<1>4. ASSUME NEW b \in Backup PROVE Joining(b, v[b])'
  <2>1. Joining(b, v[b]) /\ pc[b] \in {"out", "in"} /\ pc'[b] = pc[b]
    BY <1>0 DEF BackupsWill, LockInv
  <2>2. CASE pc[b] = "out"
    BY <2>1, <2>2 DEF Joining, Untouched
  <2>3. CASE pc[b] = "in"
    <3>1. v[b].mode = "sync" /\ v[b].peers = list
      BY <2>1, <2>3 DEF Joining
    <3>2. \A f \in File \ {p} : Matches(b, v[b], f)'
      <4>. SUFFICES ASSUME NEW f \in File \ {p} PROVE Matches(b, v[b], f)'
        OBVIOUS
      <4>1. \A e \in Device : pc[e] \in {"receive", "devices", "backups"} => job[e].path = p
        BY <1>0
      <4>2. Matches(b, v[b], f)
        BY <2>1, <2>3, <4>1 DEF Joining
      <4>. QED  BY <4>2 DEF Matches
    <3>3. \A f \in File : \/ Matches(b, v[b], f)'
                          \/ \E e \in Device : pc'[e] \in {"receive", "devices", "backups"} /\ job'[e].path = f
      BY <2>3, <3>2
    <3>. QED  BY <2>1, <2>3, <3>1, <3>3 DEF Joining
  <2>. QED  BY <2>1, <2>2, <2>3
<1>5. \A b \in Backup : pc'[b] = pc[b]
  BY <1>0
<1>. QED  BY <1>2, <1>3, <1>4, <1>5 DEF BackupsWill

\* The steps of a session: it serves the listed backups, all of which are filled.
LEMMA BackupsSession ==
  ASSUME TypeInv, LockInv, SessionInv, BackupsInv, Overlaps = {}, NEW d \in Device,
         Session(d) \/ EndUpload(d) \/ LockServerList(d) \/ UnlockServerList(d)
  PROVE  BackupsInv'
<1>0. /\ Backup \in SUBSET Reader /\ Main \notin Reader
      /\ Thread = Device \cup Backup /\ Device \cap Backup = {}
  BY ReplicationAssumption DEF Thread, Reader
<1>1. PICK v : Follows(Backup, v) /\ BackupsWill(v)
  BY DEF BackupsInv
<1>2. \A t \in Thread \ {d} : pc[t] \in {"idle", "out", "in"} /\ pc'[t] = pc[t]
  <2>1. \A t \in Thread \ {d} : ~ Busy(t)
    <3>1. CASE Session(d)
      BY <1>0, <3>1 DEF Session, BeginUpload, BeginDelete, MayChange, Apart
    <3>2. CASE EndUpload(d) \/ LockServerList(d) \/ UnlockServerList(d)
      <4>1. Busy(d)
        BY <3>2 DEF EndUpload, LockServerList, UnlockServerList, Busy
      <4>. QED  BY <1>0, <1>1, <4>1 DEF BackupsWill
    <3>. QED  BY <3>1, <3>2
  <2>2. \A t \in Thread \ {d} : pc[t] \in {"idle", "out", "in"}
    BY <2>1 DEF Busy
  <2>3. \A t \in Thread \ {d} : pc'[t] = pc[t]
    <3>1. ASSUME NEW p \in File, BeginDelete(d, p) PROVE \A t \in Thread \ {d} : pc'[t] = pc[t]
      <4>1. \A t \in Thread \ {d} : pc[t] # "receive"
        BY <2>2
      <4>. QED  BY <3>1, <4>1 DEF BeginDelete
    <3>2. ~ (\E p \in File : BeginDelete(d, p)) => pc' = [pc EXCEPT ![d] = pc'[d]]
      BY <1>0 DEF Session, BeginUpload, EndUpload, LockServerList, UnlockServerList, TypeInv
    <3>. QED  BY <3>1, <3>2 DEF TypeInv
  <2>. QED  BY <2>2, <2>3
<1>3. UNCHANGED <<chan, list, mode, into, got, peers>> /\ \A r \in Backup : disk'[r] = disk[r]
  BY <1>0 DEF Session, BeginUpload, BeginDelete, EndUpload, LockServerList, UnlockServerList,
     readers, TypeInv
<1>4. Follows(Backup, v)'
  <2>1. \A r \in Backup : View(r)' = View(r)
    BY <1>3 DEF View
  <2>2. v \in [Backup -> State]
    BY <1>1 DEF Follows
  <2>. QED  BY <1>0, <1>1, <1>3, <2>1, <2>2, FollowSend
<1>5. \A b \in Backup : pc[b] = "in" /\ pc[d] # "backups" => v[b].into = Gone
  <2>1. \A e \in Device : e # d => pc[e] # "backups"
    BY <1>0, <1>2
  <2>. QED  BY <1>1, <2>1 DEF BackupsWill, Joining
<1>6. /\ list \in Seq(Backup) /\ \A b \in Backup : pc[b] = "in" => \E i \in 1 .. Len(list) : list[i] = b
      /\ \A i \in 1 .. Len(list) : list[i] \in Backup /\ pc[list[i]] = "in"
  <2>1. list \in Seq(Backup) /\ \A i \in 1 .. Len(list) : list[i] \in Backup /\ list[i] \in ToSet(list)
    BY ElementOfSeq DEF TypeInv, ToSet
  <2>2. \A b \in Backup : pc[b] \in {"out", "in"}
    BY <1>0, <1>2 DEF LockInv
  <2>3. \A b \in Backup : b \in ToSet(list) => \E i \in 1 .. Len(list) : list[i] = b
    BY <2>1 DEF ToSet
  <2>. QED  BY <1>1, <2>1, <2>2, <2>3 DEF BackupsWill
<1>7. ASSUME NEW p \in File, NEW u \in Version, NEW n \in Sizes, BeginUpload(d, p, u, n)
      PROVE  BackupsWill(v)'
  <2>1. /\ pc[d] = "idle" /\ pc'[d] = "receive" /\ job'[d].path = p
        /\ \A f \in File \ {p} : disk'[Main][f] = disk[Main][f]
    BY <1>0, <1>7 DEF BeginUpload, TypeInv
  <2>. QED  BY <1>1, <1>2, <1>3, <1>5, <2>1, BackupsTurn
<1>8. ASSUME NEW p \in File, BeginDelete(d, p) PROVE BackupsWill(v)'
  <2>1. /\ pc[d] = "idle" /\ pc'[d] = "devices" /\ job'[d].path = p
        /\ \A f \in File \ {p} : disk'[Main][f] = disk[Main][f]
    BY <1>0, <1>8 DEF BeginDelete, TypeInv
  <2>. QED  BY <1>1, <1>2, <1>3, <1>5, <2>1, BackupsTurn
<1>9. PICK p : p = job[d].path /\ p \in File
  BY DEF TypeInv
<1>10. ASSUME EndUpload(d) PROVE BackupsWill(v)'
  <2>1. /\ pc[d] = "receive" /\ pc'[d] = "devices" /\ job'[d].path = p
        /\ \A f \in File \ {p} : disk'[Main][f] = disk[Main][f]
    BY <1>0, <1>9, <1>10 DEF EndUpload, TypeInv, SessionInv
  <2>. QED  BY <1>1, <1>2, <1>3, <1>5, <1>9, <2>1, BackupsTurn
<1>11. ASSUME LockServerList(d) PROVE BackupsWill(v)'
  <2>1. /\ pc[d] = "devices" /\ Sent(d) /\ pc'[d] = "backups" /\ job' = job /\ disk' = disk
        /\ out' = out /\ plan'[d] = To(list, NameOf(d)) /\ NameOf(d)' = NameOf(d)
    BY <1>0, <1>11 DEF LockServerList, TypeInv, NameOf
  <2>2. PICK q : q = list
    OBVIOUS
  <2>3. /\ q \in Seq(Backup) /\ plan'[d] = To(q, NameOf(d)') /\ out'[d] = <<>>
        /\ \A i \in 1 .. Len(q) : v[q[i]].into = Gone
    BY <1>5, <1>6, <2>1, <2>2 DEF Sent
  <2>4. Serving(d, q, v)'
    BY <2>3, ServeFirst
  <2>5. Serving(d, list, v)'
    <3>1. list' = q
      BY <1>3, <2>2
    <3>. QED  BY <2>4, <3>1
  <2>. QED  BY <1>1, <1>2, <1>3, <1>9, <2>1, <2>5, BackupsTurn
<1>12. ASSUME UnlockServerList(d) PROVE BackupsWill(v)'
  <2>1. pc[d] = "backups" /\ Sent(d) /\ pc'[d] = "idle" /\ job' = job /\ disk' = disk
    BY <1>0, <1>12 DEF UnlockServerList, TypeInv
  <2>2. Serving(d, list, v)
    BY <1>1, <2>1 DEF BackupsWill
  <2>3. \A i \in 1 .. Len(list) : v[list[i]].into = Gone /\ v[list[i]].files[p] = disk[Main][p]
    BY <1>6, <1>9, <2>1, <2>2, ServeLast
  <2>4. \A b \in Backup : pc[b] = "in" => v[b].into = Gone /\ v[b].files[p] = disk[Main][p]
    BY <1>6, <2>3
  <2>5. \A b \in Backup : pc[b] = "in" => v[b].into = Gone /\ Matches(b, v[b], p)'
    BY <2>1, <2>4 DEF Matches
  <2>. QED  BY <1>1, <1>2, <1>3, <1>9, <2>1, <2>5, BackupsTurn
<1>13. BackupsWill(v)'
  BY <1>7, <1>8, <1>10, <1>11, <1>12 DEF Session
<1>. QED  BY <1>4, <1>13 DEF BackupsInv

-----------------------------------------------------------------------------
(* The joiners.                                                            *)

\* A joiner, alone, takes its server one further.
LEMMA JoinerStep ==
  ASSUME TypeInv, LockInv, NEW v, Follows(Backup, v), BackupsWill(v), NEW b \in Backup, Busy(b),
         UNCHANGED <<disk, list, job, mode, into, got, peers>>,
         \A t \in Thread \ {b} : pc'[t] = pc[t] /\ plan'[t] = plan[t] /\ out'[t] = out[t],
         pc'[b] # "out", NEW e \in State, Joining(b, e)',
         \/ chan' = chan /\ e = v[b]
         \/ \E k \in Wire : chan' = [chan EXCEPT ![b] = Append(@, k)] /\ Reads(b, v[b], k, e)
  PROVE  BackupsInv'
<1>0. Backup \in SUBSET Reader /\ Thread = Device \cup Backup /\ Device \cap Backup = {}
  BY ReplicationAssumption DEF Reader, Thread
<1>1. PICK w : w = [v EXCEPT ![b] = e]
  OBVIOUS
<1>2. w \in [Backup -> State] /\ w[b] = e /\ \A r \in Backup \ {b} : w[r] = v[r]
  BY <1>1 DEF Follows
<1>3. Follows(Backup, w)'
  <2>1. \A r \in Backup : View(r)' = View(r)
    BY DEF View
  <2>2. \A r \in Backup : \/ chan'[r] = chan[r] /\ w[r] = v[r]
                          \/ \E k \in Wire : chan'[r] = Append(chan[r], k) /\ Reads(r, v[r], k, w[r])
    <3>1. CASE chan' = chan /\ e = v[b]
      BY <1>2, <3>1
    <3>2. ASSUME NEW k \in Wire, chan' = [chan EXCEPT ![b] = Append(@, k)], Reads(b, v[b], k, e)
          PROVE  \A r \in Backup :
                   \/ chan'[r] = chan[r] /\ w[r] = v[r]
                   \/ \E x \in Wire : chan'[r] = Append(chan[r], x) /\ Reads(r, v[r], x, w[r])
      <4>1. /\ chan'[b] = Append(chan[b], k)
            /\ \A r \in Backup \ {b} : chan'[r] = chan[r]
        BY <1>0, <3>2 DEF TypeInv
      <4>. QED  BY <1>2, <3>2, <4>1
    <3>. QED  BY <3>1, <3>2
  <2>. QED  BY <1>0, <1>2, <2>1, <2>2, FollowSend
<1>4. \A t \in Thread \ {b} : pc[t] \in {"idle", "out", "in"} /\ pc'[t] = pc[t]
  BY <1>0 DEF BackupsWill, Busy
<1>5. ASSUME NEW a \in Backup \ {b} PROVE Joining(a, w[a])'
  <2>1. Joining(a, v[a])
    BY DEF BackupsWill
  <2>2. Joining(a, v[a])'
    BY <1>0, <2>1, JoiningKept
  <2>. QED  BY <1>2, <2>2
<1>6. \A a \in Backup : Joining(a, w[a])'
  BY <1>2, <1>5
<1>7. \A s, t \in Thread : Busy(s)' /\ Busy(t)' => s = t
  BY <1>4 DEF Busy
<1>8. \A d \in Device : pc'[d] # "backups"
  BY <1>0, <1>4
<1>9. \A a \in Backup : a \in ToSet(list) <=> pc'[a] # "out"
  BY <1>0 DEF BackupsWill, Busy
<1>10. BackupsWill(w)'
  BY <1>6, <1>7, <1>8, <1>9 DEF BackupsWill
<1>. QED  BY <1>3, <1>10 DEF BackupsInv

\* The lists, the files, the end.
LEMMA JoinerLists ==
  ASSUME TypeInv, LockInv, BackupsInv, NEW b \in Backup,
         BackupServerList(b) \/ BackupClientList(b) \/ Joined(b)
  PROVE  BackupsInv'
<1>0. Backup \subseteq Thread /\ b \in Reader
  BY DEF Reader, Thread
<1>1. PICK v : Follows(Backup, v) /\ BackupsWill(v)
  BY DEF BackupsInv
<1>2. Joining(b, v[b]) /\ v[b] \in State
  BY <1>1 DEF BackupsWill, Follows
<1>3. /\ Busy(b) /\ UNCHANGED <<disk, list, job, plan, out, mode, into, got, peers>>
      /\ \A t \in Thread \ {b} : pc'[t] = pc[t]
  BY <1>0 DEF BackupServerList, BackupClientList, Joined, Busy, readers, TypeInv
<1>4. CASE BackupServerList(b)
  <2>1. /\ pc[b] = "list" /\ pc'[b] = "clients"
        /\ chan' = [chan EXCEPT ![b] = Append(@, ServerInfo(list))]
    BY <1>0, <1>4 DEF BackupServerList, Write, TypeInv
  <2>2. ServerInfo(list) \in Wire
    <3>1. list # <<>>
      <4>1. b \in ToSet(list)
        BY <1>1, <2>1 DEF BackupsWill
      <4>2. list = <<>> => ToSet(list) = {}
        BY DEF ToSet
      <4>. QED  BY <4>1, <4>2
    <3>. QED  BY <3>1, WireIs DEF TypeInv
  <2>3. PICK e : e = [files |-> v[b].files, mode |-> "clients", into |-> Gone, got |-> v[b].got,
                      peers |-> list]
    OBVIOUS
  <2>4. e \in State
    BY <1>2, <2>3 DEF State, TypeInv
  <2>5. v[b].mode = "servers" /\ Untouched(b, v[b])
    BY <1>2, <2>1 DEF Joining
  <2>6. Reads(b, v[b], ServerInfo(list), e)
    BY <2>3, <2>5 DEF Reads, ReadsList, ServerInfo, Untouched
  <2>7. Joining(b, e)'
    BY <1>3, <2>1, <2>3, <2>5 DEF Joining, Untouched
  <2>. QED  BY <1>1, <1>3, <2>1, <2>2, <2>4, <2>6, <2>7, JoinerStep
<1>5. CASE BackupClientList(b)
  <2>1. /\ pc[b] = "clients" /\ pc'[b] = "files" /\ chan' = [chan EXCEPT ![b] = Append(@, Eot)]
    BY <1>0, <1>5 DEF BackupClientList, Write, TypeInv
  <2>2. Eot \in Wire
    BY WireIs
  <2>3. PICK e : e = [files |-> v[b].files, mode |-> "sync_dir", into |-> Gone, got |-> v[b].got,
                      peers |-> v[b].peers]
    OBVIOUS
  <2>4. e \in State
    BY <1>2, <2>3 DEF State
  <2>5. v[b].mode = "clients" /\ Untouched(b, v[b]) /\ v[b].peers = list
    BY <1>2, <2>1 DEF Joining
  <2>6. Reads(b, v[b], Eot, e)
    BY <2>3, <2>5 DEF Reads, ReadsEot, Eot, Untouched
  <2>7. Joining(b, e)'
    BY <1>3, <2>1, <2>3, <2>5 DEF Joining, Untouched
  <2>. QED  BY <1>1, <1>3, <2>1, <2>2, <2>4, <2>6, <2>7, JoinerStep
<1>6. CASE Joined(b)
  <2>1. pc[b] = "backups" /\ Sent(b) /\ pc'[b] = "in" /\ chan' = chan
    BY <1>0, <1>6 DEF Joined, TypeInv
  <2>2. Filling(b, v[b]) /\ v[b].peers = list
    BY <1>2, <2>1 DEF Joining
  <2>3. v[b].into = Gone /\ v[b].mode = "sync"
    <3>1. out[b] # <<[to |-> b, packet |-> Err]>>
      BY <2>1 DEF Sent
    <3>. QED  BY <2>1, <2>2, <3>1 DEF Filling, Receiving, Sent
  <2>4. \A p \in File : Matches(b, v[b], p)
    <3>1. Len(plan[b]) = 0 /\ Gone \notin File
      BY <2>1, ReplicationAssumption DEF Sent
    <3>. QED  BY <2>2, <2>3, <3>1 DEF Filling
  <2>5. Joining(b, v[b])'
    BY <1>3, <2>1, <2>2, <2>3, <2>4 DEF Joining, Matches
  <2>. QED  BY <1>1, <1>2, <1>3, <2>1, <2>5, JoinerStep
<1>. QED  BY <1>4, <1>5, <1>6

\* The directory is read: every file of the main server is to be sent, and the
\* others are missing or of the earlier run.
LEMMA JoinerReads ==
  ASSUME TypeInv, LockInv, BackupsInv, NEW b \in Backup, BackupSyncDir(b)
  PROVE  BackupsInv'
<1>0. b \in Thread /\ b \in Reader /\ Gone \notin File
  BY ReplicationAssumption DEF Reader, Thread
<1>1. PICK v : Follows(Backup, v) /\ BackupsWill(v)
  BY DEF BackupsInv
<1>2. PICK s \in State : s = v[b]
  BY <1>1 DEF Follows
<1>. DEFINE S == {p \in File : disk[Main][p] # Gone}
            N == Cardinality(S)
            e == [to |-> b, packet |-> Err]
<1>3. PICK order \in SetToSeqs(S) :
        /\ plan' = [plan EXCEPT ![b] = NamesOf(b, order, N)]
        /\ out' = [out EXCEPT ![b] = IF N = 0 THEN <<e>> ELSE <<>>]
  BY Zenon DEF BackupSyncDir, NamesOf
<1>4. /\ pc[b] = "files" /\ Busy(b) /\ pc'[b] = "backups"
      /\ \A t \in Thread \ {b} : pc'[t] = pc[t] /\ plan'[t] = plan[t] /\ out'[t] = out[t]
      /\ UNCHANGED <<disk, chan, list, job, mode, into, got, peers>>
  BY <1>0, <1>3 DEF BackupSyncDir, Busy, readers, TypeInv
<1>5. s.mode = "sync_dir" /\ Untouched(b, s) /\ s.peers = list
  BY <1>1, <1>2, <1>4 DEF BackupsWill, Joining
<1>6. /\ N \in Nat /\ Len(NamesOf(b, order, N)) = N
      /\ \A i \in 1 .. N : order[i] \in S
      /\ \A i, j \in 1 .. N : order[i] = order[j] => i = j
      /\ \A p \in S : \E i \in 1 .. N : order[i] = p
  <2>1. S \in SUBSET File
    OBVIOUS
  <2>. HIDE DEF S
  <2>. QED  BY <2>1, DirectorySent
<1>. HIDE DEF N, e
<1>7. /\ plan'[b] = NamesOf(b, order, N) /\ Len(plan'[b]) = N
      /\ out'[b] = IF N = 0 THEN <<e>> ELSE <<>>
  BY <1>0, <1>3, <1>6 DEF TypeInv
<1>8. \A i \in 1 .. N : /\ plan'[b][i] = [to |-> b, packet |-> SyncName(order[i], i = N)]
                        /\ Next1(b, i)' = order[i]
  BY <1>7 DEF NamesOf, Next1, SyncName
<1>9. \A i \in 1 .. N : order[i] \in File /\ disk[Main][order[i]] # Gone
  BY <1>6
<1>10. N = 0 <=> plan'[b] = <<>>
  <2>1. CASE N = 0
    <3>1. plan'[b] = [i \in 1 .. 0 |-> [to |-> b, packet |-> SyncName(order[i], i = 0)]]
      BY <1>7, <2>1 DEF NamesOf
    <3>2. 1 .. 0 = {}
      OBVIOUS
    <3>3. plan'[b] \in Seq({}) /\ Len(plan'[b]) = 0
      BY <3>1, <3>2, IsSeq
    <3>. QED  BY <2>1, <3>3, EmptySeq
  <2>2. CASE N # 0
    BY <1>7, <2>2
  <2>. QED  BY <2>1, <2>2
<1>11. \A p \in File : disk[Main][p] = Gone => Matches(b, s, p)'
  BY <1>4, <1>5 DEF Matches, Untouched
<1>12. \A p \in File : disk[Main][p] # Gone => \E i \in 1 .. Len(plan'[b]) : Next1(b, i)' = p
  BY <1>6, <1>7, <1>8
<1>13. Filling(b, s)'
  <2>1. \A i \in 1 .. Len(plan'[b]) :
          /\ Next1(b, i)' \in File /\ disk'[Main][Next1(b, i)'] # Gone
          /\ plan'[b][i] = [to |-> b, packet |-> SyncName(Next1(b, i)', i = Len(plan'[b]))]
    BY <1>4, <1>7, <1>8, <1>9
  <2>2. \A i, j \in 1 .. Len(plan'[b]) : Next1(b, i)' = Next1(b, j)' => i = j
    BY <1>6, <1>7, <1>8
  <2>3. CASE N = 0
    BY <1>5, <1>7, <1>10, <1>11, <1>12, <2>1, <2>2, <2>3 DEF Filling, Untouched, e
  <2>4. CASE N # 0
    BY <1>5, <1>7, <1>10, <1>11, <1>12, <2>1, <2>2, <2>4 DEF Filling, Untouched
  <2>. QED  BY <2>3, <2>4
<1>14. Joining(b, s)'
  BY <1>4, <1>5, <1>13 DEF Joining
<1>. QED  BY <1>1, <1>2, <1>4, <1>14, JoinerStep

\* The next name opens its file, which is still to be filled.
LEMMA JoinerNext ==
  ASSUME TypeInv, LockInv, SessionInv, BackupsInv, NEW b \in Backup, SendNext(b)
  PROVE  BackupsInv'
<1>0. b \in Thread /\ b \in Reader /\ Thread = Device \cup Backup /\ Device \cap Backup = {}
  BY ReplicationAssumption DEF Reader, Thread
<1>1. PICK v : Follows(Backup, v) /\ BackupsWill(v)
  BY DEF BackupsInv
<1>2. PICK s \in State : s = v[b]
  BY <1>1 DEF Follows
<1>3. /\ plan[b] # <<>> /\ out[b] = <<>>
      /\ Write(Head(plan[b]).to, Head(plan[b]).packet)
      /\ out' = [out EXCEPT ![b] = IF Head(plan[b]).packet.type = "data"
                                   THEN SendFile(Head(plan[b]).to, disk[Main][Head(plan[b]).packet.payload])
                                   ELSE <<>>]
      /\ plan' = [plan EXCEPT ![b] = Tail(@)]
      /\ UNCHANGED <<disk, list, pc, job, mode, into, got, peers>>
  BY DEF SendNext, readers
<1>4. pc[b] = "backups" /\ Busy(b) /\ \A d \in Device : pc[d] = "idle"
  <2>1. pc[b] = "backups"
    BY <1>3 DEF LockInv, Sent
  <2>2. \A d \in Device : ~ Busy(d)
    BY <1>0, <1>1, <2>1 DEF BackupsWill, Busy
  <2>. QED  BY <2>1, <2>2 DEF LockInv, Busy
<1>5. Filling(b, s) /\ s.peers = list
  BY <1>1, <1>2, <1>4 DEF BackupsWill, Joining
<1>6. s.into = Gone /\ s.mode = "sync_dir"
  BY <1>3, <1>5 DEF Filling, Receiving
<1>7. PICK n : n = Len(plan[b])
  OBVIOUS
<1>8. /\ Head(plan[b]) = plan[b][1] /\ n \in Nat /\ n >= 1
      /\ Len(Tail(plan[b])) = n - 1 /\ (Tail(plan[b]) = <<>> <=> n = 1)
      /\ \A i \in 1 .. n - 1 : Tail(plan[b])[i] = plan[b][i+1]
  <2>1. PICK S : plan[b] \in Seq(S)
    BY <1>0 DEF TypeInv
  <2>2. /\ Head(plan[b]) = plan[b][1] /\ n \in Nat /\ n >= 1 /\ Tail(plan[b]) \in Seq(S)
        /\ Len(Tail(plan[b])) = n - 1
        /\ \A i \in 1 .. n - 1 : Tail(plan[b])[i] = plan[b][i+1]
    BY <1>3, <1>7, <2>1, FirstOf
  <2>3. Tail(plan[b]) = <<>> => Len(Tail(plan[b])) = 0
    BY EmptySeq, Zenon
  <2>4. Len(Tail(plan[b])) = 0 => Tail(plan[b]) = <<>>
    BY <2>2, EmptySeq
  <2>5. n - 1 = 0 <=> n = 1
    BY <2>2
  <2>. QED  BY <2>2, <2>3, <2>4, <2>5
<1>9. PICK x, c, k : x = Next1(b, 1) /\ c = disk[Main][x] /\ k = SyncName(x, 1 = n)
  OBVIOUS
<1>10. /\ 1 \in 1 .. n /\ x \in File /\ c # Gone /\ k \in Wire
       /\ Head(plan[b]).to = b /\ Head(plan[b]).packet = k
  <2>1. 1 \in 1 .. n
    BY <1>8
  <2>2. x \in File /\ c # Gone /\ plan[b][1] = [to |-> b, packet |-> k]
    BY <1>5, <1>7, <1>9, <2>1 DEF Filling
  <2>3. k \in Wire
    <3>1. SyncName(x, 1 = n) \in Names
      BY <2>2, WireIs
    <3>. QED  BY <1>9, <3>1, WireIs
  <2>4. Head(plan[b]) = [to |-> b, packet |-> k]
    BY <1>8, <2>2
  <2>. QED  BY <2>1, <2>2, <2>3, <2>4
<1>11. c \in Seq(Version) /\ Len(c) \in Nat \ {0} /\ Len(c) <= 2^Width - 1
  <2>1. Whole(c)
    BY <1>4, <1>9, <1>10 DEF SessionInv
  <2>. QED  BY <1>9, <1>10, <2>1, LenProperties DEF Whole, TypeInv
<1>12. PICK m \in {"sync_dir", "sync"} : m = IF n = 1 THEN "sync" ELSE "sync_dir"
  OBVIOUS
<1>13. k.type = "data" /\ k.payload = x /\ "last" \in DOMAIN k /\ k.last = (1 = n)
  BY <1>9 DEF SyncName
<1>14. m = IF k.last THEN "sync" ELSE "sync_dir"
  BY <1>12, <1>13
<1>15. PICK e \in State :
         /\ ReadsName(s, k, e, m) /\ Midway(e, x, c, 0)
         /\ e.mode = m /\ e.peers = s.peers
         /\ \A f \in File \ {x} : e.files[f] = s.files[f]
  BY <1>6, <1>10, <1>11, <1>13, <1>14, NameRead
<1>16. chan' = [chan EXCEPT ![b] = Append(@, k)] /\ Reads(b, s, k, e)
  BY <1>3, <1>10, <1>15 DEF Write, Reads
<1>17. /\ plan'[b] = Tail(plan[b]) /\ out'[b] = SendFile(b, c)
       /\ \A t \in Thread \ {b} : plan'[t] = plan[t] /\ out'[t] = out[t]
  BY <1>0, <1>3, <1>9, <1>10, <1>13 DEF TypeInv
<1>18. out'[b] # <<>> /\ Len(out'[b]) = Len(c) /\ Remains(b, b, c)'
  <2>1. /\ Len(out'[b]) = Len(c)
        /\ \A i \in 1 .. Len(c) : out'[b][i] = [to |-> b, packet |-> Part(c[i], Len(c))]
    BY <1>0, <1>10, <1>11, <1>17, FileSent
  <2>2. \A i \in 1 .. Len(c) : Len(c) - Len(c) + i = i
    BY <1>11
  <2>3. Remains(b, b, c)'
    BY <1>11, <2>1, <2>2 DEF Remains, LastOf
  <2>. QED  BY <1>11, <2>1, <2>3
<1>19. /\ Len(plan'[b]) = n - 1
       /\ \A i \in 1 .. n - 1 : i + 1 \in 1 .. n /\ plan'[b][i] = plan[b][i+1] /\ Next1(b, i)' = Next1(b, i+1)
  <2>1. \A i \in 1 .. n - 1 : i + 1 \in 1 .. n
    BY <1>8
  <2>. QED  BY <1>8, <1>17, <2>1 DEF Next1
<1>20. \A i \in 1 .. n :
         /\ Next1(b, i) \in File /\ disk[Main][Next1(b, i)] # Gone
         /\ plan[b][i] = [to |-> b, packet |-> SyncName(Next1(b, i), i = n)]
  BY <1>5, <1>7 DEF Filling
<1>21. \A i, j \in 1 .. n : Next1(b, i) = Next1(b, j) => i = j
  BY <1>5, <1>7 DEF Filling
<1>22. \A i \in 1 .. n - 1 :
         /\ Next1(b, i)' \in File /\ disk'[Main][Next1(b, i)'] # Gone
         /\ plan'[b][i] = [to |-> b, packet |-> SyncName(Next1(b, i)', i = n - 1)]
  <2>. TAKE i \in 1 .. n - 1
  <2>1. (i + 1 = n) = (i = n - 1)
    BY <1>8
  <2>2. plan[b][i+1] = [to |-> b, packet |-> SyncName(Next1(b, i+1), i + 1 = n)]
    BY <1>19, <1>20
  <2>3. plan[b][i+1] = [to |-> b, packet |-> SyncName(Next1(b, i+1), i = n - 1)]
    BY <2>1, <2>2 DEF SyncName
  <2>. QED  BY <1>3, <1>19, <1>20, <2>3
<1>23. \A i, j \in 1 .. n - 1 : Next1(b, i)' = Next1(b, j)' => i = j
  <2>. TAKE i, j \in 1 .. n - 1
  <2>1. i + 1 = j + 1 => i = j
    BY <1>8
  <2>. QED  BY <1>19, <1>21, <2>1
<1>24. e.into = x /\ \A i \in 1 .. n - 1 : Next1(b, i)' # x
  <2>1. \A i \in 1 .. n - 1 : i + 1 # 1
    BY <1>8
  <2>. QED  BY <1>9, <1>10, <1>15, <1>19, <1>21, <2>1 DEF Midway
<1>25. \A p \in File \ {x} : Matches(b, e, p)' \/ \E i \in 1 .. n - 1 : Next1(b, i)' = p
  <2>. TAKE p \in File \ {x}
  <2>1. CASE Matches(b, s, p)
    BY <1>3, <1>15, <2>1 DEF Matches
  <2>2. ASSUME NEW i \in 1 .. n, Next1(b, i) = p PROVE \E j \in 1 .. n - 1 : Next1(b, j)' = p
    <3>1. PICK j : j = i - 1
      OBVIOUS
    <3>2. i # 1
      BY <1>9, <2>2
    <3>3. j \in 1 .. n - 1 /\ j + 1 = i
      BY <1>8, <3>1, <3>2
    <3>. QED  BY <1>19, <2>2, <3>3
  <2>3. p # s.into
    BY <1>6, ReplicationAssumption
  <2>. QED  BY <1>5, <1>7, <2>1, <2>2, <2>3 DEF Filling
<1>26. e.mode = IF plan'[b] = <<>> THEN "sync" ELSE "sync_dir"
  BY <1>8, <1>12, <1>15, <1>17
<1>27. Midway(e, x, c, Len(c) - Len(out'[b]))
  <2>1. Len(c) - Len(out'[b]) = 0
    BY <1>11, <1>18
  <2>. QED  BY <1>15, <2>1
<1>28. Filling(b, e)'
  <2>1. disk'[Main][e.into] = c
    BY <1>3, <1>9, <1>24
  <2>2. Receiving(b, e)'
    BY <1>10, <1>18, <1>24, <1>27, <2>1 DEF Receiving, Remains, Midway
  <2>. QED
    BY <1>19, <1>22, <1>23, <1>24, <1>25, <1>26, <2>2 DEF Filling
<1>29. Joining(b, e)'
  BY <1>3, <1>4, <1>5, <1>15, <1>28 DEF Joining
<1>30. \A t \in Thread \ {b} : pc'[t] = pc[t] /\ plan'[t] = plan[t] /\ out'[t] = out[t]
  BY <1>3, <1>17
<1>. QED  BY <1>1, <1>2, <1>3, <1>4, <1>10, <1>16, <1>29, <1>30, JoinerStep

\* The next fragment, or the word that there are no files.
LEMMA JoinerPart ==
  ASSUME TypeInv, LockInv, BackupsInv, NEW b \in Backup, WritePart(b)
  PROVE  BackupsInv'
<1>0. b \in Thread /\ b \in Reader /\ Thread = Device \cup Backup /\ Gone \notin File
  BY ReplicationAssumption DEF Reader, Thread
<1>1. PICK v : Follows(Backup, v) /\ BackupsWill(v)
  BY DEF BackupsInv
<1>2. PICK s \in State : s = v[b]
  BY <1>1 DEF Follows
<1>3. /\ out[b] # <<>>
      /\ Write(Head(out[b]).to, Head(out[b]).packet)
      /\ out' = [out EXCEPT ![b] = Tail(@)]
      /\ UNCHANGED <<disk, list, pc, job, plan, mode, into, got, peers>>
  BY DEF WritePart, readers
<1>4. pc[b] = "backups" /\ Busy(b)
  BY <1>3 DEF LockInv, Sent, Busy
<1>5. Filling(b, s) /\ s.peers = list
  BY <1>1, <1>2, <1>4 DEF BackupsWill, Joining
<1>6. \A t \in Thread \ {b} : pc'[t] = pc[t] /\ plan'[t] = plan[t] /\ out'[t] = out[t]
  BY <1>3 DEF TypeInv
<1>7. /\ out'[b] = Tail(out[b]) /\ plan'[b] = plan[b] /\ \A i : Next1(b, i)' = Next1(b, i)
  BY <1>0, <1>3 DEF TypeInv, Next1
<1>8. CASE out[b] = <<[to |-> b, packet |-> Err]>> /\ plan[b] = <<>> /\ s.into = Gone /\ s.mode = "sync_dir"
  <2>1. PICK h : h = [to |-> b, packet |-> Err]
    OBVIOUS
  <2>2. h.to = b /\ h.packet = Err /\ out[b] = <<h>>
    BY <1>8, <2>1
  <2>3. Head(<<h>>) = h /\ Tail(<<h>>) = <<>>
    OBVIOUS
  <2>4. out'[b] = <<>> /\ chan' = [chan EXCEPT ![b] = Append(@, Err)]
    BY <1>3, <1>7, <2>2, <2>3 DEF Write
  <2>5. Err \in Wire /\ "last" \notin DOMAIN Err
    BY WireIs DEF Err
  <2>6. PICK e : e = [files |-> s.files, mode |-> "sync", into |-> Gone, got |-> s.got, peers |-> s.peers]
    OBVIOUS
  <2>7. e \in State
    BY <2>6 DEF State
  <2>8. Reads(b, s, Err, e)
    BY <1>8, <2>5, <2>6 DEF Reads, ReadsNone
  <2>9. Len(plan[b]) = 0 /\ \A p \in File : Matches(b, s, p)
    BY <1>0, <1>5, <1>8 DEF Filling
  <2>10. \A p \in File : Matches(b, e, p)'
    BY <1>3, <2>6, <2>9 DEF Matches
  <2>11. Filling(b, e)'
    BY <1>7, <1>8, <2>4, <2>6, <2>9, <2>10 DEF Filling
  <2>12. Joining(b, e)'
    BY <1>3, <1>4, <1>5, <2>6, <2>11 DEF Joining
  <2>. QED  BY <1>1, <1>2, <1>3, <1>4, <1>6, <2>4, <2>5, <2>7, <2>8, <2>12, JoinerStep
<1>9. CASE /\ Receiving(b, s)
           /\ \A i \in 1 .. Len(plan[b]) : Next1(b, i) # s.into
           /\ s.mode = IF plan[b] = <<>> THEN "sync" ELSE "sync_dir"
  <2>1. PICK p, c : p = s.into /\ c = disk[Main][p]
    OBVIOUS
  <2>2. c \in Seq(Version) /\ Len(c) \in Nat /\ Len(c) <= 2^Width - 1 /\ p \in File
    BY <1>9, <2>1, LenProperties DEF Receiving, Remains
  <2>3. /\ Len(out[b]) \in 1 .. Len(c)
        /\ Head(out[b]) = [to |-> b, packet |-> Part(c[Len(c) - Len(out[b]) + 1], Len(c))]
        /\ Len(out'[b]) = Len(out[b]) - 1 /\ (out'[b] = <<>> <=> Len(out[b]) = 1)
        /\ Remains(b, b, c)'
    <3>1. Remains(b, b, c)
      BY <1>9, <2>1 DEF Receiving
    <3>. QED  BY <1>0, <1>3, <3>1, NextPart
  <2>4. PICK l, m, z : l = Len(out[b]) /\ z = Len(c) /\ m = z - l
    OBVIOUS
  <2>5. z \in Nat /\ l \in 1 .. z /\ z - l + 1 = m + 1
    BY <2>2, <2>3, <2>4
  <2>6. z - Len(out'[b]) = m + 1 /\ (m + 1 = z <=> out'[b] = <<>>)
    <3>1. PICK y : y = Len(out'[b])
      OBVIOUS
    <3>2. z \in Nat /\ l \in 1 .. z /\ y = l - 1 /\ m = z - l
      BY <2>3, <2>4, <2>5, <3>1
    <3>3. z - y = m + 1 /\ (m + 1 = z <=> l = 1)
      BY <3>2
    <3>. QED  BY <2>3, <2>4, <3>1, <3>3
  <2>7. Midway(s, p, c, m) /\ s.mode \in {"sync_dir", "sync"}
    BY <1>9, <2>1, <2>4 DEF Receiving
  <2>8. /\ m + 1 \in 1 .. Len(c) /\ Part(c[m+1], Len(c)) \in Wire
        /\ \E e \in State :
             /\ ReadsPart(s, Part(c[m+1], Len(c)), e) /\ Beside(s, e, p)
             /\ IF m + 1 = Len(c) THEN e.into = Gone /\ e.files[p] = c
                ELSE Midway(e, p, c, m + 1)
    BY <2>2, <2>7, PartRead
  <2>9. PICK k : k = Part(c[m+1], Len(c))
    OBVIOUS
  <2>10. PICK e \in State :
             /\ ReadsPart(s, k, e) /\ Beside(s, e, p)
             /\ IF m + 1 = z THEN e.into = Gone /\ e.files[p] = c ELSE Midway(e, p, c, m + 1)
    BY <2>4, <2>8, <2>9
  <2>11. Head(out[b]).to = b /\ Head(out[b]).packet = k
    <3>1. Head(out[b]) = [to |-> b, packet |-> k]
      BY <2>3, <2>4, <2>5, <2>9
    <3>. QED  BY <3>1
  <2>12. k \in Wire /\ chan' = [chan EXCEPT ![b] = Append(@, k)] /\ Reads(b, s, k, e)
    BY <1>3, <2>8, <2>9, <2>10, <2>11 DEF Write, Reads
  <2>13. e.mode = s.mode /\ e.peers = list /\ \A f \in File \ {p} : e.files[f] = s.files[f]
    BY <1>5, <2>10 DEF Beside
  <2>14. \A f \in File \ {p} : Matches(b, e, f)' \/ \E i \in 1 .. Len(plan[b]) : Next1(b, i) = f
    <3>. TAKE f \in File \ {p}
    <3>1. Matches(b, s, f) \/ \E i \in 1 .. Len(plan[b]) : Next1(b, i) = f
      BY <1>5, <2>1 DEF Filling
    <3>2. Matches(b, s, f) => Matches(b, e, f)'
      BY <1>3, <2>13 DEF Matches
    <3>. QED  BY <3>1, <3>2
  <2>15. /\ \A i \in 1 .. Len(plan[b]) :
              /\ Next1(b, i) \in File /\ disk[Main][Next1(b, i)] # Gone
              /\ plan[b][i] = [to |-> b, packet |-> SyncName(Next1(b, i), i = Len(plan[b]))]
         /\ \A i, j \in 1 .. Len(plan[b]) : Next1(b, i) = Next1(b, j) => i = j
    BY <1>5 DEF Filling
  <2>16. disk' = disk
    BY <1>3
  <2>17. Filling(b, e)'
    <3>1. CASE out'[b] = <<>>
      <4>1. e.into = Gone /\ e.files[p] = c
        BY <2>6, <2>10, <3>1
      <4>2. Matches(b, e, p)'
        BY <2>1, <2>16, <4>1 DEF Matches
      <4>3. e.mode = IF plan'[b] = <<>> THEN "sync" ELSE "sync_dir"
        BY <1>7, <1>9, <2>13
      <4>4. \A f \in File : Matches(b, e, f)' \/ \E i \in 1 .. Len(plan'[b]) : Next1(b, i)' = f
        <5>. TAKE f \in File
        <5>1. CASE f = p
          BY <4>2, <5>1 DEF Matches
        <5>2. CASE f # p
          BY <1>7, <2>14, <5>2
        <5>. QED  BY <5>1, <5>2
      <4>5. \A i \in 1 .. Len(plan'[b]) :
              /\ Next1(b, i)' \in File /\ disk'[Main][Next1(b, i)'] # Gone
              /\ plan'[b][i] = [to |-> b, packet |-> SyncName(Next1(b, i)', i = Len(plan'[b]))]
        BY <1>7, <2>15, <2>16
      <4>6. \A i, j \in 1 .. Len(plan'[b]) : Next1(b, i)' = Next1(b, j)' => i = j
        BY <1>7, <2>15
      <4>. QED  BY <3>1, <4>1, <4>3, <4>4, <4>5, <4>6 DEF Filling
    <3>2. CASE out'[b] # <<>>
      <4>1. Midway(e, p, c, m + 1) /\ e.into = p
        BY <2>6, <2>10, <3>2 DEF Midway
      <4>2. disk'[Main][e.into] = c
        BY <2>1, <2>16, <4>1
      <4>3. z - Len(out'[b]) = m + 1 /\ Len(disk'[Main][e.into]) = z
        BY <2>4, <2>6, <4>2
      <4>4. Receiving(b, e)'
        BY <2>2, <2>3, <3>2, <4>1, <4>2, <4>3 DEF Receiving, Remains, Midway
      <4>5. e.mode = IF plan'[b] = <<>> THEN "sync" ELSE "sync_dir"
        BY <1>7, <1>9, <2>13
      <4>6. \A i \in 1 .. Len(plan'[b]) : Next1(b, i)' # e.into
        BY <1>7, <1>9, <2>1, <4>1
      <4>. QED  BY <1>7, <2>14, <2>15, <2>16, <4>1, <4>4, <4>5, <4>6 DEF Filling
    <3>. QED  BY <3>1, <3>2
  <2>18. Joining(b, e)'
    BY <1>3, <1>4, <2>13, <2>17 DEF Joining
  <2>. QED  BY <1>1, <1>2, <1>3, <1>4, <1>6, <2>12, <2>18, JoinerStep
<1>. QED  BY <1>3, <1>5, <1>8, <1>9 DEF Filling

\* The servers on the list hear of the one that joins.
LEMMA JoinerAdds ==
  ASSUME TypeInv, LockInv, BackupsInv, Overlaps = {}, NEW b \in Backup, AddBackupServer(b)
  PROVE  BackupsInv'
<1>0. Backup \in SUBSET Reader /\ Thread = Device \cup Backup /\ Device \cap Backup = {}
  BY ReplicationAssumption DEF Reader, Thread
<1>1. PICK v : Follows(Backup, v) /\ BackupsWill(v)
  BY DEF BackupsInv
<1>2. v \in [Backup -> State] /\ \A r \in Backup : Joining(r, v[r])
  BY <1>1 DEF Follows, BackupsWill
<1>3. PICK n : n = Len(list)
  OBVIOUS
<1>4. /\ n \in Nat /\ list' = Append(list, b) /\ Len(list') = n + 1 /\ list'[n+1] = b
      /\ \A i \in 1 .. n : list'[i] = list[i]
  BY <1>3, LenProperties, AppendProperties DEF AddBackupServer, TypeInv
<1>5. /\ \A r \in Backup : r \in ToSet(list) <=> \E i \in 1 .. n : list[i] = r
      /\ \A r \in Backup : r \in ToSet(list') <=> \E i \in 1 .. n + 1 : list'[i] = r
  <2>1. list' \in Seq(Backup)
    BY <1>4, AppendProperties DEF TypeInv
  <2>2. DOMAIN list = 1 .. n /\ DOMAIN list' = 1 .. n + 1
    BY <1>3, <1>4, <2>1, LenProperties DEF TypeInv
  <2>. QED  BY <2>2 DEF ToSet
<1>6. \A r \in Backup : r \in ToSet(list') <=> r \in ToSet(list) \/ r = b
  <2>1. \A i \in 1 .. n + 1 : i \in 1 .. n \/ i = n + 1
    BY <1>4
  <2>2. 1 .. n \subseteq 1 .. n + 1 /\ n + 1 \in 1 .. n + 1
    BY <1>4
  <2>. QED  BY <1>4, <1>5, <2>1, <2>2
<1>7. /\ UNCHANGED <<disk, job, plan, out, mode, into, got, peers>>
      /\ pc[b] = "out" /\ pc'[b] = "list" /\ \A t \in Thread \ {b} : pc'[t] = pc[t]
      /\ \A r \in Backup : chan'[r] = IF r \in ToSet(list) THEN Append(chan[r], ServerInfo(<<b>>)) ELSE chan[r]
  BY <1>0 DEF AddBackupServer, readers, TypeInv
<1>8. \A t \in Thread : pc[t] \in {"idle", "out", "in"}
  BY DEF AddBackupServer, MayJoin, Apart, Busy
<1>9. \A r \in Backup : r \in ToSet(list) <=> pc[r] = "in"
  BY <1>0, <1>1, <1>8 DEF BackupsWill, LockInv
<1>10. \A d \in Device : pc[d] = "idle" /\ pc'[d] = "idle"
  BY <1>0, <1>7, <1>8 DEF LockInv
<1>11. \A r \in Backup : pc[r] = "in" =>
         /\ v[r].mode = "sync" /\ v[r].into = Gone /\ v[r].peers = list
         /\ \A p \in File : Matches(r, v[r], p)
  BY <1>2, <1>10 DEF Joining
<1>12. PICK w : w = [r \in Backup |->
         IF r \in ToSet(list)
         THEN [files |-> v[r].files, mode |-> "sync", into |-> Gone, got |-> v[r].got,
               peers |-> Append(list, b)]
         ELSE v[r]]
  OBVIOUS
<1>13. w \in [Backup -> State]
  <2>1. Append(list, b) \in Seq(Backup)
    BY AppendProperties DEF TypeInv
  <2>2. \A r \in Backup : v[r].files \in [File -> Content \cup {Gone}] /\ v[r].got \in 0 .. 2^Width - 1
    BY <1>2 DEF State
  <2>3. \A r \in Backup : [files |-> v[r].files, mode |-> "sync", into |-> Gone, got |-> v[r].got,
                           peers |-> Append(list, b)] \in State
    BY <2>1, <2>2 DEF State
  <2>. QED  BY <1>2, <1>12, <2>3
<1>14. Follows(Backup, w)'
  <2>1. \A r \in Backup : View(r)' = View(r)
    BY <1>0, <1>7 DEF View
  <2>2. ServerInfo(<<b>>) \in Wire
    <3>1. <<b>> \in Seq(Backup) /\ <<b>> # <<>>
      OBVIOUS
    <3>. QED  BY <3>1, WireIs
  <2>3. Head(<<b>>) = b
    OBVIOUS
  <2>4. b \notin ToSet(list)
    BY <1>7, <1>9
  <2>5. \A r \in Backup : r \in ToSet(list) => Reads(r, v[r], ServerInfo(<<b>>), w[r])
    BY <1>9, <1>11, <1>12, <2>3, <2>4 DEF Reads, ReadsServer, ServerInfo
  <2>6. \A r \in Backup : r \notin ToSet(list) => w[r] = v[r]
    BY <1>12
  <2>7. \A r \in Backup : \/ chan'[r] = chan[r] /\ w[r] = v[r]
                          \/ \E k \in Wire : chan'[r] = Append(chan[r], k) /\ Reads(r, v[r], k, w[r])
    BY <1>7, <2>2, <2>5, <2>6
  <2>. QED  BY <1>0, <1>1, <1>13, <2>1, <2>7, FollowSend
<1>15. ASSUME NEW r \in Backup PROVE Joining(r, w[r])'
  <2>1. CASE r = b
    <3>1. w[r] = v[r] /\ Untouched(r, w[r]) /\ w[r].mode = "servers"
      BY <1>2, <1>7, <1>9, <1>12, <2>1 DEF Joining
    <3>. QED  BY <1>7, <2>1, <3>1 DEF Joining, Untouched
  <2>2. CASE r # b /\ pc[r] = "out"
    <3>1. w[r] = v[r] /\ Untouched(r, w[r]) /\ w[r].mode = "servers" /\ pc'[r] = "out"
      BY <1>0, <1>2, <1>7, <1>9, <1>12, <2>2 DEF Joining
    <3>. QED  BY <3>1 DEF Joining, Untouched
  <2>3. CASE r # b /\ pc[r] # "out"
    <3>1. pc[r] = "in" /\ pc'[r] = "in"
      BY <1>0, <1>7, <1>8, <2>3 DEF LockInv
    <3>2. w[r].mode = "sync" /\ w[r].into = Gone /\ w[r].peers = list' /\ w[r].files = v[r].files
      BY <1>4, <1>9, <1>12, <3>1
    <3>3. \A p \in File : Matches(r, w[r], p)'
      BY <1>7, <1>11, <3>1, <3>2 DEF Matches
    <3>. QED  BY <3>1, <3>2, <3>3 DEF Joining
  <2>. QED  BY <2>1, <2>2, <2>3
<1>16. \A i, j \in 1 .. Len(list') : list'[i] = list'[j] => i = j
  <2>1. \A i, j \in 1 .. n : list[i] = list[j] => i = j
    BY <1>1, <1>3 DEF BackupsWill
  <2>2. \A i \in 1 .. n : list[i] # b
    BY <1>5, <1>7, <1>9
  <2>3. \A i \in 1 .. n + 1 : i \in 1 .. n \/ i = n + 1
    BY <1>4
  <2>. QED  BY <1>4, <2>1, <2>2, <2>3
<1>17. \A r \in Backup : r \in ToSet(list') <=> pc'[r] # "out"
  <2>1. \A r \in Backup : r # b => pc'[r] = pc[r]
    BY <1>0, <1>7
  <2>. QED  BY <1>1, <1>6, <1>7, <2>1 DEF BackupsWill
<1>18. \A s, t \in Thread : Busy(s)' /\ Busy(t)' => s = t
  <2>1. \A t \in Thread \ {b} : pc'[t] \in {"idle", "out", "in"}
    BY <1>7, <1>8
  <2>. QED  BY <2>1 DEF Busy
<1>19. BackupsWill(w)'
  BY <1>10, <1>15, <1>16, <1>17, <1>18 DEF BackupsWill
<1>. QED  BY <1>14, <1>19 DEF BackupsInv

\* A heartbeat between changes is dropped.
LEMMA Beats ==
  ASSUME TypeInv, LockInv, BackupsInv, Overlaps = {}, NEW b \in Backup, Heartbeat(b)
  PROVE  BackupsInv'
<1>0. Backup \in SUBSET Reader /\ Thread = Device \cup Backup /\ Device \cap Backup = {}
  BY ReplicationAssumption DEF Reader, Thread
<1>1. PICK v : Follows(Backup, v) /\ BackupsWill(v)
  BY DEF BackupsInv
<1>2. /\ UNCHANGED <<disk, list, pc, job, plan, out, mode, into, got, peers>>
      /\ chan' = [chan EXCEPT ![b] = Append(@, Beat)] /\ b \in ToSet(list)
  BY DEF Heartbeat, Write, readers
<1>3. \A t \in Thread : pc[t] \in {"idle", "out", "in"}
  BY DEF Heartbeat, MayBeat, Apart, Busy
<1>4. v[b].mode = "sync" /\ v[b].into = Gone
  <2>1. pc[b] = "in"
    BY <1>0, <1>1, <1>2, <1>3 DEF BackupsWill, LockInv
  <2>2. \A d \in Device : pc[d] # "backups"
    BY <1>0, <1>3
  <2>. QED  BY <1>1, <2>1, <2>2 DEF BackupsWill, Joining
<1>5. Reads(b, v[b], Beat, v[b]) /\ Beat \in Wire
  BY <1>4, WireIs DEF Reads, ReadsBeat, Beat
<1>6. Follows(Backup, v)'
  <2>1. \A r \in Backup : View(r)' = View(r)
    BY <1>2 DEF View
  <2>2. v \in [Backup -> State]
    BY <1>1 DEF Follows
  <2>3. \A r \in Backup : \/ chan'[r] = chan[r]
                          \/ \E k \in Wire : chan'[r] = Append(chan[r], k) /\ Reads(r, v[r], k, v[r])
    BY <1>0, <1>2, <1>5, ZenonT(60) DEF TypeInv
  <2>. QED  BY <1>0, <1>1, <2>1, <2>2, <2>3, FollowSend
<1>7. BackupsWill(v)'
  BY <1>1, <1>2, BackupsKept
<1>. QED  BY <1>6, <1>7 DEF BackupsInv

\* The backups will be what the sessions and the joiners have yet to make them.
LEMMA BackupsStep ==
  ASSUME Overlaps = {}
  PROVE  TypeInv /\ LockInv /\ SessionInv /\ BackupsInv /\ [Next]_vars => BackupsInv'
<1>. SUFFICES ASSUME TypeInv, LockInv, SessionInv, BackupsInv, [Next]_vars PROVE BackupsInv'
  OBVIOUS
<1>1. CASE UNCHANGED vars
  <2>0. Backup \in SUBSET Reader
    BY DEF Reader
  <2>1. PICK v : Follows(Backup, v) /\ BackupsWill(v)
    BY DEF BackupsInv
  <2>2. UNCHANGED <<disk, chan, list, pc, job, plan, out, mode, into, got, peers>>
    BY <1>1 DEF vars, main, readers
  <2>3. \A r \in Backup : View(r)' = View(r)
    BY <2>2 DEF View
  <2>4. v \in [Backup -> State]
    BY <2>1 DEF Follows
  <2>5. Follows(Backup, v)'
    BY <2>0, <2>1, <2>2, <2>3, <2>4, FollowSend
  <2>6. BackupsWill(v)'
    BY <2>1, <2>2, BackupsKept
  <2>. QED  BY <2>5, <2>6 DEF BackupsInv
<1>2. ASSUME NEW t \in Thread, SendNext(t) \/ WritePart(t) PROVE BackupsInv'
  <2>1. CASE t \in Device
    BY <1>2, <2>1, BackupsServed, BackupsSpared
  <2>2. CASE t \in Backup
    BY <1>2, <2>2, JoinerNext, JoinerPart
  <2>. QED  BY <2>1, <2>2 DEF Thread
<1>3. ASSUME NEW d \in Device,
             Session(d) \/ EndUpload(d) \/ LockServerList(d) \/ UnlockServerList(d)
      PROVE  BackupsInv'
  BY <1>3, BackupsSession
<1>4. ASSUME NEW b \in Backup,
             AddBackupServer(b) \/ BackupServerList(b) \/ BackupClientList(b)
               \/ BackupSyncDir(b) \/ Joined(b) \/ Heartbeat(b)
      PROVE  BackupsInv'
  BY <1>4, JoinerAdds, JoinerLists, JoinerReads, Beats
<1>5. ASSUME NEW r \in Reader, Receive(r) PROVE BackupsInv'
  BY <1>5, BackupsRead
<1>. QED  BY <1>1, <1>2, <1>3, <1>4, <1>5 DEF Next, Proceed

\* With nothing under way, what the backups will be is what they are.
LEMMA BackupsSettled == TypeInv /\ LockInv /\ BackupsInv => BackupsAgree /\ RostersAgree
<1>. SUFFICES ASSUME TypeInv, LockInv, BackupsInv, Settled, NEW b \in ToSet(list)
              PROVE  /\ peers[b] = list
                     /\ \A p \in File : disk[b][p] = disk[Main][p] \/ Relic(b, p)
  BY DEF BackupsAgree, RostersAgree
<1>1. PICK v : Follows(Backup, v) /\ BackupsWill(v)
  BY DEF BackupsInv
<1>2. b \in Backup /\ Backup \in SUBSET Reader /\ chan[b] = <<>>
  BY ElementOfSeq DEF Settled, Reader, TypeInv, ToSet
<1>3. v[b] = View(b)
  BY <1>1, <1>2, Arrived
<1>4. pc[b] = "in" /\ \A d \in Device : pc[d] = "idle"
  BY <1>1, <1>2 DEF BackupsWill, Settled, Busy, LockInv, Thread
<1>5. v[b].peers = list /\ \A p \in File : Matches(b, v[b], p)
  BY <1>1, <1>2, <1>4 DEF BackupsWill, Joining
<1>6. peers[b] = list /\ \A p \in File : Matches(b, View(b), p) /\ View(b).files = disk[b]
  BY <1>2, <1>3, <1>5 DEF View
<1>. QED  BY <1>6 DEF Matches, Relic

\* All of it holds throughout.
LEMMA Backed ==
  ASSUME Overlaps = {}
  PROVE  Spec => [](TypeInv /\ LockInv /\ BackupsInv)
<1>1. Init => TypeInv /\ LockInv /\ SessionInv /\ BackupsInv
  BY TypeInit, LockInit, SessionInit, BackupsInit
<1>2. TypeInv /\ LockInv /\ SessionInv /\ BackupsInv /\ [Next]_vars
        => (TypeInv /\ LockInv /\ SessionInv /\ BackupsInv)'
  BY TypeStep, LockStep, SessionStep, BackupsStep
<1>. QED  BY <1>1, <1>2, PTL DEF Spec

\* As long as nothing overlaps, a backup server on the list ends with the main
\* server's files, and with none but these and those of its earlier run,
\* however its filling and the changes before and after it are read.
THEOREM BackupsAgreeAlways ==
  ASSUME Overlaps = {}
  PROVE  Spec => []BackupsAgree
BY Backed, BackupsSettled, PTL

\* As long as nothing overlaps, every backup server on the list ends with the
\* same server list, in the order of joining: the ring is one.
THEOREM RostersAgreeAlways ==
  ASSUME Overlaps = {}
  PROVE  Spec => []RostersAgree
BY Backed, BackupsSettled, PTL

=============================================================================
