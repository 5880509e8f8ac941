------------------------- MODULE ReplicationProofs -------------------------
(***************************************************************************)
(* For every set of devices, backup servers, files and versions, every     *)
(* size the receiver's counter can count, and whatever overlaps with what: *)
(* Replication is type correct, and access_server_list lets one session at *)
(* a time write files to the backups.  AgreementProofs uses the lemmas     *)
(* about types and operators too.                                          *)
(***************************************************************************)
EXTENDS Replication, SequenceTheorems, FiniteSetTheorems, TLAPS

-----------------------------------------------------------------------------
(* Lemmas about the operators.                                             *)

\* A function on an initial segment is a sequence, of that length.
LEMMA IsSeq ==
  ASSUME NEW S, NEW n \in Nat, NEW f \in [1 .. n -> S]
  PROVE  f \in Seq(S) /\ Len(f) = n
<1>1. f \in Seq(S)
  BY SeqDef
<1>. QED  BY <1>1, LenProperties

\* seq_num++ leaves the counter in its range, and counts below the largest.
LEMMA CountIs ==
  ASSUME NEW n \in 0 .. 2^Width - 1
  PROVE  /\ Count(n) \in 0 .. 2^Width - 1
         /\ n + 1 <= 2^Width - 1 => Count(n) = n + 1
BY ReplicationAssumption DEF Count

\* The slots of a client node: all of the user's devices, each once.
LEMMA Slots ==
  /\ DeviceSockets \in Seq(Device)
  /\ \A i, j \in 1 .. Len(DeviceSockets) : DeviceSockets[i] = DeviceSockets[j] => i = j
  /\ \A d \in Device : \E i \in 1 .. Len(DeviceSockets) : DeviceSockets[i] = d
<1>. DEFINE N == Cardinality(Device)
            Inj == {f \in [1 .. N -> Device] : IsInjective(f)}
<1>1. N \in Nat /\ \E f \in [1 .. N -> Device] : IsInjective(f)
  <2>1. N \in Nat /\ ExistsBijection(1 .. N, Device)
    BY FS_CardinalityType, ReplicationAssumption
  <2>. QED
    BY <2>1 DEF ExistsBijection, Bijection, Injection, IsInjective
<1>2. DeviceSockets \in [1 .. N -> Device] /\ IsInjective(DeviceSockets)
  BY <1>1, Zenon DEF DeviceSockets, SetToSeq
<1>3. DeviceSockets \in Seq(Device) /\ Len(DeviceSockets) = N
  BY <1>1, <1>2, IsSeq
<1>4. \A d \in Device : \E i \in 1 .. N : DeviceSockets[i] = d
  <2>. SUFFICES ASSUME NEW d \in Device, \A i \in 1 .. N : DeviceSockets[i] # d PROVE FALSE
    OBVIOUS
  <2>1. IsFiniteSet(Device \ {d}) /\ Cardinality(Device \ {d}) = N - 1
    BY FS_RemoveElement, ReplicationAssumption
  <2>2. IsFiniteSet(1 .. N) /\ Cardinality(1 .. N) = N
    BY <1>1, FS_Interval
  <2>3. DeviceSockets \in [1 .. N -> Device \ {d}]
    BY <1>2
  <2>4. \E x, y \in 1 .. N : x # y /\ DeviceSockets[x] = DeviceSockets[y]
    <3>. HIDE DEF N
    <3>. QED  BY <1>1, <2>1, <2>2, <2>3, FS_PigeonHole
  <2>. QED  BY <1>2, <2>4 DEF IsInjective
<1>. QED  BY <1>2, <1>3, <1>4 DEF IsInjective

\* The orders a directory can be read in: every file is read, once.
LEMMA Orders ==
  ASSUME NEW S, IsFiniteSet(S), NEW order \in SetToSeqs(S)
  PROVE  /\ Cardinality(S) \in Nat
         /\ order \in Seq(S) /\ Len(order) = Cardinality(S)
         /\ \A i, j \in 1 .. Cardinality(S) : order[i] = order[j] => i = j
         /\ \A x \in S : \E i \in 1 .. Cardinality(S) : order[i] = x
<1>. DEFINE N == Cardinality(S)
<1>1. N \in Nat
  BY FS_CardinalityType
<1>2. order \in [1 .. N -> S] /\ \A i, j \in 1 .. N : order[i] = order[j] => i = j
  BY Zenon DEF SetToSeqs
<1>3. order \in Seq(S) /\ Len(order) = N
  BY <1>1, <1>2, IsSeq
<1>4. \A x \in S : \E i \in 1 .. N : order[i] = x
  <2>. SUFFICES ASSUME NEW x \in S, \A i \in 1 .. N : order[i] # x PROVE FALSE
    OBVIOUS
  <2>1. IsFiniteSet(S \ {x}) /\ Cardinality(S \ {x}) = N - 1
    BY FS_RemoveElement
  <2>2. IsFiniteSet(1 .. N) /\ Cardinality(1 .. N) = N
    BY <1>1, FS_Interval
  <2>3. order \in [1 .. N -> S \ {x}]
    BY <1>2
  <2>4. \E i, j \in 1 .. N : i # j /\ order[i] = order[j]
    <3>. HIDE DEF N
    <3>. QED  BY <1>1, <2>1, <2>2, <2>3, FS_PigeonHole
  <2>. QED  BY <1>2, <2>4
<1>. QED  BY <1>1, <1>2, <1>3, <1>4

\* The first packet of a socket, and the ones behind it.
LEMMA FirstOf ==
  ASSUME NEW S, NEW s \in Seq(S), s # <<>>
  PROVE  /\ Head(s) \in S /\ Head(s) = s[1] /\ Tail(s) \in Seq(S)
         /\ Len(s) \in Nat /\ Len(s) >= 1 /\ Len(Tail(s)) = Len(s) - 1
         /\ \A i \in 1 .. Len(s) - 1 : Tail(s)[i] = s[i+1]
BY HeadTailProperties, EmptySeq, LenProperties

\* Writing a file over a longer one leaves a sequence of fragments.
LEMMA OverwriteIs ==
  ASSUME NEW S, NEW old \in Seq(S), NEW new \in Seq(S)
  PROVE  /\ Overwrite(old, new) \in Seq(S)
         /\ Len(old) = 0 => Overwrite(old, new) = new
<1>1. SubSeq(old, Len(new) + 1, Len(old)) \in Seq(S)
  <2>1. \A i \in Len(new) + 1 .. Len(old) : old[i] \in S
    BY ElementOfSeq, LenProperties
  <2>. QED  BY <2>1, SubSeqProperties, LenProperties
<1>2. Overwrite(old, new) \in Seq(S)
  BY <1>1, ConcatProperties DEF Overwrite
<1>3. ASSUME Len(old) = 0 PROVE Overwrite(old, new) = new
  <2>1. SubSeq(old, Len(new) + 1, Len(old)) = <<>>
    BY <1>3, LenProperties, SubSeqEmpty
  <2>. QED  BY <2>1, ConcatEmptySeq DEF Overwrite
<1>. QED  BY <1>2, <1>3

-----------------------------------------------------------------------------
(* Types.                                                                  *)

\* What threads put in the sockets: never a fragment without its payload in a
\* version, and never a server list with nothing in it.
Names   == [type : {"data"}, payload : File, total : {1}]
           \cup [type : {"data"}, payload : File, total : {1}, last : BOOLEAN]
Deletes == [type : {"cmd"}, payload : File, total : {1}]
Parts   == [type : {"data"}, payload : Version, total : Nat] \cup {Err}
Infos   == [type : {"server"}, payload : Seq(Backup) \ {<<>>}, total : {1}]
Wire    == Names \cup Deletes \cup Parts \cup Infos \cup {Eot, Beat}

\* The main server's files have no stray fragments, the file a session or a
\* reader is receiving is there, and a joiner finds its own server listed.
TypeInv ==
  /\ disk \in [{Main} \cup Reader -> [File -> Content \cup {Gone}]]
  /\ \A p \in File : disk[Main][p] \in Seq(Version) \cup {Gone}
  /\ chan \in [Reader -> Seq(Wire)]
  /\ list \in Seq(Backup)
  /\ lock \in Thread \cup {Free}
  /\ pc \in [Thread -> {"idle", "receive", "orphan", "devices", "backups",
                        "out", "list", "clients", "files", "in"}]
  /\ job \in [Device -> [op : {"upload", "delete"}, path : File, content : Seq(Version)]]
  /\ plan \in [Thread -> Seq([to : Reader, packet : Names \cup Deletes])]
  /\ out \in [Thread -> Seq([to : Reader, packet : Parts])]
  /\ mode \in [Reader -> {"servers", "clients", "sync_dir", "sync", "down"}]
  /\ into \in [Reader -> File \cup {Stray, Gone}]
  /\ got \in [Reader -> 0 .. 2^Width - 1]
  /\ peers \in [Backup -> Seq(Backup)]
  /\ changes \in 0 .. MaxChanges /\ beats \in 0 .. MaxBeats
  /\ \A d \in Device : pc[d] = "receive" => disk[Main][job[d].path] # Gone
  /\ \A b \in Backup : pc[b] = "list" => list # <<>>
  /\ \A r \in Reader : into[r] \in File => disk[r][into[r]] # Gone

\* No sequence of fragments stands for a missing file.
LEMMA IsThere == \A c \in Content : c # Gone
BY ReplicationAssumption DEF Content

\* The packets have the types they are declared with.
LEMMA WireIs ==
  /\ Wire \subseteq Packet
  /\ \A s \in Seq(Backup) \ {<<>>} : ServerInfo(s) \in Wire
  /\ Eot \in Wire /\ Beat \in Wire /\ Err \in Parts
  /\ Names \subseteq Wire /\ Deletes \subseteq Wire /\ Parts \subseteq Wire
  /\ \A p \in File : Name(p) \in Names /\ DeleteCmd(p) \in Deletes
  /\ \A p \in File, l \in BOOLEAN : SyncName(p, l) \in Names
  /\ \A v \in Version, n \in Nat : Part(v, n) \in Parts
BY DEF Wire, Names, Deletes, Parts, Infos, Packet, Name, DeleteCmd, SyncName, Part,
       ServerInfo, Eot, Beat, Err

\* Only a joiner's names say whether they are the last.
LEMMA LastIs ==
  ASSUME NEW k \in Wire
  PROVE  "last" \in DOMAIN k => /\ k.type = "data" /\ k.payload \in File
                                /\ k.total = 1 /\ k.last \in BOOLEAN
<1>1. CASE k \in Names
  BY <1>1 DEF Names
<1>2. CASE k \in Deletes
  BY <1>2 DEF Deletes
<1>3. CASE k \in Parts
  BY <1>3 DEF Parts, Err
<1>4. CASE k \in Infos
  BY <1>4 DEF Infos
<1>5. CASE k \in {Eot, Beat}
  BY <1>5 DEF Eot, Beat
<1>. QED  BY <1>1, <1>2, <1>3, <1>4, <1>5 DEF Wire

\* The main server's files are files.
LEMMA Contents == Seq(Version) \subseteq Content
BY SeqMonotonic DEF Content

\* TypeInv says more than TypeOK, of what is on the wire.
LEMMA TypeIs == TypeInv => TypeOK
<1>. SUFFICES ASSUME TypeInv PROVE TypeOK
  OBVIOUS
<1>1. chan \in [Reader -> Seq(Packet)]
  <2>1. \A s \in Seq(Wire) : s \in Seq(Packet)
    BY WireIs, SeqMonotonic
  <2>. QED  BY <2>1 DEF TypeInv
<1>2. plan \in [Thread -> Seq(Send)] /\ out \in [Thread -> Seq(Send)]
  <2>1. /\ [to : Reader, packet : Names \cup Deletes] \subseteq Send
        /\ [to : Reader, packet : Parts] \subseteq Send
    BY WireIs DEF Send
  <2>2. /\ \A s \in Seq([to : Reader, packet : Names \cup Deletes]) : s \in Seq(Send)
        /\ \A s \in Seq([to : Reader, packet : Parts]) : s \in Seq(Send)
    BY <2>1, SeqMonotonic
  <2>. QED  BY <2>2 DEF TypeInv
<1>3. job \in [Device -> [op : {"upload", "delete"}, path : File, content : Content]]
  BY Contents DEF TypeInv
<1>. QED  BY <1>1, <1>2, <1>3 DEF TypeInv, TypeOK

\* The types hold at the start.
LEMMA TypeInit == Init => TypeInv
<1>. SUFFICES ASSUME Init PROVE TypeInv
  OBVIOUS
<1>1. PICK f \in [File -> {<<v>> : v \in Version} \cup {Gone}] :
       disk = [s \in {Main} \cup Reader |->
                 CASE s \in Restarted -> [p \in File |-> <<Old>>]
                   [] s \in Backup \ Restarted -> [p \in File |-> Gone]
                   [] OTHER -> f]
  BY DEF Init
<1>2. \A v \in Version : <<v>> \in Seq(Version)
  OBVIOUS
<1>3. f \in [File -> Content \cup {Gone}] /\ \A p \in File : f[p] \in Seq(Version) \cup {Gone}
  BY <1>2, Contents
<1>4. <<Old>> \in Content
  BY DEF Content
<1>5. disk \in [{Main} \cup Reader -> [File -> Content \cup {Gone}]]
  BY <1>1, <1>3, <1>4
<1>6. disk[Main] = f
  BY <1>1, ReplicationAssumption
<1>7. (CHOOSE p \in File : TRUE) \in File
  BY ReplicationAssumption
<1>8. 0 \in 0 .. 2^Width - 1 /\ 0 \in 0 .. MaxChanges /\ 0 \in 0 .. MaxBeats
  BY ReplicationAssumption
<1>9. \A S : <<>> \in Seq(S)
  BY EmptySeq
<1>10. \A t \in Thread : pc[t] \in {"idle", "out"}
  BY DEF Init
<1>11. job \in [Device -> [op : {"upload", "delete"}, path : File, content : Seq(Version)]]
  BY <1>7, <1>9 DEF Init
<1>12. \A r \in Reader : into[r] = Gone
  BY DEF Init
<1>. QED
  BY <1>3, <1>5, <1>6, <1>8, <1>9, <1>10, <1>11, <1>12, ReplicationAssumption
  DEF Init, TypeInv, Thread, Reader

\* A write appends to one socket.
LEMMA Written ==
  ASSUME TypeInv, NEW r \in Reader, NEW k \in Wire, Write(r, k)
  PROVE  chan' \in [Reader -> Seq(Wire)]
BY AppendProperties DEF Write, TypeInv

\* A read takes a packet of the wire from one.
LEMMA Taken ==
  ASSUME TypeInv, NEW r \in Reader, Packets(r), Take(r)
  PROVE  Packet1(r) \in Wire /\ chan' \in [Reader -> Seq(Wire)]
<1>1. chan[r] \in Seq(Wire) /\ chan[r] # <<>>
  BY DEF TypeInv, Packets
<1>2. Head(chan[r]) \in Wire /\ Tail(chan[r]) \in Seq(Wire)
  BY <1>1, FirstOf
<1>. QED  BY <1>2 DEF Packet1, Take, TypeInv

\* What send_file writes of a file of the main server.
LEMMA FileSent ==
  ASSUME NEW r \in Reader, NEW c \in Seq(Version) \cup {Gone}
  PROVE  /\ SendFile(r, c) \in Seq([to : Reader, packet : Parts])
         /\ c = Gone => SendFile(r, c) = <<[to |-> r, packet |-> Err]>>
         /\ c # Gone => /\ Len(SendFile(r, c)) = Len(c)
                        /\ \A i \in 1 .. Len(c) :
                             SendFile(r, c)[i] = [to |-> r, packet |-> Part(c[i], Len(c))]
<1>1. CASE c = Gone
  BY <1>1, WireIs DEF SendFile
<1>2. CASE c # Gone
  <2>1. /\ Len(c) \in Nat /\ DOMAIN c = 1 .. Len(c)
        /\ \A i \in 1 .. Len(c) : c[i] \in Version
    BY <1>2, LenProperties, ElementOfSeq
  <2>2. SendFile(r, c) = [i \in 1 .. Len(c) |-> [to |-> r, packet |-> Part(c[i], Len(c))]]
    BY <1>2, <2>1 DEF SendFile
  <2>3. SendFile(r, c) \in [1 .. Len(c) -> [to : Reader, packet : Parts]]
    BY <2>1, <2>2, WireIs
  <2>. QED  BY <1>2, <2>1, <2>2, <2>3, IsSeq
<1>. QED  BY <1>1, <1>2

\* The same packet for a sequence of targets.
LEMMA ToEach ==
  ASSUME NEW S, NEW q \in Seq(S), NEW k
  PROVE  /\ Len(To(q, k)) = Len(q)
         /\ \A i \in 1 .. Len(q) : To(q, k)[i] = [to |-> q[i], packet |-> k]
         /\ \A K : k \in K => To(q, k) \in Seq([to : S, packet : K])
<1>1. Len(q) \in Nat /\ DOMAIN q = 1 .. Len(q) /\ \A i \in 1 .. Len(q) : q[i] \in S
  BY LenProperties, ElementOfSeq
<1>2. To(q, k) \in [1 .. Len(q) -> [to : S, packet : {k}]]
  BY <1>1 DEF To
<1>3. Len(To(q, k)) = Len(q)
  BY <1>1, <1>2, IsSeq
<1>4. ASSUME NEW K, k \in K PROVE To(q, k) \in Seq([to : S, packet : K])
  <2>1. To(q, k) \in [1 .. Len(q) -> [to : S, packet : K]]
    BY <1>1, <1>4 DEF To
  <2>. QED  BY <1>1, <2>1, IsSeq
<1>. QED  BY <1>1, <1>3, <1>4 DEF To

\* What a session sends, to the devices and to the backups of the list.
LEMMA SessionSends ==
  ASSUME TypeInv, NEW d \in Device
  PROVE  /\ NameOf(d) \in Names \cup Deletes
         /\ To(DeviceSockets, NameOf(d)) \in Seq([to : Reader, packet : Names \cup Deletes])
         /\ To(list, NameOf(d)) \in Seq([to : Reader, packet : Names \cup Deletes])
         /\ \A p \in File : To(DeviceSockets, DeleteCmd(p))
                              \in Seq([to : Reader, packet : Names \cup Deletes])
<1>1. NameOf(d) \in Names \cup Deletes
  BY WireIs DEF NameOf, TypeInv
<1>2. DeviceSockets \in Seq(Reader) /\ list \in Seq(Reader)
  BY Slots, SeqMonotonic DEF TypeInv, Reader
<1>. QED  BY <1>1, <1>2, ToEach, WireIs

\* The steps of any thread.
LEMMA TypeWrites ==
  ASSUME TypeInv, NEW t \in Thread, SendNext(t) \/ WritePart(t)
  PROVE  TypeInv'
<1>1. CASE SendNext(t)
  <2>. DEFINE next == Head(plan[t])
  <2>1. plan[t] \in Seq([to : Reader, packet : Names \cup Deletes]) /\ plan[t] # <<>>
    BY <1>1 DEF SendNext, TypeInv
  <2>2. /\ next \in [to : Reader, packet : Names \cup Deletes]
        /\ Tail(plan[t]) \in Seq([to : Reader, packet : Names \cup Deletes])
    BY <2>1, FirstOf
  <2>3. next.to \in Reader /\ next.packet \in Wire /\ Write(next.to, next.packet)
    BY <1>1, <2>2, WireIs DEF SendNext
  <2>4. chan' \in [Reader -> Seq(Wire)]
    BY <2>3, Written
  <2>5. next.packet.type = "data" => next.packet.payload \in File
    BY <2>2 DEF Names, Deletes
  <2>6. next.packet.type = "data"
          => SendFile(next.to, disk[Main][next.packet.payload])
               \in Seq([to : Reader, packet : Parts])
    <3>. SUFFICES ASSUME next.packet.type = "data"
                  PROVE  SendFile(next.to, disk[Main][next.packet.payload])
                           \in Seq([to : Reader, packet : Parts])
      OBVIOUS
    <3>1. disk[Main][next.packet.payload] \in Seq(Version) \cup {Gone}
      BY <2>5 DEF TypeInv
    <3>. QED  BY <2>3, <3>1, FileSent
  <2>7. out' = [out EXCEPT ![t] = IF next.packet.type = "data"
                                  THEN SendFile(next.to, disk[Main][next.packet.payload])
                                  ELSE <<>>]
    BY <1>1 DEF SendNext
  <2>8. out' \in [Thread -> Seq([to : Reader, packet : Parts])]
    <3>. HIDE DEF next
    <3>. QED  BY <2>6, <2>7, EmptySeq DEF TypeInv
  <2>9. plan' \in [Thread -> Seq([to : Reader, packet : Names \cup Deletes])]
    BY <1>1, <2>2 DEF SendNext, TypeInv
  <2>. QED  BY <1>1, <2>4, <2>8, <2>9 DEF SendNext, readers, TypeInv
<1>2. CASE WritePart(t)
  <2>1. out[t] \in Seq([to : Reader, packet : Parts]) /\ out[t] # <<>>
    BY <1>2 DEF WritePart, TypeInv
  <2>2. /\ Head(out[t]) \in [to : Reader, packet : Parts]
        /\ Tail(out[t]) \in Seq([to : Reader, packet : Parts])
    BY <2>1, FirstOf
  <2>3. Head(out[t]).to \in Reader /\ Head(out[t]).packet \in Wire
    BY <2>2, WireIs
  <2>4. chan' \in [Reader -> Seq(Wire)]
    BY <1>2, <2>3, Written DEF WritePart
  <2>5. out' \in [Thread -> Seq([to : Reader, packet : Parts])]
    BY <1>2, <2>2 DEF WritePart, TypeInv
  <2>. QED  BY <1>2, <2>4, <2>5 DEF WritePart, readers, TypeInv
<1>. QED  BY <1>1, <1>2

\* The steps of a session.
LEMMA TypeSession ==
  ASSUME TypeInv, NEW d \in Device,
         Session(d) \/ EndUpload(d) \/ LockServerList(d) \/ UnlockServerList(d)
  PROVE  TypeInv'
<1>0. d \in Thread /\ Main \notin Reader /\ Thread = Reader /\ <<>> # Gone
  BY ReplicationAssumption, IsThere, EmptySeq DEF Thread, Reader, Content
<1>1. ASSUME NEW p \in File, NEW v \in Version, NEW n \in Sizes, BeginUpload(d, p, v, n)
      PROVE  TypeInv'
  <2>1. [i \in 1 .. n |-> v] \in Seq(Version)
    <3>1. n \in Nat /\ [i \in 1 .. n |-> v] \in [1 .. n -> Version]
      BY ReplicationAssumption
    <3>. QED  BY <3>1, IsSeq
  <2>2. job' \in [Device -> [op : {"upload", "delete"}, path : File, content : Seq(Version)]]
    BY <1>1, <2>1 DEF BeginUpload, TypeInv
  <2>3. /\ disk' \in [{Main} \cup Reader -> [File -> Content \cup {Gone}]]
        /\ \A q \in File : disk'[Main][q] \in Seq(Version) \cup {Gone}
        /\ \A q \in File : disk'[Main][q] = Gone => disk[Main][q] = Gone
        /\ disk'[Main][p] # Gone
        /\ \A r \in Reader : disk'[r] = disk[r]
    BY <1>0, <1>1, EmptySeq DEF BeginUpload, TypeInv, Content
  <2>4. changes' \in 0 .. MaxChanges
    BY <1>1, ReplicationAssumption DEF BeginUpload, TypeInv
  <2>5. \A e \in Device : pc'[e] = "receive" => disk'[Main][job'[e].path] # Gone
    BY <1>0, <1>1, <2>3 DEF BeginUpload, TypeInv, Thread
  <2>6. \A b \in Backup : pc'[b] = "list" => list' # <<>>
    BY <1>0, <1>1 DEF BeginUpload, TypeInv, Thread
  <2>7. pc' \in [Thread -> {"idle", "receive", "orphan", "devices", "backups",
                        "out", "list", "clients", "files", "in"}]
    BY <1>0, <1>1 DEF BeginUpload, TypeInv
  <2>8. \A r \in Reader : into'[r] \in File => disk'[r][into'[r]] # Gone
    BY <1>1, <2>3 DEF BeginUpload, readers, TypeInv
  <2>9. UNCHANGED <<chan, list, lock, plan, out, beats, mode, into, got, peers>>
    BY <1>1 DEF BeginUpload, readers
  <2>. QED
    BY <2>2, <2>3, <2>4, <2>5, <2>6, <2>7, <2>8, <2>9 DEF TypeInv
<1>2. ASSUME NEW p \in File, BeginDelete(d, p) PROVE TypeInv'
  <2>1. job' \in [Device -> [op : {"upload", "delete"}, path : File, content : Seq(Version)]]
    BY <1>2, EmptySeq DEF BeginDelete, TypeInv
  <2>2. /\ disk' \in [{Main} \cup Reader -> [File -> Content \cup {Gone}]]
        /\ \A q \in File : disk'[Main][q] \in Seq(Version) \cup {Gone}
        /\ \A q \in File : q # p => disk'[Main][q] = disk[Main][q]
        /\ \A r \in Reader : disk'[r] = disk[r]
    BY <1>0, <1>2 DEF BeginDelete, TypeInv
  <2>3. changes' \in 0 .. MaxChanges
    BY <1>2, ReplicationAssumption DEF BeginDelete, TypeInv
  <2>4. \A e \in Device : pc'[e] = "receive"
          => pc[e] = "receive" /\ e # d /\ job[e].path # p /\ job'[e] = job[e]
    BY <1>0, <1>2 DEF BeginDelete, TypeInv, Thread
  <2>5. \A e \in Device : pc'[e] = "receive" => disk'[Main][job'[e].path] # Gone
    BY <2>2, <2>4 DEF TypeInv
  <2>6. \A b \in Backup : pc'[b] = "list" => list' # <<>>
    BY <1>0, <1>2 DEF BeginDelete, TypeInv, Thread
  <2>7. pc' \in [Thread -> {"idle", "receive", "orphan", "devices", "backups",
                        "out", "list", "clients", "files", "in"}]
    BY <1>0, <1>2 DEF BeginDelete, TypeInv
  <2>8. plan' \in [Thread -> Seq([to : Reader, packet : Names \cup Deletes])]
    BY <1>0, <1>2, SessionSends DEF BeginDelete, TypeInv
  <2>9. \A r \in Reader : into'[r] \in File => disk'[r][into'[r]] # Gone
    BY <1>2, <2>2 DEF BeginDelete, readers, TypeInv
  <2>10. UNCHANGED <<chan, list, lock, out, beats, mode, into, got, peers>>
    BY <1>2 DEF BeginDelete, readers
  <2>. QED
    BY <2>1, <2>2, <2>3, <2>5, <2>6, <2>7, <2>8, <2>9, <2>10 DEF TypeInv
<1>3. CASE EndUpload(d)
  <2>1. plan' \in [Thread -> Seq([to : Reader, packet : Names \cup Deletes])]
    BY <1>0, <1>3, SessionSends DEF EndUpload, TypeInv
  <2>2. pc[d] = "receive" => Overwrite(disk[Main][job[d].path], job[d].content) \in Seq(Version)
    BY OverwriteIs DEF TypeInv
  <2>3. /\ disk' \in [{Main} \cup Reader -> [File -> Content \cup {Gone}]]
        /\ \A q \in File : disk'[Main][q] \in Seq(Version) \cup {Gone}
        /\ \A q \in File : disk'[Main][q] = Gone => disk[Main][q] = Gone
        /\ \A r \in Reader : disk'[r] = disk[r]
    <3>1. CASE pc[d] = "orphan"
      BY <1>3, <3>1 DEF EndUpload, TypeInv
    <3>2. CASE pc[d] = "receive"
      <4>. DEFINE c == Overwrite(disk[Main][job[d].path], job[d].content)
      <4>1. c \in Content /\ c \in Seq(Version) /\ c # Gone
        BY <2>2, <3>2, Contents, IsThere
      <4>2. disk' = [disk EXCEPT ![Main][job[d].path] = c]
        BY <1>3, <3>2 DEF EndUpload
      <4>. HIDE DEF c
      <4>. QED  BY <1>0, <4>1, <4>2 DEF TypeInv
    <3>. QED  BY <1>3, <3>1, <3>2 DEF EndUpload
  <2>4. \A e \in Device : pc'[e] = "receive" => disk'[Main][job'[e].path] # Gone
    BY <1>0, <1>3, <2>3 DEF EndUpload, TypeInv, Thread
  <2>5. \A b \in Backup : pc'[b] = "list" => list' # <<>>
    BY <1>0, <1>3 DEF EndUpload, TypeInv, Thread
  <2>6. pc' \in [Thread -> {"idle", "receive", "orphan", "devices", "backups",
                        "out", "list", "clients", "files", "in"}]
    BY <1>0, <1>3 DEF EndUpload, TypeInv
  <2>. QED
    BY <1>3, <2>1, <2>3, <2>4, <2>5, <2>6 DEF EndUpload, readers, TypeInv
<1>4. CASE LockServerList(d)
  <2>1. plan' \in [Thread -> Seq([to : Reader, packet : Names \cup Deletes])]
    BY <1>0, <1>4, SessionSends DEF LockServerList, TypeInv
  <2>. QED
    BY <1>0, <1>4, <2>1 DEF LockServerList, readers, TypeInv, Thread
<1>5. CASE UnlockServerList(d)
  BY <1>0, <1>5 DEF UnlockServerList, readers, TypeInv, Thread
<1>. QED  BY <1>1, <1>2, <1>3, <1>4, <1>5 DEF Session

\* What a joiner says of the directory, read in that order.
NamesOf(b, order, n) == [i \in 1 .. n |-> [to |-> b, packet |-> SyncName(order[i], i = n)]]

\* The names of a directory, in some order: each file once.
LEMMA DirectorySent ==
  ASSUME NEW b \in Backup, NEW S \in SUBSET File, NEW order \in SetToSeqs(S)
  PROVE  /\ Cardinality(S) \in Nat
         /\ NamesOf(b, order, Cardinality(S)) \in Seq([to : Reader, packet : Names \cup Deletes])
         /\ Len(NamesOf(b, order, Cardinality(S))) = Cardinality(S)
         /\ \A i \in 1 .. Cardinality(S) : order[i] \in S
         /\ \A i, j \in 1 .. Cardinality(S) : order[i] = order[j] => i = j
         /\ \A p \in S : \E i \in 1 .. Cardinality(S) : order[i] = p
<1>. DEFINE N == Cardinality(S)
            sent == NamesOf(b, order, N)
<1>1. IsFiniteSet(S)
  BY FS_Subset, ReplicationAssumption
<1>2. /\ N \in Nat /\ order \in Seq(S) /\ Len(order) = N
      /\ \A i, j \in 1 .. N : order[i] = order[j] => i = j
      /\ \A x \in S : \E i \in 1 .. N : order[i] = x
  BY <1>1, Orders
<1>3. \A i \in 1 .. N : order[i] \in S
  BY <1>2, ElementOfSeq
<1>. HIDE DEF N
<1>4. sent \in [1 .. N -> [to : Reader, packet : Names \cup Deletes]]
  BY <1>3, WireIs DEF Reader, NamesOf
<1>. HIDE DEF sent
<1>5. sent \in Seq([to : Reader, packet : Names \cup Deletes]) /\ Len(sent) = N
  BY <1>2, <1>4, IsSeq
<1>. QED  BY <1>2, <1>3, <1>5 DEF N, sent

\* The steps of a joiner, and the heartbeat.
LEMMA TypeJoin ==
  ASSUME TypeInv, NEW b \in Backup,
         AddBackupServer(b) \/ BackupServerList(b) \/ BackupClientList(b)
           \/ BackupSyncDir(b) \/ Joined(b) \/ Heartbeat(b)
  PROVE  TypeInv'
<1>0. b \in Thread /\ b \in Reader /\ Reader = Thread
  BY DEF Thread, Reader
<1>1. CASE AddBackupServer(b)
  <2>0. <<b>> \in Seq(Backup) /\ <<b>> # <<>>
    OBVIOUS
  <2>1. ServerInfo(<<b>>) \in Wire
    BY <2>0, WireIs
  <2>2. chan' \in [Reader -> Seq(Wire)]
    BY <1>1, <2>1, AppendProperties DEF AddBackupServer, TypeInv
  <2>3. list' \in Seq(Backup) /\ list' # <<>>
    <3>1. list' = Append(list, b) /\ list \in Seq(Backup)
      BY <1>1 DEF AddBackupServer, TypeInv
    <3>. QED  BY <3>1, AppendProperties
  <2>4. \A d \in Device : pc'[d] = pc[d]
    BY <1>0, <1>1, ReplicationAssumption DEF AddBackupServer, TypeInv, Thread
  <2>. QED  BY <1>0, <1>1, <2>2, <2>3, <2>4 DEF AddBackupServer, readers, TypeInv
<1>2. CASE BackupServerList(b)
  <2>1. ServerInfo(list) \in Wire
    BY <1>2, WireIs DEF BackupServerList, TypeInv
  <2>2. chan' \in [Reader -> Seq(Wire)]
    BY <1>0, <1>2, <2>1, Written DEF BackupServerList
  <2>3. \A d \in Device : pc'[d] = pc[d]
    BY <1>0, <1>2, ReplicationAssumption DEF BackupServerList, TypeInv, Thread
  <2>. QED  BY <1>0, <1>2, <2>2, <2>3 DEF BackupServerList, readers, TypeInv, Thread
<1>3. CASE BackupClientList(b)
  <2>1. chan' \in [Reader -> Seq(Wire)]
    BY <1>0, <1>3, WireIs, Written DEF BackupClientList
  <2>2. \A d \in Device : pc'[d] = pc[d]
    BY <1>0, <1>3, ReplicationAssumption DEF BackupClientList, TypeInv, Thread
  <2>. QED  BY <1>0, <1>3, <2>1, <2>2 DEF BackupClientList, readers, TypeInv, Thread
<1>4. CASE BackupSyncDir(b)
  <2>. DEFINE S == {p \in File : disk[Main][p] # Gone}
              N == Cardinality(S)
  <2>1. PICK order \in SetToSeqs(S) :
          /\ plan' = [plan EXCEPT ![b] = NamesOf(b, order, N)]
          /\ out' = [out EXCEPT ![b] =
               IF N = 0 THEN <<[to |-> b, packet |-> Err]>> ELSE <<>>]
    BY <1>4, Zenon DEF BackupSyncDir, NamesOf
  <2>. HIDE DEF N
  <2>2. NamesOf(b, order, N) \in Seq([to : Reader, packet : Names \cup Deletes])
    <3>1. S \in SUBSET File
      OBVIOUS
    <3>. HIDE DEF S
    <3>. QED  BY <3>1, DirectorySent DEF N
  <2>3. plan' \in [Thread -> Seq([to : Reader, packet : Names \cup Deletes])]
    BY <2>1, <2>2 DEF TypeInv
  <2>4. <<[to |-> b, packet |-> Err]>> \in Seq([to : Reader, packet : Parts])
    BY <1>0, WireIs
  <2>5. out' \in [Thread -> Seq([to : Reader, packet : Parts])]
    BY <2>1, <2>4, EmptySeq DEF TypeInv
  <2>6. /\ pc' = [pc EXCEPT ![b] = "backups"]
        /\ UNCHANGED <<disk, chan, list, lock, job, changes, beats, mode, into, got, peers>>
    BY <1>4 DEF BackupSyncDir, readers
  <2>7. /\ \A d \in Device : pc'[d] = pc[d]
        /\ \A c \in Backup : pc'[c] = "list" => pc[c] = "list"
        /\ pc' \in [Thread -> {"idle", "receive", "orphan", "devices", "backups",
                        "out", "list", "clients", "files", "in"}]
    BY <1>0, <2>6, ReplicationAssumption DEF TypeInv, Thread
  <2>. QED  BY <2>3, <2>5, <2>6, <2>7 DEF TypeInv
<1>5. CASE Joined(b)
  <2>1. /\ \A d \in Device : pc'[d] = pc[d]
        /\ \A c \in Backup : pc'[c] = "list" => pc[c] = "list"
    BY <1>0, <1>5, ReplicationAssumption DEF Joined, TypeInv, Thread
  <2>. QED  BY <1>0, <1>5, <2>1 DEF Joined, readers, TypeInv
<1>6. CASE Heartbeat(b)
  <2>1. chan' \in [Reader -> Seq(Wire)]
    BY <1>0, <1>6, WireIs, Written DEF Heartbeat
  <2>2. beats' \in 0 .. MaxBeats
    BY <1>6, ReplicationAssumption DEF Heartbeat, TypeInv
  <2>. QED  BY <1>6, <2>1, <2>2 DEF Heartbeat, readers, TypeInv
<1>. QED  BY <1>1, <1>2, <1>3, <1>4, <1>5, <1>6

\* Opening a file empties it, a file of the main server's never.
LEMMA Opened ==
  ASSUME TypeInv, NEW r \in Reader, NEW p \in File \cup {Stray}, Open(r, p)
  PROVE  /\ disk' \in [{Main} \cup Reader -> [File -> Content \cup {Gone}]]
         /\ disk'[Main] = disk[Main]
         /\ \A q \in Reader \ {r} : disk'[q] = disk[q]
         /\ p \in File => disk'[r] = [disk[r] EXCEPT ![p] = <<>>]
         /\ p \notin File => disk'[r] = disk[r]
         /\ into' = [into EXCEPT ![r] = p] /\ got' = [got EXCEPT ![r] = 0]
         /\ into' \in [Reader -> File \cup {Stray, Gone}]
         /\ got' \in [Reader -> 0 .. 2^Width - 1]
         /\ \A q \in Reader : into'[q] \in File => disk'[q][into'[q]] # Gone
<1>1. <<>> \in Content /\ <<>> # Gone
  <2>1. <<>> \in Content
    BY EmptySeq DEF Content
  <2>. QED  BY <2>1, IsThere
<1>2. Main \notin Reader /\ Stray \notin File /\ 0 \in 0 .. 2^Width - 1
  BY ReplicationAssumption DEF Reader
<1>. QED  BY <1>1, <1>2 DEF Open, TypeInv

\* The steps of a reader.
LEMMA TypeReceive ==
  ASSUME TypeInv, NEW r \in Reader, Receive(r)
  PROVE  TypeInv' /\ disk'[Main] = disk[Main] /\ UNCHANGED main
<1>. DEFINE Rest == disk' \in [{Main} \cup Reader -> [File -> Content \cup {Gone}]]
                 /\ disk'[Main] = disk[Main]
                 /\ into' \in [Reader -> File \cup {Stray, Gone}]
                 /\ got' \in [Reader -> 0 .. 2^Width - 1]
                 /\ \A q \in Reader : into'[q] \in File => disk'[q][into'[q]] # Gone
            Modes == mode' \in [Reader -> {"servers", "clients", "sync_dir", "sync", "down"}]
<1>1. Packets(r) /\ Take(r) /\ UNCHANGED main
  BY DEF Receive, ReceiveServerList, ReceiveClientList, ReceiveSyncDir, ReceivePart,
         SyncFile, SyncFragment, SyncDelete, SyncServer, SyncNothing, Sync
<1>2. Packet1(r) \in Wire /\ chan' \in [Reader -> Seq(Wire)]
  BY <1>1, Taken
<1>3. ASSUME Rest, Modes, peers' \in [Backup -> Seq(Backup)]
      PROVE  TypeInv' /\ disk'[Main] = disk[Main] /\ UNCHANGED main
  <2>1. UNCHANGED <<list, lock, pc, job, plan, out, changes, beats>>
    BY <1>1 DEF main
  <2>. QED  BY <1>1, <1>2, <1>3, <2>1 DEF TypeInv
<1>4. ASSUME UNCHANGED <<disk, into, got>> PROVE Rest
  BY <1>4 DEF TypeInv
<1>5. ASSUME NEW p \in File \cup {Stray}, Open(r, p) PROVE Rest
  BY <1>5, Opened
<1>6. Packet1(r).type = "server" => Packet1(r).payload \in Seq(Backup) /\ Packet1(r).payload # <<>>
  BY <1>2 DEF Wire, Names, Deletes, Parts, Infos, Err, Eot, Beat
<1>7. "last" \in DOMAIN Packet1(r) => Packet1(r).payload \in File
  BY <1>2, LastIs
<1>8. Main \notin Reader /\ Gone \notin File
  BY ReplicationAssumption DEF Reader
<1>. HIDE DEF Rest, Modes
<1>9. CASE ReceiveServerList(r)
  <2>1. Rest
    BY <1>4, <1>9 DEF ReceiveServerList
  <2>2. Modes
    BY <1>9 DEF ReceiveServerList, TypeInv, Modes
  <2>3. peers' \in [Backup -> Seq(Backup)]
    BY <1>6, <1>9 DEF ReceiveServerList, TypeInv
  <2>. QED  BY <1>3, <2>1, <2>2, <2>3
<1>10. CASE ReceiveClientList(r)
  <2>1. Rest
    BY <1>4, <1>10 DEF ReceiveClientList
  <2>2. Modes /\ peers' \in [Backup -> Seq(Backup)]
    BY <1>10 DEF ReceiveClientList, TypeInv, Modes
  <2>. QED  BY <1>3, <2>1, <2>2
<1>11. CASE ReceiveSyncDir(r)
  <2>1. Rest
    BY <1>4, <1>5, <1>7, <1>11 DEF ReceiveSyncDir
  <2>2. Modes /\ peers' \in [Backup -> Seq(Backup)]
    BY <1>11 DEF ReceiveSyncDir, TypeInv, Modes
  <2>. QED  BY <1>3, <2>1, <2>2
<1>12. CASE ReceivePart(r)
  <2>. DEFINE fragment == IF Packet1(r).payload \in Version THEN Packet1(r).payload ELSE Junk
              content == IF Packet1(r).type = "err" THEN Gone
                         ELSE Append(disk[r][into[r]], fragment)
  <2>1. /\ into[r] # Gone
        /\ disk' = IF into[r] = Stray THEN disk ELSE [disk EXCEPT ![r][into[r]] = content]
        /\ got' = [got EXCEPT ![r] = Count(@)]
        /\ into' = IF Packet1(r).type = "err" \/ Count(got[r]) = Packet1(r).total
                   THEN [into EXCEPT ![r] = Gone] ELSE into
        /\ UNCHANGED <<mode, peers>>
    BY <1>12 DEF ReceivePart
  <2>2. got' \in [Reader -> 0 .. 2^Width - 1]
    BY <2>1, CountIs DEF TypeInv
  <2>3. into' \in [Reader -> File \cup {Stray, Gone}]
    BY <2>1 DEF TypeInv
  <2>4. into[r] \in File => disk[r][into[r]] \in Content
    BY DEF TypeInv
  <2>5. into[r] \in File => content \in Content \cup {Gone}
                            /\ (Packet1(r).type # "err" => content # Gone)
    <3>1. fragment \in Version \cup {Junk, Old}
      OBVIOUS
    <3>. HIDE DEF fragment
    <3>2. into[r] \in File => Append(disk[r][into[r]], fragment) \in Content
      BY <2>4, <3>1, AppendProperties DEF Content
    <3>. QED  BY <3>2, IsThere
  <2>. HIDE DEF content, fragment
  <2>6. into[r] \in File \/ into[r] = Stray
    BY <2>1 DEF TypeInv
  <2>7. /\ disk' \in [{Main} \cup Reader -> [File -> Content \cup {Gone}]]
        /\ disk'[Main] = disk[Main]
    BY <1>8, <2>1, <2>5, <2>6 DEF TypeInv
  <2>8. \A q \in Reader : into'[q] \in File => disk'[q][into'[q]] # Gone
    BY <1>8, <2>1, <2>5, <2>6 DEF TypeInv
  <2>. QED  BY <1>3, <2>1, <2>2, <2>3, <2>7, <2>8 DEF Rest, Modes, TypeInv
<1>13. CASE SyncFile(r)
  <2>1. Rest
    BY <1>5, <1>13 DEF SyncFile
  <2>. QED  BY <1>3, <1>13, <2>1 DEF SyncFile, Modes, TypeInv
<1>14. CASE SyncFragment(r)
  <2>1. Rest
    BY <1>4, <1>5, <1>14 DEF SyncFragment
  <2>2. Modes /\ peers' \in [Backup -> Seq(Backup)]
    BY <1>14 DEF SyncFragment, TypeInv, Modes
  <2>. QED  BY <1>3, <2>1, <2>2
<1>15. CASE SyncDelete(r)
  <2>1. Rest
    BY <1>8, <1>15 DEF SyncDelete, Sync, TypeInv, Rest
  <2>. QED  BY <1>3, <1>15, <2>1 DEF SyncDelete, Modes, TypeInv
<1>16. CASE SyncServer(r)
  <2>1. Rest
    BY <1>4, <1>16 DEF SyncServer
  <2>2. Head(Packet1(r).payload) \in Backup
    BY <1>6, <1>16, FirstOf DEF SyncServer
  <2>3. peers' \in [Backup -> Seq(Backup)]
    BY <1>16, <2>2, AppendProperties DEF SyncServer, TypeInv
  <2>. QED  BY <1>3, <1>16, <2>1, <2>3 DEF SyncServer, Modes, TypeInv
<1>17. CASE SyncNothing(r)
  <2>1. Rest
    BY <1>4, <1>17 DEF SyncNothing, readers
  <2>. QED  BY <1>3, <1>17, <2>1 DEF SyncNothing, readers, Modes, TypeInv
<1>. QED
  BY <1>9, <1>10, <1>11, <1>12, <1>13, <1>14, <1>15, <1>16, <1>17 DEF Receive

\* Every step keeps the types.
LEMMA TypeStep == TypeInv /\ [Next]_vars => TypeInv'
<1>. SUFFICES ASSUME TypeInv, [Next]_vars PROVE TypeInv'
  OBVIOUS
<1>1. CASE UNCHANGED vars
  BY <1>1 DEF vars, main, readers, TypeInv
<1>2. ASSUME NEW t \in Thread, Proceed(t) PROVE TypeInv'
  BY <1>2, TypeWrites, TypeSession, TypeJoin DEF Proceed
<1>3. ASSUME NEW d \in Device, Session(d) PROVE TypeInv'
  BY <1>3, TypeSession
<1>4. ASSUME NEW b \in Backup, AddBackupServer(b) \/ Heartbeat(b) PROVE TypeInv'
  BY <1>4, TypeJoin
<1>5. ASSUME NEW r \in Reader, Receive(r) PROVE TypeInv'
  BY <1>5, TypeReceive
<1>. QED  BY <1>1, <1>2, <1>3, <1>4, <1>5 DEF Next

\* The types hold throughout.
LEMMA Typed == Spec => []TypeInv
BY TypeInit, TypeStep, PTL DEF Spec

\* Whatever runs beside what, every variable keeps its type: a socket holds
\* only packets of the protocol, and a server list only backup servers.
THEOREM TypeCorrect == Spec => []TypeOK
BY Typed, TypeIs, PTL

-----------------------------------------------------------------------------
(* access_server_list.                                                     *)

\* What goes to a socket of T only.
OnlyTo(q, T) == \A i \in 1 .. Len(q) : q[i].to \in T

\* The sockets a thread writes to where it is.
Targets(t) == IF t \in Backup THEN {t} ELSE IF pc[t] = "devices" THEN Device ELSE Backup

\* Whoever is writing to the backups, or putting its server on the list, holds
\* the mutex; and a session that writes before it has the mutex, or has nothing
\* to write, does not write to a backup.
LockInv ==
  /\ \A d \in Device : pc[d] \in {"idle", "receive", "orphan", "devices", "backups"}
  /\ \A b \in Backup : pc[b] \in {"out", "list", "clients", "files", "backups", "in"}
  /\ \A d \in Device : pc[d] = "backups" => lock = d
  /\ \A b \in Backup : pc[b] = "list" => lock = b
  /\ \A d \in Device : pc[d] \notin {"devices", "backups"} => Sent(d)
  /\ \A b \in Backup : pc[b] # "backups" => Sent(b)
  /\ \A t \in Thread : OnlyTo(plan[t], Targets(t)) /\ OnlyTo(out[t], Targets(t))

\* The same packet for each of a sequence of targets goes to these.
LEMMA EachTo ==
  ASSUME NEW S, NEW q \in Seq(S), NEW k
  PROVE  OnlyTo(To(q, k), S)
<1>1. /\ Len(To(q, k)) = Len(q)
      /\ \A i \in 1 .. Len(q) : To(q, k)[i] = [to |-> q[i], packet |-> k]
  BY ToEach
<1>2. \A i \in 1 .. Len(q) : q[i] \in S
  BY ElementOfSeq
<1>3. \A i \in 1 .. Len(To(q, k)) : To(q, k)[i].to \in S
  <2>. TAKE i \in 1 .. Len(To(q, k))
  <2>1. i \in 1 .. Len(q)
    BY <1>1
  <2>2. To(q, k)[i] = [to |-> q[i], packet |-> k]
    BY <1>1, <2>1
  <2>. QED  BY <1>2, <2>1, <2>2
<1>. QED  BY <1>3 DEF OnlyTo

\* send_file writes to the one it is told to.
LEMMA FileTo ==
  ASSUME NEW r \in Reader, NEW c \in Seq(Version) \cup {Gone}
  PROVE  OnlyTo(SendFile(r, c), {r})
<1>. DEFINE e == [to |-> r, packet |-> Err]
<1>1. CASE c = Gone
  <2>1. SendFile(r, c) = <<e>>
    BY <1>1, FileSent
  <2>2. e.to = r
    OBVIOUS
  <2>. HIDE DEF e
  <2>3. Len(<<e>>) = 1 /\ <<e>>[1] = e
    OBVIOUS
  <2>. QED  BY <2>1, <2>2, <2>3 DEF OnlyTo
<1>2. CASE c # Gone
  <2>1. /\ Len(SendFile(r, c)) = Len(c)
        /\ \A i \in 1 .. Len(c) :
             SendFile(r, c)[i] = [to |-> r, packet |-> Part(c[i], Len(c))]
    BY <1>2, FileSent
  <2>2. \A i \in 1 .. Len(SendFile(r, c)) : SendFile(r, c)[i].to = r
    <3>. TAKE i \in 1 .. Len(SendFile(r, c))
    <3>1. i \in 1 .. Len(c)
      BY <2>1
    <3>2. SendFile(r, c)[i] = [to |-> r, packet |-> Part(c[i], Len(c))]
      BY <2>1, <3>1
    <3>. QED  BY <3>2
  <2>. QED  BY <2>2 DEF OnlyTo
<1>. QED  BY <1>1, <1>2

\* A sequence without its first goes where it went.
LEMMA RestTo ==
  ASSUME NEW S, NEW q \in Seq(S), q # <<>>, NEW T, OnlyTo(q, T)
  PROVE  OnlyTo(Tail(q), T) /\ Head(q).to \in T
<1>1. /\ Head(q) = q[1] /\ Len(q) \in Nat /\ Len(q) >= 1 /\ Len(Tail(q)) = Len(q) - 1
      /\ \A i \in 1 .. Len(q) - 1 : Tail(q)[i] = q[i+1]
  BY FirstOf
<1>. QED  BY <1>1 DEF OnlyTo

\* Nobody holds access_server_list at the start.
LEMMA LockInit == Init => LockInv
BY ReplicationAssumption DEF Init, LockInv, Thread, Sent, OnlyTo

\* A step of no thread.
LEMMA LockKept ==
  ASSUME LockInv, UNCHANGED <<pc, lock, plan, out>>
  PROVE  LockInv'
BY DEF LockInv, Sent, OnlyTo, Targets

\* A thread that goes on writing writes to the same.
LEMMA LockWrites ==
  ASSUME TypeInv, LockInv, NEW t \in Thread, SendNext(t) \/ WritePart(t)
  PROVE  LockInv'
<1>1. CASE SendNext(t)
  <2>. DEFINE next == Head(plan[t])
  <2>1. plan[t] \in Seq([to : Reader, packet : Names \cup Deletes]) /\ plan[t] # <<>>
    BY <1>1 DEF SendNext, TypeInv
  <2>2. next \in [to : Reader, packet : Names \cup Deletes]
    BY <2>1, FirstOf
  <2>3. /\ UNCHANGED <<pc, lock>>
        /\ plan' = [plan EXCEPT ![t] = Tail(@)]
        /\ out' = [out EXCEPT ![t] = IF next.packet.type = "data"
                                     THEN SendFile(next.to, disk[Main][next.packet.payload])
                                     ELSE <<>>]
    BY <1>1 DEF SendNext
  <2>4. OnlyTo(Tail(plan[t]), Targets(t)) /\ next.to \in Targets(t)
    <3>1. OnlyTo(plan[t], Targets(t))
      BY DEF LockInv
    <3>. QED  BY <2>1, <3>1, RestTo
  <2>5. OnlyTo(out'[t], Targets(t))
    <3>1. CASE next.packet.type = "data"
      <4>. DEFINE c == disk[Main][next.packet.payload]
      <4>1. next.packet.payload \in File
        BY <2>2, <3>1 DEF Names, Deletes
      <4>2. c \in Seq(Version) \cup {Gone} /\ next.to \in Reader
        BY <2>2, <4>1 DEF TypeInv
      <4>3. out'[t] = SendFile(next.to, c)
        BY <2>3, <3>1 DEF TypeInv
      <4>. HIDE DEF c, next
      <4>. QED  BY <2>4, <4>2, <4>3, FileTo DEF OnlyTo
    <3>2. CASE next.packet.type # "data"
      <4>1. out'[t] = <<>>
        BY <2>3, <3>2 DEF TypeInv
      <4>. QED  BY <4>1 DEF OnlyTo
    <3>. QED  BY <3>1, <3>2
  <2>6. t \in Device => pc[t] \in {"devices", "backups"}
    BY <2>1 DEF LockInv, Sent
  <2>7. t \in Backup => pc[t] = "backups"
    BY <2>1 DEF LockInv, Sent
  <2>8. /\ \A u \in Thread \ {t} : plan'[u] = plan[u] /\ out'[u] = out[u]
        /\ plan'[t] = Tail(plan[t])
    BY <2>3 DEF TypeInv
  <2>. HIDE DEF next
  <2>9. \A u \in Thread : Targets(u)' = Targets(u)
    BY <2>3 DEF Targets
  <2>. QED  BY <2>3, <2>4, <2>5, <2>6, <2>7, <2>8, <2>9 DEF LockInv, Sent, Thread
<1>2. CASE WritePart(t)
  <2>1. out[t] \in Seq([to : Reader, packet : Parts]) /\ out[t] # <<>>
    BY <1>2 DEF WritePart, TypeInv
  <2>2. /\ UNCHANGED <<pc, lock, plan>>
        /\ out' = [out EXCEPT ![t] = Tail(@)]
    BY <1>2 DEF WritePart
  <2>3. OnlyTo(Tail(out[t]), Targets(t))
    <3>1. OnlyTo(out[t], Targets(t))
      BY DEF LockInv
    <3>. QED  BY <2>1, <3>1, RestTo
  <2>4. t \in Device => pc[t] \in {"devices", "backups"}
    BY <2>1 DEF LockInv, Sent
  <2>5. t \in Backup => pc[t] = "backups"
    BY <2>1 DEF LockInv, Sent
  <2>6. (\A u \in Thread \ {t} : out'[u] = out[u]) /\ out'[t] = Tail(out[t])
    BY <2>2 DEF TypeInv
  <2>7. \A u \in Thread : Targets(u)' = Targets(u)
    BY <2>2 DEF Targets
  <2>. QED  BY <2>2, <2>3, <2>4, <2>5, <2>6, <2>7 DEF LockInv, Sent, Thread
<1>. QED  BY <1>1, <1>2

\* Nothing goes anywhere.
LEMMA NothingTo ==
  ASSUME NEW T
  PROVE  OnlyTo(<<>>, T)
BY DEF OnlyTo

\* A step of one thread that leaves the mutex to its holder.
LEMMA LockOthers ==
  ASSUME TypeInv, LockInv, NEW t \in Thread,
         \A u \in Thread \ {t} :
           /\ plan'[u] = plan[u] /\ out'[u] = out[u]
           /\ pc'[u] = pc[u] \/ (u \in Device /\ pc[u] = "receive" /\ pc'[u] = "orphan"),
         OnlyTo(plan'[t], Targets(t)'), OnlyTo(out'[t], Targets(t)'),
         \A u \in Thread \ {t} :
           (u \in Device /\ pc[u] = "backups") \/ (u \in Backup /\ pc[u] = "list") => lock' = lock,
         t \in Device => /\ pc'[t] \in {"idle", "receive", "orphan", "devices", "backups"}
                         /\ pc'[t] = "backups" => lock' = t
                         /\ pc'[t] \notin {"devices", "backups"} => Sent(t)',
         t \in Backup => /\ pc'[t] \in {"out", "list", "clients", "files", "backups", "in"}
                         /\ pc'[t] = "list" => lock' = t
                         /\ pc'[t] # "backups" => Sent(t)'
  PROVE  LockInv'
<1>1. \A u \in Thread \ {t} : OnlyTo(plan'[u], Targets(u)') /\ OnlyTo(out'[u], Targets(u)')
  <2>. TAKE u \in Thread \ {t}
  <2>1. CASE pc'[u] = pc[u]
    BY <2>1 DEF LockInv, Targets
  <2>2. CASE u \in Device /\ pc[u] = "receive"
    <3>1. plan'[u] = <<>> /\ out'[u] = <<>>
      BY <2>2 DEF LockInv, Sent
    <3>. QED  BY <3>1, NothingTo
  <2>. QED  BY <2>1, <2>2
<1>2. \A u \in Thread \ {t} : Sent(u) => Sent(u)'
  BY DEF Sent
<1>3. \A d \in Device :
        /\ pc'[d] \in {"idle", "receive", "orphan", "devices", "backups"}
        /\ pc'[d] = "backups" => lock' = d
        /\ pc'[d] \notin {"devices", "backups"} => Sent(d)'
  BY <1>2 DEF LockInv, Thread
<1>4. \A b \in Backup :
        /\ pc'[b] \in {"out", "list", "clients", "files", "backups", "in"}
        /\ pc'[b] = "list" => lock' = b
        /\ pc'[b] # "backups" => Sent(b)'
  BY <1>2, ReplicationAssumption DEF LockInv, Thread
<1>. QED  BY <1>1, <1>3, <1>4 DEF LockInv

\* Every step keeps what the lock implies.
LEMMA LockStep == TypeInv /\ LockInv /\ [Next]_vars => LockInv'
<1>. SUFFICES ASSUME TypeInv, LockInv, [Next]_vars PROVE LockInv'
  OBVIOUS
<1>0. /\ Thread = Device \cup Backup /\ Device \cap Backup = {}
      /\ Free \notin Device \cup Backup
  BY ReplicationAssumption DEF Thread
<1>1. CASE UNCHANGED vars
  BY <1>1, LockKept DEF vars, main
<1>2. ASSUME NEW r \in Reader, Receive(r) PROVE LockInv'
  BY <1>2, TypeReceive, LockKept DEF main
<1>3. ASSUME NEW t \in Thread, SendNext(t) \/ WritePart(t) PROVE LockInv'
  BY <1>3, LockWrites
<1>4. ASSUME NEW d \in Device, Session(d) \/ EndUpload(d) \/ LockServerList(d) \/ UnlockServerList(d)
      PROVE  LockInv'
  <2>0. DeviceSockets \in Seq(Device) /\ list \in Seq(Backup)
    BY Slots DEF TypeInv
  <2>1. ASSUME NEW p \in File, NEW v \in Version, NEW n \in Sizes, BeginUpload(d, p, v, n)
        PROVE  LockInv'
    <3>1. /\ pc[d] = "idle" /\ pc'[d] = "receive" /\ UNCHANGED <<plan, out, lock>>
          /\ \A u \in Thread \ {d} : pc'[u] = pc[u]
      BY <1>0, <2>1 DEF BeginUpload, TypeInv
    <3>2. Sent(d) /\ Sent(d)'
      BY <3>1 DEF LockInv, Sent
    <3>. QED  BY <1>0, <3>1, <3>2, NothingTo, LockOthers DEF Sent
  <2>2. ASSUME NEW p \in File, BeginDelete(d, p) PROVE LockInv'
    <3>1. /\ pc[d] = "idle" /\ pc'[d] = "devices" /\ UNCHANGED <<out, lock>>
          /\ plan'[d] = To(DeviceSockets, DeleteCmd(p))
          /\ \A u \in Thread \ {d} :
               /\ plan'[u] = plan[u]
               /\ pc'[u] = pc[u] \/ (pc[u] = "receive" /\ pc'[u] = "orphan" /\ job[u].path = p)
      BY <1>0, <2>2 DEF BeginDelete, TypeInv
    <3>2. \A u \in Backup : pc'[u] = pc[u]
      BY <1>0, <3>1 DEF LockInv
    <3>3. Sent(d) /\ Targets(d)' = Device
      BY <1>0, <3>1 DEF LockInv, Targets
    <3>. QED  BY <1>0, <2>0, <3>1, <3>2, <3>3, EachTo, NothingTo, LockOthers DEF Sent
  <2>3. CASE EndUpload(d)
    <3>1. /\ pc[d] \in {"receive", "orphan"} /\ pc'[d] = "devices" /\ UNCHANGED <<out, lock>>
          /\ plan'[d] = To(DeviceSockets, NameOf(d))
          /\ \A u \in Thread \ {d} : plan'[u] = plan[u] /\ pc'[u] = pc[u]
      BY <1>0, <2>3 DEF EndUpload, TypeInv
    <3>2. Sent(d) /\ Targets(d)' = Device
      BY <1>0, <3>1 DEF LockInv, Targets
    <3>. QED  BY <1>0, <2>0, <3>1, <3>2, EachTo, NothingTo, LockOthers DEF Sent
  <2>4. CASE LockServerList(d)
    <3>1. /\ Sent(d) /\ pc'[d] = "backups" /\ UNCHANGED out /\ lock = Free /\ lock' = d
          /\ plan'[d] = To(list, NameOf(d))
          /\ \A u \in Thread \ {d} : plan'[u] = plan[u] /\ pc'[u] = pc[u]
      BY <1>0, <2>4 DEF LockServerList, TypeInv
    <3>2. Targets(d)' = Backup
      BY <1>0, <3>1 DEF Targets
    <3>3. \A u \in Thread : ~ (u \in Device /\ pc[u] = "backups") /\ ~ (u \in Backup /\ pc[u] = "list")
      BY <1>0, <3>1 DEF LockInv
    <3>. QED  BY <1>0, <2>0, <3>1, <3>2, <3>3, EachTo, NothingTo, LockOthers DEF Sent
  <2>5. CASE UnlockServerList(d)
    <3>1. /\ Sent(d) /\ pc[d] = "backups" /\ pc'[d] = "idle" /\ UNCHANGED <<plan, out>>
          /\ \A u \in Thread \ {d} : pc'[u] = pc[u]
      BY <1>0, <2>5 DEF UnlockServerList, TypeInv
    <3>2. \A u \in Thread \ {d} : ~ (u \in Device /\ pc[u] = "backups") /\ ~ (u \in Backup /\ pc[u] = "list")
      BY <1>0, <3>1 DEF LockInv
    <3>3. Sent(d)'
      BY <3>1 DEF Sent
    <3>. QED  BY <1>0, <3>1, <3>2, <3>3, NothingTo, LockOthers DEF Sent
  <2>. QED  BY <1>4, <2>1, <2>2, <2>3, <2>4, <2>5 DEF Session
<1>5. ASSUME NEW b \in Backup,
             AddBackupServer(b) \/ BackupServerList(b) \/ BackupClientList(b)
               \/ BackupSyncDir(b) \/ Joined(b) \/ Heartbeat(b)
      PROVE  LockInv'
  <2>1. CASE AddBackupServer(b)
    <3>1. /\ pc[b] = "out" /\ pc'[b] = "list" /\ UNCHANGED <<plan, out>> /\ lock = Free /\ lock' = b
          /\ \A u \in Thread \ {b} : pc'[u] = pc[u]
      BY <1>0, <2>1 DEF AddBackupServer, TypeInv
    <3>2. \A u \in Thread : ~ (u \in Device /\ pc[u] = "backups") /\ ~ (u \in Backup /\ pc[u] = "list")
      BY <1>0, <3>1 DEF LockInv
    <3>3. Sent(b) /\ Sent(b)'
      BY <3>1 DEF LockInv, Sent
    <3>. QED  BY <1>0, <3>1, <3>2, <3>3, NothingTo, LockOthers DEF Sent
  <2>2. CASE BackupServerList(b)
    <3>1. /\ pc[b] = "list" /\ pc'[b] = "clients" /\ UNCHANGED <<plan, out>>
          /\ \A u \in Thread \ {b} : pc'[u] = pc[u]
      BY <1>0, <2>2 DEF BackupServerList, TypeInv
    <3>2. \A u \in Thread \ {b} : ~ (u \in Device /\ pc[u] = "backups") /\ ~ (u \in Backup /\ pc[u] = "list")
      BY <1>0, <3>1 DEF LockInv
    <3>3. Sent(b) /\ Sent(b)'
      BY <3>1 DEF LockInv, Sent
    <3>. QED  BY <1>0, <3>1, <3>2, <3>3, NothingTo, LockOthers DEF Sent
  <2>3. CASE BackupClientList(b) \/ Joined(b)
    <3>1. /\ pc'[b] \in {"files", "in"} /\ UNCHANGED <<plan, out, lock>> /\ Sent(b)
          /\ \A u \in Thread \ {b} : pc'[u] = pc[u]
      BY <1>0, <2>3 DEF BackupClientList, Joined, TypeInv, LockInv
    <3>2. Sent(b)'
      BY <3>1 DEF Sent
    <3>. QED  BY <1>0, <3>1, <3>2, NothingTo, LockOthers DEF Sent
  <2>4. CASE BackupSyncDir(b)
    <3>. DEFINE S == {p \in File : disk[Main][p] # Gone}
                N == Cardinality(S)
                e == [to |-> b, packet |-> Err]
    <3>1. PICK order \in SetToSeqs(S) :
            /\ plan' = [plan EXCEPT ![b] = NamesOf(b, order, N)]
            /\ out' = [out EXCEPT ![b] = IF N = 0 THEN <<e>> ELSE <<>>]
      BY <2>4, Zenon DEF BackupSyncDir, NamesOf
    <3>. HIDE DEF N
    <3>2. OnlyTo(NamesOf(b, order, N), {b})
      <4>1. S \in SUBSET File
        OBVIOUS
      <4>. HIDE DEF S
      <4>2. Len(NamesOf(b, order, N)) = N /\ N \in Nat
        BY <4>1, DirectorySent DEF N
      <4>3. \A i \in 1 .. N : NamesOf(b, order, N)[i].to = b
        BY DEF NamesOf
      <4>. QED  BY <4>2, <4>3 DEF OnlyTo
    <3>3. OnlyTo(<<e>>, {b})
      <4>1. e.to = b
        OBVIOUS
      <4>. HIDE DEF e
      <4>2. Len(<<e>>) = 1 /\ <<e>>[1] = e
        OBVIOUS
      <4>. QED  BY <4>1, <4>2 DEF OnlyTo
    <3>. HIDE DEF e
    <3>4. /\ plan'[b] = NamesOf(b, order, N) /\ out'[b] \in {<<e>>, <<>>}
          /\ \A u \in Thread \ {b} : plan'[u] = plan[u] /\ out'[u] = out[u]
      BY <1>0, <3>1 DEF TypeInv
    <3>5. /\ pc'[b] = "backups" /\ UNCHANGED lock
          /\ \A u \in Thread \ {b} : pc'[u] = pc[u]
      BY <1>0, <2>4 DEF BackupSyncDir, TypeInv
    <3>6. Targets(b)' = {b}
      BY DEF Targets
    <3>. QED  BY <1>0, <3>2, <3>3, <3>4, <3>5, <3>6, NothingTo, LockOthers
  <2>5. CASE Heartbeat(b)
    BY <2>5, LockKept DEF Heartbeat
  <2>. QED  BY <1>5, <2>1, <2>2, <2>3, <2>4, <2>5
<1>. QED
  BY <1>1, <1>2, <1>3, <1>4, <1>5 DEF Next, Proceed

\* Who writes a file to a backup holds the lock.
LEMMA LockImplies == TypeInv /\ LockInv => OneSender
<1>. SUFFICES ASSUME TypeInv, LockInv PROVE OneSender
  OBVIOUS
<1>1. ASSUME NEW d \in Device, Sending(d) PROVE lock = d
  <2>1. out[d] \in Seq([to : Reader, packet : Parts]) /\ out[d] # <<>> /\ Head(out[d]).to \in Backup
    BY <1>1 DEF Sending, TypeInv, Thread
  <2>2. Head(out[d]).to \in Targets(d)
    BY <2>1, RestTo DEF LockInv, Thread
  <2>3. pc[d] # "devices"
    BY <2>1, <2>2, ReplicationAssumption DEF Targets
  <2>. QED  BY <2>1, <2>3 DEF LockInv, Sent
<1>. QED  BY <1>1, ReplicationAssumption DEF OneSender, LockInv

\* What the lock implies holds throughout.
LEMMA Locked == Spec => [](TypeInv /\ LockInv)
BY TypeInit, LockInit, TypeStep, LockStep, PTL DEF Spec

\* Whatever overlaps, one session at a time writes files to the backups, and
\* none does while a joiner puts its server on the list.
THEOREM OneSenderAlways == Spec => []OneSender
BY Locked, LockImplies, PTL

=============================================================================
