--------------------------- MODULE DevicesProofs ---------------------------
(***************************************************************************)
(* For every set of hosts and of backup servers, and every bound: Devices  *)
(* is type correct, a slot is freed by its own session only, and a device  *)
(* that is served is listed.                                               *)
(*                                                                         *)
(* ListedInv is the inductive invariant: the types, AgentInv and RoleInv,  *)
(* which program has which session and which server is main; SlotInv, a    *)
(* slot's sockets are those of one session that runs; and ServedInv, a     *)
(* device that is served has a slot or, after a fail-over, a thread about  *)
(* to give it one, for which there is a free slot left.                    *)
(***************************************************************************)
EXTENDS Devices, SequenceTheorems, FiniteSetTheorems, TLAPS

-----------------------------------------------------------------------------
(* Lemmas about client_list.                                               *)

\* A client_list: two slots.
Slots == [Device -> Slot]

\* add_device puts the device in a slot that is free for it and leaves the
\* other one alone, unless there is none.
LEMMA AddIs ==
  ASSUME NEW l \in Slots, NEW h \in Host, NEW s \in {0} \cup Session
  PROVE  /\ Add(l, h, s) \in Slots
         /\ \/ Full(l, h) /\ Add(l, h, s) = l
            \/ \E k \in Device :
                 /\ Free(l[k], h)
                 /\ Add(l, h, s)[k] = [host |-> h, session |-> s]
                 /\ \A j \in Device \ {k} : Add(l, h, s)[j] = l[j]
<1>. DEFINE slot == [host |-> h, session |-> s]
<1>1. slot \in Slot
  BY DEF Slot
<1>2. CASE Free(l[1], h)
  <2>1. Add(l, h, s) = [l EXCEPT ![1] = slot]
    BY <1>2 DEF Add
  <2>. QED  BY <1>1, <1>2, <2>1 DEF Slots, Device
<1>3. CASE ~Free(l[1], h) /\ Free(l[2], h)
  <2>1. Add(l, h, s) = [l EXCEPT ![2] = slot]
    BY <1>3 DEF Add
  <2>. QED  BY <1>1, <1>3, <2>1 DEF Slots, Device
<1>4. CASE ~Free(l[1], h) /\ ~Free(l[2], h)
  BY <1>4 DEF Add, Full, Device
<1>. QED  BY <1>2, <1>3, <1>4

\* The slot it takes was free.
LEMMA AddTakes ==
  ASSUME NEW l \in Slots, NEW h \in Host, NEW s \in {0} \cup Session,
         NEW k \in Device, Add(l, h, s)[k] # l[k]
  PROVE  Free(l[k], h) /\ Add(l, h, s)[k] = [host |-> h, session |-> s]
<1>. DEFINE r == Add(l, h, s)
<1>1. \/ r = l
      \/ \E j \in Device :
           /\ Free(l[j], h) /\ r[j] = [host |-> h, session |-> s]
           /\ \A i \in Device \ {j} : r[i] = l[i]
  BY AddIs
<1>2. r[k] # l[k]
  OBVIOUS
<1>3. Free(l[k], h) /\ r[k] = [host |-> h, session |-> s]
  <2>. HIDE DEF r
  <2>. QED  BY <1>1, <1>2
<1>. QED  BY <1>3

\* No other one changes.
LEMMA AddOnce ==
  ASSUME NEW l \in Slots, NEW h \in Host, NEW s \in {0} \cup Session
  PROVE  \A i, j \in Device : Add(l, h, s)[i] # l[i] /\ Add(l, h, s)[j] # l[j] => i = j
<1>. DEFINE r == Add(l, h, s)
<1>1. \/ Full(l, h) /\ r = l
      \/ \E k \in Device :
           /\ Free(l[k], h) /\ r[k] = [host |-> h, session |-> s]
           /\ \A i \in Device \ {k} : r[i] = l[i]
  BY AddIs
<1>2. \A i, j \in Device : r[i] # l[i] /\ r[j] # l[j] => i = j
  <2>. HIDE DEF r
  <2>. QED  BY <1>1
<1>. QED  BY <1>2

\* Sockets have a host name.
LEMMA AddNamed ==
  ASSUME NEW l \in Slots, NEW h \in Host, NEW s \in {0} \cup Session,
         \A k \in Device : l[k].session # 0 => l[k].host # NoHost
  PROVE  /\ Add(l, h, s) \in Slots
         /\ \A k \in Device : Add(l, h, s)[k].session # 0 => Add(l, h, s)[k].host # NoHost
<1>. DEFINE r == Add(l, h, s)
<1>1. /\ r \in Slots
      /\ \/ r = l
         \/ \E k \in Device :
              r[k] = [host |-> h, session |-> s] /\ \A j \in Device \ {k} : r[j] = l[j]
  BY AddIs
<1>2. h # NoHost
  BY DevicesAssumption
<1>. HIDE DEF r
<1>3. ASSUME NEW k \in Device, r[k] = [host |-> h, session |-> s],
             \A j \in Device \ {k} : r[j] = l[j]
      PROVE  \A j \in Device : r[j].session # 0 => r[j].host # NoHost
  BY <1>2, <1>3
<1>4. ASSUME r = l PROVE \A j \in Device : r[j].session # 0 => r[j].host # NoHost
  BY <1>4
<1>. QED  BY <1>1, <1>3, <1>4 DEF r

\* On a backup's list, where no slot has sockets, none gets any.
LEMMA AddZero ==
  ASSUME NEW l \in Slots, NEW h \in Host, \A k \in Device : l[k].session = 0
  PROVE  /\ Add(l, h, 0) \in Slots
         /\ \A k \in Device : Add(l, h, 0)[k].session = 0
<1>. DEFINE r == Add(l, h, 0)
<1>1. /\ r \in Slots
      /\ \/ r = l
         \/ \E k \in Device :
              r[k] = [host |-> h, session |-> 0] /\ \A j \in Device \ {k} : r[j] = l[j]
  BY AddIs
<1>. HIDE DEF r
<1>2. ASSUME r = l PROVE \A j \in Device : r[j].session = 0
  BY <1>2
<1>3. ASSUME NEW k \in Device, r[k] = [host |-> h, session |-> 0],
             \A j \in Device \ {k} : r[j] = l[j]
      PROVE  \A j \in Device : r[j].session = 0
  BY <1>3
<1>. QED  BY <1>1, <1>2, <1>3 DEF r

\* remove_device by sockets: the session's slots are free, and when none is
\* left with sockets all are.
LEMMA RemoveSocketsIs ==
  ASSUME NEW l \in Slots, NEW s \in Session
  PROVE  /\ RemoveSockets(l, s) \in Slots
         /\ \/ /\ \A k \in Device : l[k].session \in {0, s}
               /\ RemoveSockets(l, s) \in {l, Empty}
               /\ (\E k \in Device : l[k].session = s) => RemoveSockets(l, s) = Empty
               /\ (\A k \in Device : l[k].session # s) => RemoveSockets(l, s) = l
            \/ /\ \E k \in Device : l[k].session \notin {0, s}
               /\ \A k \in Device :
                    RemoveSockets(l, s)[k] = IF l[k].session = s THEN NoSlot ELSE l[k]
<1>. DEFINE rest == [k \in Device |-> IF l[k].session = s THEN NoSlot ELSE l[k]]
<1>1. NoSlot \in Slot /\ Empty \in Slots /\ rest \in Slots
  BY DEF NoSlot, Empty, Slot, Slots
<1>2. s # 0 /\ NoSlot.session = 0
  BY DevicesAssumption DEF Session, NoSlot
<1>3. CASE \E k \in Device : rest[k].session # 0
  <2>1. RemoveSockets(l, s) = rest
    BY <1>3 DEF RemoveSockets
  <2>2. \E k \in Device : l[k].session \notin {0, s}
    BY <1>2, <1>3
  <2>. QED  BY <1>1, <2>1, <2>2
<1>4. CASE \A k \in Device : rest[k].session = 0
  <2>1. RemoveSockets(l, s) = IF rest = l THEN l ELSE Empty
    BY <1>4 DEF RemoveSockets
  <2>2. \A k \in Device : l[k].session \in {0, s}
    BY <1>4
  <2>3. (\A k \in Device : l[k].session # s) => rest = l
    BY DEF Slots
  <2>4. (\E k \in Device : l[k].session = s) => rest # l
    BY <1>2
  <2>. QED  BY <1>1, <2>1, <2>2, <2>3, <2>4
<1>. QED  BY <1>3, <1>4

\* remove_device by host name: the first slot with the name is free.
LEMMA RemoveHostIs ==
  ASSUME NEW l \in Slots, NEW h \in Host
  PROVE  /\ RemoveHost(l, h) \in Slots
         /\ \/ (\A k \in Device : l[k].host # h) /\ RemoveHost(l, h) = l
            \/ \E k \in Device :
                 /\ l[k].host = h /\ RemoveHost(l, h)[k] = NoSlot
                 /\ \A j \in Device \ {k} : RemoveHost(l, h)[j] = l[j]
<1>1. NoSlot \in Slot
  BY DEF NoSlot, Slot
<1>2. CASE l[1].host = h
  <2>1. RemoveHost(l, h) = [l EXCEPT ![1] = NoSlot]
    BY <1>2 DEF RemoveHost
  <2>. QED  BY <1>1, <1>2, <2>1 DEF Slots, Device
<1>3. CASE l[1].host # h /\ l[2].host = h
  <2>1. RemoveHost(l, h) = [l EXCEPT ![2] = NoSlot]
    BY <1>3 DEF RemoveHost
  <2>. QED  BY <1>1, <1>3, <2>1 DEF Slots, Device
<1>4. CASE l[1].host # h /\ l[2].host # h
  BY <1>4 DEF RemoveHost, Device
<1>. QED  BY <1>2, <1>3, <1>4

\* A packet of each type has what the backup reads from it.
LEMMA PacketIs ==
  ASSUME NEW p \in Packet
  PROVE  /\ p.type \in {"info", "delete"} => p.host \in Host
         /\ p.type = "node" => p.hosts \in [Device -> Host \cup {NoHost}]
         /\ p.type = "info" => p = Info(p.host)
         /\ p.type = "delete" => p = Deleted(p.host)
BY DEF Packet, Info, Deleted

\* receive_client_list: the node's names, the first of them in the first slot.
Received(l, hosts) ==
  LET With(m, k) == IF hosts[k] = NoHost THEN m ELSE Add(m, hosts[k], 0)
  IN  With(With(l, 1), 2)

\* A node that is read: slots without sockets, with host names.
LEMMA ReceivedIs ==
  ASSUME NEW l \in Slots, NEW hosts \in [Device -> Host \cup {NoHost}]
  PROVE  /\ Received(l, hosts) \in Slots
         /\ (\A k \in Device : l[k].session = 0) =>
              \A k \in Device : Received(l, hosts)[k].session = 0
         /\ (\A k \in Device : l[k].session # 0 => l[k].host # NoHost) =>
              \A k \in Device : LET slot == Received(l, hosts)[k]
                                IN  slot.session # 0 => slot.host # NoHost
<1>. DEFINE With(m, k) == IF hosts[k] = NoHost THEN m ELSE Add(m, hosts[k], 0)
            NoSockets(m)  == \A j \in Device : m[j].session = 0
            Named(m)      == \A j \in Device : m[j].session # 0 => m[j].host # NoHost
<1>1. ASSUME NEW m \in Slots, NEW k \in Device
      PROVE  /\ With(m, k) \in Slots
             /\ NoSockets(m) => NoSockets(With(m, k))
             /\ Named(m) => Named(With(m, k))
  <2>1. CASE hosts[k] = NoHost
    BY <2>1
  <2>2. CASE hosts[k] \in Host
    <3>1. hosts[k] # NoHost /\ 0 \in {0} \cup Session
      BY <2>2, DevicesAssumption
    <3>2. With(m, k) = Add(m, hosts[k], 0)
      BY <3>1
    <3>3. Add(m, hosts[k], 0) \in Slots
      BY <2>2, <3>1, AddIs
    <3>4. NoSockets(m) => NoSockets(Add(m, hosts[k], 0))
      BY <2>2, AddZero
    <3>5. Named(m) => Named(Add(m, hosts[k], 0))
      BY <2>2, <3>1, AddNamed
    <3>. QED  BY <3>2, <3>3, <3>4, <3>5
  <2>. QED  BY <2>1, <2>2
<1>2. With(l, 1) \in Slots /\ With(With(l, 1), 2) \in Slots
  BY <1>1 DEF Device
<1>3. NoSockets(l) => NoSockets(With(With(l, 1), 2))
  BY <1>1, <1>2 DEF Device
<1>4. Named(l) => Named(With(With(l, 1), 2))
  BY <1>1, <1>2 DEF Device
<1>. QED  BY <1>2, <1>3, <1>4 DEF Received

-----------------------------------------------------------------------------
(* Lemmas about sequences.                                                 *)

\* A function on an initial segment is a sequence, of that length.
LEMMA IsSeq ==
  ASSUME NEW S, NEW n \in Nat, NEW f \in [1 .. n -> S]
  PROVE  f \in Seq(S) /\ Len(f) = n
<1>1. f \in Seq(S)
  BY SeqDef
<1>. QED  BY <1>1, LenProperties

\* The orders the other backups can be attached in: each is, once.
LEMMA SomeOrder ==
  ASSUME NEW S, IsFiniteSet(S), NEW others \in SetToSeqs(S)
  PROVE  /\ Cardinality(S) \in Nat
         /\ others \in Seq(S) /\ Len(others) = Cardinality(S)
         /\ \A i, j \in 1 .. Cardinality(S) : others[i] = others[j] => i = j
         /\ \A x \in S : \E i \in 1 .. Cardinality(S) : others[i] = x
<1>. DEFINE N == Cardinality(S)
<1>1. N \in Nat
  BY FS_CardinalityType
<1>2. others \in [1 .. N -> S] /\ \A i, j \in 1 .. N : others[i] = others[j] => i = j
  BY Zenon DEF SetToSeqs
<1>3. others \in Seq(S) /\ Len(others) = N
  BY <1>1, <1>2, IsSeq
<1>4. \A x \in S : \E i \in 1 .. N : others[i] = x
  <2>. SUFFICES ASSUME NEW x \in S, \A i \in 1 .. N : others[i] # x PROVE FALSE
    OBVIOUS
  <2>1. IsFiniteSet(S \ {x}) /\ Cardinality(S \ {x}) = N - 1
    BY FS_RemoveElement
  <2>2. IsFiniteSet(1 .. N) /\ Cardinality(1 .. N) = N
    BY <1>1, FS_Interval
  <2>3. others \in [1 .. N -> S \ {x}]
    BY <1>2
  <2>4. \E i, j \in 1 .. N : i # j /\ others[i] = others[j]
    <3>. HIDE DEF N
    <3>. QED  BY <1>1, <2>1, <2>2, <2>3, FS_PigeonHole
  <2>. QED  BY <1>2, <2>4
<1>. QED  BY <1>1, <1>2, <1>3, <1>4

-----------------------------------------------------------------------------
(* Types.                                                                  *)

\* Each part is about one variable.  A session that has begun and a thread that
\* runs have their host's name, and a thread that lists a device its session.
States ==
  {"none", "hello", "full", "listed", "reply", "serving", "exit", "removed", "closed"}

MainType    == main \in Server \cup {Nobody}
ListType    == /\ list \in [Server -> Slots]
               /\ \A n \in Server : \A k \in Device :
                    list[n][k].session # 0 => list[n][k].host # NoHost
SessionType == /\ session \in [Session -> [at : States, host : Host \cup {NoHost}]]
               /\ \A s \in Session : session[s].at # "none" => session[s].host \in Host
DeviceType  == device \in [Host -> [at : {"off", "joining", "on", "stranded"},
                                    session : {0} \cup Session]]
ServesType  == serves \in Seq(Backup)
JoinerType  == joiner \in [Backup -> {"none", "clients", "eot", "done"}]
FeedType    == feed \in [Backup -> Seq(Packet)]
PlaceType   == place \in [Backup -> {"out", "list", "sync", "down", "main"}]
ThreadType  == /\ thread \in [Device -> [at : {"none", "wait", "connect", "add", "done"},
                                         host : Host \cup {NoHost},
                                         session : {0} \cup Session]]
               /\ \A k \in Device : thread[k].at # "none" => thread[k].host \in Host
               /\ \A k \in Device : thread[k].at = "add" => thread[k].session # 0
CountType   == /\ acts \in 0 .. MaxActs /\ hasty \in 0 .. MaxHasty
               /\ twins \in BOOLEAN

TypeInv ==
  /\ MainType /\ ListType /\ SessionType /\ DeviceType /\ ServesType
  /\ JoinerType /\ FeedType /\ PlaceType /\ ThreadType /\ CountType

\* TypeInv is TypeOK by variables.
LEMMA TypeOKFollows == TypeInv => TypeOK
BY DEF TypeInv, TypeOK, MainType, ListType, SessionType, DeviceType, ServesType,
       JoinerType, FeedType, PlaceType, ThreadType, CountType, Slots, States

\* Where the programs of devices stand, and their sessions: one that is being
\* admitted waits for the session that admits it, and one that is on is served.
AgentInv ==
  /\ \A s \in Session : session[s].at \in Admitting =>
       /\ device[session[s].host].at = "joining"
       /\ device[session[s].host].session = s
  /\ \A h \in Host : device[h].at = "joining" =>
       /\ device[h].session \in Session
       /\ session[device[h].session].host = h
       /\ session[device[h].session].at \in Admitting
  /\ \A h \in Host : device[h].at = "on" =>
       /\ device[h].session \in Session
       /\ session[device[h].session].host = h
       /\ session[device[h].session].at = "serving"

\* The types hold at the start.
LEMMA TypeInit == Init => TypeInv
<1>. SUFFICES ASSUME Init PROVE TypeInv
  OBVIOUS
<1>1. NoSlot \in Slot /\ Empty \in Slots /\ \A k \in Device : Empty[k].session = 0
  BY DEF NoSlot, Empty, Slot, Slots
<1>2. ListType
  BY <1>1 DEF Init, ListType
<1>3. SessionType /\ DeviceType /\ MainType /\ ServesType /\ JoinerType
  BY DEF Init, SessionType, DeviceType, MainType, ServesType, JoinerType, States, Server
<1>4. FeedType /\ PlaceType /\ ThreadType
  BY DEF Init, FeedType, PlaceType, ThreadType
<1>5. CountType
  <2>1. acts \in 0 .. MaxActs /\ hasty \in 0 .. MaxHasty
    BY DevicesAssumption DEF Init
  <2>2. twins \in BOOLEAN
    BY DEF Init
  <2>. QED  BY <2>1, <2>2 DEF CountType
<1>. QED  BY <1>2, <1>3, <1>4, <1>5 DEF TypeInv

\* What a program does is counted.
LEMMA ActIs ==
  ASSUME CountType, Act
  PROVE  CountType'
BY DevicesAssumption DEF CountType, Act

\* A step that is not an act counts nothing.
LEMMA RestIs ==
  ASSUME CountType, Rest
  PROVE  CountType'
BY DEF CountType, Rest

\* What the backups are told are packets.
LEMMA TellIs ==
  ASSUME FeedType, ServesType, NEW p \in Packet, Tell(p)
  PROVE  FeedType'
<1>1. \A b \in Backup : Append(feed[b], p) \in Seq(Packet)
  BY AppendProperties DEF FeedType
<1>. QED  BY <1>1 DEF Tell, FeedType

\* The packet a backup reads, and the ones behind it.
LEMMA FirstPacket ==
  ASSUME FeedType, NEW b \in Backup, NEW at, NEW type, Receives(b, at, type)
  PROVE  /\ feed[b] \in Seq(Packet) /\ feed[b] # <<>>
         /\ Head(feed[b]) \in Packet /\ Head(feed[b]).type = type
         /\ Tail(feed[b]) \in Seq(Packet)
         /\ FeedType'
<1>1. /\ feed[b] \in Seq(Packet) /\ feed[b] # <<>> /\ Head(feed[b]).type = type
      /\ feed' = [feed EXCEPT ![b] = Tail(@)]
  BY DEF Receives, FeedType
<1>2. Head(feed[b]) \in Packet /\ Tail(feed[b]) \in Seq(Packet)
  BY <1>1, HeadTailProperties
<1>3. FeedType'
  BY <1>1, <1>2 DEF FeedType
<1>. QED  BY <1>1, <1>2, <1>3

\* The backup that takes over tells every other one that is attached.
LEMMA Others ==
  ASSUME NEW b \in Backup, NEW S \in SUBSET Backup, NEW others \in SetToSeqs(S)
  PROVE  /\ others \in Seq(Backup)
         /\ \A c \in Backup : Contains(others, c) <=> c \in S
<1>1. IsFiniteSet(S)
  BY FS_Subset, DevicesAssumption
<1>2. /\ others \in Seq(S) /\ Len(others) = Cardinality(S)
      /\ \A c \in S : \E i \in 1 .. Cardinality(S) : others[i] = c
  BY <1>1, SomeOrder
<1>3. others \in Seq(Backup)
  BY <1>2, SeqMonotonic
<1>. QED  BY <1>2, <1>3 DEF Contains

\* A session goes on.
LEMMA GoesIs ==
  ASSUME SessionType, NEW s \in Session, session[s].at # "none", NEW at \in States, Goes(s, at)
  PROVE  SessionType'
BY DEF SessionType, Goes

\* What no action writes keeps its type.
LEMMA Unchanged ==
  /\ MainType /\ UNCHANGED main => MainType'
  /\ ListType /\ UNCHANGED list => ListType'
  /\ SessionType /\ UNCHANGED session => SessionType'
  /\ DeviceType /\ UNCHANGED device => DeviceType'
  /\ ServesType /\ UNCHANGED serves => ServesType'
  /\ JoinerType /\ UNCHANGED joiner => JoinerType'
  /\ FeedType /\ UNCHANGED feed => FeedType'
  /\ PlaceType /\ UNCHANGED place => PlaceType'
  /\ ThreadType /\ UNCHANGED thread => ThreadType'
  /\ CountType /\ UNCHANGED <<acts, hasty, twins>> => CountType'
BY DEF MainType, ListType, SessionType, DeviceType, ServesType, JoinerType, FeedType,
       PlaceType, ThreadType, CountType

\* Every step keeps the types.
LEMMA TypeNext ==
  ASSUME TypeInv, AgentInv, [Next]_vars
  PROVE  TypeInv'
<1>. USE Unchanged DEF TypeInv
<1>1. ASSUME NEW h \in Host, Start(h) PROVE TypeInv'
  <2>1. CountType'
    BY <1>1, ActIs DEF Start
  <2>2. PICK s \in Session :
          /\ session' = [session EXCEPT ![s] = [at |-> "hello", host |-> h]]
          /\ device' = [device EXCEPT ![h] = [at |-> "joining", session |-> s]]
    BY <1>1 DEF Start
  <2>3. SessionType'
    BY <2>2 DEF SessionType, States
  <2>4. DeviceType'
    BY <2>2 DEF DeviceType
  <2>. QED  BY <1>1, <2>1, <2>3, <2>4 DEF Start
<1>2. ASSUME NEW h \in Host, Exit(h) PROVE TypeInv'
  <2>1. CountType'
    BY <1>2, ActIs DEF Exit
  <2>2. device[h].session \in Session /\ session[device[h].session].at # "none"
    <3>1. device[h].at = "on"
      BY <1>2 DEF Exit
    <3>. QED  BY <3>1 DEF AgentInv
  <2>3. SessionType'
    BY <1>2, <2>2, GoesIs DEF Exit, States
  <2>4. DeviceType'
    BY <1>2 DEF Exit, DeviceType
  <2>. QED  BY <1>2, <2>1, <2>3, <2>4 DEF Exit
<1>3. ASSUME NEW h \in Host, Kill(h) PROVE TypeInv'
  <2>1. CountType'
    BY <1>3, ActIs DEF Kill
  <2>2. DeviceType'
    BY <1>3 DEF Kill, DeviceType
  <2>. QED  BY <1>3, <2>1, <2>2 DEF Kill
<1>4. ASSUME NEW s \in Session, AddDevice(s) PROVE TypeInv'
  <2>1. main \in Server /\ session[s].at = "hello" /\ session[s].host \in Host
    BY <1>4 DEF AddDevice, At, MainType, SessionType
  <2>2. Add(list[main], session[s].host, s) \in Slots
    BY <2>1, AddIs DEF ListType
  <2>3. \A k \in Device : LET slot == Add(list[main], session[s].host, s)[k]
                          IN  slot.session # 0 => slot.host # NoHost
    BY <2>1, AddNamed DEF ListType
  <2>4. ListType'
    BY <1>4, <2>1, <2>2, <2>3 DEF AddDevice, ListType
  <2>5. SessionType'
    BY <1>4, <2>1, GoesIs DEF AddDevice, States
  <2>6. CountType'
    BY <1>4 DEF AddDevice, CountType
  <2>. QED  BY <1>4, <2>4, <2>5, <2>6 DEF AddDevice
<1>5. ASSUME NEW s \in Session, PropagateDevice(s) PROVE TypeInv'
  <2>1. session[s].at = "listed" /\ session[s].host \in Host
    BY <1>5 DEF PropagateDevice, At, SessionType
  <2>2. Info(session[s].host) \in Packet
    BY <2>1 DEF Info, Packet
  <2>3. FeedType'
    BY <1>5, <2>2, TellIs DEF PropagateDevice
  <2>4. SessionType'
    BY <1>5, <2>1, GoesIs DEF PropagateDevice, States
  <2>. QED  BY <1>5, <2>3, <2>4 DEF PropagateDevice, Rest
<1>6. ASSUME NEW s \in Session, GetSyncDir(s) PROVE TypeInv'
  <2>1. session[s].at = "reply"
    BY <1>6 DEF GetSyncDir, At
  <2>2. SessionType'
    BY <1>6, <2>1, GoesIs DEF GetSyncDir, States
  <2>3. DeviceType'
    BY <1>6 DEF GetSyncDir, DeviceType
  <2>. QED  BY <1>6, <2>2, <2>3 DEF GetSyncDir, Rest
<1>7. ASSUME NEW s \in Session, Reject(s) PROVE TypeInv'
  <2>1. session[s].at = "full"
    BY <1>7 DEF Reject, At
  <2>2. SessionType'
    BY <1>7, <2>1, GoesIs DEF Reject, States
  <2>3. DeviceType'
    BY <1>7 DEF Reject, DeviceType
  <2>. QED  BY <1>7, <2>2, <2>3 DEF Reject, Rest
<1>8. ASSUME NEW s \in Session, EndCommunications(s) PROVE TypeInv'
  <2>1. main \in Server /\ session[s].at = "exit"
    BY <1>8 DEF EndCommunications, At, MainType
  <2>2. RemoveSockets(list[main], s) \in Slots
    BY <2>1, RemoveSocketsIs DEF ListType
  <2>3. \A k \in Device : LET slot == RemoveSockets(list[main], s)[k]
                          IN  slot = list[main][k] \/ slot = NoSlot
    BY <2>1, RemoveSocketsIs DEF ListType, Empty
  <2>4. ListType'
    BY <1>8, <2>1, <2>2, <2>3 DEF EndCommunications, ListType, NoSlot
  <2>5. SessionType'
    BY <1>8, <2>1, GoesIs DEF EndCommunications, States
  <2>. QED  BY <1>8, <2>4, <2>5 DEF EndCommunications, Rest
<1>9. ASSUME NEW s \in Session, PropagateRemoval(s) PROVE TypeInv'
  <2>1. session[s].at = "removed" /\ session[s].host \in Host
    BY <1>9 DEF PropagateRemoval, At, SessionType
  <2>2. Deleted(session[s].host) \in Packet
    BY <2>1 DEF Deleted, Packet
  <2>3. FeedType'
    BY <1>9, <2>2, TellIs DEF PropagateRemoval
  <2>4. SessionType'
    BY <1>9, <2>1, GoesIs DEF PropagateRemoval, States
  <2>. QED  BY <1>9, <2>3, <2>4 DEF PropagateRemoval, Rest
<1>10. ASSUME NEW b \in Backup, AddBackupServer(b) PROVE TypeInv'
  <2>1. CountType'
    BY <1>10, ActIs DEF AddBackupServer
  <2>2. ServesType'
    BY <1>10, AppendProperties DEF AddBackupServer, ServesType
  <2>3. JoinerType' /\ PlaceType'
    BY <1>10 DEF AddBackupServer, JoinerType, PlaceType
  <2>. QED  BY <1>10, <2>1, <2>2, <2>3 DEF AddBackupServer
<1>11. ASSUME NEW b \in Backup, SendClients(b) PROVE TypeInv'
  <2>1. main \in Server
    BY <1>11 DEF SendClients, MainType
  <2>2. [k \in Device |-> list[main][k].host] \in [Device -> Host \cup {NoHost}]
    BY <2>1 DEF ListType, Slots, Slot
  <2>3. Node(list[main]) \in Packet
    BY <2>2 DEF Node, Packet
  <2>4. Append(feed[b], Node(list[main])) \in Seq(Packet)
    BY <2>3, AppendProperties DEF FeedType
  <2>5. FeedType'
    BY <1>11, <2>4 DEF SendClients, FeedType
  <2>6. JoinerType'
    BY <1>11 DEF SendClients, JoinerType
  <2>. QED  BY <1>11, <2>5, <2>6 DEF SendClients, Rest
<1>12. ASSUME NEW b \in Backup, SendEot(b) PROVE TypeInv'
  <2>1. Eot \in Packet
    BY DEF Eot, Packet
  <2>2. Append(feed[b], Eot) \in Seq(Packet)
    BY <2>1, AppendProperties DEF FeedType
  <2>3. FeedType'
    BY <1>12, <2>2 DEF SendEot, FeedType
  <2>4. JoinerType'
    BY <1>12 DEF SendEot, JoinerType
  <2>. QED  BY <1>12, <2>3, <2>4 DEF SendEot, Rest
<1>13. ASSUME NEW b \in Backup, ReceiveNode(b) PROVE TypeInv'
  <2>1. b \in Server /\ Head(feed[b]) \in Packet /\ Head(feed[b]).type = "node"
    BY <1>13, FirstPacket DEF ReceiveNode, Receives, Server
  <2>2. Received(list[b], Head(feed[b]).hosts) \in Slots
    BY <2>1, PacketIs, ReceivedIs DEF ListType
  <2>3. \A k \in Device : LET slot == Received(list[b], Head(feed[b]).hosts)[k]
                          IN  slot.session # 0 => slot.host # NoHost
    BY <2>1, PacketIs, ReceivedIs, SMTT(60) DEF ListType
  <2>4. list' = [list EXCEPT ![b] = Received(list[b], Head(feed[b]).hosts)]
    BY <1>13, <2>1 DEF ReceiveNode, Received, ListType
  <2>5. ListType'
    BY <2>1, <2>2, <2>3, <2>4 DEF ListType
  <2>. QED  BY <1>13, <2>5, FirstPacket DEF ReceiveNode, Receives, Rest
<1>14. ASSUME NEW b \in Backup, ReceiveEot(b) PROVE TypeInv'
  <2>1. PlaceType'
    BY <1>14 DEF ReceiveEot, PlaceType
  <2>. QED  BY <1>14, <2>1, FirstPacket DEF ReceiveEot, Receives, Rest
<1>15. ASSUME NEW b \in Backup, ReceiveUnparsed(b) PROVE TypeInv'
  <2>1. PlaceType'
    BY <1>15 DEF ReceiveUnparsed, PlaceType
  <2>. QED  BY <1>15, <2>1, FirstPacket DEF ReceiveUnparsed, Receives, Rest
<1>16. ASSUME NEW b \in Backup, ReceiveNothing(b) PROVE TypeInv'
  BY <1>16, FirstPacket DEF ReceiveNothing, Receives, Rest
<1>17. ASSUME NEW b \in Backup, SyncInfo(b) PROVE TypeInv'
  <2>1. b \in Server /\ Head(feed[b]) \in Packet /\ Head(feed[b]).type = "info"
    BY <1>17, FirstPacket DEF SyncInfo, Receives, Server
  <2>2. Head(feed[b]).host \in Host
    BY <2>1, PacketIs
  <2>3. Add(list[b], Head(feed[b]).host, 0) \in Slots
    BY <2>1, <2>2, AddNamed DEF ListType
  <2>4. \A k \in Device : LET slot == Add(list[b], Head(feed[b]).host, 0)[k]
                          IN  slot.session # 0 => slot.host # NoHost
    BY <2>1, <2>2, AddNamed DEF ListType
  <2>5. ListType'
    BY <1>17, <2>1, <2>3, <2>4 DEF SyncInfo, ListType
  <2>. QED  BY <1>17, <2>5, FirstPacket DEF SyncInfo, Receives, Rest
<1>18. ASSUME NEW b \in Backup, SyncDelete(b) PROVE TypeInv'
  <2>1. b \in Server /\ Head(feed[b]) \in Packet /\ Head(feed[b]).type = "delete"
    BY <1>18, FirstPacket DEF SyncDelete, Receives, Server
  <2>2. Head(feed[b]).host \in Host
    BY <2>1, PacketIs
  <2>3. RemoveHost(list[b], Head(feed[b]).host) \in Slots
    BY <2>1, <2>2, RemoveHostIs DEF ListType
  <2>4. \A k \in Device : LET slot == RemoveHost(list[b], Head(feed[b]).host)[k]
                          IN  slot = list[b][k] \/ slot = NoSlot
    BY <2>1, <2>2, RemoveHostIs DEF ListType
  <2>5. ListType'
    BY <1>18, <2>1, <2>3, <2>4 DEF SyncDelete, ListType, NoSlot
  <2>. QED  BY <1>18, <2>5, FirstPacket DEF SyncDelete, Receives, Rest
<1>19. ASSUME NEW b \in Backup, Evolve(b) PROVE TypeInv'
  <2>1. PICK others \in SetToSeqs({c \in Backup \ {b} : place[c] = "sync"}) : serves' = others
    BY <1>19 DEF Evolve
  <2>2. ServesType'
    BY <2>1, Others DEF ServesType
  <2>3. MainType' /\ PlaceType'
    BY <1>19 DEF Evolve, MainType, PlaceType, Server
  <2>4. \A k \in Device : list[b][k].host \in Host \cup {NoHost}
    BY DEF ListType, Slots, Slot, Server
  <2>5. ThreadType'
    BY <1>19, <2>4 DEF Evolve, ThreadType
  <2>. QED  BY <1>19, <2>2, <2>3, <2>5 DEF Evolve, Rest
<1>20. ASSUME Die PROVE TypeInv'
  <2>1. CountType'
    BY <1>20, ActIs DEF Die
  <2>2. MainType' /\ ServesType' /\ JoinerType'
    BY <1>20 DEF Die, MainType, ServesType, JoinerType
  <2>3. SessionType'
    BY <1>20 DEF Die, SessionType, States
  <2>4. DeviceType'
    BY <1>20 DEF Die, DeviceType
  <2>. QED  BY <1>20, <2>1, <2>2, <2>3, <2>4 DEF Die
<1>21. ASSUME NEW k \in Device, ConnectToClient(k) PROVE TypeInv'
  <2>1. PICK s \in Session :
          /\ session' = [session EXCEPT ![s] = [at |-> "serving", host |-> thread[k].host]]
          /\ device' = [device EXCEPT ![thread[k].host] = [at |-> "on", session |-> s]]
          /\ thread' = [thread EXCEPT ![k].at = "add", ![k].session = s]
    BY <1>21 DEF ConnectToClient
  <2>2. thread[k].host \in Host /\ s # 0
    BY <1>21, DevicesAssumption DEF ConnectToClient, ThreadType, Session
  <2>3. SessionType'
    BY <2>1, <2>2 DEF SessionType, States
  <2>4. DeviceType'
    BY <2>1, <2>2 DEF DeviceType
  <2>5. ThreadType'
    BY <2>1, <2>2 DEF ThreadType
  <2>. QED  BY <1>21, <2>3, <2>4, <2>5 DEF ConnectToClient, Rest
<1>22. ASSUME NEW k \in Device, AddReconnected(k) PROVE TypeInv'
  <2>1. main \in Server
    BY <1>22 DEF AddReconnected, MainType
  <2>2. thread[k].host \in Host /\ thread[k].session \in {0} \cup Session
    BY <1>22 DEF AddReconnected, ThreadType
  <2>3. Add(list[main], thread[k].host, thread[k].session) \in Slots
    BY <2>1, <2>2, AddNamed DEF ListType
  <2>4. \A j \in Device : LET slot == Add(list[main], thread[k].host, thread[k].session)[j]
                          IN  slot.session # 0 => slot.host # NoHost
    BY <2>1, <2>2, AddNamed DEF ListType
  <2>5. ListType'
    BY <1>22, <2>1, <2>3, <2>4 DEF AddReconnected, ListType
  <2>6. ThreadType'
    BY <1>22 DEF AddReconnected, ThreadType
  <2>. QED  BY <1>22, <2>5, <2>6 DEF AddReconnected, Rest
<1>23. ASSUME NEW k \in Device, LockHandCom(k) PROVE TypeInv'
  <2>1. ThreadType'
    BY <1>23 DEF LockHandCom, ThreadType
  <2>. QED  BY <1>23, <2>1 DEF LockHandCom, Rest
<1>24. ASSUME NEW k \in Device, HostUnknown(k) PROVE TypeInv'
  <2>1. MainType' /\ ServesType'
    BY <1>24 DEF HostUnknown, MainType, ServesType
  <2>. QED  BY <1>24, <2>1 DEF HostUnknown, Rest
<1>25. CASE UNCHANGED vars
  BY <1>25 DEF vars
<1>. QED
  BY <1>1, <1>2, <1>3, <1>4, <1>5, <1>6, <1>7, <1>8, <1>9, <1>10, <1>11, <1>12, <1>13,
     <1>14, <1>15, <1>16, <1>17, <1>18, <1>19, <1>20, <1>21, <1>22, <1>23, <1>24, <1>25
  DEF Next, SessionThread, BackupThread, ReconnectThread

-----------------------------------------------------------------------------
(* Programs and their sessions.                                            *)

\* Two sessions of one program: the device has one of them.
LEMMA AgentInit == Init => AgentInv
BY SMTT(60) DEF Init, AgentInv, Admitting

\* Programs and sessions go on in step.
LEMMA AgentNext ==
  ASSUME TypeInv, AgentInv, [Next]_vars
  PROVE  AgentInv'
<1>. USE DEF TypeInv
<1>1. ASSUME NEW h \in Host, Start(h) PROVE AgentInv'
  <2>1. PICK s \in Session :
          /\ session[s].at = "none"
          /\ session' = [session EXCEPT ![s] = [at |-> "hello", host |-> h]]
          /\ device' = [device EXCEPT ![h] = [at |-> "joining", session |-> s]]
    BY <1>1 DEF Start, New
  <2>2. device[h].at = "off" /\ \A t \in Session : session[t].at \notin Admitting
    BY <1>1 DEF Start
  <2>. QED
    BY <2>1, <2>2 DEF AgentInv, Admitting, SessionType, DeviceType
<1>2. ASSUME NEW h \in Host, Exit(h) PROVE AgentInv'
  <2>1. /\ device[h].at = "on"
        /\ session' = [session EXCEPT ![device[h].session].at = "exit"]
        /\ device' = [device EXCEPT ![h] = [at |-> "off", session |-> 0]]
    BY <1>2 DEF Exit, Goes
  <2>. QED
    BY <2>1 DEF AgentInv, Admitting, SessionType, DeviceType
<1>3. ASSUME NEW h \in Host, Kill(h) PROVE AgentInv'
  <2>1. /\ device[h].at \in {"on", "stranded"} /\ session' = session
        /\ device' = [device EXCEPT ![h] = [at |-> "off", session |-> 0]]
    BY <1>3 DEF Kill
  <2>. QED
    BY <2>1 DEF AgentInv, Admitting, SessionType, DeviceType
\* A session that is being admitted goes on.
<1>4. ASSUME NEW s \in Session, NEW at \in Admitting, session[s].at \in Admitting,
             Goes(s, at), device' = device
      PROVE  AgentInv'
  BY <1>4 DEF AgentInv, Admitting, SessionType, DeviceType, Goes
<1>5. ASSUME NEW s \in Session, AddDevice(s) PROVE AgentInv'
  BY <1>4, <1>5 DEF AddDevice, At, Admitting
<1>6. ASSUME NEW s \in Session, PropagateDevice(s) PROVE AgentInv'
  BY <1>4, <1>6, SMTT(60) DEF PropagateDevice, At, Admitting
<1>7. ASSUME NEW s \in Session, GetSyncDir(s) PROVE AgentInv'
  BY <1>7 DEF GetSyncDir, At, Goes, AgentInv, Admitting, SessionType, DeviceType
<1>8. ASSUME NEW s \in Session, Reject(s) PROVE AgentInv'
  BY <1>8 DEF Reject, At, Goes, AgentInv, Admitting, SessionType, DeviceType
\* One that ends goes on.
<1>9. ASSUME NEW s \in Session, session[s].at \in {"exit", "removed"},
             NEW at \in {"removed", "closed"}, Goes(s, at), device' = device
      PROVE  AgentInv'
  BY <1>9 DEF AgentInv, Admitting, SessionType, DeviceType, Goes
<1>10. ASSUME NEW s \in Session, EndCommunications(s) PROVE AgentInv'
  BY <1>9, <1>10 DEF EndCommunications, At
<1>11. ASSUME NEW s \in Session, PropagateRemoval(s) PROVE AgentInv'
  BY <1>9, <1>11 DEF PropagateRemoval, At
<1>12. ASSUME Die PROVE AgentInv'
  <2>1. \A s \in Session : session'[s].at \in {"none", "closed"}
    BY <1>12 DEF Die, SessionType
  <2>2. \A h \in Host : device'[h].at \in {"off", "stranded"}
    BY <1>12 DEF Die, DeviceType
  <2>. QED  BY <2>1, <2>2 DEF AgentInv, Admitting
<1>13. ASSUME NEW k \in Device, ConnectToClient(k) PROVE AgentInv'
  <2>1. PICK s \in Session :
          /\ session[s].at = "none"
          /\ session' = [session EXCEPT ![s] = [at |-> "serving", host |-> thread[k].host]]
          /\ device' = [device EXCEPT ![thread[k].host] = [at |-> "on", session |-> s]]
    BY <1>13 DEF ConnectToClient, New
  <2>2. thread[k].host \in Host /\ device[thread[k].host].at \in {"stranded", "on"}
    BY <1>13 DEF ConnectToClient, ThreadType
  <2>. QED
    BY <2>1, <2>2 DEF AgentInv, Admitting, SessionType, DeviceType
<1>14. CASE UNCHANGED <<session, device>>
  BY <1>14 DEF AgentInv
<1>. QED
  BY <1>1, <1>2, <1>3, <1>5, <1>6, <1>7, <1>8, <1>10, <1>11, <1>12, <1>13, <1>14
  DEF Next, SessionThread, BackupThread, ReconnectThread, vars, AddBackupServer, SendClients,
      SendEot, Receives, ReceiveNode, ReceiveEot, ReceiveUnparsed, ReceiveNothing, SyncInfo,
      SyncDelete, Evolve, AddReconnected, LockHandCom, HostUnknown

\* Every state has these, whatever programs do and when.
LEMMA Always == Spec => [](TypeInv /\ AgentInv)
<1>1. Init => TypeInv /\ AgentInv
  BY TypeInit, AgentInit
<1>2. TypeInv /\ AgentInv /\ [Next]_vars => TypeInv' /\ AgentInv'
  BY TypeNext, AgentNext
<1>. QED  BY <1>1, <1>2, PTL DEF Spec

\* Slots have a host name or none, a session that has begun has one, and the
\* packets are those a backup can read, for every number of devices, backups
\* and acts.
THEOREM TypeCorrect == Spec => []TypeOK
BY Always, TypeOKFollows, PTL

-----------------------------------------------------------------------------
(* A slot is freed by its own session.                                     *)

\* A step of a server that stays main leaves the slots of sessions alone,
\* except that of one that ends.
LEMMA OwnSlot ==
  ASSUME TypeInv, [Next]_vars, main' = main, main # Nobody, NEW k \in Device,
         list[main][k].session # 0, list'[main][k] # list[main][k]
  PROVE  session[list[main][k].session].at = "exit"
<1>. DEFINE l == list[main]
<1>1. main \in Server /\ l \in Slots
  BY DEF TypeInv, MainType, ListType
<1>2. ASSUME NEW h \in Host, NEW s \in {0} \cup Session, list' = [list EXCEPT ![main] = Add(@, h, s)]
      PROVE  FALSE
  <2>1. list'[main] = Add(l, h, s)
    BY <1>1, <1>2 DEF TypeInv, ListType
  <2>2. Add(l, h, s)[k] # l[k]
    BY <2>1
  <2>3. Free(l[k], h)
    <3>. HIDE DEF l
    <3>. QED  BY <1>1, <2>2, AddTakes
  <2>. QED  BY <2>3 DEF Free
<1>3. ASSUME NEW s \in Session, AddDevice(s) PROVE FALSE
  <2>1. session[s].host \in Host
    BY <1>3 DEF AddDevice, At, TypeInv, SessionType
  <2>. QED  BY <1>2, <1>3, <2>1 DEF AddDevice
<1>4. ASSUME NEW j \in Device, AddReconnected(j) PROVE FALSE
  <2>1. thread[j].host \in Host /\ thread[j].session \in {0} \cup Session
    BY <1>4 DEF AddReconnected, TypeInv, ThreadType
  <2>. QED  BY <1>2, <1>4, <2>1 DEF AddReconnected
<1>5. ASSUME NEW s \in Session, EndCommunications(s) PROVE session[l[k].session].at = "exit"
  <2>1. list'[main] = RemoveSockets(l, s) /\ session[s].at = "exit"
    BY <1>1, <1>5 DEF EndCommunications, At, TypeInv, ListType
  <2>2. RemoveSockets(l, s)[k] # l[k] /\ l[k].session # 0
    BY <2>1
  <2>3. l[k].session = s
    <3>. HIDE DEF l
    <3>. QED  BY <1>1, <2>2, RemoveSocketsIs
  <2>. QED  BY <2>1, <2>3
<1>6. ASSUME NEW b \in Backup, ReceiveNode(b) \/ SyncInfo(b) \/ SyncDelete(b) PROVE FALSE
  <2>1. b # main
    BY <1>6 DEF ReceiveNode, SyncInfo, SyncDelete, Receives
  <2>2. PICK f : list' = [list EXCEPT ![b] = f]
    BY <1>6 DEF ReceiveNode, SyncInfo, SyncDelete
  <2>. QED  BY <1>1, <2>1, <2>2 DEF TypeInv, ListType
<1>7. list' # list
  OBVIOUS
<1>. QED
  BY <1>3, <1>4, <1>5, <1>6, <1>7
  DEF Next, SessionThread, BackupThread, ReconnectThread, vars, AddBackupServer, SendClients,
      SendEot, ReceiveEot, ReceiveUnparsed, ReceiveNothing, Evolve, LockHandCom,
      HostUnknown, Start, Exit, Kill, PropagateDevice, GetSyncDir, Reject,
      PropagateRemoval, Die, ConnectToClient

\* A slot of the main server is freed by the end of its own session and by
\* nothing else: not by the exit of another device, by a rejected one, by one of
\* the same host name, or by a device that takes a slot.
THEOREM OwnSlotFreedAlways == Spec => OwnSlotFreed
<1>1. TypeInv /\ [Next]_vars =>
        [main' = main /\ main # Nobody =>
           \A k \in Device :
             LET s == list[main][k].session
             IN  s # 0 /\ list'[main][k] # list[main][k] => session[s].at = "exit"]_vars
  BY OwnSlot
<1>. QED  BY <1>1, Always, PTL DEF Spec, OwnSlotFreed

-----------------------------------------------------------------------------
(* Who is main, and whose the slots are.                                   *)

\* The backup that has taken over is main, or nobody is any more.  Only it has
\* threads that connect to devices.  Before it takes over no device is served.
RoleInv ==
  /\ \A b \in Backup : place[b] = "main" => main \in {b, Nobody}
  /\ main \in Backup => place[main] = "main"
  /\ \A k \in Device : thread[k].at # "none" => \E b \in Backup : place[b] = "main"
  /\ (main = Nobody /\ \A b \in Backup : place[b] # "main") =>
       /\ \A h \in Host : device[h].at \in {"off", "stranded"}
       /\ \A s \in Session : session[s].at \in {"none", "closed"}

\* The first main server is main at the start.
LEMMA RoleInit == Init => RoleInv
BY DevicesAssumption, SMTT(60) DEF Init, RoleInv

\* A backup is main once, after the first main server's death.
LEMMA RoleNext ==
  ASSUME TypeInv, RoleInv, [Next]_vars
  PROVE  RoleInv'
<1>. USE DEF TypeInv
\* Most actions are the main server's, or those of programs it serves.
<1>1. CASE main # Nobody /\ UNCHANGED <<main, place, thread>>
  BY <1>1 DEF RoleInv
<1>2. CASE UNCHANGED <<main, session, place, thread, device>>
  BY <1>2 DEF RoleInv
<1>3. ASSUME NEW h \in Host, Kill(h) PROVE RoleInv'
  <2>1. /\ UNCHANGED <<main, place, thread, session>>
        /\ device' = [device EXCEPT ![h] = [at |-> "off", session |-> 0]]
    BY <1>3 DEF Kill
  <2>. QED  BY <2>1 DEF RoleInv, DeviceType
<1>4. ASSUME NEW b \in Backup, NEW p \in {"list", "sync", "down"}, place[b] # "main",
             place' = [place EXCEPT ![b] = p], UNCHANGED <<main, thread, session, device>>
      PROVE  RoleInv'
  <2>1. \A c \in Backup : place'[c] = "main" <=> place[c] = "main"
    BY <1>4 DEF PlaceType
  <2>. QED  BY <1>4, <2>1 DEF RoleInv
<1>5. ASSUME NEW b \in Backup, AddBackupServer(b) PROVE RoleInv'
  BY <1>4, <1>5 DEF AddBackupServer
<1>6. ASSUME NEW b \in Backup, ReceiveEot(b) PROVE RoleInv'
  BY <1>4, <1>6 DEF ReceiveEot, Receives
<1>7. ASSUME NEW b \in Backup, ReceiveUnparsed(b) PROVE RoleInv'
  BY <1>4, <1>7 DEF ReceiveUnparsed, Receives
<1>8. ASSUME Die PROVE RoleInv'
  <2>1. main' = Nobody /\ UNCHANGED <<place, thread>>
    BY <1>8 DEF Die
  <2>2. \A s \in Session : session'[s].at \in {"none", "closed"}
    BY <1>8 DEF Die, SessionType
  <2>3. \A h \in Host : device'[h].at \in {"off", "stranded"}
    BY <1>8 DEF Die, DeviceType
  <2>. QED  BY <2>1, <2>2, <2>3, DevicesAssumption DEF RoleInv
<1>9. ASSUME NEW b \in Backup, Evolve(b) PROVE RoleInv'
  <2>1. /\ main' = b /\ \A c \in Backup : place[c] # "main"
        /\ place' = [place EXCEPT ![b] = "main"]
    BY <1>9 DEF Evolve
  <2>2. \A c \in Backup : place'[c] = "main" <=> c = b
    BY <2>1 DEF PlaceType
  <2>. QED  BY <2>1, <2>2, DevicesAssumption DEF RoleInv
<1>10. ASSUME NEW k \in Device, thread[k].at # "none", main # Nobody, UNCHANGED <<main, place>>,
              \A j \in Device \ {k} : thread'[j] = thread[j]
       PROVE  RoleInv'
  BY <1>10 DEF RoleInv
<1>11. ASSUME NEW k \in Device, ConnectToClient(k) \/ AddReconnected(k) \/ LockHandCom(k)
       PROVE  RoleInv'
  BY <1>10, <1>11 DEF ConnectToClient, AddReconnected, LockHandCom, ThreadType
<1>12. ASSUME NEW k \in Device, HostUnknown(k) PROVE RoleInv'
  BY <1>12, DevicesAssumption DEF HostUnknown, RoleInv
<1>. QED
  BY <1>1, <1>2, <1>3, <1>5, <1>6, <1>7, <1>8, <1>9, <1>11, <1>12
  DEF Next, SessionThread, BackupThread, ReconnectThread, vars, SendClients, SendEot,
      Receives, ReceiveNode, ReceiveNothing, SyncInfo, SyncDelete, Start, Exit, At,
      AddDevice, PropagateDevice, GetSyncDir, Reject, EndCommunications, PropagateRemoval

\* The first main server's slots have a host name and a session, or neither, and
\* no two the same session.  The sockets of a backup's slots are those it has
\* itself connected to, as main.  A slot has the host name of its session, which
\* has been admitted, and one that is being told of to the backups has a slot.
PrimaryInv ==
  /\ \A k \in Device : list[Primary][k].session = 0 => list[Primary][k].host = NoHost
  /\ \A j, k \in Device : list[Primary][j].session = list[Primary][k].session =>
       j = k \/ list[Primary][k].session = 0

BackupInv ==
  \A b \in Backup : place[b] # "main" => \A k \in Device : list[b][k].session = 0

Young == {"none", "hello", "full"}

OwnerInv ==
  /\ main # Nobody => \A k \in Device : list[main][k].session # 0 =>
       /\ list[main][k].host = session[list[main][k].session].host
       /\ session[list[main][k].session].at \notin Young
  /\ main # Nobody => \A s \in Session : session[s].at \in {"listed", "reply"} =>
       \E k \in Device : list[main][k].session = s
  /\ \A k \in Device : thread[k].at = "add" =>
       /\ session[thread[k].session].host = thread[k].host
       /\ session[thread[k].session].at \notin Young

SlotInv == PrimaryInv /\ BackupInv /\ OwnerInv

\* No slot is taken at the start.
LEMMA SlotInit == Init => SlotInv
<1>. SUFFICES ASSUME Init PROVE SlotInv
  OBVIOUS
<1>1. \A n \in Server : \A k \in Device : list[n][k] = NoSlot
  BY DEF Init, Empty
<1>2. main \in Server /\ Primary \in Server /\ Backup \subseteq Server
  BY DEF Init, Server
<1>3. PrimaryInv /\ BackupInv
  BY <1>1, <1>2 DEF PrimaryInv, BackupInv, NoSlot
<1>4. OwnerInv
  BY <1>1, <1>2 DEF OwnerInv, NoSlot, Init
<1>. QED  BY <1>3, <1>4 DEF SlotInv

\* The lists change by the main server's actions and by what backups read.
LEMMA ListSteps ==
  ASSUME TypeInv, [Next]_vars
  PROVE  \/ UNCHANGED list
         \/ /\ main \in Server /\ UNCHANGED <<main, place>>
            /\ \/ \E s \in Session : AddDevice(s) \/ EndCommunications(s)
               \/ \E k \in Device : AddReconnected(k)
            /\ list' = [list EXCEPT ![main] = list'[main]]
         \/ \E b \in Backup :
              /\ b # main /\ UNCHANGED <<main, session, thread, place>>
              /\ ReceiveNode(b) \/ SyncInfo(b) \/ SyncDelete(b)
              /\ list' = [list EXCEPT ![b] = list'[b]]
<1>. USE DEF TypeInv
<1>1. ASSUME NEW n \in Server, NEW l, list' = [list EXCEPT ![n] = l]
      PROVE  list' = [list EXCEPT ![n] = list'[n]]
  BY <1>1 DEF ListType
<1>2. ASSUME NEW s \in Session, AddDevice(s) PROVE main \in Server
  BY <1>2 DEF AddDevice, At, MainType
<1>3. ASSUME NEW s \in Session, EndCommunications(s) PROVE main \in Server
  BY <1>3 DEF EndCommunications, At, MainType
<1>4. ASSUME NEW k \in Device, AddReconnected(k) PROVE main \in Server
  BY <1>4 DEF AddReconnected, MainType
<1>5. ASSUME NEW b \in Backup, ReceiveNode(b) \/ SyncInfo(b) \/ SyncDelete(b)
      PROVE  /\ b # main /\ UNCHANGED <<main, session, thread, place>>
             /\ list' = [list EXCEPT ![b] = list'[b]]
  <2>1. b \in Server /\ b # main /\ UNCHANGED <<main, session, thread, place>>
    BY <1>5 DEF ReceiveNode, SyncInfo, SyncDelete, Receives, Server
  <2>2. PICK l : list' = [list EXCEPT ![b] = l]
    BY <1>5 DEF ReceiveNode, SyncInfo, SyncDelete
  <2>. QED  BY <1>1, <2>1, <2>2
<1>6. ASSUME NEW s \in Session, AddDevice(s) \/ EndCommunications(s)
      PROVE  UNCHANGED <<main, place>> /\ list' = [list EXCEPT ![main] = list'[main]]
  <2>1. PICK l : list' = [list EXCEPT ![main] = l]
    BY <1>6 DEF AddDevice, EndCommunications
  <2>. QED  BY <1>1, <1>2, <1>3, <1>6, <2>1 DEF AddDevice, EndCommunications
<1>7. ASSUME NEW k \in Device, AddReconnected(k)
      PROVE  UNCHANGED <<main, place>> /\ list' = [list EXCEPT ![main] = list'[main]]
  <2>1. PICK l : list' = [list EXCEPT ![main] = l]
    BY <1>7 DEF AddReconnected
  <2>. QED  BY <1>1, <1>4, <1>7, <2>1 DEF AddReconnected
<1>. QED
  BY <1>2, <1>3, <1>4, <1>5, <1>6, <1>7
  DEF Next, SessionThread, BackupThread, ReconnectThread, vars, AddBackupServer, SendClients,
      SendEot, ReceiveEot, ReceiveUnparsed, ReceiveNothing, Evolve, LockHandCom,
      HostUnknown, Start, Exit, Kill, PropagateDevice, GetSyncDir, Reject,
      PropagateRemoval, Die, ConnectToClient

\* What the main server does to one of its slots.
LEMMA SlotSteps ==
  ASSUME TypeInv, [Next]_vars, main # Nobody, main' = main, NEW k \in Device,
         list'[main][k] # list[main][k]
  PROVE  \/ \E s \in Session :
              /\ AddDevice(s) /\ Free(list[main][k], session[s].host)
              /\ ~Full(list[main], session[s].host)
              /\ list'[main][k] = [host |-> session[s].host, session |-> s]
         \/ \E j \in Device :
              /\ AddReconnected(j) /\ Free(list[main][k], thread[j].host)
              /\ list'[main][k] = [host |-> thread[j].host, session |-> thread[j].session]
         \/ \E s \in Session : EndCommunications(s) /\ list'[main][k] = NoSlot
<1>. USE DEF TypeInv
<1>. DEFINE l == list[main]
<1>1. main \in Server /\ l \in Slots
  BY DEF MainType, ListType
<1>2. ASSUME NEW s \in Session, AddDevice(s)
      PROVE  /\ Free(l[k], session[s].host)
             /\ list'[main][k] = [host |-> session[s].host, session |-> s]
  <2>1. session[s].host \in Host /\ list'[main] = Add(l, session[s].host, s)
    BY <1>1, <1>2 DEF AddDevice, At, SessionType, ListType
  <2>2. Add(l, session[s].host, s)[k] # l[k]
    BY <2>1
  <2>. HIDE DEF l
  <2>. QED  BY <1>1, <2>1, <2>2, AddTakes
<1>3. ASSUME NEW j \in Device, AddReconnected(j)
      PROVE  /\ Free(l[k], thread[j].host)
             /\ list'[main][k] = [host |-> thread[j].host, session |-> thread[j].session]
  <2>1. /\ thread[j].host \in Host /\ thread[j].session \in {0} \cup Session
        /\ list'[main] = Add(l, thread[j].host, thread[j].session)
    BY <1>1, <1>3 DEF AddReconnected, ThreadType, ListType
  <2>2. Add(l, thread[j].host, thread[j].session)[k] # l[k]
    BY <2>1
  <2>. HIDE DEF l
  <2>. QED  BY <1>1, <2>1, <2>2, AddTakes
<1>4. ASSUME NEW s \in Session, EndCommunications(s) PROVE list'[main][k] = NoSlot
  <2>1. list'[main] = RemoveSockets(l, s)
    BY <1>1, <1>4 DEF EndCommunications, ListType
  <2>2. RemoveSockets(l, s)[k] = l[k] \/ RemoveSockets(l, s)[k] = NoSlot
    <3>. HIDE DEF l
    <3>. QED  BY <1>1, RemoveSocketsIs DEF Empty
  <2>. QED  BY <2>1, <2>2
<1>5. ASSUME NEW s \in Session, AddDevice(s) PROVE ~Full(l, session[s].host)
  BY <1>2, <1>5 DEF Full
<1>. QED
  BY <1>1, <1>2, <1>3, <1>4, <1>5, ListSteps DEF ListType

\* The first main server's slots have sockets as long as they have host names.
LEMMA PrimaryNext ==
  ASSUME TypeInv, RoleInv, SlotInv, [Next]_vars
  PROVE  PrimaryInv'
<1>. USE DEF TypeInv, SlotInv
<1>1. CASE list'[Primary] = list[Primary]
  BY <1>1 DEF PrimaryInv
<1>2. CASE list'[Primary] # list[Primary]
  <2>1. main = Primary /\ main' = main /\ main # Nobody
    BY <1>2, ListSteps, DevicesAssumption DEF ListType, Server
  <2>2. \A j \in Device : ~AddReconnected(j)
    BY <2>1, DevicesAssumption DEF AddReconnected, RoleInv
  <2>3. ASSUME NEW k \in Device, list'[Primary][k] # list[Primary][k]
        PROVE  \/ \E s \in Session :
                    /\ session[s].at = "hello"
                    /\ list'[Primary][k] = [host |-> session[s].host, session |-> s]
                    /\ list[Primary][k].session = 0
                    /\ \A j \in Device : list'[Primary][j].session = s => j = k
               \/ list'[Primary][k] = NoSlot
    <3>1. \/ \E s \in Session :
               /\ AddDevice(s)
               /\ Free(list[main][k], session[s].host)
               /\ list'[main][k] = [host |-> session[s].host, session |-> s]
          \/ list'[main][k] = NoSlot
      BY <2>1, <2>2, <2>3, SlotSteps
    <3>2. ASSUME NEW s \in Session, AddDevice(s)
          PROVE  /\ session[s].at = "hello"
                 /\ \A i, j \in Device :
                      list'[main][i].session = s /\ list'[main][j].session = s => i = j
      <4>1. session[s].at = "hello" /\ session[s].host \in Host
        BY <3>2 DEF AddDevice, At, SessionType
      <4>2. list'[main] = Add(list[main], session[s].host, s)
        BY <2>1, <3>2 DEF AddDevice, ListType, Server
      <4>3. \A j \in Device : list[main][j].session # s
        BY <2>1, <4>1, DevicesAssumption DEF OwnerInv, Young, Session
      <4>4. ASSUME NEW l \in Slots, NEW h \in Host, \A j \in Device : l[j].session # s
            PROVE  \A i, j \in Device :
                     Add(l, h, s)[i].session = s /\ Add(l, h, s)[j].session = s => i = j
        <5>1. \A i \in Device : Add(l, h, s)[i].session = s => Add(l, h, s)[i] # l[i]
          BY <4>4
        <5>2. \A i, j \in Device :
                Add(l, h, s)[i] # l[i] /\ Add(l, h, s)[j] # l[j] => i = j
          BY AddOnce, ZenonT(60)
        <5>. QED  BY <5>1, <5>2
      <4>5. Primary \in Server /\ list[main] \in Slots
        BY <2>1 DEF ListType, Server
      <4>. QED  BY <4>1, <4>2, <4>3, <4>4, <4>5
    <3>. QED  BY <2>1, <3>1, <3>2 DEF Free
  <2>4. ASSUME NEW k \in Device, list'[Primary][k].session = 0
        PROVE  list'[Primary][k].host = NoHost
    <3>1. CASE list'[Primary][k] = list[Primary][k]
      BY <2>4, <3>1 DEF PrimaryInv
    <3>2. CASE list'[Primary][k] = NoSlot
      BY <3>2 DEF NoSlot
    <3>3. ASSUME NEW s \in Session, list'[Primary][k] = [host |-> session[s].host, session |-> s]
          PROVE  FALSE
      <4>1. list'[Primary][k].session = s
        BY <3>3
      <4>. QED  BY <2>4, <4>1, DevicesAssumption DEF Session
    <3>. QED  BY <2>3, <3>1, <3>2, <3>3
  <2>5. ASSUME NEW j \in Device, NEW k \in Device, j # k,
               list'[Primary][j].session = list'[Primary][k].session
        PROVE  list'[Primary][k].session = 0
    <3>1. CASE list'[Primary][j] = list[Primary][j] /\ list'[Primary][k] = list[Primary][k]
      BY <2>5, <3>1 DEF PrimaryInv
    <3>2. CASE list'[Primary][j] = NoSlot \/ list'[Primary][k] = NoSlot
      BY <2>5, <3>2 DEF NoSlot
    <3>3. ASSUME NEW s \in Session, NEW i \in {j, k},
                 list'[Primary][i] = [host |-> session[s].host, session |-> s],
                 \A n \in Device : list'[Primary][n].session = s => n = i
          PROVE  FALSE
      <4>1. list'[Primary][i].session = s
        BY <3>3
      <4>. QED  BY <2>5, <3>3, <4>1
    <3>. QED  BY <2>3, <2>5, <3>1, <3>2, <3>3
  <2>. QED  BY <2>4, <2>5 DEF PrimaryInv
<1>. QED  BY <1>1, <1>2

\* The lists of backups have no sockets until they are main.
LEMMA BackupNext ==
  ASSUME TypeInv, RoleInv, SlotInv, [Next]_vars
  PROVE  BackupInv'
<1>. USE DEF TypeInv, SlotInv
<1>1. \A b \in Backup : place'[b] # "main" => place[b] # "main"
  BY ZenonT(60) DEF Next, SessionThread, BackupThread, ReconnectThread, vars, AddBackupServer, SendClients,
         SendEot, Receives, ReceiveNode, ReceiveEot, ReceiveUnparsed, ReceiveNothing, SyncInfo,
         SyncDelete, Evolve, AddDevice, EndCommunications, AddReconnected, LockHandCom,
         HostUnknown, Start, Exit, Kill, PropagateDevice, GetSyncDir, Reject,
         PropagateRemoval, Die, ConnectToClient, PlaceType
<1>2. CASE UNCHANGED list
  BY <1>1, <1>2 DEF BackupInv
<1>3. CASE main \in Server /\ UNCHANGED <<main, place>> /\ list' = [list EXCEPT ![main] = list'[main]]
  <2>1. \A b \in Backup : place[b] # "main" => b # main
    BY DEF RoleInv
  <2>2. \A b \in Backup : place[b] # "main" => list'[b] = list[b]
    BY <1>3, <2>1 DEF ListType, Server
  <2>. QED  BY <1>3, <2>2 DEF BackupInv
<1>4. ASSUME NEW b \in Backup, ReceiveNode(b) \/ SyncInfo(b) \/ SyncDelete(b),
             list' = [list EXCEPT ![b] = list'[b]], UNCHANGED place
      PROVE  BackupInv'
  <2>1. place[b] # "main" /\ b \in Server /\ list[b] \in Slots
    BY <1>4 DEF ReceiveNode, SyncInfo, SyncDelete, Receives, Server, ListType
  <2>2. \A k \in Device : list[b][k].session = 0
    BY <2>1 DEF BackupInv
  <2>3. ASSUME ReceiveNode(b) PROVE \A k \in Device : list'[b][k].session = 0
    <3>1. Head(feed[b]) \in Packet /\ Head(feed[b]).type = "node"
      BY <2>3, FirstPacket DEF ReceiveNode
    <3>2. list'[b] = Received(list[b], Head(feed[b]).hosts)
      BY <2>1, <2>3 DEF ReceiveNode, Received, ListType
    <3>. QED  BY <2>1, <2>2, <3>1, <3>2, PacketIs, ReceivedIs
  <2>4. ASSUME SyncInfo(b) PROVE \A k \in Device : list'[b][k].session = 0
    <3>1. Head(feed[b]).host \in Host
      BY <2>4, FirstPacket, PacketIs DEF SyncInfo
    <3>2. list'[b] = Add(list[b], Head(feed[b]).host, 0)
      BY <2>1, <2>4 DEF SyncInfo, ListType
    <3>. QED  BY <2>1, <2>2, <3>1, <3>2, AddZero
  <2>5. ASSUME SyncDelete(b) PROVE \A k \in Device : list'[b][k].session = 0
    <3>1. Head(feed[b]).host \in Host
      BY <2>5, FirstPacket, PacketIs DEF SyncDelete
    <3>2. list'[b] = RemoveHost(list[b], Head(feed[b]).host)
      BY <2>1, <2>5 DEF SyncDelete, ListType
    <3>3. \A k \in Device : list'[b][k] = list[b][k] \/ list'[b][k] = NoSlot
      BY <2>1, <3>1, <3>2, RemoveHostIs
    <3>. QED  BY <2>2, <3>3 DEF NoSlot
  <2>6. \A k \in Device : list'[b][k].session = 0
    BY <1>4, <2>3, <2>4, <2>5
  <2>7. \A c \in Backup \ {b} : list'[c] = list[c]
    BY <1>4, SMTT(60) DEF ListType, Server
  <2>. QED  BY <1>4, <2>6, <2>7 DEF BackupInv
<1>. QED  BY <1>2, <1>3, <1>4, ListSteps

\* A session's host name never changes, and once it has been admitted it has
\* been for good.
LEMMA OldSession ==
  ASSUME TypeInv, AgentInv, [Next]_vars, NEW s \in Session, session[s].at \notin Young
  PROVE  session'[s].host = session[s].host /\ session'[s].at \notin Young
<1>. USE DEF TypeInv
<1>1. CASE UNCHANGED session
  BY <1>1
<1>2. ASSUME NEW t \in Session, NEW at \in States \ Young, Goes(t, at)
      PROVE  session'[s].host = session[s].host /\ session'[s].at \notin Young
  BY <1>2 DEF Goes, SessionType
<1>3. ASSUME NEW t \in Session, NEW r, session' = [session EXCEPT ![t] = r],
             session[t].at \in {"none", "hello"}
      PROVE  session'[s] = session[s]
  BY <1>3 DEF SessionType, Young
<1>4. ASSUME NEW h \in Host, Start(h) PROVE session'[s] = session[s]
  BY <1>3, <1>4 DEF Start, New
<1>5. ASSUME NEW h \in Host, Exit(h)
      PROVE  session'[s].host = session[s].host /\ session'[s].at \notin Young
  <2>1. device[h].session \in Session /\ Goes(device[h].session, "exit")
    BY <1>5 DEF Exit, AgentInv
  <2>. QED  BY <1>2, <2>1 DEF States, Young
<1>6. ASSUME NEW t \in Session, AddDevice(t) PROVE session'[s] = session[s]
  BY <1>6 DEF AddDevice, At, Goes, SessionType, Young
<1>7. ASSUME NEW t \in Session,
             PropagateDevice(t) \/ GetSyncDir(t) \/ Reject(t) \/ EndCommunications(t)
             \/ PropagateRemoval(t)
      PROVE  session'[s].host = session[s].host /\ session'[s].at \notin Young
  BY <1>2, <1>7 DEF PropagateDevice, GetSyncDir, Reject, EndCommunications, PropagateRemoval,
                    States, Young
<1>8. ASSUME Die PROVE session'[s].host = session[s].host /\ session'[s].at \notin Young
  BY <1>8 DEF Die, SessionType, Young
<1>9. ASSUME NEW k \in Device, ConnectToClient(k) PROVE session'[s] = session[s]
  BY <1>3, <1>9, ZenonT(60) DEF ConnectToClient, New
<1>. QED
  BY <1>1, <1>4, <1>5, <1>6, <1>7, <1>8, <1>9
  DEF Next, SessionThread, BackupThread, ReconnectThread, vars, AddBackupServer, SendClients,
      SendEot, Receives, ReceiveNode, ReceiveEot, ReceiveUnparsed, ReceiveNothing, SyncInfo,
      SyncDelete, Evolve, AddReconnected, LockHandCom, HostUnknown, Kill

\* Who moves the threads of reconnect_to_clients.
LEMMA ThreadSteps ==
  ASSUME [Next]_vars
  PROVE  \/ UNCHANGED thread
         \/ \E b \in Backup : Evolve(b)
         \/ \E j \in Device : ConnectToClient(j) \/ AddReconnected(j) \/ LockHandCom(j)
BY ZenonT(60) DEF Next, SessionThread, BackupThread, ReconnectThread, vars, AddBackupServer, SendClients,
       SendEot, Receives, ReceiveNode, ReceiveEot, ReceiveUnparsed, ReceiveNothing, SyncInfo,
       SyncDelete, AddDevice, EndCommunications, HostUnknown, Start, Exit, Kill,
       PropagateDevice, GetSyncDir, Reject, PropagateRemoval, Die

\* Sockets are in one slot, with their session's host name, until it ends.
LEMMA OwnerNext ==
  ASSUME TypeInv, AgentInv, RoleInv, SlotInv, [Next]_vars
  PROVE  OwnerInv'
<1>. USE DEF TypeInv, SlotInv
\* A server becomes main, or stays so.
<1>1. main' = main \/ main' = Nobody \/ \E b \in Backup : Evolve(b)
  BY ZenonT(60) DEF Next, SessionThread, BackupThread, ReconnectThread, vars, AddBackupServer, SendClients,
         SendEot, Receives, ReceiveNode, ReceiveEot, ReceiveUnparsed, ReceiveNothing, SyncInfo,
         SyncDelete, AddDevice, EndCommunications, AddReconnected, LockHandCom,
         HostUnknown, Start, Exit, Kill, PropagateDevice, GetSyncDir, Reject,
         PropagateRemoval, Die, ConnectToClient
<1>2. ASSUME NEW b \in Backup, Evolve(b) 
      PROVE  /\ main' = b /\ \A k \in Device : list'[b][k].session = 0
             /\ \A s \in Session : session'[s].at \in {"none", "closed"}
  <2>1. /\ main = Nobody /\ main' = b /\ place[b] # "main" /\ \A c \in Backup : place[c] # "main"
        /\ list' = list /\ session' = session
    BY <1>2 DEF Evolve, Rest
  <2>. QED  BY <2>1 DEF RoleInv, BackupInv
<1>3. ASSUME main' # Nobody, NEW k \in Device, list'[main'][k].session # 0
      PROVE  /\ list'[main'][k].host = session'[list'[main'][k].session].host
             /\ session'[list'[main'][k].session].at \notin Young
  <2>1. main' = main /\ main # Nobody /\ main \in Server
    BY <1>1, <1>2, <1>3 DEF MainType
  <2>2. CASE list'[main][k] = list[main][k]
    <3>1. list[main][k].session \in Session
      BY <1>3, <2>1, <2>2 DEF ListType, Slots, Slot
    <3>2. /\ list[main][k].host = session[list[main][k].session].host
          /\ session[list[main][k].session].at \notin Young
      BY <1>3, <2>1, <2>2 DEF OwnerInv
    <3>. QED  BY <2>1, <2>2, <3>1, <3>2, OldSession
  <2>3. ASSUME NEW s \in Session, AddDevice(s), ~Full(list[main], session[s].host),
               list'[main][k] = [host |-> session[s].host, session |-> s]
        PROVE  /\ list'[main][k].host = session'[list'[main][k].session].host
               /\ session'[list'[main][k].session].at \notin Young
    <3>1. session'[s].host = session[s].host /\ session'[s].at = "listed"
      BY <2>3 DEF AddDevice, Goes, SessionType
    <3>. QED  BY <2>3, <3>1 DEF Young
  <2>4. ASSUME NEW j \in Device, AddReconnected(j),
               list'[main][k] = [host |-> thread[j].host, session |-> thread[j].session]
        PROVE  /\ list'[main][k].host = session'[list'[main][k].session].host
               /\ session'[list'[main][k].session].at \notin Young
    BY <2>4 DEF AddReconnected, OwnerInv
  <2>5. list'[main][k] # NoSlot
    BY <1>3, <2>1 DEF NoSlot
  <2>. QED  BY <2>1, <2>2, <2>3, <2>4, <2>5, SlotSteps
<1>4. ASSUME main' # Nobody, NEW s \in Session, session'[s].at \in {"listed", "reply"}
      PROVE  \E k \in Device : list'[main'][k].session = s
  <2>1. main' = main /\ main # Nobody /\ main \in Server
    BY <1>1, <1>2, <1>4 DEF MainType
  <2>2. CASE session[s].at \in {"listed", "reply"}
    <3>1. PICK k \in Device : list[main][k].session = s
      BY <2>1, <2>2 DEF OwnerInv
    <3>2. s # 0 /\ session[s].at # "exit"
      BY <2>2, DevicesAssumption DEF Session
    <3>3. list'[main][k] = list[main][k]
      BY <2>1, <3>1, <3>2, OwnSlot
    <3>. QED  BY <2>1, <3>1, <3>3
  <2>3. ASSUME AddDevice(s) PROVE \E k \in Device : list'[main][k].session = s
    <3>1. session[s].at = "hello" /\ session[s].host \in Host /\ list[main] \in Slots
      BY <2>1, <2>3 DEF AddDevice, At, SessionType, ListType
    <3>2. ~Full(list[main], session[s].host)
      BY <1>4, <2>3 DEF AddDevice, Goes, SessionType
    <3>3. list'[main] = Add(list[main], session[s].host, s)
      BY <2>1, <2>3 DEF AddDevice, ListType
    <3>4. \E k \in Device : list'[main][k] = [host |-> session[s].host, session |-> s]
      BY <3>1, <3>2, <3>3, AddIs, SMTT(60)
    <3>. QED  BY <3>4
  <2>4. CASE session[s].at \notin {"listed", "reply"} /\ ~AddDevice(s)
    <3>1. ASSUME NEW t \in Session, NEW at \in States \ {"listed"}, Goes(t, at),
                 at = "reply" => session[t].at = "listed"
          PROVE  FALSE
      BY <1>4, <2>4, <3>1 DEF Goes, SessionType
    <3>2. ASSUME NEW t \in Session, NEW r, session' = [session EXCEPT ![t] = r],
                 r.at \notin {"listed", "reply"}
          PROVE  FALSE
      BY <1>4, <2>4, <3>2 DEF SessionType
    <3>3. session' # session
      BY <1>4, <2>4
    <3>4. ASSUME NEW h \in Host, Start(h) PROVE FALSE
      BY <3>2, <3>4 DEF Start
    <3>5. ASSUME NEW h \in Host, Exit(h) PROVE FALSE
      <4>1. device[h].session \in Session /\ Goes(device[h].session, "exit")
        BY <3>5 DEF Exit, AgentInv
      <4>. QED  BY <3>1, <4>1 DEF States
    <3>6. ASSUME NEW t \in Session,
                 PropagateDevice(t) \/ GetSyncDir(t) \/ Reject(t) \/ EndCommunications(t)
                 \/ PropagateRemoval(t)
          PROVE  FALSE
      BY <3>1, <3>6 DEF PropagateDevice, GetSyncDir, Reject, EndCommunications, PropagateRemoval,
                        States, At
    <3>7. ASSUME NEW t \in Session, AddDevice(t) PROVE FALSE
      BY <1>4, <2>4, <3>7 DEF AddDevice, Goes, SessionType
    <3>8. ASSUME Die PROVE FALSE
      BY <1>4, <2>4, <3>8 DEF Die, SessionType
    <3>9. ASSUME NEW k \in Device, ConnectToClient(k) PROVE FALSE
      BY <3>2, <3>9 DEF ConnectToClient
    <3>. QED
      BY <3>3, <3>4, <3>5, <3>6, <3>7, <3>8, <3>9
      DEF Next, SessionThread, BackupThread, ReconnectThread, vars, AddBackupServer, SendClients,
          SendEot, Receives, ReceiveNode, ReceiveEot, ReceiveUnparsed, ReceiveNothing, SyncInfo,
          SyncDelete, Evolve, AddReconnected, LockHandCom, HostUnknown, Kill
  <2>. QED  BY <2>1, <2>2, <2>3, <2>4
<1>5. ASSUME NEW k \in Device, thread'[k].at = "add"
      PROVE  /\ session'[thread'[k].session].host = thread'[k].host
             /\ session'[thread'[k].session].at \notin Young
  <2>1. CASE thread'[k] = thread[k]
    <3>1. /\ session[thread[k].session].host = thread[k].host
          /\ session[thread[k].session].at \notin Young
          /\ thread[k].session \in Session
      BY <1>5, <2>1 DEF OwnerInv, ThreadType
    <3>. QED  BY <2>1, <3>1, OldSession
  <2>2. ASSUME ConnectToClient(k)
        PROVE  /\ session'[thread'[k].session].host = thread'[k].host
               /\ session'[thread'[k].session].at \notin Young
    <3>1. PICK s \in Session :
            /\ session' = [session EXCEPT ![s] = [at |-> "serving", host |-> thread[k].host]]
            /\ thread' = [thread EXCEPT ![k].at = "add", ![k].session = s]
      BY <2>2 DEF ConnectToClient
    <3>2. thread'[k].session = s /\ thread'[k].host = thread[k].host
      BY <3>1 DEF ThreadType
    <3>3. session'[s] = [at |-> "serving", host |-> thread[k].host]
      BY <3>1 DEF SessionType
    <3>. QED  BY <3>2, <3>3 DEF Young
  <2>3. ASSUME NEW b \in Backup, Evolve(b) PROVE FALSE
    BY <1>5, <2>3 DEF Evolve
  <2>4. ASSUME NEW j \in Device, ConnectToClient(j) \/ AddReconnected(j) \/ LockHandCom(j), j # k
        PROVE  thread'[k] = thread[k]
    BY <2>4 DEF ConnectToClient, AddReconnected, LockHandCom, ThreadType
  <2>5. ASSUME AddReconnected(k) \/ LockHandCom(k) PROVE FALSE
    BY <1>5, <2>5 DEF AddReconnected, LockHandCom, ThreadType
  <2>. QED  BY <2>1, <2>2, <2>3, <2>4, <2>5, ThreadSteps
<1>. QED  BY <1>3, <1>4, <1>5 DEF OwnerInv

-----------------------------------------------------------------------------
(* Devices that are served are listed.                                     *)

Idle(s)    == session[s].at \in {"none", "serving", "closed"}
Pending(k) == thread[k].at \in {"wait", "connect", "add"}

\* Unless somebody acted before all was settled, a device that is served has a
\* slot, or a thread that is about to list it.  While threads connect to devices
\* no session begins or ends, and there is a free slot for each.
ServedInv ==
  hasty = 0 /\ main # Nobody =>
    /\ \A h \in Host : device[h].at = "on" =>
         \/ \E k \in Device : list[main][k].session = device[h].session
         \/ \E k \in Device : thread[k].at = "add" /\ thread[k].session = device[h].session
    /\ \A k \in Device : Pending(k) =>
         /\ \A s \in Session : Idle(s)
         /\ \E j \in Device : Free(list[main][j], thread[k].host)
    /\ (\A k \in Device : Pending(k)) =>
         \A k \in Device : list[main][k].host = thread[k].host /\ list[main][k].session = 0

\* Nobody is served at the start.
LEMMA ServedInit == Init => ServedInv
BY DEF Init, ServedInv, Pending

\* Who acts while nothing else goes on.
LEMMA Calm ==
  ASSUME TypeInv, [Next]_vars, hasty' = 0
  PROVE  /\ hasty = 0
         /\ \A h \in Host : Start(h) \/ Exit(h) \/ Kill(h) => Settled
         /\ \A b \in Backup : AddBackupServer(b) => Settled
         /\ Die => Settled
<1>1. hasty \in Nat
  BY DevicesAssumption DEF TypeInv, CountType
<1>2. Act => Settled /\ hasty = 0
  BY <1>1, SMTT(60) DEF Act
<1>3. hasty' = hasty \/ Act
  BY ZenonT(60) DEF Next, SessionThread, BackupThread, ReconnectThread, vars, AddBackupServer, SendClients,
         SendEot, Receives, ReceiveNode, ReceiveEot, ReceiveUnparsed, ReceiveNothing, SyncInfo,
         SyncDelete, Evolve, AddDevice, EndCommunications, AddReconnected, LockHandCom,
         HostUnknown, Start, Exit, Kill, PropagateDevice, GetSyncDir, Reject,
         PropagateRemoval, Die, ConnectToClient, Rest
<1>. QED  BY <1>2, <1>3 DEF Start, Exit, Kill, AddBackupServer, Die

\* A session's thread takes a step.
Works(s) ==
  \/ AddDevice(s) \/ PropagateDevice(s) \/ GetSyncDir(s) \/ Reject(s)
  \/ EndCommunications(s) \/ PropagateRemoval(s)

\* A session's thread works when it has begun and not ended.
LEMMA WorksIs ==
  ASSUME NEW s \in Session, Works(s)
  PROVE  /\ ~Idle(s) /\ main # Nobody
         /\ UNCHANGED <<main, serves, joiner, place, thread, acts, hasty>>
BY DEF Works, Idle, AddDevice, PropagateDevice, GetSyncDir, Reject, EndCommunications,
       PropagateRemoval, At, Rest

\* Who changes sessions, programs, and which server is main.
LEMMA SessionSteps ==
  ASSUME [Next]_vars
  PROVE  \/ UNCHANGED session
         \/ \E h \in Host : Start(h) \/ Exit(h)
         \/ \E s \in Session : Works(s)
         \/ Die
         \/ \E k \in Device : ConnectToClient(k)
BY ZenonT(60) DEF Next, SessionThread, BackupThread, ReconnectThread, vars, AddBackupServer, SendClients,
       SendEot, Receives, ReceiveNode, ReceiveEot, ReceiveUnparsed, ReceiveNothing, SyncInfo,
       SyncDelete, Evolve, AddReconnected, LockHandCom, HostUnknown, Kill, Works

\* The steps that change a device.
LEMMA DeviceSteps ==
  ASSUME [Next]_vars
  PROVE  \/ UNCHANGED device
         \/ \E h \in Host : Start(h) \/ Exit(h) \/ Kill(h)
         \/ \E s \in Session : GetSyncDir(s) \/ Reject(s)
         \/ Die
         \/ \E k \in Device : ConnectToClient(k)
BY ZenonT(60) DEF Next, SessionThread, BackupThread, ReconnectThread, vars, AddBackupServer, SendClients,
       SendEot, Receives, ReceiveNode, ReceiveEot, ReceiveUnparsed, ReceiveNothing, SyncInfo,
       SyncDelete, Evolve, AddReconnected, LockHandCom, HostUnknown, AddDevice,
       PropagateDevice, EndCommunications, PropagateRemoval

\* The steps that change who is the main server.
LEMMA MainSteps ==
  ASSUME [Next]_vars
  PROVE  \/ main' = main
         \/ main' = Nobody
         \/ \E b \in Backup : Evolve(b)
BY ZenonT(60) DEF Next, SessionThread, BackupThread, ReconnectThread, vars, AddBackupServer, SendClients,
       SendEot, Receives, ReceiveNode, ReceiveEot, ReceiveUnparsed, ReceiveNothing, SyncInfo,
       SyncDelete, AddDevice, EndCommunications, AddReconnected, LockHandCom,
       HostUnknown, Start, Exit, Kill, PropagateDevice, GetSyncDir, Reject,
       PropagateRemoval, Die, ConnectToClient

\* A new session for the thread's host.
LEMMA ConnectIs ==
  ASSUME TypeInv, NEW k \in Device, ConnectToClient(k)
  PROVE  \E s \in Session :
           /\ session[s].at = "none"
           /\ session'[s].at = "serving" /\ session'[s].host = thread[k].host
           /\ \A t \in Session \ {s} : session'[t] = session[t]
           /\ device'[thread[k].host].at = "on" /\ device'[thread[k].host].session = s
           /\ \A h \in Host \ {thread[k].host} : device'[h] = device[h]
           /\ thread'[k].at = "add" /\ thread'[k].session = s
           /\ thread'[k].host = thread[k].host
           /\ \A j \in Device \ {k} : thread'[j] = thread[j]
<1>1. thread[k].host \in Host
  BY DEF ConnectToClient, TypeInv, ThreadType
<1>2. PICK s \in Session :
          /\ session[s].at = "none"
          /\ session' = [session EXCEPT ![s] = [at |-> "serving", host |-> thread[k].host]]
          /\ device' = [device EXCEPT ![thread[k].host] = [at |-> "on", session |-> s]]
          /\ thread' = [thread EXCEPT ![k].at = "add", ![k].session = s]
  BY DEF ConnectToClient, New
<1>3. /\ session'[s].at = "serving" /\ session'[s].host = thread[k].host
      /\ \A t \in Session \ {s} : session'[t] = session[t]
  BY <1>2 DEF TypeInv, SessionType
<1>4. /\ device'[thread[k].host].at = "on" /\ device'[thread[k].host].session = s
      /\ \A h \in Host \ {thread[k].host} : device'[h] = device[h]
  BY <1>1, <1>2 DEF TypeInv, DeviceType
<1>5. /\ thread'[k].at = "add" /\ thread'[k].session = s
      /\ thread'[k].host = thread[k].host
      /\ \A j \in Device \ {k} : thread'[j] = thread[j]
  BY <1>2 DEF TypeInv, ThreadType
<1>. QED  BY <1>2, <1>3, <1>4, <1>5

\* Whoever is served keeps a slot, or the thread that is about to list it.
LEMMA ServedNext ==
  ASSUME TypeInv, AgentInv, RoleInv, SlotInv, ServedInv, [Next]_vars
  PROVE  ServedInv'
<1>. USE DEF TypeInv, SlotInv
<1>. SUFFICES ASSUME hasty' = 0, main' # Nobody PROVE ServedInv'
  BY DEF ServedInv
<1>1. CASE \E b \in Backup : Evolve(b)
  <2>1. PICK b \in Backup : Evolve(b)
    BY <1>1
  <2>2. /\ main = Nobody /\ main' = b /\ \A c \in Backup : place[c] # "main"
        /\ UNCHANGED <<list, session, device>>
        /\ thread' = [k \in Device |->
             [at |-> IF list[b][k].host = NoHost THEN "none" ELSE "wait",
              host |-> list[b][k].host, session |-> 0]]
    BY <2>1 DEF Evolve
  <2>3. /\ \A h \in Host : device'[h].at # "on"
        /\ \A s \in Session : session'[s].at \in {"none", "closed"}
    BY <2>2 DEF RoleInv
  <2>4. \A k \in Device : list'[b][k].session = 0 /\ thread'[k].host = list'[b][k].host
    BY <2>2 DEF BackupInv
  <2>. QED  BY <2>2, <2>3, <2>4 DEF ServedInv, Free, Idle
<1>2. ASSUME ~\E b \in Backup : Evolve(b) PROVE ServedInv'
  <2>1. main' = main /\ main # Nobody /\ main \in Server /\ list[main] \in Slots
    BY <1>2, MainSteps DEF MainType, ListType
  <2>2. hasty = 0
    BY Calm
  \* While a thread is pending only threads act, one at a time.
  <2>3. ASSUME NEW k \in Device, Pending(k)
        PROVE  /\ ~Settled
               /\ \A s \in Session : ~Works(s) /\ Idle(s)
               /\ \A s \in Session : session'[s].at \in {"none", "serving", "closed"}
    <3>1. ~Settled
      BY <2>3 DEF Settled, Pending
    <3>2. \A s \in Session : Idle(s)
      BY <2>1, <2>2, <2>3 DEF ServedInv
    <3>3. \A s \in Session : ~Works(s)
      BY <3>2, WorksIs
    <3>4. UNCHANGED session \/ \E j \in Device : ConnectToClient(j)
      BY <3>1, <3>3, Calm, SessionSteps
    <3>5. \A s \in Session : session'[s].at \in {"none", "serving", "closed"}
      BY <3>2, <3>4, ConnectIs DEF Idle
    <3>. QED  BY <3>1, <3>2, <3>3, <3>5
  <2>4. ASSUME NEW k \in Device, Pending(k)'
        PROVE  Pending(k) /\ thread'[k].host = thread[k].host /\ ~AddReconnected(k)
    <3>1. ASSUME NEW j \in Device, ConnectToClient(j) \/ AddReconnected(j) \/ LockHandCom(j), j # k
          PROVE  thread'[k] = thread[k]
      BY <3>1 DEF ConnectToClient, AddReconnected, LockHandCom, ThreadType
    <3>2. ASSUME ConnectToClient(k) \/ LockHandCom(k)
          PROVE  Pending(k) /\ thread'[k].host = thread[k].host
      BY <3>2, ZenonT(60) DEF ConnectToClient, LockHandCom, ThreadType, Pending
    <3>3. ~AddReconnected(k)
      BY <2>4 DEF AddReconnected, ThreadType, Pending
    <3>. QED  BY <1>2, <2>4, <3>1, <3>2, <3>3, ThreadSteps DEF Pending
  <2>5. ASSUME NEW k \in Device, Pending(k)
        PROVE  \/ list'[main] = list[main]
               \/ \E j \in Device : AddReconnected(j)
    <3>1. \A s \in Session : ~AddDevice(s) /\ ~EndCommunications(s)
      BY <2>3, <2>5 DEF Works
    <3>. QED  BY <2>1, <3>1, ListSteps DEF ListType
  \* A thread lists its device.
  <2>6. ASSUME NEW j \in Device, AddReconnected(j)
        PROVE  /\ Pending(j) /\ thread[j].host \in Host
               /\ thread'[j].at = "done" /\ \A k \in Device \ {j} : thread'[k] = thread[k]
               /\ \E i \in Device :
                    /\ Free(list[main][i], thread[j].host)
                    /\ list'[main][i] = [host |-> thread[j].host, session |-> thread[j].session]
                    /\ \A m \in Device \ {i} : list'[main][m] = list[main][m]
    <3>1. Pending(j) /\ thread[j].host \in Host /\ thread[j].session \in {0} \cup Session
      BY <2>6 DEF AddReconnected, ThreadType, Pending
    <3>2. list'[main] = Add(list[main], thread[j].host, thread[j].session)
      BY <2>1, <2>6 DEF AddReconnected, ListType
    <3>3. ~Full(list[main], thread[j].host)
      BY <2>1, <2>2, <3>1 DEF ServedInv, Full
    <3>4. \E i \in Device :
            /\ Free(list[main][i], thread[j].host)
            /\ list'[main][i] = [host |-> thread[j].host, session |-> thread[j].session]
            /\ \A m \in Device \ {i} : list'[main][m] = list[main][m]
      BY <2>1, <3>1, <3>2, <3>3, AddIs
    <3>. QED  BY <2>6, <3>1, <3>4 DEF AddReconnected, ThreadType
  <2>7. ASSUME NEW h \in Host, device'[h].at = "on"
        PROVE  \/ \E k \in Device : list'[main][k].session = device'[h].session
               \/ \E k \in Device : thread'[k].at = "add" /\ thread'[k].session = device'[h].session
    \* It was on before: its slot or its thread is kept, or the thread lists it.
    <3>1. ASSUME device[h].at = "on", device'[h].session = device[h].session
          PROVE  \/ \E k \in Device : list'[main][k].session = device'[h].session
                 \/ \E k \in Device : thread'[k].at = "add" /\ thread'[k].session = device'[h].session
      <4>1. /\ device[h].session \in Session /\ device[h].session # 0
            /\ session[device[h].session].at = "serving"
        BY <3>1, DevicesAssumption DEF AgentInv, Session
      <4>2. ASSUME NEW k \in Device, list[main][k].session = device[h].session
            PROVE  list'[main][k].session = device'[h].session
        <5>1. list'[main][k] = list[main][k]
          BY <2>1, <4>1, <4>2, OwnSlot
        <5>. QED  BY <3>1, <4>2, <5>1
      <4>3. ASSUME NEW k \in Device, thread[k].at = "add", thread[k].session = device[h].session
            PROVE  \/ \E i \in Device : list'[main][i].session = device'[h].session
                   \/ thread'[k].at = "add" /\ thread'[k].session = device'[h].session
        <5>1. CASE AddReconnected(k)
          <6>1. PICK i \in Device :
                  list'[main][i] = [host |-> thread[k].host, session |-> thread[k].session]
            BY <2>6, <5>1
          <6>2. list'[main][i].session = device'[h].session
            BY <3>1, <4>3, <6>1
          <6>. QED  BY <6>2
        <5>2. ASSUME NEW j \in Device, AddReconnected(j) \/ ConnectToClient(j) \/ LockHandCom(j),
                     j # k
              PROVE  thread'[k] = thread[k]
          BY <5>2 DEF ConnectToClient, AddReconnected, LockHandCom, ThreadType
        <5>3. ~ConnectToClient(k) /\ ~LockHandCom(k)
          BY <4>3 DEF ConnectToClient, LockHandCom
        <5>. QED  BY <1>2, <3>1, <4>3, <5>1, <5>2, <5>3, ThreadSteps
      <4>. QED  BY <2>1, <2>2, <3>1, <4>2, <4>3 DEF ServedInv
    <3>2. ASSUME NEW s \in Session, GetSyncDir(s), session[s].host = h
          PROVE  \E k \in Device : list'[main][k].session = device'[h].session
      <4>1. session[s].at = "reply" /\ device[h].session = s
        BY <3>2 DEF GetSyncDir, At, AgentInv, Admitting
      <4>2. list' = list /\ device'[h].session = s
        BY <3>2, <4>1 DEF GetSyncDir, DeviceType
      <4>. QED  BY <2>1, <4>1, <4>2 DEF OwnerInv
    <3>3. ASSUME NEW s \in Session, GetSyncDir(s), session[s].host # h
          PROVE  device'[h] = device[h]
      BY <3>3 DEF GetSyncDir, DeviceType
    <3>4. ASSUME NEW s \in Session, Reject(s)
          PROVE  device'[h] = device[h]
      BY <2>7, <3>4 DEF Reject, DeviceType
    <3>5. ASSUME NEW g \in Host, Start(g) \/ Exit(g) \/ Kill(g)
          PROVE  device'[h] = device[h]
      BY <2>7, <3>5 DEF Start, Exit, Kill, DeviceType
    <3>6. ASSUME NEW k \in Device, ConnectToClient(k)
          PROVE  \/ device'[h] = device[h]
                 \/ thread'[k].at = "add" /\ thread'[k].session = device'[h].session
      BY <3>6, ConnectIs
    <3>7. ~Die
      BY <1>2, <2>1 DEF Die
    <3>. QED  BY <2>7, <3>1, <3>2, <3>3, <3>4, <3>5, <3>6, <3>7, DeviceSteps
  <2>8. ASSUME NEW k \in Device, Pending(k)'
        PROVE  \E m \in Device : Free(list'[main][m], thread'[k].host)
    <3>1. Pending(k) /\ thread'[k].host = thread[k].host /\ ~AddReconnected(k)
      BY <2>4, <2>8
    <3>2. CASE list'[main] = list[main]
      BY <2>1, <2>2, <3>1, <3>2 DEF ServedInv
    <3>3. ASSUME NEW j \in Device, AddReconnected(j)
          PROVE  \E m \in Device : Free(list'[main][m], thread'[k].host)
      <4>1. /\ j # k /\ Pending(j) /\ \A i \in Device : i \in {j, k}
            /\ thread[k].host \in Host /\ thread[k].host # NoHost
        BY <2>6, <3>1, <3>3, DevicesAssumption DEF Device, ThreadType, Pending
      <4>2. \A i \in Device : list[main][i].host = thread[i].host /\ list[main][i].session = 0
        BY <2>1, <2>2, <3>1, <4>1 DEF ServedInv
      <4>3. PICK i \in Device :
              /\ Free(list[main][i], thread[j].host)
              /\ \A m \in Device \ {i} : list'[main][m] = list[main][m]
        BY <2>6, <3>3
      <4>4. CASE i = j
        <5>1. list'[main][k] = list[main][k]
          BY <4>1, <4>3, <4>4
        <5>. QED  BY <3>1, <4>2, <5>1 DEF Free
      <4>5. CASE i = k
        <5>1. list'[main][j] = list[main][j]
          BY <4>1, <4>3, <4>5
        <5>2. thread[j].host = thread[k].host
          BY <4>1, <4>2, <4>3, <4>5 DEF Free
        <5>. QED  BY <3>1, <4>2, <5>1, <5>2 DEF Free
      <4>. QED  BY <4>1, <4>3, <4>4, <4>5
    <3>. QED  BY <2>5, <3>1, <3>2, <3>3
  <2>9. ASSUME \A k \in Device : Pending(k)', NEW k \in Device
        PROVE  list'[main][k].host = thread'[k].host /\ list'[main][k].session = 0
    <3>1. \A j \in Device : Pending(j) /\ thread'[j].host = thread[j].host /\ ~AddReconnected(j)
      BY <2>4, <2>9
    <3>2. list'[main] = list[main]
      BY <2>5, <3>1
    <3>. QED  BY <2>1, <2>2, <3>1, <3>2 DEF ServedInv
  <2>10. ASSUME NEW k \in Device, Pending(k)', NEW s \in Session
         PROVE  Idle(s)'
    BY <2>3, <2>4, <2>10 DEF Idle
  <2>. QED  BY <2>1, <2>7, <2>8, <2>9, <2>10 DEF ServedInv, Pending, Idle
<1>. QED  BY <1>1, <1>2

\* The invariant of everything above, and of ServedIsListed.
ListedInv == TypeInv /\ AgentInv /\ RoleInv /\ SlotInv /\ ServedInv

\* The inductive invariant holds throughout.
LEMMA ListedAlways == Spec => []ListedInv
<1>1. Init => ListedInv
  BY TypeInit, AgentInit, RoleInit, SlotInit, ServedInit DEF ListedInv
<1>2. ListedInv /\ [Next]_vars => ListedInv'
  BY TypeNext, AgentNext, RoleNext, PrimaryNext, BackupNext, OwnerNext, ServedNext
  DEF ListedInv, SlotInv
<1>. QED  BY <1>1, <1>2, PTL DEF Spec

\* Unless somebody acted before all was settled, a device that is served is
\* listed with the sockets it uses, also after a fail-over, when the threads that
\* connected to the dead server's devices found a free slot for each.
THEOREM ServedIsListedAlways == Spec => []ServedIsListed
<1>1. ListedInv => ServedIsListed
  <2>. SUFFICES ASSUME ListedInv, Settled, hasty = 0, NEW h \in Host, On(h) PROVE Listed(h)
    BY DEF ServedIsListed
  <2>1. main # Nobody /\ main \in Server /\ \A k \in Device : thread[k].at # "add"
    BY DEF Settled, ListedInv, TypeInv, MainType
  <2>2. PICK k \in Device : list[main][k].session = device[h].session
    BY <2>1 DEF ListedInv, ServedInv, On
  <2>3. device[h].session \in Session /\ device[h].session # 0 /\ session[device[h].session].host = h
    BY DevicesAssumption DEF ListedInv, AgentInv, On, Session
  <2>4. list[main][k].host = h
    BY <2>1, <2>2, <2>3 DEF ListedInv, SlotInv, OwnerInv
  <2>5. list[main][k] \in Slot
    BY <2>1 DEF ListedInv, TypeInv, ListType, Slots
  <2>6. list[main][k] = [host |-> h, session |-> device[h].session]
    BY <2>2, <2>4, <2>5 DEF Slot
  <2>. QED  BY <2>6 DEF Listed
<1>. QED  BY <1>1, ListedAlways, PTL
=============================================================================
