--------------------------- MODULE BackupsProofs ---------------------------
(***************************************************************************)
(* For every set of hosts and of backup servers, and every bound: the      *)
(* backups know the devices that the main server knows.                    *)
(*                                                                         *)
(* A backup is a delay line.  What its list will be is told by its list,   *)
(* the packets on the way to it and the place of the session that has yet  *)
(* to send one (Due), and that list is a good one (Good) from the moment   *)
(* the main server's changes.  This needs that one session at most is      *)
(* coming or going and nothing is under way when it begins (QuietInv),     *)
(* which backups are told what (ServesInv), what a joining backup has and  *)
(* will read (JoinInv), and that a host name is taken from the main        *)
(* server's list as a whole when its device leaves, also when a new main   *)
(* server has it without sockets (MainInv).                                *)
(***************************************************************************)
EXTENDS DevicesProofs

-----------------------------------------------------------------------------
(* A backup's list and the main server's.                                  *)

\* The slots after a change, one by one.
LEMMA AddSlots ==
  ASSUME NEW l \in Slots, NEW h \in Host, NEW s \in {0} \cup Session
  PROVE  /\ Add(l, h, s) \in Slots
         /\ Add(l, h, s)[1] = IF Free(l[1], h) THEN [host |-> h, session |-> s] ELSE l[1]
         /\ Add(l, h, s)[2] = IF ~Free(l[1], h) /\ Free(l[2], h)
                              THEN [host |-> h, session |-> s] ELSE l[2]
<1>. DEFINE slot == [host |-> h, session |-> s]
<1>1. CASE Free(l[1], h)
  <2>1. Add(l, h, s) = [l EXCEPT ![1] = slot]
    BY <1>1 DEF Add
  <2>. QED  BY <1>1, <2>1, AddIs DEF Slots, Device
<1>2. CASE ~Free(l[1], h) /\ Free(l[2], h)
  <2>1. Add(l, h, s) = [l EXCEPT ![2] = slot]
    BY <1>2 DEF Add
  <2>. QED  BY <1>2, <2>1, AddIs DEF Slots, Device
<1>3. CASE ~Free(l[1], h) /\ ~Free(l[2], h)
  BY <1>3 DEF Add
<1>. QED  BY <1>1, <1>2, <1>3

\* Only the first slot with the host name is cleared.
LEMMA RemoveHostSlots ==
  ASSUME NEW l \in Slots, NEW h \in Host
  PROVE  /\ RemoveHost(l, h) \in Slots
         /\ RemoveHost(l, h)[1] = IF l[1].host = h THEN NoSlot ELSE l[1]
         /\ RemoveHost(l, h)[2] = IF l[1].host # h /\ l[2].host = h THEN NoSlot ELSE l[2]
<1>1. CASE l[1].host = h
  <2>1. RemoveHost(l, h) = [l EXCEPT ![1] = NoSlot]
    BY <1>1 DEF RemoveHost
  <2>. QED  BY <1>1, <2>1, RemoveHostIs DEF Slots, Device
<1>2. CASE l[1].host # h /\ l[2].host = h
  <2>1. RemoveHost(l, h) = [l EXCEPT ![2] = NoSlot]
    BY <1>2 DEF RemoveHost
  <2>. QED  BY <1>2, <2>1, RemoveHostIs DEF Slots, Device
<1>3. CASE l[1].host # h /\ l[2].host # h
  BY <1>3 DEF RemoveHost
<1>. QED  BY <1>1, <1>2, <1>3

\* The host names of two slots.
LEMMA HostsAre ==
  ASSUME NEW l \in Slots
  PROVE  Hosts(l) = {l[1].host, l[2].host} \ {NoHost}
BY DEF Hosts, Device

\* A backup's list has the host names of the main server's, each once ...
Same(l, m) ==
  /\ Hosts(l) = Hosts(m)
  /\ l[1].host = l[2].host => l[1].host = NoHost

\* ... or, where a host name may be listed twice, no slot that is not there.
Within(l, m) ==
  \/ /\ l[1].host # NoHost => m[1].host = l[1].host
     /\ l[2].host # NoHost => m[2].host = l[2].host
  \/ /\ l[1].host # NoHost => m[2].host = l[1].host
     /\ l[2].host # NoHost => m[1].host = l[2].host

\* So it has no host name that the main server's does not have.
LEMMA WithinHosts ==
  ASSUME NEW l \in Slots, NEW m \in Slots, Within(l, m)
  PROVE  Hosts(l) \subseteq Hosts(m)
BY HostsAre DEF Within

\* A device whose host name is new is added to both.
LEMMA AddSame ==
  ASSUME NEW l \in Slots, NEW m \in Slots, NEW h \in Host, NEW s \in Session,
         \A k \in Device : l[k].session = 0,
         Same(l, m), h \notin Hosts(m), ~Full(m, h)
  PROVE  Same(Add(l, h, 0), Add(m, h, s))
<1>. DEFINE p == Add(l, h, 0)
            q == Add(m, h, s)
<1>1. h # NoHost /\ l[1].session = 0 /\ l[2].session = 0
  BY DevicesAssumption DEF Device
<1>2. /\ p \in Slots
      /\ p[1] = IF Free(l[1], h) THEN [host |-> h, session |-> 0] ELSE l[1]
      /\ p[2] = IF ~Free(l[1], h) /\ Free(l[2], h) THEN [host |-> h, session |-> 0] ELSE l[2]
  BY AddSlots
<1>3. /\ q \in Slots
      /\ q[1] = IF Free(m[1], h) THEN [host |-> h, session |-> s] ELSE m[1]
      /\ q[2] = IF ~Free(m[1], h) /\ Free(m[2], h) THEN [host |-> h, session |-> s] ELSE m[2]
  BY AddSlots
<1>4. /\ Hosts(l) = {l[1].host, l[2].host} \ {NoHost}
      /\ Hosts(m) = {m[1].host, m[2].host} \ {NoHost}
      /\ Hosts(p) = {p[1].host, p[2].host} \ {NoHost}
      /\ Hosts(q) = {q[1].host, q[2].host} \ {NoHost}
  BY <1>2, <1>3, HostsAre
<1>5. Free(m[1], h) \/ Free(m[2], h)
  BY DEF Full, Device
<1>6. m[1].host # h /\ m[2].host # h
  BY <1>1, <1>4
<1>7. \/ q[1].host = h /\ q[2].host = m[2].host /\ m[1].host = NoHost
      \/ q[2].host = h /\ q[1].host = m[1].host /\ m[2].host = NoHost
  BY <1>3, <1>5, <1>6 DEF Free
<1>8. l[1].host = NoHost \/ l[2].host = NoHost
  BY <1>4, <1>7 DEF Same
<1>9. l[1].host # h /\ l[2].host # h
  BY <1>1, <1>4, <1>6 DEF Same
<1>10. \/ p[1].host = h /\ p[2].host = l[2].host /\ l[1].host = NoHost
       \/ p[2].host = h /\ p[1].host = l[1].host /\ l[2].host = NoHost
  BY <1>1, <1>2, <1>8, <1>9 DEF Free
<1>11. Hosts(p) = Hosts(l) \cup {h} /\ Hosts(q) = Hosts(m) \cup {h}
  BY <1>1, <1>4, <1>7, <1>10
<1>12. p[1].host = p[2].host => p[1].host = NoHost
  BY <1>9, <1>10
<1>. HIDE DEF p, q
<1>13. Same(p, q)
  BY <1>11, <1>12 DEF Same
<1>. QED  BY <1>13 DEF p, q

\* A device that the main server has room for is added to both, also a twin.
LEMMA AddWithin ==
  ASSUME NEW l \in Slots, NEW m \in Slots, NEW h \in Host, NEW s \in Session,
         \A k \in Device : l[k].session = 0,
         \A k \in Device : m[k].session = 0 => m[k].host = NoHost,
         Within(l, m), ~Full(m, h)
  PROVE  /\ Within(Add(l, h, 0), Add(m, h, s))
         /\ Hosts(Add(l, h, 0)) = Hosts(l) \cup {h}
<1>. DEFINE p == Add(l, h, 0)
            q == Add(m, h, s)
<1>1. h # NoHost /\ l[1].session = 0 /\ l[2].session = 0
  BY DevicesAssumption DEF Device
<1>2. /\ p \in Slots
      /\ p[1] = IF Free(l[1], h) THEN [host |-> h, session |-> 0] ELSE l[1]
      /\ p[2] = IF ~Free(l[1], h) /\ Free(l[2], h) THEN [host |-> h, session |-> 0] ELSE l[2]
  BY AddSlots
<1>3. /\ q \in Slots
      /\ q[1] = IF Free(m[1], h) THEN [host |-> h, session |-> s] ELSE m[1]
      /\ q[2] = IF ~Free(m[1], h) /\ Free(m[2], h) THEN [host |-> h, session |-> s] ELSE m[2]
  BY AddSlots
<1>4. /\ Hosts(l) = {l[1].host, l[2].host} \ {NoHost}
      /\ Hosts(p) = {p[1].host, p[2].host} \ {NoHost}
  BY <1>2, HostsAre
<1>5. Free(m[1], h) \/ Free(m[2], h)
  BY DEF Full, Device
<1>6. \/ q[1].host = h /\ q[2].host = m[2].host /\ m[1].host = NoHost
      \/ q[2].host = h /\ q[1].host = m[1].host /\ m[2].host = NoHost
  BY <1>3, <1>5 DEF Free, Device
<1>7. l[1].host = NoHost \/ l[2].host = NoHost
  BY <1>6 DEF Within
<1>8. \/ p[1].host = h /\ p[2].host = l[2].host /\ l[1].host \in {NoHost, h}
      \/ p[2].host = h /\ p[1].host = l[1].host /\ l[2].host \in {NoHost, h}
  BY <1>1, <1>2, <1>7 DEF Free
<1>9. Hosts(p) = Hosts(l) \cup {h}
  BY <1>1, <1>4, <1>8
<1>10. Within(p, q)
  <2>. HIDE DEF p, q
  <2>. QED  BY <1>1, <1>6, <1>7, <1>8 DEF Within
<1>. QED  BY <1>9, <1>10

\* What is left of the main server's slots: those of other sessions, and of
\* nobody's only while some have sockets.
LEMMA RemoveSocketsSlots ==
  ASSUME NEW m \in Slots, NEW s \in Session
  PROVE  /\ RemoveSockets(m, s) \in Slots
         /\ \/ /\ m[1].session \in {0, s} /\ m[2].session \in {0, s}
               /\ RemoveSockets(m, s) = IF m[1].session = s \/ m[2].session = s
                                        THEN Empty ELSE m
            \/ /\ m[1].session \notin {0, s} \/ m[2].session \notin {0, s}
               /\ RemoveSockets(m, s)[1] = IF m[1].session = s THEN NoSlot ELSE m[1]
               /\ RemoveSockets(m, s)[2] = IF m[2].session = s THEN NoSlot ELSE m[2]
BY RemoveSocketsIs DEF Device

\* A session's device is removed from both.
LEMMA RemoveSame ==
  ASSUME NEW l \in Slots, NEW m \in Slots, NEW h \in Host, NEW s \in Session, Same(l, m),
         m[1].host = m[2].host /\ m[1].host # NoHost => m[1].session = 0 \/ m[2].session = 0,
         \A k \in Device : m[k].host # NoHost /\ m[k].session = 0 =>
           \E j \in Device \ {k} : m[j].host = m[k].host /\ m[j].session # 0,
         \A k \in Device : m[k].session # 0 => m[k].host # NoHost,
         \A k \in Device : m[k].session = s => m[k].host = h,
         (\E k \in Device : m[k].session = s) \/ h \notin Hosts(m)
  PROVE  Same(RemoveHost(l, h), RemoveSockets(m, s))
<1>. DEFINE p == RemoveHost(l, h)
            q == RemoveSockets(m, s)
<1>1. h # NoHost /\ s # 0 /\ NoSlot.host = NoHost
  BY DevicesAssumption DEF Session, NoSlot
<1>2. /\ p \in Slots
      /\ p[1] = IF l[1].host = h THEN NoSlot ELSE l[1]
      /\ p[2] = IF l[1].host # h /\ l[2].host = h THEN NoSlot ELSE l[2]
  BY RemoveHostSlots
<1>3. /\ q \in Slots
      /\ \/ /\ m[1].session \in {0, s} /\ m[2].session \in {0, s}
            /\ q = IF m[1].session = s \/ m[2].session = s THEN Empty ELSE m
         \/ /\ m[1].session \notin {0, s} \/ m[2].session \notin {0, s}
            /\ q[1] = IF m[1].session = s THEN NoSlot ELSE m[1]
            /\ q[2] = IF m[2].session = s THEN NoSlot ELSE m[2]
  BY RemoveSocketsSlots
<1>4. /\ Hosts(l) = {l[1].host, l[2].host} \ {NoHost}
      /\ Hosts(m) = {m[1].host, m[2].host} \ {NoHost}
      /\ Hosts(p) = {p[1].host, p[2].host} \ {NoHost}
      /\ Hosts(q) = {q[1].host, q[2].host} \ {NoHost}
  BY <1>2, <1>3, HostsAre
<1>5. Hosts(p) = Hosts(l) \ {h} /\ (p[1].host = p[2].host => p[1].host = NoHost)
  <2>1. l[1].host = l[2].host => l[1].host = NoHost
    BY DEF Same
  <2>. HIDE DEF p
  <2>. QED  BY <1>1, <1>2, <1>4, <2>1
<1>6. /\ m[1].session # 0 => m[1].host # NoHost
      /\ m[2].session # 0 => m[2].host # NoHost
      /\ m[1].session = s => m[1].host = h
      /\ m[2].session = s => m[2].host = h
      /\ m[1].session = s \/ m[2].session = s \/ h \notin Hosts(m)
      /\ m[1].host # NoHost /\ m[1].session = 0 => m[2].host = m[1].host /\ m[2].session # 0
      /\ m[2].host # NoHost /\ m[2].session = 0 => m[1].host = m[2].host /\ m[1].session # 0
  BY DEF Device
<1>7. Hosts(q) = Hosts(m) \ {h}
  <2>. HIDE DEF q
  <2>1. CASE q = m /\ m[1].session # s /\ m[2].session # s
    BY <1>6, <2>1
  <2>2. CASE /\ m[1].session \in {0, s} /\ m[2].session \in {0, s}
             /\ m[1].session = s \/ m[2].session = s
             /\ q = Empty
    <3>1. Hosts(q) = {}
      BY <1>1, <1>4, <2>2 DEF Empty, Device
    <3>2. m[1].host \in {NoHost, h} /\ m[2].host \in {NoHost, h}
      BY <1>1, <1>6, <2>2
    <3>. QED  BY <1>4, <3>1, <3>2
  <2>3. CASE /\ m[1].session \notin {0, s} \/ m[2].session \notin {0, s}
             /\ q[1] = IF m[1].session = s THEN NoSlot ELSE m[1]
             /\ q[2] = IF m[2].session = s THEN NoSlot ELSE m[2]
    <3>1. CASE m[1].session = s
      <4>1. m[2].session \notin {0, s} /\ m[1].host = h /\ m[2].host # h
        BY <1>1, <1>6, <2>3, <3>1
      <4>2. q[1].host = NoHost /\ q[2].host = m[2].host
        BY <1>1, <2>3, <3>1, <4>1
      <4>. QED  BY <1>4, <4>1, <4>2
    <3>2. CASE m[1].session # s /\ m[2].session = s
      <4>1. m[1].session \notin {0, s} /\ m[2].host = h /\ m[1].host # h
        BY <1>1, <1>6, <2>3, <3>2
      <4>2. q[2].host = NoHost /\ q[1].host = m[1].host
        BY <1>1, <2>3, <3>2, <4>1
      <4>. QED  BY <1>4, <4>1, <4>2
    <3>3. CASE m[1].session # s /\ m[2].session # s
      <4>1. q[1] = m[1] /\ q[2] = m[2] /\ h \notin Hosts(m)
        BY <1>6, <2>3, <3>3
      <4>. QED  BY <1>4, <4>1
    <3>. QED  BY <3>1, <3>2, <3>3
  <2>. QED  BY <1>3, <2>1, <2>2, <2>3
<1>. HIDE DEF p, q
<1>8. Same(p, q)
  BY <1>5, <1>7 DEF Same
<1>. QED  BY <1>8 DEF p, q

\* A device that leaves is taken from both: what the backup loses is its host
\* name.
LEMMA RemoveWithin ==
  ASSUME NEW l \in Slots, NEW m \in Slots, NEW h \in Host, NEW s \in Session, Within(l, m),
         \A k \in Device : m[k].session = 0 => m[k].host = NoHost,
         \A j, k \in Device : m[j].session = m[k].session => j = k \/ m[k].session = 0,
         \A k \in Device : m[k].session = s => m[k].host = h
  PROVE  /\ Within(RemoveHost(l, h), RemoveSockets(m, s))
         /\ Hosts(l) \ {h} \subseteq Hosts(RemoveHost(l, h))
<1>. DEFINE p == RemoveHost(l, h)
            q == RemoveSockets(m, s)
<1>1. h # NoHost /\ s # 0 /\ NoSlot.host = NoHost
  BY DevicesAssumption DEF Session, NoSlot
<1>2. /\ p \in Slots
      /\ p[1] = IF l[1].host = h THEN NoSlot ELSE l[1]
      /\ p[2] = IF l[1].host # h /\ l[2].host = h THEN NoSlot ELSE l[2]
  BY RemoveHostSlots
<1>3. /\ q \in Slots
      /\ \/ /\ m[1].session \in {0, s} /\ m[2].session \in {0, s}
            /\ q = IF m[1].session = s \/ m[2].session = s THEN Empty ELSE m
         \/ /\ m[1].session \notin {0, s} \/ m[2].session \notin {0, s}
            /\ q[1] = IF m[1].session = s THEN NoSlot ELSE m[1]
            /\ q[2] = IF m[2].session = s THEN NoSlot ELSE m[2]
  BY RemoveSocketsSlots
<1>4. /\ Hosts(l) = {l[1].host, l[2].host} \ {NoHost}
      /\ Hosts(p) = {p[1].host, p[2].host} \ {NoHost}
  BY <1>2, HostsAre
<1>5. /\ m[1].session = 0 => m[1].host = NoHost
      /\ m[2].session = 0 => m[2].host = NoHost
      /\ m[1].session = s => m[1].host = h
      /\ m[2].session = s => m[2].host = h
      /\ m[1].session = s /\ m[2].session = s => FALSE
  BY <1>1 DEF Device
\* One slot at most is freed, and it has the host name.
<1>6. \/ q[1].host = m[1].host /\ q[2].host = m[2].host
      \/ q[1].host = NoHost /\ q[2].host = m[2].host /\ m[1].host = h
      \/ q[2].host = NoHost /\ q[1].host = m[1].host /\ m[2].host = h
  <2>1. Empty[1].host = NoHost /\ Empty[2].host = NoHost
    BY <1>1 DEF Empty, Device
  <2>. HIDE DEF q
  <2>. QED  BY <1>1, <1>3, <1>5, <2>1
<1>7. Hosts(l) \ {h} \subseteq Hosts(p)
  <2>. HIDE DEF p
  <2>. QED  BY <1>1, <1>2, <1>4
<1>8. Within(p, q)
  <2>. HIDE DEF p, q
  <2>1. /\ p[1].host = IF l[1].host = h THEN NoHost ELSE l[1].host
        /\ p[2].host = IF l[1].host # h /\ l[2].host = h THEN NoHost ELSE l[2].host
    BY <1>1, <1>2
  <2>. QED  BY <1>1, <1>6, <2>1 DEF Within
<1>. QED  BY <1>7, <1>8

\* A backup that joins has the host names of the list it was sent.
LEMMA ReceivedSame ==
  ASSUME NEW m \in Slots
  PROVE  /\ Received(Empty, Node(m).hosts) \in Slots
         /\ Same(Received(Empty, Node(m).hosts), m)
         /\ Within(Received(Empty, Node(m).hosts), m)
<1>. DEFINE hosts == [k \in Device |-> m[k].host]
            With(l, k) == IF hosts[k] = NoHost THEN l ELSE Add(l, hosts[k], 0)
            p == With(Empty, 1)
            q == With(p, 2)
<1>1. Node(m).hosts = hosts /\ Received(Empty, hosts) = q
  BY DEF Node, Received
<1>2. /\ hosts[1] = m[1].host /\ hosts[2] = m[2].host
      /\ hosts[1] \in Host \cup {NoHost} /\ hosts[2] \in Host \cup {NoHost}
  BY DEF Device, Slots, Slot
<1>3. /\ Empty \in Slots
      /\ Empty[1].host = NoHost /\ Empty[2].host = NoHost
      /\ Empty[1].session = 0 /\ Empty[2].session = 0
  BY DEF Empty, NoSlot, Slot, Slots, Device
<1>4. /\ p \in Slots
      /\ p[1].host = m[1].host /\ p[2].host = NoHost
      /\ p[1].session = 0 /\ p[2].session = 0
  <2>1. CASE hosts[1] = NoHost
    BY <1>2, <1>3, <2>1
  <2>2. CASE hosts[1] \in Host /\ hosts[1] # NoHost
    <3>1. p = Add(Empty, hosts[1], 0)
      BY <2>2
    <3>2. Free(Empty[1], hosts[1])
      BY <1>3 DEF Free
    <3>3. /\ p \in Slots /\ p[1] = [host |-> hosts[1], session |-> 0]
          /\ p[2] = Empty[2]
      BY <1>3, <2>2, <3>1, <3>2, AddSlots
    <3>. HIDE DEF p, hosts
    <3>. QED  BY <1>2, <1>3, <3>3
  <2>. QED  BY <1>2, <2>1, <2>2
<1>5. /\ q \in Slots
      /\ \/ q[1].host = m[1].host /\ q[2].host = m[2].host /\ m[1].host # NoHost
            /\ (m[1].host = m[2].host => FALSE)
         \/ q[1].host = m[1].host /\ q[2].host = NoHost /\ m[2].host \in {NoHost, m[1].host}
         \/ q[1].host = m[2].host /\ q[2].host = NoHost /\ m[1].host = NoHost
  <2>. HIDE DEF p
  <2>1. CASE hosts[2] = NoHost
    BY <1>2, <1>4, <2>1
  <2>2. CASE hosts[2] \in Host /\ hosts[2] # NoHost
    <3>1. q = Add(p, hosts[2], 0)
      BY <2>2
    <3>. HIDE DEF q, hosts
    <3>2. /\ q \in Slots
          /\ q[1] = IF Free(p[1], hosts[2]) THEN [host |-> hosts[2], session |-> 0] ELSE p[1]
          /\ q[2] = IF ~Free(p[1], hosts[2]) /\ Free(p[2], hosts[2])
                    THEN [host |-> hosts[2], session |-> 0] ELSE p[2]
      BY <1>4, <2>2, <3>1, AddSlots
    <3>3. CASE m[1].host \in {NoHost, hosts[2]}
      <4>1. Free(p[1], hosts[2])
        BY <1>4, <3>3 DEF Free
      <4>. QED  BY <1>2, <1>4, <3>2, <3>3, <4>1
    <3>4. CASE m[1].host \notin {NoHost, hosts[2]}
      <4>1. ~Free(p[1], hosts[2]) /\ Free(p[2], hosts[2])
        BY <1>4, <3>4, SMTT(60) DEF Free
      <4>. QED  BY <1>2, <1>4, <3>2, <3>4, <4>1
    <3>. QED  BY <3>3, <3>4
  <2>. QED  BY <1>2, <2>1, <2>2
<1>6. /\ Hosts(q) = {q[1].host, q[2].host} \ {NoHost}
      /\ Hosts(m) = {m[1].host, m[2].host} \ {NoHost}
  BY <1>5, HostsAre
<1>7. q \in Slots /\ Same(q, m) /\ Within(q, m)
  <2>. HIDE DEF q
  <2>. QED  BY <1>5, <1>6 DEF Same, Within
<1>. QED  BY <1>1, <1>7

\* A thread lists a device whose host name waits for it: the names stay the same.
LEMMA AddWaiting ==
  ASSUME NEW m \in Slots, NEW h \in Hosts(m), NEW s \in {0} \cup Session, h \in Host
  PROVE  Add(m, h, s) \in Slots /\ Hosts(Add(m, h, s)) = Hosts(m)
<1>. DEFINE q == Add(m, h, s)
<1>1. /\ q \in Slots
      /\ q[1] = IF Free(m[1], h) THEN [host |-> h, session |-> s] ELSE m[1]
      /\ q[2] = IF ~Free(m[1], h) /\ Free(m[2], h) THEN [host |-> h, session |-> s] ELSE m[2]
  BY AddSlots
<1>2. /\ Hosts(q) = {q[1].host, q[2].host} \ {NoHost}
      /\ Hosts(m) = {m[1].host, m[2].host} \ {NoHost}
  BY <1>1, HostsAre
<1>3. /\ q[1].host = m[1].host \/ (q[1].host = h /\ m[1].host \in {NoHost, h})
      /\ q[2].host = m[2].host \/ (q[2].host = h /\ m[2].host \in {NoHost, h})
      /\ q[1].host = m[1].host \/ q[2].host = m[2].host
  <2>. HIDE DEF q
  <2>. QED  BY <1>1 DEF Free
<1>4. Hosts(q) = Hosts(m)
  <2>. HIDE DEF q
  <2>. QED  BY <1>2, <1>3
<1>. QED  BY <1>1, <1>4

-----------------------------------------------------------------------------
(* What the backups will know.                                             *)

\* The list that the backups follow: the main server's, or the dead one's.
Reference == IF main = Nobody THEN Primary ELSE main

\* The devices that are served, or are in the main server's list and will be.
Counted(h) ==
  \/ device[h].at = "on"
  \/ device[h].at = "joining" /\ session[device[h].session].at \in {"listed", "reply"}

\* What BackupsKnowDevices says of a backup's list, and what makes it last.
Good(l) ==
  /\ ~twins => Same(l, list[Reference])
  /\ main = Primary =>
       /\ Within(l, list[Primary])
       /\ \A h \in Host : Counted(h) => h \in Hosts(l)

\* Unless somebody acted before all was settled, one session at most begins or
\* ends, no backup joins then, and until the session has told of it nothing is
\* on its way to a backup.
Untold == {"hello", "full", "listed", "exit", "removed"}

QuietInv ==
  hasty = 0 =>
    /\ \A s, t \in Session : ~Idle(s) /\ ~Idle(t) => s = t
    /\ \A s \in Session : ~Idle(s) =>
         \A b \in Backup : joiner[b] \in {"none", "done"} /\ place[b] # "list"
    /\ \A s \in Session : session[s].at \in Untold => \A b \in Backup : feed[b] = <<>>
    /\ \A s \in Session : session[s].at \in {"exit", "removed"} =>
         device[session[s].host].at \notin {"on", "joining"}

\* A backup that has not joined has nothing and is told nothing, and one that
\* has is told everything.
ServesInv ==
  hasty = 0 =>
    /\ \A b \in Backup : place[b] = "out" =>
         feed[b] = <<>> /\ list[b] = Empty /\ ~Contains(serves, b)
    /\ \A b \in Backup : joiner[b] \in {"clients", "eot"} => place[b] = "list"
    /\ main # Nobody => \A b \in Backup : place[b] \in {"list", "sync"} => Contains(serves, b)

\* A backup that joins has read the main server's list, or will.
Joining(b) ==
  \/ joiner[b] = "clients" /\ feed[b] = <<>> /\ list[b] = Empty
  \/ joiner[b] = "eot" /\ feed[b] = <<Node(list[Primary])>> /\ list[b] = Empty
  \/ joiner[b] = "eot" /\ feed[b] = <<>> /\ Good(list[b])
  \/ joiner[b] = "done" /\ feed[b] = <<Node(list[Primary]), Eot>> /\ list[b] = Empty
  \/ joiner[b] = "done" /\ feed[b] = <<Eot>> /\ Good(list[b])

JoinInv ==
  hasty = 0 => \A b \in Backup : place[b] = "list" => main = Primary /\ Joining(b)

\* The list of a backup is good once it has read what it was sent, and what it
\* will be sent of the device that comes or goes.
Due(b) ==
  /\ \A s \in Session : session[s].at = "listed" =>
       Good(Add(list[b], session[s].host, 0))
  /\ \A s \in Session : session[s].at = "removed" =>
       Good(RemoveHost(list[b], session[s].host))
  /\ (\A s \in Session : session[s].at \notin {"listed", "removed"}) =>
       \/ feed[b] = <<>> /\ Good(list[b])
       \/ \E h \in Host : feed[b] = <<Info(h)>> /\ Good(Add(list[b], h, 0))
       \/ \E h \in Host : feed[b] = <<Deleted(h)>> /\ Good(RemoveHost(list[b], h))

\* A backup that was main and is gone has no successor.
Followed == main = Nobody => \A b \in Backup : place[b] # "main"

DueInv ==
  hasty = 0 /\ Followed => \A b \in Backup : place[b] = "sync" => Due(b)

\* A host name that the main server lists twice, or without sockets, is one that
\* a thread is about to list, or has: in the free slot before its own.  So all of
\* it goes when its session ends.
MainInv ==
  hasty = 0 /\ main # Nobody =>
    /\ ~twins =>
         /\ list[main][1].host = list[main][2].host /\ list[main][1].host # NoHost =>
              list[main][1].session = 0 \/ list[main][2].session = 0
         /\ \A k \in Device : list[main][k].host # NoHost /\ list[main][k].session = 0 =>
              \/ \E j \in Device : Pending(j) /\ thread[j].host = list[main][k].host
              \/ \E j \in Device \ {k} :
                   list[main][j].host = list[main][k].host /\ list[main][j].session # 0
         /\ \A k \in Device : Pending(k) =>
              \A j \in Device : list[main][j].host = thread[k].host => list[main][j].session = 0
         /\ \A j, k \in Device :
              Pending(j) /\ Pending(k) /\ thread[j].host = thread[k].host => j = k
    /\ \A k \in Device : Pending(k) => \E j \in Device : list[main][j].host = thread[k].host
    /\ \A s \in Session : session[s].at \in {"full", "exit"} =>
         \/ \E k \in Device : list[main][k].session = s
         \/ ~twins => \A k \in Device : list[main][k].host # session[s].host

\* They hold when nobody is there.
LEMMA KnowInit == Init => QuietInv /\ ServesInv /\ JoinInv /\ DueInv /\ MainInv
<1>. SUFFICES ASSUME Init PROVE QuietInv /\ ServesInv /\ JoinInv /\ DueInv /\ MainInv
  OBVIOUS
<1>1. QuietInv /\ JoinInv /\ DueInv
  BY DEF Init, QuietInv, Idle, Untold, JoinInv, DueInv
<1>2. ServesInv
  BY DEF Init, ServesInv, Contains, Server
<1>3. main \in Server /\ \A k \in Device : list[main][k] = NoSlot
  BY DEF Init, Empty, Server
<1>4. MainInv
  BY <1>3 DEF Init, MainInv, Pending, NoSlot, Device
<1>. QED  BY <1>1, <1>2, <1>4

\* When all is settled no backup joins, and what the backups know is good.
LEMMA SettledIs ==
  ASSUME JoinInv, DueInv, Settled, hasty = 0
  PROVE  /\ main # Nobody
         /\ \A s \in Session : Idle(s)
         /\ \A k \in Device : ~Pending(k) /\ thread[k].at # "add"
         /\ \A b \in Backup : feed[b] = <<>> /\ joiner[b] \in {"none", "done"} /\ place[b] # "list"
         /\ \A b \in Backup : place[b] = "sync" => Good(list[b])
<1>1. /\ main # Nobody
      /\ \A s \in Session : Idle(s) /\ session[s].at \notin {"listed", "removed"}
      /\ \A k \in Device : ~Pending(k) /\ thread[k].at # "add"
      /\ \A b \in Backup : feed[b] = <<>> /\ joiner[b] \in {"none", "done"}
  BY DEF Settled, Idle, Pending
<1>2. \A p, q : <<p>> # <<>> /\ <<p, q>> # <<>>
  OBVIOUS
<1>3. \A b \in Backup : place[b] # "list"
  BY <1>1, <1>2 DEF JoinInv, Joining
<1>4. \A b \in Backup : place[b] = "sync" => Good(list[b])
  BY <1>1, <1>2 DEF DueInv, Followed, Due
<1>. QED  BY <1>1, <1>3, <1>4

\* What a session's thread does.
LEMMA WorkSteps ==
  ASSUME TypeInv, NEW s \in Session, Works(s)
  PROVE  /\ session[s].host \in Host /\ session'[s].host = session[s].host
         /\ \A t \in Session \ {s} : session'[t] = session[t]
         /\ AddDevice(s) =>
              /\ session[s].at = "hello" /\ UNCHANGED <<device, feed>>
              /\ session'[s].at = IF Full(list[main], session[s].host) THEN "full" ELSE "listed"
         /\ PropagateDevice(s) =>
              /\ session[s].at = "listed" /\ session'[s].at = "reply"
              /\ UNCHANGED <<device, list, twins>>
         /\ GetSyncDir(s) =>
              /\ session[s].at = "reply" /\ session'[s].at = "serving"
              /\ UNCHANGED <<list, feed, twins>>
         /\ Reject(s) =>
              /\ session[s].at = "full" /\ session'[s].at = "exit"
              /\ UNCHANGED <<list, feed, twins>> /\ device'[session[s].host].at = "off"
         /\ EndCommunications(s) =>
              /\ session[s].at = "exit" /\ session'[s].at = "removed"
              /\ UNCHANGED <<device, feed, twins>>
         /\ PropagateRemoval(s) =>
              /\ session[s].at = "removed" /\ session'[s].at = "closed"
              /\ UNCHANGED <<device, list, twins>>
<1>. USE DEF TypeInv
<1>1. ASSUME NEW at \in States, Goes(s, at)
      PROVE  /\ session'[s].at = at /\ session'[s].host = session[s].host
             /\ \A t \in Session \ {s} : session'[t] = session[t]
  BY <1>1 DEF Goes, SessionType
<1>2. session[s].at # "none" /\ session[s].host \in Host
  BY WorksIs DEF Idle, SessionType
<1>3. ASSUME AddDevice(s)
      PROVE  /\ session[s].at = "hello" /\ UNCHANGED <<device, feed>>
             /\ session'[s].at = IF Full(list[main], session[s].host) THEN "full" ELSE "listed"
  BY <1>1, <1>2, <1>3 DEF AddDevice, At, States
<1>4. ASSUME PropagateDevice(s)
      PROVE  /\ session[s].at = "listed" /\ session'[s].at = "reply"
             /\ UNCHANGED <<device, list, twins>>
  BY <1>1, <1>2, <1>4 DEF PropagateDevice, At, States, Rest
<1>5. ASSUME GetSyncDir(s)
      PROVE  /\ session[s].at = "reply" /\ session'[s].at = "serving"
             /\ UNCHANGED <<list, feed, twins>>
  BY <1>1, <1>2, <1>5 DEF GetSyncDir, At, States, Rest
<1>6. ASSUME Reject(s)
      PROVE  /\ session[s].at = "full" /\ session'[s].at = "exit"
             /\ UNCHANGED <<list, feed, twins>> /\ device'[session[s].host].at = "off"
  <2>1. device' = [device EXCEPT ![session[s].host] = [at |-> "off", session |-> 0]]
    BY <1>6 DEF Reject
  <2>2. device'[session[s].host].at = "off"
    BY <1>2, <2>1 DEF DeviceType
  <2>. QED  BY <1>1, <1>2, <1>6, <2>2 DEF Reject, At, States, Rest
<1>7. ASSUME EndCommunications(s)
      PROVE  /\ session[s].at = "exit" /\ session'[s].at = "removed"
             /\ UNCHANGED <<device, feed, twins>>
  BY <1>1, <1>2, <1>7 DEF EndCommunications, At, States, Rest
<1>8. ASSUME PropagateRemoval(s)
      PROVE  /\ session[s].at = "removed" /\ session'[s].at = "closed"
             /\ UNCHANGED <<device, list, twins>>
  BY <1>1, <1>2, <1>8 DEF PropagateRemoval, At, States, Rest
<1>9. /\ session'[s].host = session[s].host
      /\ \A t \in Session \ {s} : session'[t] = session[t]
  <2>1. \E at \in States : Goes(s, at)
    BY DEF Works, AddDevice, PropagateDevice, GetSyncDir, Reject, EndCommunications,
           PropagateRemoval, States
  <2>. QED  BY <1>1, <2>1
<1>. QED  BY <1>2, <1>9, <1>3, <1>4, <1>5, <1>6, <1>7, <1>8

\* What is neither an act nor a session's doing.
LEMMA OtherSteps ==
  ASSUME [Next]_vars
  PROVE  \/ \E h \in Host : Start(h) \/ Exit(h) \/ Kill(h)
         \/ \E s \in Session : Works(s)
         \/ Die
         \/ \E k \in Device : ConnectToClient(k)
         \/ \E b \in Backup : AddBackupServer(b) \/ SendClients(b) \/ SendEot(b)
         \/ \E b \in Backup : \/ Receives(b, "list", "node") /\ ReceiveNode(b)
                              \/ Receives(b, "list", "eot") /\ ReceiveEot(b)
                              \/ Receives(b, "list", "info") /\ ReceiveUnparsed(b)
                              \/ Receives(b, "list", "delete") /\ ReceiveNothing(b)
                              \/ Receives(b, "sync", "info") /\ SyncInfo(b)
                              \/ Receives(b, "sync", "delete") /\ SyncDelete(b)
         \/ \E b \in Backup : Evolve(b)
         \/ /\ UNCHANGED <<main, session, device, serves, joiner, feed, place, twins>>
            /\ UNCHANGED list \/ \E k \in Device : AddReconnected(k)
         \/ \E k \in Device : HostUnknown(k)
<1>1. ASSUME NEW b \in Backup, BackupThread(b)
      PROVE  \/ SendClients(b) \/ SendEot(b)
             \/ Receives(b, "list", "node") /\ ReceiveNode(b)
             \/ Receives(b, "list", "eot") /\ ReceiveEot(b)
             \/ Receives(b, "list", "info") /\ ReceiveUnparsed(b)
             \/ Receives(b, "list", "delete") /\ ReceiveNothing(b)
             \/ Receives(b, "sync", "info") /\ SyncInfo(b)
             \/ Receives(b, "sync", "delete") /\ SyncDelete(b)
  BY <1>1 DEF BackupThread, ReceiveNode, ReceiveEot, ReceiveUnparsed, ReceiveNothing,
              SyncInfo, SyncDelete
<1>2. \/ \E h \in Host : Start(h) \/ Exit(h) \/ Kill(h)
      \/ \E s \in Session : Works(s)
      \/ Die
      \/ \E k \in Device : ConnectToClient(k)
      \/ \E b \in Backup : AddBackupServer(b) \/ BackupThread(b) \/ Evolve(b)
      \/ /\ UNCHANGED <<main, session, device, serves, joiner, feed, place, twins>>
         /\ UNCHANGED list \/ \E k \in Device : AddReconnected(k)
      \/ \E k \in Device : HostUnknown(k)
  BY DEF Next, SessionThread, ReconnectThread, Works, vars, AddReconnected, LockHandCom, Rest
<1>. QED  BY <1>1, <1>2

KnowInv == QuietInv /\ ServesInv /\ JoinInv /\ DueInv /\ MainInv

\* A device comes or goes.
LEMMA ActSteps ==
  ASSUME TypeInv, AgentInv, NEW h \in Host
  PROVE  /\ Start(h) =>
              /\ UNCHANGED <<main, list, serves, joiner, feed, place, thread, twins>>
              /\ device[h].at = "off"
              /\ \E s \in Session :
                   /\ session[s].at = "none"
                   /\ session'[s].at = "hello" /\ session'[s].host = h
                   /\ \A t \in Session \ {s} : session'[t] = session[t]
                   /\ device'[h].at = "joining" /\ device'[h].session = s
              /\ \A g \in Host \ {h} : device'[g] = device[g]
         /\ Exit(h) =>
              /\ UNCHANGED <<main, list, serves, joiner, feed, place, thread, twins>>
              /\ device[h].at = "on" /\ device[h].session \in Session
              /\ session[device[h].session].at = "serving"
              /\ session[device[h].session].host = h
              /\ session'[device[h].session].at = "exit"
              /\ session'[device[h].session].host = h
              /\ \A t \in Session \ {device[h].session} : session'[t] = session[t]
              /\ device'[h].at = "off"
              /\ \A g \in Host \ {h} : device'[g] = device[g]
         /\ Kill(h) =>
              /\ UNCHANGED <<main, list, session, serves, joiner, feed, place, thread, twins>>
              /\ device'[h].at = "off"
              /\ \A g \in Host \ {h} : device'[g] = device[g]
<1>. USE DEF TypeInv
<1>1. ASSUME Start(h)
      PROVE  \E s \in Session :
               /\ session[s].at = "none"
               /\ session'[s].at = "hello" /\ session'[s].host = h
               /\ \A t \in Session \ {s} : session'[t] = session[t]
               /\ device'[h].at = "joining" /\ device'[h].session = s
               /\ \A g \in Host \ {h} : device'[g] = device[g]
  <2>1. PICK s \in Session :
          /\ session[s].at = "none"
          /\ session' = [session EXCEPT ![s] = [at |-> "hello", host |-> h]]
          /\ device' = [device EXCEPT ![h] = [at |-> "joining", session |-> s]]
    BY <1>1 DEF Start, New
  <2>2. /\ session'[s].at = "hello" /\ session'[s].host = h
        /\ \A t \in Session \ {s} : session'[t] = session[t]
    BY <2>1 DEF SessionType
  <2>3. /\ device'[h].at = "joining" /\ device'[h].session = s
        /\ \A g \in Host \ {h} : device'[g] = device[g]
    BY <2>1 DEF DeviceType
  <2>. QED  BY <2>1, <2>2, <2>3
<1>2. ASSUME Exit(h)
      PROVE  /\ device[h].session \in Session
             /\ session[device[h].session].at = "serving"
             /\ session[device[h].session].host = h
             /\ session'[device[h].session].at = "exit"
             /\ session'[device[h].session].host = h
             /\ \A t \in Session \ {device[h].session} : session'[t] = session[t]
  <2>1. /\ device[h].session \in Session
        /\ session[device[h].session].at = "serving"
        /\ session[device[h].session].host = h
    BY <1>2 DEF Exit, AgentInv
  <2>2. session' = [session EXCEPT ![device[h].session].at = "exit"]
    BY <1>2 DEF Exit, Goes
  <2>. QED  BY <2>1, <2>2 DEF SessionType
<1>3. ASSUME Exit(h) \/ Kill(h)
      PROVE  /\ device'[h].at = "off"
             /\ \A g \in Host \ {h} : device'[g] = device[g]
  BY <1>3 DEF Exit, Kill, DeviceType
<1>. QED  BY <1>1, <1>2, <1>3 DEF Start, Exit, Kill, Act

-----------------------------------------------------------------------------
(* One at a time.                                                          *)

\* What begins when all is settled ends before the next begins.
LEMMA QuietNext ==
  ASSUME ListedInv, KnowInv, [Next]_vars
  PROVE  QuietInv'
<1>. USE DEF ListedInv, TypeInv, KnowInv
<1>. SUFFICES ASSUME hasty' = 0 PROVE QuietInv'
  BY DEF QuietInv
<1>1. hasty = 0
  BY Calm
<1>2. ASSUME \A s \in Session : Idle(s)' PROVE QuietInv'
  BY <1>2 DEF QuietInv, Idle, Untold
<1>3. ASSUME NEW h \in Host, Start(h) PROVE QuietInv'
  <2>1. /\ UNCHANGED <<joiner, feed, place>> /\ \A t \in Session : Idle(t)
        /\ \A b \in Backup : feed[b] = <<>> /\ joiner[b] \in {"none", "done"} /\ place[b] # "list"
    BY <1>1, <1>3, Calm, SettledIs, ActSteps
  <2>2. PICK s \in Session :
          session'[s].at = "hello" /\ \A t \in Session \ {s} : session'[t] = session[t]
    BY <1>3, ActSteps
  <2>. QED  BY <2>1, <2>2 DEF QuietInv, Idle
<1>4. ASSUME NEW h \in Host, Exit(h) PROVE QuietInv'
  <2>1. /\ UNCHANGED <<joiner, feed, place>> /\ \A t \in Session : Idle(t)
        /\ \A b \in Backup : feed[b] = <<>> /\ joiner[b] \in {"none", "done"} /\ place[b] # "list"
    BY <1>1, <1>4, Calm, SettledIs, ActSteps
  <2>2. PICK s \in Session :
          /\ session'[s].at = "exit" /\ session'[s].host = h /\ device'[h].at = "off"
          /\ \A t \in Session \ {s} : session'[t] = session[t]
    BY <1>4, ActSteps
  <2>. QED  BY <2>1, <2>2 DEF QuietInv, Idle
<1>5. ASSUME NEW h \in Host, Kill(h) PROVE QuietInv'
  <2>1. \A t \in Session : Idle(t)
    BY <1>1, <1>5, Calm, SettledIs
  <2>. QED  BY <1>2, <1>5, <2>1 DEF Kill, Idle
<1>6. ASSUME NEW s \in Session, Works(s) PROVE QuietInv'
  <2>1. /\ UNCHANGED <<joiner, place>> /\ \A t \in Session \ {s} : Idle(t)
        /\ \A b \in Backup : joiner[b] \in {"none", "done"} /\ place[b] # "list"
    BY <1>1, <1>6, WorksIs DEF QuietInv
  <2>2. /\ session'[s].host = session[s].host
        /\ \A t \in Session \ {s} : session'[t] = session[t]
    BY <1>6, WorkSteps
  <2>3. session'[s].at \in Untold => \A b \in Backup : feed'[b] = <<>>
    BY <1>1, <1>6, WorkSteps DEF QuietInv, Untold, Works
  <2>4. session'[s].at \in {"exit", "removed"} =>
          device'[session'[s].host].at \notin {"on", "joining"}
    BY <1>1, <1>6, <2>2, WorkSteps DEF QuietInv, Works
  <2>5. \A t \in Session \ {s} : Idle(t)'
    BY <2>1, <2>2 DEF Idle
  <2>. QED  BY <2>1, <2>3, <2>4, <2>5 DEF QuietInv, Idle, Untold
<1>7. ASSUME Die PROVE QuietInv'
  <2>1. \A s \in Session : session'[s].at \in {"none", "closed"}
    BY <1>7 DEF Die, SessionType
  <2>. QED  BY <1>2, <2>1 DEF Idle
<1>8. ASSUME NEW k \in Device, ConnectToClient(k) PROVE QuietInv'
  <2>1. \A s \in Session : Idle(s)
    BY <1>1, <1>8 DEF ServedInv, ConnectToClient, Pending
  <2>2. \A s \in Session : session'[s] = session[s] \/ session'[s].at = "serving"
    BY <1>8, ConnectIs
  <2>. QED  BY <1>2, <2>1, <2>2 DEF Idle
<1>9. ASSUME NEW b \in Backup, AddBackupServer(b) \/ SendClients(b) \/ SendEot(b) PROVE QuietInv'
  <2>1. \A t \in Session : Idle(t)
    BY <1>1, <1>9, Calm, SettledIs DEF QuietInv, SendClients, SendEot
  <2>. QED  BY <1>2, <1>9, <2>1 DEF AddBackupServer, SendClients, SendEot, Idle
<1>10. ASSUME NEW b \in Backup, NEW at, NEW type, Receives(b, at, type),
              \A c \in Backup : place'[c] = "list" => place[c] = "list"
       PROVE  QuietInv'
  <2>1. \A s \in Session : session[s].at \notin Untold
    BY <1>1, <1>10 DEF QuietInv, Receives
  <2>2. UNCHANGED <<session, device, joiner>>
    BY <1>10 DEF Receives
  <2>. QED  BY <1>1, <1>10, <2>1, <2>2 DEF QuietInv, Idle, Untold
<1>11. ASSUME NEW b \in Backup, NEW p \in {"sync", "down"}, place' = [place EXCEPT ![b] = p]
       PROVE  \A c \in Backup : place'[c] = "list" => place[c] = "list"
  BY <1>11 DEF PlaceType
<1>12. ASSUME NEW b \in Backup, Evolve(b) PROVE QuietInv'
  <2>1. /\ UNCHANGED <<session, device, joiner, feed>>
        /\ \A c \in Backup : place'[c] = "list" => place[c] = "list"
    BY <1>12 DEF Evolve, PlaceType
  <2>. QED  BY <1>1, <2>1 DEF QuietInv, Idle
<1>13. CASE UNCHANGED <<session, device, serves, joiner, feed, place>>
  BY <1>1, <1>13 DEF QuietInv, Idle
<1>14. ASSUME NEW k \in Device, HostUnknown(k) PROVE QuietInv'
  BY <1>1, <1>14 DEF HostUnknown, QuietInv, Idle
<1>15. ASSUME NEW b \in Backup,
              \/ Receives(b, "list", "node") /\ ReceiveNode(b)
              \/ Receives(b, "list", "eot") /\ ReceiveEot(b)
              \/ Receives(b, "list", "info") /\ ReceiveUnparsed(b)
              \/ Receives(b, "list", "delete") /\ ReceiveNothing(b)
              \/ Receives(b, "sync", "info") /\ SyncInfo(b)
              \/ Receives(b, "sync", "delete") /\ SyncDelete(b)
       PROVE  QuietInv'
  <2>1. \/ UNCHANGED place
        \/ \E p \in {"sync", "down"} : place' = [place EXCEPT ![b] = p]
    BY <1>15 DEF ReceiveNode, ReceiveEot, ReceiveUnparsed, ReceiveNothing, SyncInfo, SyncDelete
  <2>. QED  BY <1>10, <1>11, <1>15, <2>1
<1>. QED
  BY <1>3, <1>4, <1>5, <1>6, <1>7, <1>8, <1>9, <1>12, <1>13, <1>14, <1>15, OtherSteps

-----------------------------------------------------------------------------
(* Which backups are told.                                                 *)

\* A backup's list changes by what it reads, until it is main.
LEMMA KeptList ==
  ASSUME TypeInv, RoleInv, [Next]_vars, NEW b \in Backup, place[b] # "main"
  PROVE  list'[b] = list[b] \/ ReceiveNode(b) \/ SyncInfo(b) \/ SyncDelete(b)
<1>1. main # b /\ b \in Server
  BY DEF RoleInv, Server
<1>2. \A n \in Server \ {b} : \A l : list' = [list EXCEPT ![n] = l] => list'[b] = list[b]
  BY <1>1 DEF TypeInv, ListType
<1>3. \A c \in Backup : c \in Server
  BY DEF Server
<1>. QED  BY <1>1, <1>2, <1>3, ListSteps

\* What a sequence contains after Append, that Tail shortens one, and pairs.
LEMMA Appended ==
  ASSUME NEW S, NEW seq \in Seq(S), NEW x \in S
  PROVE  \A y : Contains(Append(seq, x), y) <=> y = x \/ Contains(seq, y)
<1>1. /\ Len(seq) \in Nat /\ Len(Append(seq, x)) = Len(seq) + 1
      /\ Append(seq, x)[Len(seq) + 1] = x
      /\ \A i \in 1 .. Len(seq) : Append(seq, x)[i] = seq[i]
  BY AppendProperties, LenProperties
<1>2. \A i \in 1 .. Len(seq) + 1 : i \in 1 .. Len(seq) \/ i = Len(seq) + 1
  BY <1>1
<1>3. \A i \in 1 .. Len(seq) : i \in 1 .. Len(seq) + 1
  BY <1>1
<1>4. Len(seq) + 1 \in 1 .. Len(seq) + 1
  BY <1>1
<1>. QED  BY <1>1, <1>2, <1>3, <1>4, Zenon DEF Contains

\* Reading makes a queue shorter.
LEMMA Shorter ==
  ASSUME NEW S, NEW seq \in Seq(S), seq # <<>>
  PROVE  Tail(seq) # seq
<1>1. \A n \in Nat : n # n - 1
  OBVIOUS
<1>2. Len(Tail(seq)) = Len(seq) - 1 /\ Len(seq) \in Nat
  BY HeadTailProperties, LenProperties
<1>. QED  BY <1>1, <1>2, Zenon

\* A queue of one and one more.
LEMMA TwoOf ==
  ASSUME NEW p, NEW q
  PROVE  Append(<<p>>, q) = <<p, q>>
<1>1. <<p>> \in Seq({p, q}) /\ <<p, q>> \in Seq({p, q}) /\ Len(<<p>>) = 1
  OBVIOUS
<1>2. /\ Append(<<p>>, q) \in Seq({p, q}) /\ Len(Append(<<p>>, q)) = 2
      /\ Append(<<p>>, q)[1] = p /\ Append(<<p>>, q)[2] = q
  BY <1>1, AppendProperties
<1>3. Len(<<p, q>>) = 2 /\ <<p, q>>[1] = p /\ <<p, q>>[2] = q
  OBVIOUS
<1>4. \A i \in 1 .. 2 : i = 1 \/ i = 2
  OBVIOUS
<1>. QED  BY <1>1, <1>2, <1>3, <1>4, SeqEqual

\* A backup that joins reads the list and its end.
LEMMA JoinReads ==
  ASSUME NEW b \in Backup, Joining(b), NEW type, Receives(b, "list", type)
  PROVE  \/ /\ type = "node" /\ Head(feed[b]) = Node(list[Primary]) /\ list[b] = Empty
            /\ \/ joiner[b] = "eot" /\ Tail(feed[b]) = <<>>
               \/ joiner[b] = "done" /\ Tail(feed[b]) = <<Eot>>
         \/ type = "eot" /\ Tail(feed[b]) = <<>> /\ joiner[b] = "done" /\ Good(list[b])
<1>1. feed[b] # <<>> /\ Head(feed[b]).type = type
  BY DEF Receives
<1>2. Node(list[Primary]).type = "node" /\ Eot.type = "eot"
  BY DEF Node, Eot
<1>3. \A p : Head(<<p>>) = p /\ Tail(<<p>>) = <<>>
  OBVIOUS
<1>4. \A p, q : Head(<<p, q>>) = p /\ Tail(<<p, q>>) = <<q>>
  OBVIOUS
<1>5. CASE joiner[b] = "clients" \/ feed[b] = <<>>
  BY <1>1, <1>5 DEF Joining
<1>6. CASE joiner[b] = "eot" /\ feed[b] = <<Node(list[Primary])>> /\ list[b] = Empty
  BY <1>1, <1>2, <1>3, <1>6
<1>7. CASE joiner[b] = "done" /\ feed[b] = <<Node(list[Primary]), Eot>> /\ list[b] = Empty
  BY <1>1, <1>2, <1>4, <1>7
<1>8. CASE joiner[b] = "done" /\ feed[b] = <<Eot>> /\ Good(list[b])
  BY <1>1, <1>2, <1>3, <1>8
<1>. QED  BY <1>5, <1>6, <1>7, <1>8 DEF Joining

\* Where a backup stands changes when it is attached, reads or takes over.
LEMMA PlaceSteps ==
  ASSUME [Next]_vars
  PROVE  \/ UNCHANGED place
         \/ \E b \in Backup : AddBackupServer(b) \/ ReceiveEot(b) \/ ReceiveUnparsed(b) \/ Evolve(b)
<1>1. ASSUME NEW b \in Backup, BackupThread(b)
      PROVE  UNCHANGED place \/ ReceiveEot(b) \/ ReceiveUnparsed(b)
  BY <1>1 DEF BackupThread, SendClients, SendEot, ReceiveNode, ReceiveNothing, SyncInfo,
              SyncDelete
<1>2. \/ UNCHANGED place
      \/ \E b \in Backup : AddBackupServer(b) \/ BackupThread(b) \/ Evolve(b)
  BY DEF Next, SessionThread, ReconnectThread, vars, Die, Start, Exit, Kill, AddDevice, PropagateDevice,
         GetSyncDir, Reject, EndCommunications, PropagateRemoval, LockHandCom, HostUnknown, ConnectToClient,
         AddReconnected
<1>. QED  BY <1>1, <1>2

\* The handlers of backups' connections, and who is told what.
LEMMA JoinerSteps ==
  ASSUME [Next]_vars
  PROVE  \/ UNCHANGED joiner
         \/ \E b \in Backup : AddBackupServer(b) \/ SendClients(b) \/ SendEot(b)
         \/ Die
<1>1. ASSUME NEW b \in Backup, BackupThread(b)
      PROVE  UNCHANGED joiner \/ SendClients(b) \/ SendEot(b)
  BY <1>1 DEF BackupThread, ReceiveNode, ReceiveEot, ReceiveUnparsed, ReceiveNothing, SyncInfo,
              SyncDelete, Receives
<1>2. \/ UNCHANGED joiner
      \/ \E b \in Backup : AddBackupServer(b) \/ BackupThread(b)
      \/ Die
  BY DEF Next, SessionThread, ReconnectThread, vars, Evolve, Start, Exit, Kill, AddDevice, PropagateDevice,
         GetSyncDir, Reject, EndCommunications, PropagateRemoval, LockHandCom, HostUnknown, ConnectToClient,
         AddReconnected
<1>. QED  BY <1>1, <1>2

\* The steps that change who is served.
LEMMA ServesSteps ==
  ASSUME [Next]_vars
  PROVE  \/ UNCHANGED serves
         \/ \E b \in Backup : AddBackupServer(b) \/ Evolve(b)
         \/ Die
         \/ \E k \in Device : HostUnknown(k)
<1>1. ASSUME NEW b \in Backup, BackupThread(b)
      PROVE  UNCHANGED serves
  BY <1>1 DEF BackupThread, SendClients, SendEot, ReceiveNode, ReceiveEot, ReceiveUnparsed,
              ReceiveNothing, SyncInfo, SyncDelete, Receives
<1>2. \/ UNCHANGED serves
      \/ \E b \in Backup : AddBackupServer(b) \/ BackupThread(b) \/ Evolve(b)
      \/ Die
      \/ \E k \in Device : HostUnknown(k)
  BY DEF Next, SessionThread, ReconnectThread, vars, Start, Exit, Kill, AddDevice, PropagateDevice,
         GetSyncDir, Reject, EndCommunications, PropagateRemoval, LockHandCom, ConnectToClient,
         AddReconnected
<1>. QED  BY <1>1, <1>2

\* The main server tells the backups, a joining one its list, and each reads.
LEMMA FeedSteps ==
  ASSUME [Next]_vars
  PROVE  \/ UNCHANGED feed
         \/ \E s \in Session : PropagateDevice(s) \/ PropagateRemoval(s)
         \/ \E b \in Backup : SendClients(b) \/ SendEot(b)
         \/ \E b \in Backup, at \in {"list", "sync"} : \E type : Receives(b, at, type)
<1>1. ASSUME NEW b \in Backup, BackupThread(b)
      PROVE  \/ SendClients(b) \/ SendEot(b)
             \/ \E at \in {"list", "sync"} : \E type : Receives(b, at, type)
  BY <1>1 DEF BackupThread, ReceiveNode, ReceiveEot, ReceiveUnparsed, ReceiveNothing,
              SyncInfo, SyncDelete
<1>2. \/ UNCHANGED feed
      \/ \E s \in Session : PropagateDevice(s) \/ PropagateRemoval(s)
      \/ \E b \in Backup : BackupThread(b)
  BY DEF Next, SessionThread, ReconnectThread, vars, ConnectToClient, Kill, AddBackupServer,
       AddDevice, EndCommunications, AddReconnected, LockHandCom, HostUnknown, Evolve,
       Start, Exit, GetSyncDir, Reject, Die
<1>. QED  BY <1>1, <1>2

\* A backup is on server_list from its first packet until it takes over.
LEMMA ServesNext ==
  ASSUME ListedInv, KnowInv, [Next]_vars
  PROVE  ServesInv'
<1>. USE DEF ListedInv, TypeInv, KnowInv
<1>. SUFFICES ASSUME hasty' = 0 PROVE ServesInv'
  BY DEF ServesInv
<1>1. hasty = 0
  BY Calm
\* One that has not joined does nothing and hears nothing.
<1>2. ASSUME NEW b \in Backup, place'[b] = "out"
      PROVE  feed'[b] = <<>> /\ list'[b] = Empty /\ ~Contains(serves', b)
  <2>1. place[b] = "out" /\ ~AddBackupServer(b)
    <3>1. CASE \E c \in Backup : AddBackupServer(c) /\ place'[b] = "out"
      BY <1>2, <3>1 DEF AddBackupServer, PlaceType
    <3>2. CASE \E c \in Backup : ReceiveEot(c) \/ ReceiveUnparsed(c) \/ Evolve(c)
      <4>1. PICK c \in Backup : \/ place' = [place EXCEPT ![c] = "sync"]
                               \/ place' = [place EXCEPT ![c] = "down"]
                               \/ place' = [place EXCEPT ![c] = "main"]
        BY <3>2 DEF ReceiveEot, ReceiveUnparsed, Evolve
      <4>2. ~AddBackupServer(b)
        BY <1>2 DEF AddBackupServer, PlaceType
      <4>. QED  BY <1>2, <4>1, <4>2 DEF PlaceType
    <3>3. CASE UNCHANGED place
      BY <1>2, <3>3 DEF AddBackupServer, PlaceType
    <3>. QED  BY <1>2, <3>1, <3>2, <3>3, PlaceSteps
  <2>2. /\ feed[b] = <<>> /\ list[b] = Empty /\ ~Contains(serves, b)
        /\ joiner[b] \notin {"clients", "eot"}
    BY <1>1, <2>1 DEF ServesInv
  <2>3. list'[b] = Empty
    BY <2>1, <2>2, KeptList DEF ReceiveNode, SyncInfo, SyncDelete, Receives
  <2>4. feed'[b] = <<>>
    <3>1. ASSUME NEW p, Tell(p) PROVE feed'[b] = feed[b]
      BY <2>2, <3>1 DEF Tell
    <3>2. ASSUME NEW c \in Backup, SendClients(c) \/ SendEot(c) PROVE feed'[b] = feed[b]
      <4>1. c # b
        BY <2>2, <3>2 DEF SendClients, SendEot
      <4>. QED  BY <3>2, <4>1 DEF SendClients, SendEot, FeedType
    <3>3. ASSUME NEW c \in Backup, NEW at \in {"list", "sync"}, NEW type, Receives(c, at, type)
          PROVE  feed'[b] = feed[b]
      <4>1. c # b
        BY <2>1, <3>3 DEF Receives
      <4>. QED  BY <3>3, <4>1 DEF Receives, FeedType
    <3>. QED
      BY <2>2, <3>1, <3>2, <3>3, FeedSteps DEF PropagateDevice, PropagateRemoval
  <2>5. ~Contains(serves', b)
    <3>1. ASSUME NEW c \in Backup, AddBackupServer(c) PROVE ~Contains(serves', b)
      <4>1. c # b /\ serves' = Append(serves, c)
        BY <2>1, <3>1 DEF AddBackupServer
      <4>. QED  BY <2>2, <4>1, Appended DEF ServesType
    <3>2. ASSUME NEW c \in Backup, Evolve(c) PROVE ~Contains(serves', b)
      <4>. DEFINE S == {d \in Backup \ {c} : place[d] = "sync"}
      <4>1. PICK others \in SetToSeqs(S) : serves' = others
        BY <3>2 DEF Evolve
      <4>2. b \notin S /\ S \in SUBSET Backup
        BY <2>1
      <4>. QED  BY <4>1, <4>2, Others
    <3>3. ~Contains(<<>>, b)
      BY DEF Contains
    <3>. QED  BY <2>2, <3>1, <3>2, <3>3, ServesSteps DEF Die, HostUnknown
  <2>. QED  BY <2>3, <2>4, <2>5
<1>3. ASSUME NEW b \in Backup, joiner'[b] \in {"clients", "eot"}
      PROVE  place'[b] = "list"
  <2>1. AddBackupServer(b) \/ joiner[b] \in {"clients", "eot"}
    <3>1. ~Die
      BY <1>3 DEF Die
    <3>2. ASSUME NEW c \in Backup, AddBackupServer(c) \/ SendClients(c) \/ SendEot(c)
          PROVE  c = b \/ joiner'[b] = joiner[b]
      BY <3>2 DEF AddBackupServer, SendClients, SendEot, JoinerType
    <3>3. SendClients(b) \/ SendEot(b) => joiner[b] \in {"clients", "eot"}
      BY DEF SendClients, SendEot
    <3>. QED  BY <1>3, <3>1, <3>2, <3>3, JoinerSteps
  <2>2. CASE AddBackupServer(b)
    BY <2>2 DEF AddBackupServer, PlaceType
  <2>3. ASSUME joiner[b] \in {"clients", "eot"}, ~AddBackupServer(b) PROVE place'[b] = "list"
    <3>1. place[b] = "list" /\ Joining(b)
      BY <1>1, <2>3 DEF ServesInv, JoinInv
    <3>2. ASSUME NEW c \in Backup, AddBackupServer(c) \/ Evolve(c) PROVE place'[b] = "list"
      <4>1. c # b
        BY <2>3, <3>1, <3>2 DEF Evolve
      <4>. QED  BY <3>1, <3>2, <4>1 DEF AddBackupServer, Evolve, PlaceType
    <3>3. ASSUME NEW c \in Backup, ReceiveEot(c) \/ ReceiveUnparsed(c) PROVE place'[b] = "list"
      <4>1. c # b
        <5>1. ~ReceiveEot(b)
          BY <2>3, <3>1, JoinReads DEF ReceiveEot
        <5>2. ~ReceiveUnparsed(b)
          BY <3>1, JoinReads DEF ReceiveUnparsed
        <5>. QED  BY <3>3, <5>1, <5>2
      <4>. QED  BY <3>1, <3>3, <4>1 DEF ReceiveEot, ReceiveUnparsed, PlaceType
    <3>. QED  BY <3>1, <3>2, <3>3, PlaceSteps
  <2>. QED  BY <2>1, <2>2, <2>3
<1>4. ASSUME main' # Nobody, NEW b \in Backup, place'[b] \in {"list", "sync"}
      PROVE  Contains(serves', b)
  <2>1. ASSUME NEW c \in Backup, Evolve(c) PROVE Contains(serves', b)
    <3>. DEFINE S == {d \in Backup \ {c} : place[d] = "sync"}
    <3>1. PICK others \in SetToSeqs(S) : serves' = others
      BY <2>1 DEF Evolve
    <3>2. main = Nobody /\ place' = [place EXCEPT ![c] = "main"]
      BY <2>1 DEF Evolve
    <3>3. b # c /\ place[b] \in {"list", "sync"}
      BY <1>4, <3>2 DEF PlaceType
    <3>4. place[b] # "list"
      BY <1>1, <3>2, DevicesAssumption DEF JoinInv
    <3>5. b \in S /\ S \in SUBSET Backup
      BY <3>3, <3>4
    <3>. QED  BY <3>1, <3>5, Others
  <2>2. ASSUME ~\E c \in Backup : Evolve(c) PROVE Contains(serves', b)
    <3>1. main' = main /\ ~Die /\ ~\E k \in Device : HostUnknown(k)
      BY <1>4, <2>2, MainSteps DEF Die, HostUnknown
    <3>2. ASSUME NEW c \in Backup, AddBackupServer(c) PROVE Contains(serves', b)
      <4>1. /\ place' = [place EXCEPT ![c] = "list"] /\ serves' = Append(serves, c)
            /\ main # Nobody
        BY <3>2, DevicesAssumption DEF AddBackupServer
      <4>2. c = b \/ place[b] \in {"list", "sync"}
        BY <1>4, <4>1 DEF PlaceType
      <4>3. c = b \/ Contains(serves, b)
        BY <1>1, <4>1, <4>2 DEF ServesInv
      <4>. QED  BY <4>1, <4>3, Appended DEF ServesType
    <3>3. ASSUME ~\E c \in Backup : AddBackupServer(c) PROVE Contains(serves', b)
      <4>1. serves' = serves
        BY <2>2, <3>1, <3>3, ServesSteps
      <4>2. place[b] \in {"list", "sync"}
        <5>1. ASSUME NEW c \in Backup, ReceiveEot(c) \/ ReceiveUnparsed(c)
              PROVE  place[b] \in {"list", "sync"}
          <6>1. place[c] = "list" /\ \A d \in Backup \ {c} : place'[d] = place[d]
            BY <5>1 DEF ReceiveEot, ReceiveUnparsed, Receives, PlaceType
          <6>. QED  BY <1>4, <6>1
        <5>. QED  BY <1>4, <2>2, <3>3, <5>1, PlaceSteps
      <4>. QED  BY <1>1, <1>4, <3>1, <4>1, <4>2 DEF ServesInv
    <3>. QED  BY <3>2, <3>3
  <2>. QED  BY <2>1, <2>2
<1>. QED  BY <1>2, <1>3, <1>4 DEF ServesInv

-----------------------------------------------------------------------------
(* Backups that join.                                                      *)

\* No device is served or admitted that the main server does not list.
LEMMA CountedListed ==
  ASSUME ListedInv, hasty = 0, main = Primary, NEW h \in Host, Counted(h)
  PROVE  h \in Hosts(list[Primary])
<1>. USE DEF ListedInv, TypeInv
<1>1. main # Nobody /\ main \in Server /\ list[main] \in Slots
  BY DevicesAssumption DEF Server, ListType
<1>2. \A k \in Device : thread[k].at # "add"
  BY DevicesAssumption DEF RoleInv
<1>3. /\ device[h].session \in Session /\ device[h].session # 0
      /\ session[device[h].session].host = h
  BY DevicesAssumption DEF Counted, AgentInv, Session
<1>4. PICK k \in Device : list[main][k].session = device[h].session
  <2>1. CASE device[h].at = "on"
    BY <1>1, <1>2, <2>1 DEF ServedInv
  <2>2. CASE session[device[h].session].at \in {"listed", "reply"}
    BY <1>1, <1>3, <2>2 DEF SlotInv, OwnerInv
  <2>. QED  BY <2>1, <2>2 DEF Counted
<1>5. list[main][k].host = h
  BY <1>1, <1>3, <1>4 DEF SlotInv, OwnerInv
<1>. QED  BY <1>5, DevicesAssumption DEF Hosts

\* While a backup joins nothing else moves but the handlers' packets.
LEMMA JoinSteps ==
  ASSUME ListedInv, KnowInv, [Next]_vars, hasty' = 0, NEW b \in Backup, place[b] = "list"
  PROVE  /\ main = Primary /\ Joining(b)
         /\ UNCHANGED <<main, session, device, twins>> /\ list'[Primary] = list[Primary]
         /\ \/ UNCHANGED <<joiner, feed, place>>
            \/ \E c \in Backup : SendClients(c) \/ SendEot(c)
            \/ \E c \in Backup : \/ Receives(c, "list", "node") /\ ReceiveNode(c)
                                 \/ Receives(c, "list", "eot") /\ ReceiveEot(c)
                                 \/ Receives(c, "list", "info") /\ ReceiveUnparsed(c)
                                 \/ Receives(c, "list", "delete") /\ ReceiveNothing(c)
                                 \/ Receives(c, "sync", "info") /\ SyncInfo(c)
                                 \/ Receives(c, "sync", "delete") /\ SyncDelete(c)
<1>. USE DEF ListedInv, TypeInv, KnowInv
<1>1. hasty = 0 /\ main = Primary /\ main # Nobody /\ Joining(b) /\ Primary \in Server
  BY Calm, DevicesAssumption DEF JoinInv, Server
<1>2. ~Settled
  BY <1>1, SettledIs
<1>3. \A s \in Session : ~Works(s)
  BY <1>1, WorksIs DEF QuietInv
<1>4. \A k \in Device : thread[k].at = "none"
  BY <1>1, DevicesAssumption DEF RoleInv
<1>5. \A k \in Device :
        ~ConnectToClient(k) /\ ~AddReconnected(k) /\ ~LockHandCom(k) /\ ~HostUnknown(k)
  BY <1>4 DEF ConnectToClient, AddReconnected, LockHandCom, HostUnknown
<1>6. \A c \in Backup : ~Evolve(c) /\ ~AddBackupServer(c)
  BY <1>1, <1>2, Calm DEF Evolve
<1>7. /\ \A h \in Host : ~Start(h) /\ ~Exit(h) /\ ~Kill(h)
      /\ ~Die
  BY <1>2, Calm
<1>8. UNCHANGED <<session, device>>
  BY <1>3, <1>5, <1>7, SessionSteps, DeviceSteps, SMTT(60) DEF Works
<1>9. UNCHANGED main
  BY <1>5, <1>6, <1>7
  DEF Next, SessionThread, BackupThread, ReconnectThread, vars, SendClients,
      SendEot, Receives, ReceiveNode, ReceiveEot, ReceiveUnparsed, ReceiveNothing, SyncInfo,
      SyncDelete, AddDevice, EndCommunications, PropagateDevice, GetSyncDir, Reject,
      PropagateRemoval
<1>10. UNCHANGED twins
  BY <1>3, <1>5, <1>6, <1>7
  DEF Next, SessionThread, BackupThread, ReconnectThread, vars, SendClients,
      SendEot, Receives, ReceiveNode, ReceiveEot, ReceiveUnparsed, ReceiveNothing, SyncInfo,
      SyncDelete, Works, Rest
<1>11. list'[Primary] = list[Primary]
  <2>1. ASSUME NEW c \in Backup, list' = [list EXCEPT ![c] = list'[c]]
        PROVE  list'[Primary] = list[Primary]
    <3>1. c # Primary
      BY DevicesAssumption
    <3>. QED  BY <1>1, <2>1, <3>1 DEF ListType
  <2>. QED  BY <1>3, <1>5, <2>1, ListSteps DEF Works
<1>. QED  BY <1>1, <1>3, <1>5, <1>6, <1>7, <1>8, <1>9, <1>10, <1>11, OtherSteps

\* A joining backup's packets and list go on in step with its handler.
LEMMA JoinNext ==
  ASSUME ListedInv, KnowInv, [Next]_vars
  PROVE  JoinInv'
<1>. USE DEF ListedInv, TypeInv, KnowInv
<1>. SUFFICES ASSUME hasty' = 0, NEW b \in Backup, place'[b] = "list"
              PROVE  main' = Primary /\ Joining(b)'
  BY DEF JoinInv
<1>1. hasty = 0
  BY Calm
<1>2. CASE place[b] # "list"
  <2>1. AddBackupServer(b)
    <3>1. ASSUME NEW c \in Backup, AddBackupServer(c) PROVE c = b
      BY <1>2, <3>1 DEF AddBackupServer, PlaceType
    <3>2. ASSUME NEW c \in Backup, ReceiveEot(c) \/ ReceiveUnparsed(c) \/ Evolve(c) PROVE FALSE
      BY <1>2, <3>2 DEF ReceiveEot, ReceiveUnparsed, Evolve, PlaceType
    <3>. QED  BY <1>2, <3>1, <3>2, PlaceSteps
  <2>2. feed[b] = <<>> /\ list[b] = Empty
    BY <1>1, <2>1 DEF ServesInv, AddBackupServer
  <2>3. joiner'[b] = "clients"
    BY <2>1 DEF AddBackupServer, JoinerType
  <2>. QED  BY <2>1, <2>2, <2>3 DEF AddBackupServer, Joining
<1>3. CASE place[b] = "list"
  <2>. DEFINE m == list[Primary]
  <2>1. /\ main = Primary /\ main' = Primary /\ Joining(b) /\ m \in Slots
        /\ UNCHANGED <<main, session, device, twins>> /\ list'[Primary] = m
        /\ b \in Server /\ b # Primary /\ main # Nobody
    BY <1>3, JoinSteps, DevicesAssumption DEF ListType, Server
  <2>2. \A h \in Host : Counted(h)' <=> Counted(h)
    BY <2>1 DEF Counted
  <2>3. ASSUME list'[b] = list[b], Good(list[b]) PROVE Good(list[b])'
    BY <2>1, <2>2, <2>3 DEF Good, Reference
  <2>4. ASSUME list'[b] = list[b], joiner'[b] = joiner[b], feed'[b] = feed[b] PROVE Joining(b)'
    BY <2>1, <2>3, <2>4 DEF Joining
  <2>5. ASSUME NEW c \in Backup, c # b, SendClients(c) \/ SendEot(c) PROVE Joining(b)'
    <3>1. list' = list /\ joiner'[b] = joiner[b] /\ feed'[b] = feed[b]
      BY <2>5 DEF SendClients, SendEot, JoinerType, FeedType
    <3>. QED  BY <2>4, <3>1
  <2>6. ASSUME NEW c \in Backup, c # b, NEW at, NEW type, Receives(c, at, type) PROVE Joining(b)'
    <3>1. joiner'[b] = joiner[b] /\ feed'[b] = feed[b]
      BY <2>6 DEF Receives, FeedType
    <3>2. ~ReceiveNode(b) /\ ~SyncInfo(b) /\ ~SyncDelete(b)
      <4>1. feed'[c] = Tail(feed[c]) /\ feed[c] # <<>> /\ feed[c] \in Seq(Packet)
        BY <2>6 DEF Receives, FeedType
      <4>2. feed'[c] # feed[c]
        BY <4>1, Shorter
      <4>3. ASSUME NEW at2, NEW type2, Receives(b, at2, type2) PROVE FALSE
        <5>1. feed'[c] = feed[c]
          BY <2>6, <4>3 DEF Receives, FeedType
        <5>. QED  BY <4>2, <5>1
      <4>. QED  BY <4>3 DEF ReceiveNode, SyncInfo, SyncDelete
    <3>3. list'[b] = list[b]
      BY <1>3, <3>2, KeptList
    <3>. QED  BY <2>4, <3>1, <3>3
  <2>7. ASSUME SendClients(b) PROVE Joining(b)'
    <3>1. joiner[b] = "clients" /\ feed[b] = <<>> /\ list[b] = Empty /\ list'[b] = Empty
      BY <2>1, <2>7 DEF SendClients, Joining
    <3>2. joiner'[b] = "eot"
      BY <2>7 DEF SendClients, JoinerType
    <3>3. CASE m = Empty
      <4>1. feed'[b] = <<>>
        BY <2>1, <2>7, <3>1, <3>3 DEF SendClients
      <4>2. \A h \in Host : ~Counted(h)
        <5>1. Hosts(Empty) = {}
          BY DEF Hosts, Empty, NoSlot
        <5>. QED  BY <1>1, <2>1, <3>3, <5>1, CountedListed
      <4>3. Same(Empty, Empty) /\ Within(Empty, Empty)
        BY DEF Same, Within, Empty, NoSlot, Device
      <4>4. Good(list[b])
        BY <2>1, <3>1, <3>3, <4>2, <4>3 DEF Good, Reference
      <4>5. Good(list[b])'
        BY <2>3, <3>1, <4>4
      <4>. QED  BY <3>2, <4>1, <4>5 DEF Joining
    <3>4. CASE m # Empty
      <4>1. feed'[b] = <<Node(m)>>
        BY <2>1, <2>7, <3>1, <3>4 DEF SendClients, FeedType
      <4>2. Node(m)' = Node(m)
        BY <2>1 DEF Node
      <4>. QED  BY <2>1, <3>1, <3>2, <4>1, <4>2 DEF Joining
    <3>. QED  BY <3>3, <3>4
  <2>8. ASSUME SendEot(b) PROVE Joining(b)'
    <3>1. /\ joiner[b] = "eot" /\ joiner'[b] = "done" /\ list'[b] = list[b]
          /\ feed'[b] = Append(feed[b], Eot)
      BY <2>8 DEF SendEot, JoinerType, FeedType
    <3>2. CASE feed[b] = <<Node(m)>> /\ list[b] = Empty
      <4>1. feed'[b] = <<Node(m), Eot>>
        BY <3>1, <3>2, TwoOf
      <4>2. Node(m)' = Node(m)
        BY <2>1 DEF Node
      <4>. QED  BY <2>1, <3>1, <3>2, <4>1, <4>2 DEF Joining, Eot
    <3>3. CASE feed[b] = <<>> /\ Good(list[b])
      <4>1. feed'[b] = <<Eot>>
        BY <3>1, <3>3
      <4>. QED  BY <2>3, <3>1, <3>3, <4>1 DEF Joining, Eot
    <3>. QED  BY <2>1, <3>1, <3>2, <3>3 DEF Joining
  <2>9. ASSUME Receives(b, "list", "node"), ReceiveNode(b) PROVE Joining(b)'
    <3>. DEFINE l == Received(Empty, Node(m).hosts)
    <3>1. /\ Head(feed[b]) = Node(m) /\ list[b] = Empty
          /\ \/ joiner[b] = "eot" /\ Tail(feed[b]) = <<>>
             \/ joiner[b] = "done" /\ Tail(feed[b]) = <<Eot>>
      BY <2>1, <2>9, JoinReads
    <3>2. feed'[b] = Tail(feed[b]) /\ joiner'[b] = joiner[b]
      BY <2>9 DEF Receives, FeedType
    <3>3. list'[b] = l
      BY <2>1, <2>9, <3>1 DEF ReceiveNode, Received, ListType
    <3>4. l \in Slots /\ Same(l, m) /\ Within(l, m)
      <4>. HIDE DEF m
      <4>. QED  BY <2>1, ReceivedSame
    <3>5. \A h \in Host : Counted(h) => h \in Hosts(l)
      <4>1. Hosts(l) = Hosts(m)
        BY <3>4 DEF Same
      <4>. QED  BY <1>1, <2>1, <4>1, CountedListed
    <3>6. Good(list[b])'
      <4>. HIDE DEF l
      <4>. QED  BY <2>1, <2>2, <3>3, <3>4, <3>5 DEF Good, Reference
    <3>. QED  BY <3>1, <3>2, <3>6 DEF Joining, Eot
  <2>10. ASSUME NEW c \in Backup,
                \/ Receives(c, "list", "node") /\ ReceiveNode(c)
                \/ Receives(c, "list", "eot") /\ ReceiveEot(c)
                \/ Receives(c, "list", "info") /\ ReceiveUnparsed(c)
                \/ Receives(c, "list", "delete") /\ ReceiveNothing(c)
                \/ Receives(c, "sync", "info") /\ SyncInfo(c)
                \/ Receives(c, "sync", "delete") /\ SyncDelete(c)
         PROVE  Joining(b)'
    <3>1. CASE c # b
      BY <2>6, <2>10, <3>1
    <3>2. CASE c = b
      <4>1. ~Receives(b, "list", "info") /\ ~Receives(b, "list", "delete")
        BY <2>1, JoinReads
      <4>2. ~Receives(b, "sync", "info") /\ ~Receives(b, "sync", "delete")
        BY <1>3 DEF Receives
      <4>3. ~ReceiveEot(b)
        BY DEF ReceiveEot, PlaceType
      <4>. QED  BY <2>9, <2>10, <3>2, <4>1, <4>2, <4>3
    <3>. QED  BY <3>1, <3>2
  <2>11. CASE UNCHANGED <<joiner, feed, place>>
    <3>1. ~ReceiveNode(b) /\ ~SyncInfo(b) /\ ~SyncDelete(b)
      <4>1. feed[b] \in Seq(Packet) /\ (feed[b] # <<>> => Tail(feed[b]) # feed[b])
        BY Shorter DEF FeedType
      <4>. QED  BY <2>11, <4>1 DEF ReceiveNode, SyncInfo, SyncDelete, Receives, FeedType
    <3>. QED  BY <1>3, <2>1, <2>4, <2>11, <3>1, KeptList
  <2>. QED  BY <1>3, <2>1, <2>5, <2>6, <2>7, <2>8, <2>10, <2>11, JoinSteps
<1>. QED  BY <1>2, <1>3

-----------------------------------------------------------------------------
(* What is due to the backups.                                             *)

\* What Good says of a list after a step, and Due of a backup.
GoodThen(l) ==
  /\ ~twins' => Same(l, list'[Reference'])
  /\ main' = Primary =>
       /\ Within(l, list'[Primary])
       /\ \A h \in Host : Counted(h)' => h \in Hosts(l)

\* Due in the next state, by what the next lists and feeds are.
LEMMA DueIs ==
  ASSUME NEW b \in Backup,
         \A s \in Session : session'[s].at = "listed" =>
           GoodThen(Add(list'[b], session'[s].host, 0)),
         \A s \in Session : session'[s].at = "removed" =>
           GoodThen(RemoveHost(list'[b], session'[s].host)),
         (\A s \in Session : session'[s].at \notin {"listed", "removed"}) =>
           \/ feed'[b] = <<>> /\ GoodThen(list'[b])
           \/ \E h \in Host : feed'[b] = <<Info(h)>> /\ GoodThen(Add(list'[b], h, 0))
           \/ \E h \in Host : feed'[b] = <<Deleted(h)>> /\ GoodThen(RemoveHost(list'[b], h))
  PROVE  Due(b)'
<1>1. GoodThen(list'[b]) => Good(list[b])'
  BY DEF Good, GoodThen
<1>2. \A h : GoodThen(Add(list'[b], h, 0)) => Good(Add(list[b], h, 0))'
  BY DEF Good, GoodThen, Add
<1>3. \A h : GoodThen(RemoveHost(list'[b], h)) => Good(RemoveHost(list[b], h))'
  BY DEF Good, GoodThen, RemoveHost
<1>4. \A h \in Host : Info(h)' = Info(h) /\ Deleted(h)' = Deleted(h)
  BY DEF Info, Deleted
<1>. QED  BY <1>1, <1>2, <1>3, <1>4 DEF Due

\* A good list stays good when only sessions and programs change, and none is
\* counted that was not.
LEMMA GoodKept ==
  ASSUME NEW l, Good(l), twins => twins', main' = main,
         list'[Reference] = list[Reference],
         main = Primary => \A h \in Host : Counted(h)' => Counted(h)
  PROVE  GoodThen(l)
BY DEF Good, GoodThen, Reference

\* Only the main server's list changes but by what a backup reads.
LEMMA Referred ==
  ASSUME TypeInv
  PROVE  Reference \in Server /\ (main # Nobody => Reference = main)
BY DEF Reference, TypeInv, MainType, Server

\* What is begun when all is settled: the lists stay what they are, and the device
\* that comes, goes or is killed is not counted.
LEMMA DueActs ==
  ASSUME ListedInv, KnowInv, [Next]_vars, hasty' = 0, NEW b \in Backup, place[b] = "sync",
         \/ \E h \in Host : Start(h) \/ Exit(h) \/ Kill(h)
         \/ \E c \in Backup : AddBackupServer(c)
         \/ Die
  PROVE  Due(b)'
<1>. USE DEF ListedInv, TypeInv, KnowInv
<1>1. /\ Good(list[b]) /\ feed[b] = <<>> /\ \A s \in Session : Idle(s)
      /\ main # Nobody
  BY Calm, SettledIs
<1>2. ASSUME UNCHANGED <<main, list, feed, twins>>,
             \A s \in Session : session'[s].at \notin {"listed", "removed"},
             \A g \in Host : Counted(g)' => Counted(g)
      PROVE  Due(b)'
  <2>1. GoodThen(list[b])
    BY <1>1, <1>2, GoodKept
  <2>. QED  BY <1>1, <1>2, <2>1, DueIs
<1>3. ASSUME NEW h \in Host, Start(h) PROVE Due(b)'
  <2>1. PICK s \in Session :
          /\ session'[s].at = "hello" /\ session'[s].host = h
          /\ \A t \in Session \ {s} : session'[t] = session[t]
          /\ device'[h].at = "joining" /\ device'[h].session = s
    BY <1>3, ActSteps
  <2>2. \A g \in Host \ {h} : device'[g] = device[g]
    BY <1>3, ActSteps
  <2>3. \A g \in Host : device[g].at = "joining" => device[g].session \in Session
    BY DEF AgentInv
  <2>4. \A g \in Host : Counted(g)' => Counted(g)
    BY <2>1, <2>2, <2>3 DEF Counted
  <2>. QED  BY <1>1, <1>2, <1>3, <2>1, <2>4, ActSteps DEF Idle
<1>4. ASSUME NEW h \in Host, Exit(h) PROVE Due(b)'
  <2>1. /\ session'[device[h].session].at = "exit" /\ device'[h].at = "off"
        /\ \A t \in Session \ {device[h].session} : session'[t] = session[t]
        /\ \A g \in Host \ {h} : device'[g] = device[g]
    BY <1>4, ActSteps
  <2>2. \A g \in Host : device[g].at = "joining" => device[g].session \in Session
    BY DEF AgentInv
  <2>3. \A g \in Host : Counted(g)' => Counted(g)
    BY <2>1, <2>2 DEF Counted
  <2>4. \A t \in Session : session'[t].at \notin {"listed", "removed"}
    BY <1>1, <2>1 DEF Idle
  <2>. QED  BY <1>2, <1>4, <2>3, <2>4, ActSteps
<1>5. ASSUME NEW h \in Host, Kill(h) PROVE Due(b)'
  <2>1. /\ session' = session /\ device'[h].at = "off"
        /\ \A g \in Host \ {h} : device'[g] = device[g]
    BY <1>5, ActSteps
  <2>2. \A g \in Host : Counted(g)' => Counted(g)
    BY <2>1 DEF Counted
  <2>. QED  BY <1>1, <1>2, <1>5, <2>1, <2>2, ActSteps DEF Idle
<1>6. ASSUME NEW c \in Backup, AddBackupServer(c) PROVE Due(b)'
  BY <1>1, <1>2, <1>6 DEF AddBackupServer, Act, Idle, Counted
<1>7. ASSUME Die PROVE Due(b)'
  <2>1. /\ main = Primary /\ main' = Nobody /\ UNCHANGED <<list, feed, twins>>
    BY <1>7 DEF Die, Act
  <2>2. \A s \in Session : session'[s].at \in {"none", "closed"}
    BY <1>7 DEF Die, SessionType
  <2>3. Reference = Primary /\ Reference' = Primary /\ main' # Primary
    BY <2>1, DevicesAssumption DEF Reference
  <2>4. GoodThen(list[b])
    BY <1>1, <2>1, <2>3 DEF Good, GoodThen
  <2>. QED  BY <1>1, <2>1, <2>2, <2>4, DueIs
<1>. QED  BY <1>3, <1>4, <1>5, <1>6, <1>7

\* A session's thread: what it does to the main server's list the backups do to
\* theirs when they hear of it.
LEMMA DueWorks ==
  ASSUME ListedInv, KnowInv, [Next]_vars, hasty' = 0, NEW b \in Backup, place[b] = "sync",
         Due(b), NEW s \in Session, Works(s)
  PROVE  Due(b)'
<1>. USE DEF ListedInv, TypeInv, KnowInv
<1>. DEFINE h == session[s].host
            l == list[b]
            m == list[main]
<1>1. /\ main # Nobody /\ main' = main /\ main \in Server /\ Reference = main
      /\ Reference' = main /\ b \in Server /\ b # main
      /\ UNCHANGED <<serves, place>> /\ hasty = 0
  BY WorksIs, Calm DEF Reference, RoleInv, Server, MainType
<1>2. /\ h \in Host /\ session'[s].host = h /\ l \in Slots /\ m \in Slots
      /\ \A t \in Session \ {s} : session'[t] = session[t] /\ Idle(t)
      /\ \A t \in Session : session[t].at \in {"listed", "removed"} => t = s
      /\ \A t \in Session : session'[t].at \in {"listed", "removed"} => t = s
  <2>1. /\ h \in Host /\ session'[s].host = h
        /\ \A t \in Session \ {s} : session'[t] = session[t]
    BY WorkSteps
  <2>2. \A t \in Session \ {s} : Idle(t)
    BY <1>1, WorksIs DEF QuietInv
  <2>. QED  BY <1>1, <2>1, <2>2 DEF Idle, ListType
<1>3. /\ \A k \in Device : l[k].session = 0
      /\ Contains(serves, b)
      /\ \A k \in Device : ~Pending(k)
  BY <1>1, WorksIs DEF SlotInv, BackupInv, ServesInv, ServedInv
<1>4. session[s].at \in Untold => feed[b] = <<>>
  BY <1>1 DEF QuietInv
<1>5. list'[b] = l
  BY <1>1, WorkSteps DEF AddDevice, EndCommunications, ListType, Works
<1>6. session[s].at \in {"hello", "full", "exit"} => Good(l)
  <2>1. \A g : <<g>> # <<>>
    OBVIOUS
  <2>. QED  BY <1>2, <1>4, <2>1 DEF Due, Untold
<1>7. main = Primary =>
        /\ \A k \in Device : m[k].session = 0 => m[k].host = NoHost
        /\ \A j, k \in Device : m[j].session = m[k].session => j = k \/ m[k].session = 0
  BY DEF SlotInv, PrimaryInv
<1>8. \A g \in Host : device[g].at = "joining" =>
        device[g].session \in Session /\ session[device[g].session].host = g
  BY DEF AgentInv
<1>9. ASSUME device' = device,
             session'[s].at \in {"full", "exit", "removed"} \/ session'[s].at = session[s].at,
             NEW g \in Host, Counted(g)'
      PROVE  Counted(g)
  BY <1>2, <1>8, <1>9 DEF Counted
<1>10. CASE AddDevice(s)
  <2>1. /\ session[s].at = "hello" /\ UNCHANGED <<device, feed>>
        /\ session'[s].at = IF Full(m, h) THEN "full" ELSE "listed"
    BY <1>10, WorkSteps DEF AddDevice, At
  <2>2. /\ list'[main] = Add(m, h, s)
        /\ ~twins' => ~twins /\ h \notin Hosts(m)
    BY <1>1, <1>10 DEF AddDevice, ListType
  <2>3. Good(l) /\ feed'[b] = <<>>
    BY <1>4, <1>6, <2>1 DEF Untold
  <2>4. CASE Full(m, h)
    <3>1. Add(m, h, s) = m
      BY <2>4 DEF Full, Add, Device
    <3>2. GoodThen(l)
      BY <1>1, <1>9, <2>1, <2>2, <2>3, <2>4, <3>1, GoodKept
    <3>. QED  BY <1>2, <1>5, <2>1, <2>3, <2>4, <3>2, DueIs
  <2>5. CASE ~Full(m, h)
    <3>1. ~twins' => Same(Add(l, h, 0), Add(m, h, s))
      <4>1. ~twins => Same(l, m)
        BY <1>1, <2>3 DEF Good
      <4>. HIDE DEF l, m, h
      <4>. QED  BY <1>2, <1>3, <2>2, <2>5, <4>1, AddSame
    <3>2. main = Primary =>
            /\ Within(Add(l, h, 0), Add(m, h, s))
            /\ Hosts(Add(l, h, 0)) = Hosts(l) \cup {h}
      <4>1. main = Primary => Within(l, m)
        BY <2>3 DEF Good
      <4>. HIDE DEF l, m, h
      <4>. QED  BY <1>2, <1>3, <1>7, <2>5, <4>1, AddWithin
    <3>3. \A g \in Host : Counted(g)' => Counted(g) \/ g = h
      BY <1>2, <1>8, <2>1 DEF Counted
    <3>4. main = Primary => \A g \in Host : Counted(g)' => g \in Hosts(Add(l, h, 0))
      BY <2>3, <3>2, <3>3 DEF Good
    <3>5. GoodThen(Add(l, h, 0))
      BY <1>1, <2>2, <3>1, <3>2, <3>4 DEF GoodThen
    <3>. QED  BY <1>2, <1>5, <2>1, <2>5, <3>5, DueIs
  <2>. QED  BY <2>4, <2>5
<1>11. CASE PropagateDevice(s)
  <2>1. /\ session[s].at = "listed" /\ session'[s].at = "reply"
        /\ UNCHANGED <<device, list, twins>> /\ Tell(Info(h))
    BY <1>11, WorkSteps DEF PropagateDevice
  <2>2. Good(Add(l, h, 0)) /\ feed[b] = <<>>
    BY <1>4, <2>1 DEF Due, Untold
  <2>3. feed'[b] = <<Info(h)>>
    <3>1. \A p : Append(<<>>, p) = <<p>>
      OBVIOUS
    <3>2. feed'[b] = Append(feed[b], Info(h))
      BY <1>3, <2>1 DEF Tell
    <3>. QED  BY <2>2, <3>1, <3>2
  <2>4. \A g \in Host : Counted(g)' => Counted(g)
    BY <1>2, <1>8, <2>1 DEF Counted
  <2>5. GoodThen(Add(l, h, 0))
    BY <1>1, <2>1, <2>2, <2>4, GoodKept
  <2>. QED  BY <1>2, <1>5, <2>1, <2>3, <2>5, DueIs
<1>12. CASE GetSyncDir(s)
  <2>1. /\ session[s].at = "reply" /\ session'[s].at = "serving"
        /\ UNCHANGED <<list, feed, twins>>
        /\ device' = [device EXCEPT ![h].at = "on"]
    BY <1>12, WorkSteps DEF GetSyncDir
  <2>2. Counted(h)
    BY <2>1 DEF AgentInv, Admitting, Counted
  <2>3. \A g \in Host : Counted(g)' => Counted(g)
    BY <1>2, <1>8, <2>1, <2>2 DEF Counted, DeviceType
  <2>4. \A k : Good(k) => GoodThen(k)
    BY <1>1, <2>1, <2>3, GoodKept
  <2>5. \/ feed[b] = <<>> /\ Good(l)
        \/ \E g \in Host : feed[b] = <<Info(g)>> /\ Good(Add(l, g, 0))
        \/ \E g \in Host : feed[b] = <<Deleted(g)>> /\ Good(RemoveHost(l, g))
    BY <1>2, <2>1 DEF Due
  <2>. QED  BY <1>2, <1>5, <2>1, <2>4, <2>5, DueIs
<1>13. CASE Reject(s)
  <2>1. /\ session[s].at = "full" /\ session'[s].at = "exit"
        /\ UNCHANGED <<list, feed, twins>>
        /\ device' = [device EXCEPT ![h] = [at |-> "off", session |-> 0]]
    BY <1>13, WorkSteps DEF Reject
  <2>2. \A g \in Host : Counted(g)' => Counted(g)
    BY <1>2, <1>8, <2>1 DEF Counted, DeviceType
  <2>3. GoodThen(l) /\ feed'[b] = <<>>
    BY <1>1, <1>4, <1>6, <2>1, <2>2, GoodKept DEF Untold
  <2>. QED  BY <1>2, <1>5, <2>1, <2>3, DueIs
<1>14. CASE EndCommunications(s)
  <2>. DEFINE q == RemoveSockets(m, s)
  <2>1. /\ session[s].at = "exit" /\ session'[s].at = "removed"
        /\ UNCHANGED <<device, feed, twins>> /\ list'[main] = q
    BY <1>1, <1>14, WorkSteps DEF EndCommunications, ListType
  <2>2. Good(l) /\ feed'[b] = <<>>
    BY <1>4, <1>6, <2>1 DEF Untold
  <2>3. \A k \in Device : m[k].session = s => m[k].host = h
    BY <1>1, DevicesAssumption DEF SlotInv, OwnerInv, Session
  <2>4. ~twins => Same(RemoveHost(l, h), q)
    <3>1. SUFFICES ASSUME ~twins PROVE Same(RemoveHost(l, h), q)
      OBVIOUS
    <3>2. m[1].host = m[2].host /\ m[1].host # NoHost => m[1].session = 0 \/ m[2].session = 0
      BY <1>1, <3>1 DEF MainInv
    <3>3. \A k \in Device : m[k].host # NoHost /\ m[k].session = 0 =>
            \E j \in Device \ {k} : m[j].host = m[k].host /\ m[j].session # 0
      BY <1>1, <1>3, <3>1 DEF MainInv
    <3>4. \A k \in Device : m[k].session # 0 => m[k].host # NoHost
      BY <1>1 DEF ListType
    <3>5. (\E k \in Device : m[k].session = s) \/ h \notin Hosts(m)
      BY <1>1, <2>1, <3>1 DEF MainInv, Hosts
    <3>6. Same(l, m)
      BY <1>1, <2>2, <3>1 DEF Good
    <3>. HIDE DEF l, m, h
    <3>. QED  BY <1>2, <2>3, <3>2, <3>3, <3>4, <3>5, <3>6, RemoveSame
  <2>5. main = Primary => /\ Within(RemoveHost(l, h), q)
                          /\ Hosts(l) \ {h} \subseteq Hosts(RemoveHost(l, h))
    <3>1. main = Primary => Within(l, m)
      BY <2>2 DEF Good
    <3>. HIDE DEF l, m, h
    <3>. QED  BY <1>2, <1>7, <2>3, <3>1, RemoveWithin
  <2>6. \A g \in Host : Counted(g)' => Counted(g) /\ g # h
    <3>1. device[h].at \notin {"on", "joining"}
      BY <1>1, <2>1 DEF QuietInv
    <3>. QED  BY <1>9, <2>1, <3>1 DEF Counted
  <2>7. main = Primary => \A g \in Host : Counted(g)' => g \in Hosts(RemoveHost(l, h))
    BY <2>2, <2>5, <2>6 DEF Good
  <2>8. GoodThen(RemoveHost(l, h))
    <3>. HIDE DEF q, l, h
    <3>. QED  BY <1>1, <2>1, <2>4, <2>5, <2>7 DEF GoodThen
  <2>. QED  BY <1>2, <1>5, <2>1, <2>8, DueIs
<1>15. CASE PropagateRemoval(s)
  <2>1. /\ session[s].at = "removed" /\ session'[s].at = "closed"
        /\ UNCHANGED <<device, list, twins>> /\ Tell(Deleted(h))
    BY <1>15, WorkSteps DEF PropagateRemoval
  <2>2. Good(RemoveHost(l, h)) /\ feed[b] = <<>>
    BY <1>4, <2>1 DEF Due, Untold
  <2>3. feed'[b] = <<Deleted(h)>>
    <3>1. \A p : Append(<<>>, p) = <<p>>
      OBVIOUS
    <3>2. feed'[b] = Append(feed[b], Deleted(h))
      BY <1>3, <2>1 DEF Tell
    <3>. QED  BY <2>2, <3>1, <3>2
  <2>4. \A g \in Host : Counted(g)' => Counted(g)
    BY <1>2, <1>8, <2>1 DEF Counted
  <2>5. GoodThen(RemoveHost(l, h))
    BY <1>1, <2>1, <2>2, <2>4, GoodKept
  <2>. QED  BY <1>2, <1>5, <2>1, <2>3, <2>5, DueIs
<1>. QED  BY <1>10, <1>11, <1>12, <1>13, <1>14, <1>15 DEF Works

\* A backup that reads does what the main server did.
LEMMA DueReads ==
  ASSUME ListedInv, KnowInv, [Next]_vars, hasty' = 0, NEW b \in Backup, place[b] = "sync",
         Due(b), SyncInfo(b) \/ SyncDelete(b)
  PROVE  Due(b)'
<1>. USE DEF ListedInv, TypeInv, KnowInv
<1>1. PICK type \in {"info", "delete"} :
        /\ Receives(b, "sync", type)
        /\ type = "info" => SyncInfo(b)
        /\ type = "delete" => SyncDelete(b)
  BY DEF SyncInfo, SyncDelete
<1>2. /\ UNCHANGED <<main, session, device, twins>> /\ b # main /\ b \in Server
      /\ feed[b] # <<>> /\ Head(feed[b]).type = type /\ feed'[b] = Tail(feed[b])
      /\ hasty = 0
  BY <1>1, Calm DEF Receives, Rest, Server, FeedType
<1>3. \A s \in Session : session[s].at \notin {"listed", "removed"}
  BY <1>2 DEF QuietInv, Untold
<1>4. /\ type = "info" => list' = [list EXCEPT ![b] = Add(@, Head(feed[b]).host, 0)]
      /\ type = "delete" => list' = [list EXCEPT ![b] = RemoveHost(@, Head(feed[b]).host)]
  BY <1>1 DEF SyncInfo, SyncDelete
<1>5. list'[Reference] = list[Reference]
  <2>1. Reference # b /\ Reference \in Server
    BY <1>2, Referred, DevicesAssumption DEF Reference
  <2>. QED  BY <1>1, <1>4, <2>1 DEF ListType
<1>6. \A k : Good(k) => GoodThen(k)
  <2>1. \A h \in Host : Counted(h)' <=> Counted(h)
    BY <1>2 DEF Counted
  <2>. QED  BY <1>2, <1>5, <2>1, GoodKept
<1>7. \A p : Head(<<p>>) = p /\ Tail(<<p>>) = <<>>
  OBVIOUS
<1>8. \A h : /\ Info(h).type = "info" /\ Info(h).host = h
             /\ Deleted(h).type = "delete" /\ Deleted(h).host = h
  BY DEF Info, Deleted
<1>9. /\ feed'[b] = <<>>
      /\ \/ type = "info" /\ Good(Add(list[b], Head(feed[b]).host, 0))
         \/ type = "delete" /\ Good(RemoveHost(list[b], Head(feed[b]).host))
  <2>1. \/ \E h \in Host : feed[b] = <<Info(h)>> /\ Good(Add(list[b], h, 0))
        \/ \E h \in Host : feed[b] = <<Deleted(h)>> /\ Good(RemoveHost(list[b], h))
    BY <1>2, <1>3 DEF Due
  <2>2. ASSUME NEW h \in Host, feed[b] = <<Info(h)>>, Good(Add(list[b], h, 0))
        PROVE  /\ feed'[b] = <<>> /\ type = "info"
               /\ Good(Add(list[b], Head(feed[b]).host, 0))
    <3>1. Head(feed[b]) = Info(h) /\ Tail(feed[b]) = <<>>
      BY <1>7, <2>2
    <3>. QED  BY <1>2, <1>8, <2>2, <3>1
  <2>3. ASSUME NEW h \in Host, feed[b] = <<Deleted(h)>>, Good(RemoveHost(list[b], h))
        PROVE  /\ feed'[b] = <<>> /\ type = "delete"
               /\ Good(RemoveHost(list[b], Head(feed[b]).host))
    <3>1. Head(feed[b]) = Deleted(h) /\ Tail(feed[b]) = <<>>
      BY <1>7, <2>3
    <3>. QED  BY <1>2, <1>8, <2>3, <3>1
  <2>. QED  BY <2>1, <2>2, <2>3
<1>10. GoodThen(list'[b])
  <2>1. /\ type = "info" => list'[b] = Add(list[b], Head(feed[b]).host, 0)
        /\ type = "delete" => list'[b] = RemoveHost(list[b], Head(feed[b]).host)
    BY <1>2, <1>4 DEF ListType
  <2>. QED  BY <1>6, <1>9, <2>1
<1>. QED  BY <1>2, <1>3, <1>9, <1>10, DueIs

\* A backup takes over: it has the host names that the others have.
LEMMA DueEvolve ==
  ASSUME ListedInv, KnowInv, [Next]_vars, hasty' = 0, NEW b \in Backup, place'[b] = "sync",
         NEW c \in Backup, Evolve(c)
  PROVE  Due(b)'
<1>. USE DEF ListedInv, TypeInv, KnowInv
<1>1. /\ main = Nobody /\ main' = c /\ place[c] = "sync" /\ b # c /\ place[b] = "sync"
      /\ \A d \in Backup : place[d] # "main" /\ (feed[d] = <<>> \/ place[d] = "down")
      /\ UNCHANGED <<list, session, device, feed, twins>> /\ hasty = 0
  BY Calm DEF Evolve, Rest, PlaceType
<1>2. \A s \in Session : session[s].at \in {"none", "closed"}
  BY <1>1 DEF RoleInv
<1>3. \A d \in Backup : place[d] = "sync" => feed[d] = <<>> /\ Good(list[d])
  <2>1. \A p : <<p>> # <<>>
    OBVIOUS
  <2>. QED  BY <1>1, <1>2, <2>1 DEF DueInv, Followed, Due
<1>4. Reference = Primary /\ Reference' = c /\ c # Primary
  BY <1>1, DevicesAssumption DEF Reference
<1>5. ~twins => Same(list[b], list[c])
  BY <1>1, <1>3, <1>4 DEF Good, Same
<1>6. GoodThen(list'[b])
  BY <1>1, <1>4, <1>5 DEF GoodThen
<1>. QED  BY <1>1, <1>2, <1>3, <1>6, DueIs

\* What a backup has, and has yet to read and be sent, stays good.
LEMMA DueNext ==
  ASSUME ListedInv, KnowInv, [Next]_vars
  PROVE  DueInv'
<1>. USE DEF ListedInv, TypeInv, KnowInv
<1>. SUFFICES ASSUME hasty' = 0, Followed', NEW b \in Backup, place'[b] = "sync"
              PROVE  Due(b)'
  BY DEF DueInv
<1>1. hasty = 0
  BY Calm
<1>2. CASE \E c \in Backup : Evolve(c)
  BY <1>2, DueEvolve
<1>3. ASSUME ~\E c \in Backup : Evolve(c), place[b] # "sync" PROVE Due(b)'
  <2>1. ReceiveEot(b)
    <3>1. ASSUME NEW c \in Backup, AddBackupServer(c) \/ ReceiveUnparsed(c) PROVE place'[b] # "sync"
      BY <1>3, <3>1 DEF AddBackupServer, ReceiveUnparsed, PlaceType
    <3>2. ASSUME NEW c \in Backup, ReceiveEot(c) PROVE c = b
      BY <1>3, <3>2 DEF ReceiveEot, PlaceType
    <3>. QED  BY <1>3, <3>1, <3>2, PlaceSteps
  <2>2. /\ place[b] = "list" /\ Receives(b, "list", "eot") /\ UNCHANGED list
        /\ feed'[b] = Tail(feed[b])
    BY <2>1 DEF ReceiveEot, Receives, FeedType
  <2>3. /\ main = Primary /\ UNCHANGED <<main, session, device, twins>>
        /\ feed'[b] = <<>> /\ Good(list[b])
    BY <2>2, JoinSteps, JoinReads
  <2>4. \A s \in Session : Idle(s)
    BY <1>1, <2>2 DEF QuietInv
  <2>5. GoodThen(list[b])
    <3>1. \A h \in Host : Counted(h)' <=> Counted(h)
      BY <2>3 DEF Counted
    <3>. QED  BY <2>2, <2>3, <3>1, GoodKept
  <2>. QED  BY <2>2, <2>3, <2>4, <2>5, DueIs DEF Idle
<1>4. ASSUME ~\E c \in Backup : Evolve(c), place[b] = "sync" PROVE Due(b)'
  <2>1. Due(b) /\ Followed
    <3>1. ASSUME main = Nobody, NEW c \in Backup, place[c] = "main" PROVE FALSE
      <4>1. main' = Nobody
        BY <1>4, <3>1, MainSteps
      <4>2. place'[c] = "main"
        BY <1>4, <3>1, PlaceSteps DEF AddBackupServer, ReceiveEot, ReceiveUnparsed, Receives,
                                      PlaceType
      <4>. QED  BY <4>1, <4>2 DEF Followed
    <3>2. Followed
      BY <3>1 DEF Followed
    <3>. QED  BY <1>1, <1>4, <3>2 DEF DueInv
  <2>2. \A k \in Device : ~HostUnknown(k)
    <3>1. ASSUME NEW k \in Device, HostUnknown(k) PROVE FALSE
      <4>1. /\ main # Nobody /\ main' = Nobody /\ UNCHANGED place /\ thread[k].at # "none"
        BY <3>1 DEF HostUnknown
      <4>2. \E c \in Backup : place[c] = "main"
        BY <4>1 DEF RoleInv
      <4>. QED  BY <4>1, <4>2 DEF Followed
    <3>. QED  BY <3>1
  \* What leaves the list the backups follow as it is, and what b is sent.
  <2>3. ASSUME UNCHANGED <<main, twins>>, list'[b] = list[b], feed'[b] = feed[b],
               ~twins => Hosts(list'[Reference]) = Hosts(list[Reference]),
               main = Primary => list'[Primary] = list[Primary],
               \A s \in Session : session'[s] = session[s] \/
                 session'[s].at \notin {"listed", "removed"},
               \A s \in Session : session[s].at \in {"listed", "removed"} =>
                 session'[s] = session[s],
               main = Primary => \A h \in Host : Counted(h)' => Counted(h)
        PROVE  Due(b)'
    <3>1. \A k : Good(k) => GoodThen(k)
      BY <2>3 DEF Good, GoodThen, Same, Reference
    <3>. QED  BY <2>1, <2>3, <3>1, DueIs DEF Due
  <2>4. ASSUME NEW k \in Device, ConnectToClient(k) PROVE Due(b)'
    <3>1. main # Primary /\ UNCHANGED <<main, list, feed, twins>>
      BY <2>4, DevicesAssumption DEF ConnectToClient, Rest, RoleInv
    <3>2. \A s \in Session : session'[s] = session[s] \/ session'[s].at = "serving"
      BY <2>4, ConnectIs
    <3>3. \A s \in Session : session[s].at \in {"listed", "removed"} => session'[s] = session[s]
      BY <2>4, ConnectIs
    <3>. QED  BY <2>3, <3>1, <3>2, <3>3, Referred
  <2>5. ASSUME NEW k \in Device, AddReconnected(k) PROVE Due(b)'
    <3>1. /\ main # Primary /\ main # Nobody /\ UNCHANGED <<main, session, device, feed, twins>>
          /\ main \in Server /\ main # b /\ Reference = main
      BY <1>4, <2>5, DevicesAssumption DEF AddReconnected, Rest, RoleInv, MainType, Reference
    <3>2. list' = [list EXCEPT ![main] = Add(@, thread[k].host, thread[k].session)]
      BY <2>5 DEF AddReconnected
    <3>3. list[main] \in Slots /\ list'[b] = list[b]
      BY <3>1, <3>2 DEF ListType, Server
    <3>4. /\ thread[k].host \in Host /\ thread[k].host \in Hosts(list[main])
          /\ thread[k].session \in {0} \cup Session
      <4>1. thread[k].host \in Host /\ thread[k].session \in {0} \cup Session /\ Pending(k)
        BY <2>5 DEF AddReconnected, ThreadType, Pending
      <4>2. \E j \in Device : list[main][j].host = thread[k].host
        BY <1>1, <3>1, <4>1 DEF MainInv
      <4>. QED  BY <4>1, <4>2, DevicesAssumption DEF Hosts
    <3>5. Hosts(list'[main]) = Hosts(list[main])
      BY <3>1, <3>2, <3>3, <3>4, AddWaiting DEF ListType
    <3>. QED  BY <2>3, <3>1, <3>3, <3>5
  <2>6. ASSUME NEW c \in Backup, SendClients(c) \/ SendEot(c) PROVE Due(b)'
    <3>1. c # b
      BY <1>1, <1>4, <2>6 DEF SendClients, SendEot, ServesInv
    <3>2. feed'[b] = feed[b] /\ UNCHANGED <<main, twins, list, session, device>>
      BY <2>6, <3>1 DEF SendClients, SendEot, Rest, FeedType
    <3>. QED  BY <2>3, <3>2 DEF Counted
  <2>7. ASSUME NEW c \in Backup, NEW at, NEW type, Receives(c, at, type),
               ~SyncInfo(b) /\ ~SyncDelete(b)
        PROVE  c = b \/ Due(b)'
    <3>1. SUFFICES ASSUME c # b PROVE Due(b)'
      OBVIOUS
    <3>2. UNCHANGED <<main, session, device, twins>> /\ feed'[b] = feed[b]
      BY <2>7, <3>1 DEF Receives, Rest, FeedType
    <3>3. list'[b] = list[b]
      BY <1>4, <2>7, KeptList DEF ReceiveNode, Receives
    <3>4. list'[Reference] = list[Reference]
      <4>1. Reference \in Server /\ \A d \in Backup : place[d] \in {"list", "sync"} /\ d # main => d # Reference
        BY Referred, DevicesAssumption DEF Reference
      <4>2. CASE UNCHANGED list
        BY <4>2
      <4>3. ASSUME NEW d \in Backup, ReceiveNode(d) \/ SyncInfo(d) \/ SyncDelete(d),
                   list' = [list EXCEPT ![d] = list'[d]]
            PROVE  list'[Reference] = list[Reference]
        <5>1. d # Reference
          BY <4>1, <4>3 DEF ReceiveNode, SyncInfo, SyncDelete, Receives
        <5>. QED  BY <4>1, <4>3, <5>1 DEF ListType
      <4>4. CASE \E s \in Session : AddDevice(s) \/ EndCommunications(s)
        <5>1. UNCHANGED feed
          BY <4>4 DEF AddDevice, EndCommunications
        <5>. QED  BY <2>7, <5>1, Shorter DEF Receives, FeedType
      <4>5. CASE \E k \in Device : AddReconnected(k)
        <5>1. UNCHANGED feed
          BY <4>5 DEF AddReconnected
        <5>. QED  BY <2>7, <5>1, Shorter DEF Receives, FeedType
      <4>. QED  BY <4>2, <4>3, <4>4, <4>5, ListSteps
    <3>5. \A h \in Host : Counted(h)' <=> Counted(h)
      BY <3>2 DEF Counted
    <3>. QED  BY <2>3, <3>2, <3>3, <3>4, <3>5 DEF Reference
  <2>8. CASE SyncInfo(b) \/ SyncDelete(b)
    BY <1>4, <2>1, <2>8, DueReads
  <2>9. ASSUME NEW c \in Backup,
               \/ Receives(c, "list", "node") /\ ReceiveNode(c)
               \/ Receives(c, "list", "eot") /\ ReceiveEot(c)
               \/ Receives(c, "list", "info") /\ ReceiveUnparsed(c)
               \/ Receives(c, "list", "delete") /\ ReceiveNothing(c)
               \/ Receives(c, "sync", "info") /\ SyncInfo(c)
               \/ Receives(c, "sync", "delete") /\ SyncDelete(c)
        PROVE  Due(b)'
    <3>1. CASE c = b
      <4>1. \A type : ~Receives(b, "list", type)
        BY <1>4 DEF Receives
      <4>. QED  BY <2>8, <2>9, <3>1, <4>1
    <3>2. CASE c # b
      BY <2>7, <2>8, <2>9, <3>2
    <3>. QED  BY <3>1, <3>2
  <2>10. CASE UNCHANGED <<main, list, session, device, serves, joiner, feed, place, twins>>
    BY <2>3, <2>10 DEF Counted
  <2>. QED
    BY <1>4, <2>1, <2>2, <2>4, <2>5, <2>6, <2>9, <2>10, DueActs, DueWorks, OtherSteps
<1>. QED  BY <1>2, <1>3, <1>4

-----------------------------------------------------------------------------
(* The main server's own list.                                             *)

\* A thread is pending until it has listed its device.
LEMMA PendingKept ==
  ASSUME TypeInv, [Next]_vars, ~\E b \in Backup : Evolve(b), NEW k \in Device
  PROVE  AddReconnected(k) \/ ((Pending(k)' <=> Pending(k)) /\ thread'[k].host = thread[k].host)
<1>1. CASE UNCHANGED thread
  BY <1>1 DEF Pending
<1>2. ASSUME NEW j \in Device, ConnectToClient(j)
      PROVE  (Pending(k)' <=> Pending(k)) /\ thread'[k].host = thread[k].host
  <2>1. thread[j].at = "connect"
    BY <1>2 DEF ConnectToClient
  <2>. QED  BY <1>2, <2>1, ConnectIs DEF Pending
<1>3. ASSUME NEW j \in Device, LockHandCom(j)
      PROVE  (Pending(k)' <=> Pending(k)) /\ thread'[k].host = thread[k].host
  BY <1>3 DEF LockHandCom, Pending, TypeInv, ThreadType
<1>4. ASSUME NEW j \in Device, AddReconnected(j), j # k
      PROVE  (Pending(k)' <=> Pending(k)) /\ thread'[k].host = thread[k].host
  BY <1>4 DEF AddReconnected, Pending, TypeInv, ThreadType
<1>. QED  BY <1>1, <1>2, <1>3, <1>4, ThreadSteps

\* The parts of MainInv, for a list m.
Lists(m) ==
  /\ m[1].host = m[2].host /\ m[1].host # NoHost => m[1].session = 0 \/ m[2].session = 0
  /\ m[1].host # NoHost /\ m[1].session = 0 =>
       m[2].host = m[1].host /\ m[2].session # 0
  /\ m[2].host # NoHost /\ m[2].session = 0 =>
       m[1].host = m[2].host /\ m[1].session # 0

\* The two slots, one by one.
LEMMA ListsAre ==
  ASSUME NEW m
  PROVE  Lists(m) <=>
           /\ m[1].host = m[2].host /\ m[1].host # NoHost => m[1].session = 0 \/ m[2].session = 0
           /\ \A k \in Device : m[k].host # NoHost /\ m[k].session = 0 =>
                \E j \in Device \ {k} : m[j].host = m[k].host /\ m[j].session # 0
BY DEF Lists, Device

\* A session of a new host name, and one that ends, leave the main server's list
\* so.
LEMMA ListsAdd ==
  ASSUME NEW m \in Slots, NEW h \in Host, NEW s \in Session, ~Full(m, h), h \notin Hosts(m),
         Lists(m)
  PROVE  Lists(Add(m, h, s))
<1>. DEFINE q == Add(m, h, s)
<1>1. s # 0 /\ h # NoHost
  BY DevicesAssumption DEF Session
<1>2. /\ q[1] = IF Free(m[1], h) THEN [host |-> h, session |-> s] ELSE m[1]
      /\ q[2] = IF ~Free(m[1], h) /\ Free(m[2], h) THEN [host |-> h, session |-> s] ELSE m[2]
  BY <1>1, AddSlots
<1>3. m[1].host # h /\ m[2].host # h
  BY <1>1, HostsAre
<1>4. ASSUME Free(m[1], h) PROVE Lists(q)
  <2>1. m[1].host = NoHost /\ q[1].host = h /\ q[1].session = s /\ q[2] = m[2]
    BY <1>2, <1>3, <1>4 DEF Free
  <2>. HIDE DEF q
  <2>. QED  BY <1>1, <1>3, <2>1 DEF Lists
<1>5. ASSUME ~Free(m[1], h) PROVE Lists(q)
  <2>1. m[2].host = NoHost /\ q[2].host = h /\ q[2].session = s /\ q[1] = m[1]
    BY <1>2, <1>3, <1>5 DEF Free, Full, Device
  <2>. HIDE DEF q
  <2>. QED  BY <1>1, <1>3, <2>1 DEF Lists
<1>. QED  BY <1>4, <1>5

\* Removing a session's sockets keeps them.
LEMMA ListsRemove ==
  ASSUME NEW m \in Slots, NEW s \in Session, Lists(m)
  PROVE  Lists(RemoveSockets(m, s))
<1>. DEFINE q == RemoveSockets(m, s)
<1>1. NoSlot.host = NoHost /\ Empty[1] = NoSlot /\ Empty[2] = NoSlot
  BY DEF NoSlot, Empty, Device
<1>2. \/ q = m \/ q = Empty
      \/ /\ m[1].session \notin {0, s} \/ m[2].session \notin {0, s}
         /\ q[1] = IF m[1].session = s THEN NoSlot ELSE m[1]
         /\ q[2] = IF m[2].session = s THEN NoSlot ELSE m[2]
  BY RemoveSocketsSlots
<1>3. CASE q = m
  BY <1>3
<1>4. ASSUME q = Empty PROVE Lists(q)
  <2>. HIDE DEF q
  <2>. QED  BY <1>1, <1>4 DEF Lists
<1>5. ASSUME m[1].session \notin {0, s} \/ m[2].session \notin {0, s},
             q[1] = IF m[1].session = s THEN NoSlot ELSE m[1],
             q[2] = IF m[2].session = s THEN NoSlot ELSE m[2]
      PROVE  Lists(q)
  <2>. HIDE DEF q
  <2>. QED  BY <1>1, <1>5 DEF Lists
<1>. QED  BY <1>2, <1>3, <1>4, <1>5

\* A thread lists its device in a free slot: the first of those that wait for the
\* host name, or one before it.
LEMMA MainReconnected ==
  ASSUME ListedInv, KnowInv, [Next]_vars, hasty' = 0, main # Nobody,
         NEW k \in Device, AddReconnected(k)
  PROVE  MainInv'
<1>. USE DEF ListedInv, TypeInv, KnowInv
<1>. DEFINE h == thread[k].host
            t == thread[k].session
            m == list[main]
            q == list'[main]
<1>1. /\ UNCHANGED <<main, session, twins>> /\ hasty = 0 /\ main \in Server /\ m \in Slots
      /\ thread[k].at = "add" /\ Pending(k) /\ h \in Host /\ h # NoHost
      /\ t \in {0} \cup Session /\ t # 0
  BY Calm, DevicesAssumption DEF AddReconnected, Rest, MainType, ListType, ThreadType, Pending
<1>2. q = Add(m, h, t)
  BY <1>1 DEF AddReconnected, ListType
<1>3. thread'[k].at = "done" /\ ~Pending(k)'
  BY DEF AddReconnected, ThreadType, Pending
<1>4. \A i \in Device : Pending(i)' => i # k /\ Pending(i) /\ thread'[i].host = thread[i].host
  BY <1>3 DEF AddReconnected, ThreadType, Pending
<1>5. PICK i \in Device, j \in Device :
        /\ i # j /\ \A d \in Device : d \in {i, j}
        /\ Free(m[i], h)
        /\ q[i] = [host |-> h, session |-> t] /\ q[j] = m[j]
  <2>1. \E d \in Device : Free(m[d], h)
    BY <1>1 DEF ServedInv
  <2>2. /\ q[1] = IF Free(m[1], h) THEN [host |-> h, session |-> t] ELSE m[1]
        /\ q[2] = IF ~Free(m[1], h) /\ Free(m[2], h)
                  THEN [host |-> h, session |-> t] ELSE m[2]
    <3>. HIDE DEF m, h, t
    <3>. QED  BY <1>1, <1>2, AddSlots
  <2>. HIDE DEF q, m, h, t
  <2>3. CASE Free(m[1], h)
    BY <2>2, <2>3 DEF Device
  <2>4. CASE ~Free(m[1], h)
    BY <2>1, <2>2, <2>4 DEF Device
  <2>. QED  BY <2>3, <2>4
<1>6. /\ q[i].host = h /\ q[i].session = t
      /\ m[i].session = 0 /\ m[i].host \in {NoHost, h}
  BY <1>5 DEF Free
<1>7. ASSUME ~twins
      PROVE  /\ \A d \in Device : m[d].host = h => m[d].session = 0
             /\ \A d, e \in Device : Pending(d) /\ Pending(e) /\ thread[d].host = thread[e].host => d = e
             /\ \A d \in Device : Pending(d) =>
                  \A e \in Device : m[e].host = thread[d].host => m[e].session = 0
             /\ \A d \in Device : m[d].host # NoHost /\ m[d].session = 0 =>
                  \/ \E e \in Device : Pending(e) /\ thread[e].host = m[d].host
                  \/ \E e \in Device \ {d} : m[e].host = m[d].host /\ m[e].session # 0
  BY <1>1, <1>7 DEF MainInv
<1>8. ASSUME ~twins, q[1].host = q[2].host, q[1].host # NoHost
      PROVE  q[1].session = 0 \/ q[2].session = 0
  <2>1. q[j].host = h
    BY <1>5, <1>6, <1>8 DEF Device
  <2>2. q[j].session = 0
    BY <1>5, <1>7, <1>8, <2>1
  <2>. QED  BY <1>5, <2>2 DEF Device
<1>9. ASSUME ~twins, NEW d \in Device, q[d].host # NoHost, q[d].session = 0
      PROVE  \/ \E e \in Device : Pending(e)' /\ thread'[e].host = q[d].host
             \/ \E e \in Device \ {d} : q[e].host = q[d].host /\ q[e].session # 0
  <2>1. d = j /\ m[j].host # NoHost /\ m[j].session = 0 /\ q[j] = m[j]
    BY <1>1, <1>5, <1>6, <1>9
  <2>2. CASE m[j].host = h
    BY <1>1, <1>5, <1>6, <2>1, <2>2
  <2>3. ASSUME m[j].host # h
        PROVE  \E e \in Device : Pending(e)' /\ thread'[e].host = q[d].host
    <3>1. ~\E e \in Device \ {j} : m[e].host = m[j].host /\ m[e].session # 0
      BY <1>5, <1>6
    <3>2. PICK e \in Device : Pending(e) /\ thread[e].host = m[j].host
      BY <1>7, <1>9, <2>1, <3>1
    <3>3. e # k
      BY <2>3, <3>2
    <3>4. Pending(e)' /\ thread'[e].host = thread[e].host
      BY <3>2, <3>3 DEF AddReconnected, ThreadType, Pending
    <3>. QED  BY <2>1, <3>2, <3>4
  <2>. QED  BY <2>2, <2>3
<1>10. ASSUME ~twins, NEW d \in Device, Pending(d)', NEW e \in Device, q[e].host = thread'[d].host
       PROVE  q[e].session = 0
  <2>1. Pending(d) /\ thread'[d].host = thread[d].host /\ thread[d].host # h
    BY <1>1, <1>4, <1>7, <1>10
  <2>2. e = j /\ q[e] = m[e]
    BY <1>5, <1>6, <1>10, <2>1
  <2>. QED  BY <1>7, <1>10, <2>1, <2>2
<1>11. ASSUME ~twins, NEW d \in Device, NEW e \in Device, Pending(d)', Pending(e)',
              thread'[d].host = thread'[e].host
       PROVE  d = e
  BY <1>4, <1>7, <1>11
<1>12. ASSUME NEW d \in Device, Pending(d)'
       PROVE  \E e \in Device : q[e].host = thread'[d].host
  <2>1. Pending(d) /\ thread'[d].host = thread[d].host /\ thread[d].host # NoHost
    BY <1>4, <1>12, DevicesAssumption DEF ThreadType, Pending
  <2>2. PICK e \in Device : m[e].host = thread[d].host
    BY <1>1, <2>1 DEF MainInv
  <2>. QED  BY <1>5, <1>6, <2>1, <2>2
<1>13. \A s \in Session : session'[s].at \notin {"full", "exit"}
  BY <1>1 DEF ServedInv, Idle
<1>14. q = list'[main'] /\ (~twins' <=> ~twins)
  BY <1>1
<1>. HIDE DEF q, m, h, t
<1>. QED  BY <1>1, <1>8, <1>9, <1>10, <1>11, <1>12, <1>13, <1>14 DEF MainInv

\* A host name leaves the main server's list with its session.
LEMMA MainNext ==
  ASSUME ListedInv, KnowInv, [Next]_vars
  PROVE  MainInv'
<1>. USE DEF ListedInv, TypeInv, KnowInv
<1>. SUFFICES ASSUME hasty' = 0, main' # Nobody PROVE MainInv'
  BY DEF MainInv
<1>1. hasty = 0
  BY Calm
<1>2. ASSUME NEW c \in Backup, Evolve(c) PROVE MainInv'
  <2>1. /\ main = Nobody /\ main' = c /\ place[c] = "sync" /\ c \in Server
        /\ \A d \in Backup : place[d] # "main" /\ (feed[d] = <<>> \/ place[d] = "down")
        /\ UNCHANGED <<list, session, twins>>
    BY <1>2 DEF Evolve, Rest, Server
  <2>2. \A s \in Session : session[s].at \in {"none", "closed"}
    BY <2>1 DEF RoleInv
  <2>3. feed[c] = <<>> /\ Good(list[c])
    <3>1. \A p : <<p>> # <<>>
      OBVIOUS
    <3>. QED  BY <1>1, <2>1, <2>2, <3>1 DEF DueInv, Followed, Due
  <2>4. ~twins => (list[c][1].host = list[c][2].host => list[c][1].host = NoHost)
    BY <2>3 DEF Good, Same
  <2>5. \A k \in Device : list[c][k].session = 0
    BY <2>1 DEF SlotInv, BackupInv
  <2>6. \A k \in Device : /\ thread'[k].host = list[c][k].host
                          /\ Pending(k)' <=> list[c][k].host # NoHost
    BY <1>2 DEF Evolve, Pending
  <2>7. ~twins => \A j, k \in Device :
          Pending(j)' /\ Pending(k)' /\ thread'[j].host = thread'[k].host => j = k
    BY <2>4, <2>6 DEF Device
  <2>. QED  BY <2>1, <2>2, <2>4, <2>5, <2>6, <2>7 DEF MainInv
<1>3. ASSUME ~\E c \in Backup : Evolve(c) PROVE MainInv'
  <2>. DEFINE m == list[main]
  <2>1. /\ main' = main /\ main # Nobody /\ main \in Server /\ m \in Slots
        /\ ~Die /\ \A k \in Device : ~HostUnknown(k)
    BY <1>3, MainSteps DEF MainType, ListType, Die, HostUnknown
  \* What leaves the list and the threads as they are.
  <2>2. ASSUME list'[main] = m, twins' = twins,
               UNCHANGED thread \/ \A k \in Device : ~AddReconnected(k),
               \A s \in Session : session'[s].at \in {"full", "exit"} =>
                 \/ \E k \in Device : m[k].session = s
                 \/ session[s].at \in {"full", "exit"} /\ session'[s].host = session[s].host
        PROVE  MainInv'
    <3>1. \A k \in Device : (Pending(k)' <=> Pending(k)) /\ thread'[k].host = thread[k].host
      BY <1>3, <2>2, PendingKept DEF Pending
    <3>2. list'[main'] = m
      BY <2>1, <2>2
    <3>3. \A s \in Session : session'[s].at \in {"full", "exit"} =>
            \/ \E k \in Device : list'[main'][k].session = s
            \/ ~twins' => \A k \in Device : list'[main'][k].host # session'[s].host
      <4>. HIDE DEF m
      <4>1. \A s \in Session : session[s].at \in {"full", "exit"} =>
              \/ \E k \in Device : m[k].session = s
              \/ ~twins => \A k \in Device : m[k].host # session[s].host
        BY <1>1, <2>1 DEF MainInv, m
      <4>. QED  BY <2>2, <3>2, <4>1
    <3>4. /\ ~twins =>
             /\ m[1].host = m[2].host /\ m[1].host # NoHost =>
                  m[1].session = 0 \/ m[2].session = 0
             /\ \A k \in Device : m[k].host # NoHost /\ m[k].session = 0 =>
                  \/ \E j \in Device : Pending(j) /\ thread[j].host = m[k].host
                  \/ \E j \in Device \ {k} : m[j].host = m[k].host /\ m[j].session # 0
             /\ \A k \in Device : Pending(k) =>
                  \A j \in Device : m[j].host = thread[k].host => m[j].session = 0
             /\ \A j, k \in Device :
                  Pending(j) /\ Pending(k) /\ thread[j].host = thread[k].host => j = k
          /\ \A k \in Device : Pending(k) => \E j \in Device : m[j].host = thread[k].host
      BY <1>1, <2>1 DEF MainInv
    <3>. HIDE DEF m
    <3>. QED  BY <2>2, <3>1, <3>2, <3>3, <3>4 DEF MainInv
  <2>3. ASSUME NEW h \in Host, Start(h) PROVE MainInv'
    <3>1. \E s \in Session : session'[s].at = "hello" /\ \A t \in Session \ {s} : session'[t] = session[t]
      BY <2>3, ActSteps
    <3>. QED  BY <2>2, <2>3, <3>1, ActSteps
  <2>4. ASSUME NEW h \in Host, Exit(h) PROVE MainInv'
    <3>. DEFINE t == device[h].session
    <3>1. UNCHANGED <<main, list, thread, twins>> /\ \A k \in Device : thread[k].at # "add"
      BY <1>1, <2>4, ActSteps, Calm, SettledIs
    <3>2. /\ device[h].at = "on" /\ t \in Session
          /\ \A s \in Session \ {t} : session'[s] = session[s]
      BY <2>4, ActSteps
    <3>3. \E k \in Device : m[k].session = t
      BY <1>1, <2>1, <3>1, <3>2 DEF ServedInv
    <3>. QED  BY <2>2, <3>1, <3>2, <3>3 DEF AddReconnected
  <2>5. ASSUME NEW s \in Session, Works(s) PROVE MainInv'
    <3>. DEFINE h == session[s].host
    <3>1. /\ UNCHANGED <<main, thread>> /\ h \in Host /\ session'[s].host = h
          /\ \A t \in Session \ {s} : session'[t] = session[t] /\ Idle(t)
      BY <1>1, <2>5, WorksIs, WorkSteps DEF QuietInv
    <3>2. \A k \in Device : ~Pending(k) /\ ~Pending(k)' /\ ~AddReconnected(k)
      BY <1>1, <2>1, <2>5, <3>1, WorksIs DEF ServedInv, Pending, AddReconnected
    <3>3. ASSUME UNCHANGED <<list, twins>>, session'[s].at # "exit" \/ session[s].at = "full",
                 session'[s].at # "full"
          PROVE  MainInv'
      BY <2>2, <3>1, <3>2, <3>3 DEF Idle
    <3>4. ~twins => Lists(m)
      BY <1>1, <2>1, <3>2, ListsAre DEF MainInv
    <3>5. ASSUME ~twins' => Lists(list'[main]),
                 \A t \in Session : session'[t].at \in {"full", "exit"} /\ ~twins' =>
                   h \notin Hosts(list'[main]) /\ t = s
          PROVE  MainInv'
      <4>1. ~twins' =>
              /\ list'[main'][1].host = list'[main'][2].host /\ list'[main'][1].host # NoHost =>
                   list'[main'][1].session = 0 \/ list'[main'][2].session = 0
              /\ \A k \in Device : list'[main'][k].host # NoHost /\ list'[main'][k].session = 0 =>
                   \E j \in Device \ {k} : /\ list'[main'][j].host = list'[main'][k].host
                                           /\ list'[main'][j].session # 0
        BY <2>1, <3>5, ListsAre
      <4>2. \A t \in Session : session'[t].at \in {"full", "exit"} /\ ~twins' =>
              \A k \in Device : list'[main'][k].host # session'[t].host
        BY <2>1, <3>1, <3>5, DevicesAssumption DEF Hosts
      <4>. QED  BY <3>2, <4>1, <4>2 DEF MainInv
    <3>6. CASE AddDevice(s)
      <4>1. /\ list'[main] = Add(m, h, s)
            /\ ~twins' => ~twins /\ h \notin Hosts(m)
            /\ session'[s].at = IF Full(m, h) THEN "full" ELSE "listed"
        BY <2>1, <2>5, <3>6, WorkSteps DEF AddDevice, ListType
      <4>2. CASE Full(m, h)
        <5>1. Add(m, h, s) = m
          BY <4>2 DEF Full, Add, Device
        <5>. HIDE DEF h, m
        <5>. QED  BY <3>1, <3>4, <3>5, <4>1, <5>1 DEF Idle
      <4>3. CASE ~Full(m, h)
        <5>1. ~twins' => Lists(Add(m, h, s))
          <6>. HIDE DEF h, m
          <6>. QED  BY <2>1, <3>1, <3>4, <4>1, <4>3, ListsAdd
        <5>2. \A t \in Session : session'[t].at \notin {"full", "exit"}
          BY <3>1, <4>1, <4>3 DEF Idle
        <5>. HIDE DEF h, m
        <5>. QED  BY <3>5, <4>1, <5>1, <5>2
      <4>. QED  BY <4>2, <4>3
    <3>7. CASE EndCommunications(s)
      <4>1. list'[main] = RemoveSockets(m, s) /\ twins' = twins /\ session'[s].at = "removed"
        BY <2>1, <2>5, <3>7, WorkSteps DEF EndCommunications, ListType
      <4>2. ~twins' => Lists(RemoveSockets(m, s))
        <5>. HIDE DEF m
        <5>. QED  BY <2>1, <3>4, <4>1, ListsRemove
      <4>3. \A t \in Session : session'[t].at \notin {"full", "exit"}
        BY <3>1, <4>1 DEF Idle
      <4>. HIDE DEF h, m
      <4>. QED  BY <3>5, <4>1, <4>2, <4>3
    <3>8. CASE PropagateDevice(s) \/ GetSyncDir(s) \/ Reject(s) \/ PropagateRemoval(s)
      BY <2>5, <3>3, <3>8, WorkSteps
    <3>. QED  BY <2>5, <3>6, <3>7, <3>8 DEF Works
  <2>6. ASSUME NEW k \in Device, ConnectToClient(k) PROVE MainInv'
    <3>1. /\ UNCHANGED <<list, twins>> /\ \A j \in Device : ~AddReconnected(j)
      <4>1. \A j \in Device : AddReconnected(j) => list' = list /\ UNCHANGED session
        BY <2>6 DEF ConnectToClient, AddReconnected
      <4>2. session' # session
        BY <2>6, ConnectIs
      <4>. QED  BY <2>6, <4>1, <4>2 DEF ConnectToClient, Rest
    <3>2. \A s \in Session : session'[s] = session[s] \/ session'[s].at = "serving"
      BY <2>6, ConnectIs
    <3>. QED  BY <2>2, <3>1, <3>2
  <2>7. ASSUME UNCHANGED <<session, thread, twins>>, list'[main] = m PROVE MainInv'
    BY <2>2, <2>7
  <2>8. ASSUME NEW c \in Backup, NEW at, NEW type, Receives(c, at, type),
               UNCHANGED list \/ \E l : list' = [list EXCEPT ![c] = l]
        PROVE  MainInv'
    <3>1. c # main /\ UNCHANGED <<session, thread, twins>>
      BY <2>8 DEF Receives, Rest
    <3>2. list'[main] = m
      BY <2>1, <2>8, <3>1 DEF ListType
    <3>. QED  BY <2>7, <3>1, <3>2
  <2>9. ASSUME NEW c \in Backup,
               \/ Receives(c, "list", "node") /\ ReceiveNode(c)
               \/ Receives(c, "list", "eot") /\ ReceiveEot(c)
               \/ Receives(c, "list", "info") /\ ReceiveUnparsed(c)
               \/ Receives(c, "list", "delete") /\ ReceiveNothing(c)
               \/ Receives(c, "sync", "info") /\ SyncInfo(c)
               \/ Receives(c, "sync", "delete") /\ SyncDelete(c)
        PROVE  MainInv'
    <3>1. UNCHANGED list \/ \E l : list' = [list EXCEPT ![c] = l]
      BY <2>9 DEF ReceiveNode, ReceiveEot, ReceiveUnparsed, ReceiveNothing, SyncInfo, SyncDelete
    <3>. QED  BY <2>8, <2>9, <3>1
  <2>10. ASSUME UNCHANGED <<list, session, twins>>, ~\E k \in Device : AddReconnected(k)
         PROVE  MainInv'
    BY <2>2, <2>10
  <2>11. ASSUME NEW h \in Host, Kill(h) PROVE MainInv'
    BY <2>7, <2>11, ActSteps
  <2>12. ASSUME NEW c \in Backup, AddBackupServer(c) \/ SendClients(c) \/ SendEot(c) PROVE MainInv'
    BY <2>7, <2>12 DEF AddBackupServer, SendClients, SendEot, Rest, Act
  <2>. QED
    BY <1>3, <2>1, <2>3, <2>4, <2>5, <2>6, <2>9, <2>10, <2>11, <2>12, MainReconnected, OtherSteps
<1>. QED  BY <1>2, <1>3

-----------------------------------------------------------------------------
(* The theorem.                                                            *)

\* All of it holds throughout.
LEMMA KnowAlways == Spec => [](ListedInv /\ KnowInv)
<1>1. Init => KnowInv
  BY KnowInit DEF KnowInv
<1>2. ListedInv /\ KnowInv /\ [Next]_vars => KnowInv'
  BY QuietNext, ServesNext, JoinNext, DueNext, MainNext DEF KnowInv
<1>. QED  BY <1>1, <1>2, ListedAlways, PTL DEF Spec

\* When all is settled, and was whenever somebody acted, the backups know the host
\* names that the main server knows, also after one took over, unless a program
\* started on a host that was listed; and then, until one takes over, they have
\* every device that is served and none that is not listed.
THEOREM BackupsKnowDevicesAlways == Spec => []BackupsKnowDevices
<1>1. ListedInv /\ KnowInv => BackupsKnowDevices
  <2>. SUFFICES ASSUME ListedInv, KnowInv, Settled, hasty = 0,
                       NEW b \in Backup, place[b] = "sync"
                PROVE  /\ ~twins => Hosts(list[b]) = Hosts(list[main])
                       /\ main = Primary =>
                            /\ {h \in Host : On(h)} \subseteq Hosts(list[b])
                            /\ Hosts(list[b]) \subseteq Hosts(list[main])
    BY DEF BackupsKnowDevices
  <2>1. main # Nobody /\ Good(list[b])
    BY SettledIs DEF KnowInv
  <2>2. list[b] \in Slots /\ list[main] \in Slots
    BY <2>1 DEF ListedInv, TypeInv, ListType, MainType, Server
  <2>3. ~twins => Hosts(list[b]) = Hosts(list[main])
    BY <2>1 DEF Good, Same, Reference
  <2>4. main = Primary => \A h \in Host : On(h) => h \in Hosts(list[b])
    BY <2>1 DEF Good, Counted, On
  <2>5. main = Primary => Hosts(list[b]) \subseteq Hosts(list[main])
    BY <2>1, <2>2, WithinHosts DEF Good
  <2>. QED  BY <2>3, <2>4, <2>5
<1>. QED  BY <1>1, KnowAlways, PTL
=============================================================================
