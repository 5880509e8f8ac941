--------------------------- MODULE ElectionProofs ---------------------------
(***************************************************************************)
(* For every number of backups, and whether or not they may be killed:     *)
(* Election is type correct, only the highest id is ever promoted, and it  *)
(* is promoted only after every backup gave up on the original main        *)
(* server; no ring socket is closed with a packet unread in it; and the    *)
(* fail-over is one that Succession allows.                                *)
(***************************************************************************)
EXTENDS Election, SequenceTheorems, TLAPS

-----------------------------------------------------------------------------
(* Type correctness.                                                       *)

\* A write to the ring leaves its channels and the places well typed.
LEMMA WriteType ==
  ASSUME TypeOK, NEW i \in Server, NEW m \in Packet, NEW next \in Place,
         NEW rest \in [Server -> Seq(Packet)], Write(i, rest, m, next)
  PROVE  pc' \in [Node -> Place] /\ ring' \in [Server -> Seq(Packet)]
<1>1. i \in Node /\ "down" \in Place
  BY DEF Node, Place
<1>2. Append(rest[i], m) \in Seq(Packet)
  BY AppendProperties
<1>3. pc \in [Node -> Place]
  BY DEF TypeOK
<1>4. CASE pc' = [pc EXCEPT ![i] = next] /\ ring' = [rest EXCEPT ![i] = Append(@, m)]
  BY <1>1, <1>2, <1>3, <1>4
<1>5. CASE pc' = [pc EXCEPT ![i] = "down"] /\ ring' = rest
  BY <1>1, <1>3, <1>5
<1>. QED  BY <1>4, <1>5 DEF Write

\* A packet read off the ring is one, and leaves the channels well typed.
LEMMA ReceiveType ==
  ASSUME TypeOK, NEW i \in Server, NEW m, Receives(i, m)
  PROVE  m \in Packet /\ Rest(i) \in [Server -> Seq(Packet)]
<1>1. ring[incoming[i]] \in Seq(Packet) /\ ring[incoming[i]] # <<>>
  BY DEF Receives, TypeOK
<1>2. m \in Packet /\ Tail(ring[incoming[i]]) \in Seq(Packet)
  BY <1>1, HeadTailProperties DEF Receives
<1>. QED  BY <1>2 DEF Rest, Receives, TypeOK

\* Every step keeps the variables in their types.
LEMMA TypeStep == TypeOK /\ [Next]_vars => TypeOK'
<1>. SUFFICES ASSUME TypeOK, [Next]_vars PROVE TypeOK'
  OBVIOUS
<1>. USE DEF TypeOK, Node, Place, RingEnd
<1>1. ASSUME NEW n \in Node, Crash(n) PROVE TypeOK'
  BY <1>1 DEF Crash
<1>2. ASSUME NEW n \in Node, HeartbeatBrokenPipe(n) PROVE TypeOK'
  BY <1>2 DEF HeartbeatBrokenPipe
<1>3. ASSUME NEW i \in Server, TimerExpires(i) PROVE TypeOK'
  BY <1>3 DEF TimerExpires
<1>4. ASSUME NEW i \in Server, DeleteServer(i) PROVE TypeOK'
  <2>1. known[i] \ {feed[i]} \in SUBSET Server
    OBVIOUS
  <2>. QED  BY <1>4, <2>1 DEF DeleteServer
<1>5. ASSUME NEW i \in Server, BuildRing(i) PROVE TypeOK'
  <2>1. PICK j \in Server :
          \/ pc' = [pc EXCEPT ![i] = "down"] /\ outgoing' = outgoing
          \/ /\ pc' = [pc EXCEPT ![i] = "ring"]
             /\ outgoing' = [outgoing EXCEPT ![i] =
                  IF @ # Fresh THEN @ ELSE IF Down(j) THEN Failed ELSE j]
    BY <1>5 DEF BuildRing
  <2>2. pc' \in [Node -> Place]
    BY <2>1
  <2>3. (IF outgoing[i] # Fresh THEN outgoing[i] ELSE IF Down(j) THEN Failed ELSE j)
          \in RingEnd
    OBVIOUS
  <2>4. outgoing' \in [Server -> RingEnd]
    BY <2>1, <2>3, ZenonT(60)
  <2>. QED  BY <1>5, <2>2, <2>4 DEF BuildRing
<1>6. ASSUME NEW i \in Server, AcceptElectionConnection(i) PROVE TypeOK'
  BY <1>6 DEF AcceptElectionConnection
<1>7. ASSUME NEW i \in Server, StartRingElection(i) PROVE TypeOK'
  <2>1. [type |-> "ELECTION", id |-> i] \in Packet
    BY DEF Packet
  <2>2. pc' \in [Node -> Place] /\ ring' \in [Server -> Seq(Packet)]
    <3>1. CASE participant[i]
      BY <1>7, <3>1 DEF StartRingElection
    <3>2. CASE ~participant[i]
      BY <1>7, <2>1, <3>2, WriteType DEF StartRingElection
    <3>. QED  BY <3>1, <3>2
  <2>. QED  BY <1>7, <2>2 DEF StartRingElection
<1>8. ASSUME NEW i \in Server, HandleElection(i) PROVE TypeOK'
  <2>1. CASE RelayElection(i)
    BY <2>1, ReceiveType, WriteType DEF RelayElection
  <2>2. CASE DropElection(i)
    BY <2>2, ReceiveType DEF DropElection
  <2>3. CASE WinElection(i)
    <3>1. [type |-> "ELECTED", id |-> i] \in Packet
      BY DEF Packet
    <3>. QED  BY <2>3, <3>1, ReceiveType, WriteType DEF WinElection
  <2>4. CASE LearnLeader(i)
    BY <2>4, ReceiveType, WriteType DEF LearnLeader, CloseOldConnections
  <2>5. CASE BecomeElected(i)
    <3>1. known[i] \ {i} \in SUBSET Server
      OBVIOUS
    <3>. QED  BY <2>5, <3>1, ReceiveType DEF BecomeElected, CloseOldConnections
  <2>. QED  BY <1>8, <2>1, <2>2, <2>3, <2>4, <2>5 DEF HandleElection
<1>9. ASSUME NEW i \in Server, StaleVote(i) PROVE TypeOK'
  BY <1>9 DEF StaleVote
<1>10. ASSUME NEW l \in Server, ReconnectToServer(l) PROVE TypeOK'
  BY <1>10 DEF ReconnectToServer
<1>11. ASSUME NEW l \in Server, ReconnectExits(l) PROVE TypeOK'
  BY <1>11 DEF ReconnectExits
<1>12. ASSUME NEW l \in Server, AnnounceMain(l) PROVE TypeOK'
  <2>1. pc' = [pc EXCEPT ![l] = "main"] \/ pc' = [pc EXCEPT ![l] = "down"]
    BY <1>12, Zenon DEF AnnounceMain
  <2>2. pc' \in [Node -> Place]
    BY <2>1
  <2>3. CASE notice' = [j \in Server |-> notice[j] \/ j \in known[l]]
    BY <1>12, <2>2, <2>3 DEF AnnounceMain
  <2>4. CASE \E k \in known[l] : notice' = [j \in Server |-> notice[j] \/ (j \in known[l] /\ j < k)]
    BY <1>12, <2>2, <2>4 DEF AnnounceMain
  <2>. QED  BY <1>12, <2>3, <2>4 DEF AnnounceMain
<1>13. CASE UNCHANGED vars
  BY <1>13 DEF vars
<1>. QED
  BY <1>1, <1>2, <1>3, <1>4, <1>5, <1>6, <1>7, <1>8, <1>9, <1>10, <1>11,
     <1>12, <1>13 DEF Next, Backup, HeartbeatLost, HeartbeatLate

\* Every variable of the fail-over protocol always has its type.
THEOREM TypeCorrect == Spec => []TypeOK
<1>1. Init => TypeOK
  BY EmptySeq DEF Init, TypeOK, Node, Place, RingEnd, Primary, Server, Fresh
<1>2. TypeOK /\ [Next]_vars => TypeOK'
  BY TypeStep
<1>. QED  BY <1>1, <1>2, PTL DEF Spec

-----------------------------------------------------------------------------
(* The inductive invariant.                                                *)

Succ(i) == IF i = N-1 THEN 0 ELSE i + 1

\* The packets that may travel from k to its successor.  Two ids ever do: the
\* sender's own and the greatest.  The greatest got as far as k because it and
\* all below k left the main server, and it is elected once all have.
Legal(k) ==
  {m \in Packet :
     /\ m.id \in {k, N-1}
     /\ m.type = "ELECTED" => m.id = N-1 /\ \A j \in Server : Left(j)
     /\ m.type = "ELECTION" /\ m.id = N-1 =>
          Left(N-1) /\ (k # N-1 => \A j \in 0 .. k : Left(j))}

RingInv == \A k \in Server : ring[k] \in Seq(Legal(k))

\* The ring sockets follow the order of the ids.
SocketInv ==
  \A i \in Server :
    /\ outgoing[i] \in Server => outgoing[i] = Succ(i)
    /\ \A p \in Server : incoming[i] = p => i = Succ(p)
    /\ outgoing[i] = Fresh => known[i] = Server

\* What the place of a backup says of its sockets.
PlaceInv ==
  \A i \in Server :
    /\ pc[i] \in {"ring", "vote", "accept"} \/ suspects[i] => Left(i)
    /\ pc[i] = "accept" \/ feed[i] # Primary => outgoing[i] = Closed
    /\ notice[i] => feed[i] # Primary

LeaderInv ==
  \A i \in Server : Leads(i) => i = N-1 /\ \A j \in Server : Left(j)

IInv == TypeOK /\ RingInv /\ SocketInv /\ PlaceInv /\ LeaderInv

-----------------------------------------------------------------------------
(* What each step does to the parts of the invariant.                      *)

\* A backup that left the original main server never comes back to it.
LEMMA LeftStable ==
  ASSUME TypeOK, [Next]_vars, NEW j \in Server, Left(j)
  PROVE  Left(j)'
<1>. USE DEF Left
<1>1. CASE feed' = feed /\ link' = link
  BY <1>1
<1>2. ASSUME NEW i \in Server, TimerExpires(i) PROVE Left(j)'
  BY <1>2 DEF TimerExpires, TypeOK
<1>3. ASSUME NEW l \in Server, ReconnectToServer(l) PROVE Left(j)'
  <2>1. l # Primary
    BY ElectionAssumption DEF Server, Primary
  <2>2. PICK k \in Server : feed' = [feed EXCEPT ![k] = l] /\ link' = [link EXCEPT ![k] = "open"]
    BY <1>3 DEF ReconnectToServer
  <2>. QED  BY <2>1, <2>2 DEF TypeOK
<1>. QED
  BY <1>1, <1>2, <1>3
  DEF Next, Backup, HeartbeatLost, HeartbeatLate, Crash, HeartbeatBrokenPipe,
      DeleteServer, BuildRing, AcceptElectionConnection, StartRingElection,
      HandleElection, RelayElection, DropElection, WinElection, LearnLeader,
      BecomeElected, StaleVote, ReconnectExits, AnnounceMain, vars

\* So a packet that may travel goes on being one that may.
LEMMA LegalGrows ==
  ASSUME TypeOK, [Next]_vars, NEW k \in Server
  PROVE  Legal(k) \subseteq Legal(k)'
<1>1. \A j \in Server : Left(j) => Left(j)'
  BY LeftStable
<1>2. N-1 \in Server /\ 0 .. k \subseteq Server
  BY ElectionAssumption DEF Server
<1>. QED  BY <1>1, <1>2 DEF Legal

\* More is legal in the next state.
LEMMA UnchangedRing ==
  ASSUME TypeOK, RingInv, [Next]_vars, ring' = ring
  PROVE  RingInv'
BY LegalGrows, SeqMonotonic DEF RingInv

\* Reading takes a legal packet of the predecessor and leaves legal channels.
LEMMA ReceiveLegal ==
  ASSUME TypeOK, RingInv, SocketInv, NEW i \in Server, NEW m, Receives(i, m)
  PROVE  /\ incoming[i] \in Server /\ i = Succ(incoming[i])
         /\ m \in Legal(incoming[i])
         /\ Rest(i) \in [Server -> Seq(Packet)]
         /\ \A k \in Server : Rest(i)[k] \in Seq(Legal(k))
<1>1. incoming[i] \in Server /\ i = Succ(incoming[i])
  BY DEF Receives, SocketInv
<1>2. ring[incoming[i]] \in Seq(Legal(incoming[i])) /\ ring[incoming[i]] # <<>>
  BY <1>1 DEF Receives, RingInv
<1>3. m \in Legal(incoming[i]) /\ Tail(ring[incoming[i]]) \in Seq(Legal(incoming[i]))
  BY <1>2, HeadTailProperties DEF Receives
<1>. QED  BY <1>1, <1>3, ReceiveType DEF Rest, RingInv, TypeOK

\* Writing a legal packet, or dying in the attempt, leaves legal channels.
LEMMA WriteLegal ==
  ASSUME TypeOK, [Next]_vars, NEW i \in Server, NEW next \in Place,
         NEW rest \in [Server -> Seq(Packet)],
         \A k \in Server : rest[k] \in Seq(Legal(k)),
         NEW m \in Legal(i)', Write(i, rest, m, next)
  PROVE  RingInv'
<1>1. \A k \in Server : rest[k] \in Seq(Legal(k)')
  BY LegalGrows, SeqMonotonic
<1>2. CASE ring' = [rest EXCEPT ![i] = Append(@, m)]
  <2>1. Append(rest[i], m) \in Seq(Legal(i)')
    BY <1>1, AppendProperties
  <2>2. SUFFICES ASSUME NEW k \in Server PROVE ring'[k] \in Seq(Legal(k)')
    BY DEF RingInv
  <2>3. CASE k = i
    BY <1>2, <2>1, <2>3
  <2>4. CASE k # i
    BY <1>1, <1>2, <2>4
  <2>. QED  BY <2>3, <2>4
<1>3. CASE ring' = rest
  BY <1>1, <1>3 DEF RingInv
<1>. QED  BY <1>2, <1>3 DEF Write

\* Every packet that a step sends is legal.
LEMMA RingStep ==
  ASSUME IInv, [Next]_vars
  PROVE  RingInv'
<1>. USE DEF IInv
<1>1. CASE ring' = ring
  BY <1>1, UnchangedRing
<1>2. \A i \in Server : Left(i) => Left(i)'
  BY LeftStable
<1>3. \A i \in Server : i \in Int /\ 0 <= i /\ i < N /\ 0 .. i \subseteq Server
  BY ElectionAssumption DEF Server
<1>4. N \in Nat \ {0} /\ N-1 \in Server
  BY ElectionAssumption DEF Server
<1>5. ASSUME NEW i \in Server, StartRingElection(i) PROVE RingInv'
  <2>1. CASE participant[i]
    BY <1>1, <1>5, <2>1 DEF StartRingElection
  <2>2. CASE ~participant[i]
    <3>. DEFINE m == [type |-> "ELECTION", id |-> i]
    <3>1. Left(i)'
      BY <1>2, <1>5 DEF StartRingElection, PlaceInv
    <3>2. m \in Legal(i)'
      BY <1>3, <3>1 DEF Legal, Packet
    <3>3. Write(i, ring, m, "vote")
      BY <1>5, <2>2 DEF StartRingElection
    <3>. QED  BY <3>2, <3>3, WriteLegal DEF RingInv, TypeOK, Place
  <2>. QED  BY <2>1, <2>2
<1>6. ASSUME NEW i \in Server, RelayElection(i) PROVE RingInv'
  <2>1. PICK m : Receives(i, m) /\ m.type = "ELECTION" /\ i < m.id /\ Write(i, Rest(i), m, "vote")
    BY <1>6 DEF RelayElection
  <2>2. m \in Legal(incoming[i]) /\ i = Succ(incoming[i]) /\ incoming[i] \in Server
    BY <2>1, ReceiveLegal
  <2>3. m \in Packet /\ m.id = N-1 /\ i # N-1
    BY <1>3, <1>4, <2>1, <2>2 DEF Legal, Succ
  <2>4. Left(i)
    BY <2>1 DEF Receives, PlaceInv
  <2>5. \A j \in 0 .. i : j \in 0 .. incoming[i] \/ j = i
    BY <1>3, <1>4, <2>2 DEF Succ
  <2>6. Left(N-1) /\ \A j \in 0 .. i : Left(j)
    BY <1>3, <1>4, <2>1, <2>2, <2>3, <2>4, <2>5 DEF Legal, Succ
  <2>7. m \in Legal(i)'
    BY <1>2, <1>3, <1>4, <2>1, <2>3, <2>6 DEF Legal
  <2>. QED  BY <2>1, <2>7, ReceiveLegal, WriteLegal DEF Place
<1>7. ASSUME NEW i \in Server, DropElection(i) PROVE RingInv'
  <2>1. PICK m : Receives(i, m)
    BY <1>7 DEF DropElection
  <2>2. \A k \in Server : ring'[k] \in Seq(Legal(k))
    BY <1>7, <2>1, ReceiveLegal DEF DropElection
  <2>. QED  BY <2>2, LegalGrows, SeqMonotonic DEF RingInv
<1>8. ASSUME NEW i \in Server, WinElection(i) PROVE RingInv'
  <2>. DEFINE e == [type |-> "ELECTED", id |-> i]
  <2>1. PICK m : Receives(i, m) /\ m.type = "ELECTION" /\ m.id = i /\ Write(i, Rest(i), e, "vote")
    BY <1>8 DEF WinElection
  <2>2. m \in Legal(incoming[i]) /\ i = Succ(incoming[i]) /\ incoming[i] \in Server
    BY <2>1, ReceiveLegal
  <2>3. i = N-1
    BY <1>3, <1>4, <2>1, <2>2 DEF Legal, Succ
  <2>4. \A j \in Server : j = N-1 \/ j \in 0 .. incoming[i]
    BY <1>3, <1>4, <2>2, <2>3 DEF Succ, Server
  <2>5. \A j \in Server : Left(j)
    BY <1>3, <1>4, <2>1, <2>2, <2>3, <2>4 DEF Legal, Succ
  <2>6. e \in Legal(i)'
    BY <1>2, <2>3, <2>5 DEF Legal, Packet
  <2>. QED  BY <2>1, <2>6, ReceiveLegal, WriteLegal DEF Place
<1>9. ASSUME NEW i \in Server, LearnLeader(i) PROVE RingInv'
  <2>1. PICK m : Receives(i, m) /\ m.type = "ELECTED" /\ Write(i, Rest(i), m, "accept")
    BY <1>9 DEF LearnLeader
  <2>2. m \in Legal(incoming[i])
    BY <2>1, ReceiveLegal
  <2>3. m \in Legal(i)'
    BY <1>2, <2>1, <2>2 DEF Legal
  <2>. QED  BY <2>1, <2>3, ReceiveLegal, WriteLegal DEF Place
<1>10. ASSUME NEW i \in Server, BecomeElected(i) PROVE RingInv'
  <2>1. PICK m : Receives(i, m)
    BY <1>10 DEF BecomeElected
  <2>2. \A k \in Server : ring'[k] \in Seq(Legal(k))
    BY <1>10, <2>1, ReceiveLegal DEF BecomeElected
  <2>. QED  BY <2>2, LegalGrows, SeqMonotonic DEF RingInv
<1>. QED
  BY <1>1, <1>5, <1>6, <1>7, <1>8, <1>9, <1>10
  DEF Next, Backup, HandleElection, HeartbeatLost, HeartbeatLate, TimerExpires,
      Crash, HeartbeatBrokenPipe, DeleteServer, BuildRing,
      AcceptElectionConnection, StaleVote, ReconnectToServer, ReconnectExits,
      AnnounceMain, vars

\* Ring sockets only ever connect a backup to its successor.
LEMMA SocketStep ==
  ASSUME IInv, [Next]_vars
  PROVE  SocketInv'
<1>. USE DEF IInv
<1>1. N \in Nat \ {0} /\ \A i \in Server : i \in Int /\ 0 <= i /\ i < N
  BY ElectionAssumption DEF Server
<1>2. Fresh \notin Server /\ Failed \notin Server /\ Closed \notin Server
        /\ Closed # Fresh /\ Failed # Fresh
  BY <1>1 DEF Fresh, Failed, Closed
<1>3. CASE outgoing' = outgoing /\ incoming' = incoming /\ known' = known
  BY <1>3 DEF SocketInv
<1>4. ASSUME NEW i \in Server, DeleteServer(i) PROVE SocketInv'
  <2>1. outgoing[i] = Closed /\ outgoing' = outgoing /\ incoming' = incoming
          /\ known' = [known EXCEPT ![i] = @ \ {feed[i]}]
    BY <1>4 DEF DeleteServer, PlaceInv
  <2>2. \A k \in Server : k # i => known'[k] = known[k]
    BY <2>1 DEF TypeOK, Node
  <2>. QED  BY <1>2, <2>1, <2>2 DEF SocketInv
<1>5. ASSUME NEW i \in Server, BuildRing(i) PROVE SocketInv'
  <2>1. incoming' = incoming /\ known' = known
    BY <1>5 DEF BuildRing
  <2>2. CASE outgoing' = outgoing
    BY <1>3, <2>1, <2>2
  <2>3. CASE outgoing' # outgoing
    <3>1. PICK j \in Server :
            /\ IsNext(i, j)
            /\ outgoing' = [outgoing EXCEPT ![i] =
                 IF @ # Fresh THEN @ ELSE IF Down(j) THEN Failed ELSE j]
      BY <1>5, <2>3 DEF BuildRing
    <3>2. CASE outgoing[i] = Fresh
      <4>1. known[i] = Server
        BY <3>2 DEF SocketInv
      <4>2. 0 \in Server /\ (i # N-1 => i+1 \in Server) /\ N-1 \in Server
        BY <1>1 DEF Server
      <4>3. j = Succ(i)
        BY <1>1, <3>1, <4>1, <4>2 DEF IsNext, Succ
      <4>4. outgoing'[i] \in {Failed, j} /\ \A k \in Server : k # i => outgoing'[k] = outgoing[k]
        BY <3>1, <3>2 DEF TypeOK
      <4>. QED  BY <1>2, <2>1, <4>3, <4>4 DEF SocketInv
    <3>3. CASE outgoing[i] # Fresh
      BY <2>3, <3>1, <3>3 DEF TypeOK
    <3>. QED  BY <3>2, <3>3
  <2>. QED  BY <2>2, <2>3
<1>6. ASSUME NEW i \in Server, AcceptElectionConnection(i) PROVE SocketInv'
  <2>1. PICK p \in Server : outgoing[p] = i /\ incoming' = [incoming EXCEPT ![i] = p]
    BY <1>6 DEF AcceptElectionConnection
  <2>2. i = Succ(p)
    BY <2>1 DEF SocketInv
  <2>3. outgoing' = outgoing /\ known' = known
    BY <1>6 DEF AcceptElectionConnection
  <2>. QED  BY <2>1, <2>2, <2>3 DEF SocketInv, TypeOK
<1>7. ASSUME NEW i \in Server, CloseOldConnections(i),
             \A k \in Server : k # i => known'[k] = known[k]
      PROVE  SocketInv'
  <2>1. SUFFICES ASSUME NEW k \in Server
                 PROVE /\ outgoing'[k] \in Server => outgoing'[k] = Succ(k)
                       /\ \A p \in Server : incoming'[k] = p => k = Succ(p)
                       /\ outgoing'[k] = Fresh => known'[k] = Server
    BY DEF SocketInv
  <2>2. CASE k = i
    BY <1>2, <1>7, <2>2 DEF CloseOldConnections, TypeOK
  <2>3. CASE k # i
    BY <1>7, <2>3 DEF CloseOldConnections, SocketInv, TypeOK
  <2>. QED  BY <2>2, <2>3
<1>8. ASSUME NEW i \in Server, LearnLeader(i) PROVE SocketInv'
  BY <1>7, <1>8 DEF LearnLeader
<1>9. ASSUME NEW i \in Server, BecomeElected(i) PROVE SocketInv'
  <2>1. known' = [known EXCEPT ![i] = @ \ {i}] /\ CloseOldConnections(i)
    BY <1>9 DEF BecomeElected
  <2>2. \A k \in Server : k # i => known'[k] = known[k]
    BY <2>1 DEF TypeOK, Node
  <2>. QED  BY <1>7, <2>1, <2>2
<1>. QED
  BY <1>3, <1>4, <1>5, <1>6, <1>8, <1>9
  DEF Next, Backup, HandleElection, HeartbeatLost, HeartbeatLate, TimerExpires,
      Crash, HeartbeatBrokenPipe, StartRingElection, RelayElection,
      DropElection, WinElection, StaleVote, ReconnectToServer, ReconnectExits,
      AnnounceMain, vars

\* What a write does to the places.
LEMMA WritePlace ==
  ASSUME TypeOK, NEW i \in Server, NEW rest, NEW m, NEW next, Write(i, rest, m, next)
  PROVE  pc'[i] \in {next, "down"} /\ \A k \in Node \ {i} : pc'[k] = pc[k]
<1>1. pc' = [pc EXCEPT ![i] = next] \/ pc' = [pc EXCEPT ![i] = "down"]
  BY DEF Write
<1>. QED  BY <1>1 DEF TypeOK, Node

\* A backup leaves the main server before it joins the ring, and its ring
\* sockets are closed before it has another main server.
LEMMA PlaceStep ==
  ASSUME IInv, [Next]_vars
  PROVE  PlaceInv'
<1>. USE DEF IInv
<1>1. \A k \in Server : k \in Node /\ k # Primary /\ (Left(k) => Left(k)')
  BY LeftStable, ElectionAssumption DEF Server, Node, Primary
<1>2. Closed # Fresh
  BY DEF Closed, Fresh
<1>3. ASSUME \A k \in Server : pc'[k] \in {pc[k], "down", "evolve", "main"},
             \A k \in Server : suspects'[k] => suspects[k],
             feed' = feed, notice' = notice, outgoing' = outgoing
      PROVE  PlaceInv'
  BY <1>1, <1>3 DEF PlaceInv
<1>4. ASSUME NEW n \in Node, Crash(n) \/ HeartbeatBrokenPipe(n) PROVE PlaceInv'
  <2>1. pc' = [pc EXCEPT ![n] = "down"]
    BY <1>4 DEF Crash, HeartbeatBrokenPipe
  <2>2. \A k \in Server : pc'[k] \in {pc[k], "down"}
    BY <1>1, <2>1 DEF TypeOK
  <2>. QED  BY <1>3, <1>4, <2>2 DEF Crash, HeartbeatBrokenPipe
<1>5. ASSUME NEW i \in Server, TimerExpires(i) PROVE PlaceInv'
  <2>1. Left(i)'
    BY <1>5 DEF TimerExpires, Left, TypeOK
  <2>2. \A k \in Server : k # i => suspects'[k] = suspects[k]
    BY <1>5 DEF TimerExpires, TypeOK
  <2>. QED  BY <1>1, <1>5, <2>1, <2>2 DEF TimerExpires, PlaceInv
<1>6. ASSUME NEW i \in Server, DeleteServer(i) PROVE PlaceInv'
  <2>1. \A k \in Server : notice'[k] => notice[k]
    BY <1>6 DEF DeleteServer, TypeOK
  <2>. QED  BY <1>1, <1>6, <2>1 DEF DeleteServer, PlaceInv
<1>7. ASSUME NEW i \in Server, BuildRing(i) PROVE PlaceInv'
  <2>1. Left(i)
    BY <1>7 DEF BuildRing, PlaceInv
  <2>2. pc'[i] \in {"down", "ring"} /\ \A k \in Server : k # i => pc'[k] = pc[k]
    <3>1. pc' = [pc EXCEPT ![i] = "down"] \/ pc' = [pc EXCEPT ![i] = "ring"]
      BY <1>7, Zenon DEF BuildRing
    <3>. QED  BY <1>1, <3>1 DEF TypeOK
  <2>3. \A k \in Server : outgoing[k] = Closed => outgoing'[k] = Closed
    BY <1>2, <1>7 DEF BuildRing, TypeOK
  <2>4. suspects' = suspects /\ feed' = feed /\ notice' = notice
    BY <1>7 DEF BuildRing
  <2>. QED  BY <1>1, <2>1, <2>2, <2>3, <2>4 DEF PlaceInv
<1>8. ASSUME NEW i \in Server, StartRingElection(i) PROVE PlaceInv'
  <2>1. pc'[i] \in {"vote", "down"} /\ \A k \in Server : k # i => pc'[k] = pc[k]
    <3>1. CASE participant[i]
      BY <1>1, <1>8, <3>1 DEF StartRingElection, TypeOK
    <3>2. CASE ~participant[i]
      BY <1>1, <1>8, <3>2, WritePlace DEF StartRingElection
    <3>. QED  BY <3>1, <3>2
  <2>2. Left(i) /\ \A k \in Server : suspects'[k] => suspects[k]
    BY <1>8 DEF StartRingElection, PlaceInv, TypeOK
  <2>. QED  BY <1>1, <1>8, <2>1, <2>2 DEF StartRingElection, PlaceInv
<1>9. ASSUME NEW i \in Server, RelayElection(i) \/ WinElection(i) \/ DropElection(i)
      PROVE  PlaceInv'
  <2>1. pc'[i] \in {"vote", "down"} /\ \A k \in Server : k # i => pc'[k] = pc[k]
    BY <1>1, <1>9, WritePlace DEF RelayElection, WinElection, DropElection, Receives
  <2>2. Left(i)
    BY <1>9 DEF RelayElection, WinElection, DropElection, Receives, PlaceInv
  <2>3. suspects' = suspects /\ feed' = feed /\ notice' = notice /\ outgoing' = outgoing
    BY <1>9 DEF RelayElection, WinElection, DropElection
  <2>. QED  BY <1>1, <2>1, <2>2, <2>3 DEF PlaceInv
<1>10. ASSUME NEW i \in Server, LearnLeader(i) \/ BecomeElected(i) PROVE PlaceInv'
  <2>1. pc'[i] \in {"accept", "evolve", "down"} /\ \A k \in Server : k # i => pc'[k] = pc[k]
    <3>1. CASE LearnLeader(i)
      BY <1>1, <3>1, WritePlace DEF LearnLeader
    <3>2. CASE BecomeElected(i)
      BY <1>1, <3>2 DEF BecomeElected, TypeOK
    <3>. QED  BY <1>10, <3>1, <3>2
  <2>2. Left(i)
    BY <1>10 DEF LearnLeader, BecomeElected, Receives, PlaceInv
  <2>3. outgoing'[i] = Closed /\ \A k \in Server : k # i => outgoing'[k] = outgoing[k]
    BY <1>10 DEF LearnLeader, BecomeElected, CloseOldConnections, TypeOK
  <2>4. suspects' = suspects /\ feed' = feed /\ notice' = notice
    BY <1>10 DEF LearnLeader, BecomeElected
  <2>. QED  BY <1>1, <2>1, <2>2, <2>3, <2>4 DEF PlaceInv
<1>11. ASSUME NEW i \in Server, StaleVote(i) \/ ReconnectExits(i) PROVE PlaceInv'
  <2>1. pc' = [pc EXCEPT ![i] = "down"]
    BY <1>11 DEF StaleVote, ReconnectExits
  <2>2. \A k \in Server : pc'[k] \in {pc[k], "down"}
    BY <1>1, <2>1 DEF TypeOK
  <2>. QED  BY <1>3, <1>11, <2>2 DEF StaleVote, ReconnectExits
<1>12. ASSUME NEW l \in Server, ReconnectToServer(l) PROVE PlaceInv'
  <2>1. PICK j \in Server :
          /\ pc[j] = "accept"
          /\ pc' = [pc EXCEPT ![j] = "sync"]
          /\ feed' = [feed EXCEPT ![j] = l]
    BY <1>12 DEF ReconnectToServer
  <2>2. outgoing[j] = Closed /\ Left(j)
    BY <2>1 DEF PlaceInv
  <2>3. pc'[j] = "sync" /\ feed'[j] = l
        /\ \A k \in Server : k # j => pc'[k] = pc[k] /\ feed'[k] = feed[k]
    BY <1>1, <2>1 DEF TypeOK
  <2>4. suspects' = suspects /\ notice' = notice /\ outgoing' = outgoing
    BY <1>12 DEF ReconnectToServer
  <2>. QED  BY <1>1, <2>2, <2>3, <2>4 DEF PlaceInv
<1>13. ASSUME NEW l \in Server, AnnounceMain(l) PROVE PlaceInv'
  <2>1. \A k \in Server : notice'[k] => notice[k] \/ feed[k] = l
    BY <1>1, <1>13 DEF AnnounceMain, TypeOK
  <2>2. pc' = [pc EXCEPT ![l] = "main"] \/ pc' = [pc EXCEPT ![l] = "down"]
    BY <1>13, Zenon DEF AnnounceMain
  <2>3. \A k \in Server : pc'[k] \in {pc[k], "main", "down"}
    BY <1>1, <2>2 DEF TypeOK
  <2>4. suspects' = suspects /\ feed' = feed /\ outgoing' = outgoing
    BY <1>13 DEF AnnounceMain
  <2>. QED  BY <1>1, <2>1, <2>3, <2>4 DEF PlaceInv
<1>14. ASSUME NEW i \in Server, AcceptElectionConnection(i) PROVE PlaceInv'
  BY <1>3, <1>14 DEF AcceptElectionConnection
<1>15. CASE UNCHANGED vars
  BY <1>3, <1>15 DEF vars
<1>. QED
  BY <1>4, <1>5, <1>6, <1>7, <1>8, <1>9, <1>10, <1>11, <1>12, <1>13, <1>14,
     <1>15 DEF Next, Backup, HandleElection, HeartbeatLost, HeartbeatLate

\* Only the packet ELECTED that came round promotes a backup.
LEMMA LeaderStep ==
  ASSUME IInv, [Next]_vars
  PROVE  LeaderInv'
<1>. USE DEF IInv
<1>1. \A k \in Server : k \in Node /\ (Left(k) => Left(k)')
  BY LeftStable DEF Node
<1>2. ASSUME \A k \in Server : Leads(k)' => Leads(k) PROVE LeaderInv'
  BY <1>1, <1>2 DEF LeaderInv
<1>3. ASSUME NEW i \in Server, BecomeElected(i) PROVE LeaderInv'
  <2>1. PICK m : Receives(i, m) /\ m.type = "ELECTED" /\ m.id = i
    BY <1>3 DEF BecomeElected
  <2>2. i = N-1 /\ \A j \in Server : Left(j)
    BY <2>1, ReceiveLegal DEF Legal
  <2>3. \A k \in Server : k # i => pc'[k] = pc[k]
    BY <1>1, <1>3 DEF BecomeElected, TypeOK
  <2>. QED  BY <1>1, <2>2, <2>3 DEF LeaderInv, Leads
<1>4. ASSUME NEW l \in Server, AnnounceMain(l) PROVE LeaderInv'
  <2>1. pc' = [pc EXCEPT ![l] = "main"] \/ pc' = [pc EXCEPT ![l] = "down"]
    BY <1>4, Zenon DEF AnnounceMain
  <2>2. pc[l] = "evolve"
    BY <1>4 DEF AnnounceMain
  <2>. QED  BY <1>1, <1>2, <2>1, <2>2 DEF Leads, TypeOK
<1>5. ASSUME NEW n \in Node, NEW p \in {"down", "sync", "ring", "vote", "accept"},
             pc' = [pc EXCEPT ![n] = p]
      PROVE  LeaderInv'
  BY <1>1, <1>2, <1>5 DEF Leads, TypeOK
<1>6. ASSUME pc' = pc PROVE LeaderInv'
  BY <1>2, <1>6 DEF Leads
<1>7. ASSUME NEW i \in Server, NEW rest, NEW m, NEW p \in {"vote", "accept"},
             Write(i, rest, m, p)
      PROVE  LeaderInv'
  BY <1>1, <1>5, <1>7 DEF Write
<1>8. ASSUME NEW i \in Server, BuildRing(i) PROVE LeaderInv'
  <2>1. pc' = [pc EXCEPT ![i] = "down"] \/ pc' = [pc EXCEPT ![i] = "ring"]
    BY <1>8, Zenon DEF BuildRing
  <2>. QED  BY <1>1, <1>5, <2>1
<1>9. ASSUME NEW i \in Server, StartRingElection(i) PROVE LeaderInv'
  BY <1>1, <1>5, <1>7, <1>9 DEF StartRingElection
<1>10. ASSUME NEW i \in Server, RelayElection(i) \/ WinElection(i) \/ LearnLeader(i)
       PROVE  LeaderInv'
  BY <1>7, <1>10 DEF RelayElection, WinElection, LearnLeader
<1>11. ASSUME NEW l \in Server, ReconnectToServer(l) PROVE LeaderInv'
  BY <1>1, <1>5, <1>11 DEF ReconnectToServer
<1>. QED
  BY <1>1, <1>3, <1>4, <1>5, <1>6, <1>8, <1>9, <1>10, <1>11
  DEF Next, Backup, HandleElection, HeartbeatLost, HeartbeatLate, TimerExpires,
      Crash, HeartbeatBrokenPipe, DeleteServer, AcceptElectionConnection,
      DropElection, StaleVote, ReconnectExits, vars

-----------------------------------------------------------------------------
(* The theorems.                                                           *)

\* The inductive invariant holds throughout.
THEOREM Invariance == Spec => []IInv
<1>1. Init => IInv
  <2>. SUFFICES ASSUME Init PROVE IInv
    OBVIOUS
  <2>1. TypeOK
    BY EmptySeq DEF Init, TypeOK, Node, Place, RingEnd, Primary, Server, Fresh
  <2>2. RingInv
    BY EmptySeq DEF Init, RingInv
  <2>3. Fresh \notin Server
    BY ElectionAssumption DEF Fresh, Server
  <2>4. \A i \in Server : i # Primary /\ i \in Node
    BY ElectionAssumption DEF Primary, Server, Node
  <2>. QED  BY <2>1, <2>2, <2>3, <2>4 DEF Init, IInv, SocketInv, PlaceInv, LeaderInv, Leads
<1>2. IInv /\ [Next]_vars => IInv'
  BY TypeStep, RingStep, SocketStep, PlaceStep, LeaderStep DEF IInv
<1>. QED  BY <1>1, <1>2, PTL DEF Spec

\* Only the greatest id is ever promoted, so never two backups.
THEOREM HighestElected == Spec => []OnlyHighestElected
<1>1. IInv => OnlyHighestElected
  BY DEF IInv, LeaderInv, OnlyHighestElected
<1>. QED  BY <1>1, Invariance, PTL

\* No backup is promoted while another still follows the original main server.
THEOREM Unanimity == Spec => []UnanimousElection
<1>1. IInv => UnanimousElection
  BY DEF IInv, LeaderInv, UnanimousElection
<1>. QED  BY <1>1, Invariance, PTL

-----------------------------------------------------------------------------
(* Nothing is unread in a ring socket when it is closed.                   *)

\* The packets of the winner, and where they are.
Bid   == [type |-> "ELECTION", id |-> N-1]
Final == [type |-> "ELECTED", id |-> N-1]

Holds(r, k, m) == \E n \in 1 .. Len(r[k]) : r[k][n] = m

\* The winner's bid goes round once, and then its ELECTED, as the last packet
\* of each channel: r are the channels, C the servers that left the ring, and
\* b says that the winner takes part.
Pass(r, C, b) ==
  /\ \A i \in C, j \in Server : j < i => j \in C
  /\ \A k \in Server : Holds(r, k, Final) => k = N-1 \/ k \in C
  /\ \A k \in Server : \A n \in 1 .. Len(r[k]) : r[k][n] = Final => n = Len(r[k])
  /\ C # {} \/ (\E k \in Server : Holds(r, k, Final)) =>
       b /\ \A k \in Server : ~Holds(r, k, Bid)
  /\ \A j, k \in Server : \A m \in 1 .. Len(r[j]), n \in 1 .. Len(r[k]) :
       r[j][m] = Bid /\ r[k][n] = Bid => j = k /\ m = n
  /\ (\E k \in Server : Holds(r, k, Bid)) => b
  /\ \A k \in Server : Succ(k) \in C => r[k] = <<>>

\* The ring: the successors, and the two packets of the winner.
LEMMA SuccServer ==
  /\ N-1 \in Server /\ Succ(N-1) = 0
  /\ \A k \in Server : Succ(k) \in Server /\ (k # N-1 => Succ(k) = k + 1 /\ k < Succ(k))
  /\ \A j, k \in Server : Succ(j) = Succ(k) => j = k
  /\ Server \subseteq Int /\ \A k \in Server : 0 <= k /\ k <= N-1
  /\ Bid \in Packet /\ Final \in Packet /\ Bid # Final
BY ElectionAssumption DEF Server, Succ, Bid, Final, Packet

\* Reading takes the first packet of one channel.
LEMMA PassRead ==
  ASSUME NEW r \in [Server -> Seq(Packet)], NEW C \in SUBSET Server, NEW b \in BOOLEAN,
         Pass(r, C, b), NEW p \in Server, r[p] # <<>>
  PROVE  /\ Pass([r EXCEPT ![p] = Tail(@)], C, b)
         /\ Head(r[p]) = Final => Pass([r EXCEPT ![p] = Tail(@)], C \cup {Succ(p)}, b)
         /\ Head(r[p]) = Bid => /\ C = {} /\ b
                                /\ \A k \in Server : /\ ~Holds(r, k, Final)
                                                     /\ ~Holds([r EXCEPT ![p] = Tail(@)], k, Bid)
                                                     /\ ~Holds([r EXCEPT ![p] = Tail(@)], k, Final)
<1>. DEFINE s == [r EXCEPT ![p] = Tail(@)]
<1>1. /\ \A k \in Server : Len(r[k]) \in Nat
      /\ Len(r[p]) >= 1 /\ Head(r[p]) = r[p][1]
      /\ s[p] = Tail(r[p]) /\ Len(s[p]) = Len(r[p]) - 1 /\ Tail(r[p]) \in Seq(Packet)
      /\ \A n \in 1 .. Len(s[p]) : s[p][n] = r[p][n+1] /\ n+1 \in 1 .. Len(r[p])
      /\ \A k \in Server : k # p => s[k] = r[k]
  <2>1. r[p] \in Seq(Packet) /\ \A k \in Server : Len(r[k]) \in Nat
    BY LenProperties
  <2>2. Len(r[p]) >= 1
    BY <2>1, EmptySeq
  <2>3. Tail(r[p]) \in Seq(Packet) /\ Len(Tail(r[p])) = Len(r[p]) - 1
        /\ \A n \in 1 .. Len(Tail(r[p])) : Tail(r[p])[n] = r[p][n+1]
    BY <2>1, HeadTailProperties
  <2>4. Head(r[p]) = r[p][1]
    BY <2>1, <2>2
  <2>. QED  BY <2>1, <2>2, <2>3, <2>4
<1>2. ASSUME NEW k \in Server, NEW m, Holds(s, k, m) PROVE Holds(r, k, m)
  <2>1. PICK n \in 1 .. Len(s[k]) : s[k][n] = m
    BY <1>2 DEF Holds
  <2>2. CASE k = p
    <3>. HIDE DEF s
    <3>1. n + 1 \in 1 .. Len(r[k]) /\ r[k][n+1] = m
      BY <1>1, <2>1, <2>2
    <3>. QED  BY <3>1 DEF Holds
  <2>3. CASE k # p
    <3>. HIDE DEF s
    <3>. QED  BY <1>1, <2>1, <2>3 DEF Holds
  <2>. QED  BY <2>2, <2>3
<1>3. Pass(s, C, b)
  <2>. DEFINE At(k, n) == IF k = p THEN n + 1 ELSE n
  <2>. HIDE DEF s
  <2>4. \A k \in Server : \A n \in 1 .. Len(s[k]) :
          At(k, n) \in 1 .. Len(r[k]) /\ r[k][At(k, n)] = s[k][n]
    BY <1>1
  <2>1. ASSUME NEW k \in Server, NEW n \in 1 .. Len(s[k]), s[k][n] = Final PROVE n = Len(s[k])
    <3>1. At(k, n) \in 1 .. Len(r[k]) /\ r[k][At(k, n)] = Final
      BY <2>1, <2>4
    <3>2. At(k, n) = Len(r[k])
      <4>. HIDE DEF At
      <4>. QED  BY <3>1 DEF Pass
    <3>. QED  BY <1>1, <3>2
  <2>2. \A j, k \in Server : \A m \in 1 .. Len(s[j]), n \in 1 .. Len(s[k]) :
          s[j][m] = Bid /\ s[k][n] = Bid => j = k /\ m = n
    <3>. HIDE DEF s
    <3>1. SUFFICES ASSUME NEW j \in Server, NEW k \in Server,
                          NEW m \in 1 .. Len(s[j]), NEW n \in 1 .. Len(s[k]),
                          s[j][m] = Bid, s[k][n] = Bid
                   PROVE  j = k /\ m = n
      BY Zenon
    <3>2. \A x, y \in Server : \A u \in 1 .. Len(r[x]), v \in 1 .. Len(r[y]) :
            r[x][u] = Bid /\ r[y][v] = Bid => x = y /\ u = v
      BY DEF Pass
    <3>3. /\ At(j, m) \in 1 .. Len(r[j]) /\ r[j][At(j, m)] = Bid
          /\ At(k, n) \in 1 .. Len(r[k]) /\ r[k][At(k, n)] = Bid
      BY <2>4, <3>1
    <3>4. j = k /\ At(j, m) = At(k, n)
      <4>. HIDE DEF At
      <4>. QED  BY <3>2, <3>3, Zenon
    <3>. QED  BY <3>4
  <2>3. \A k \in Server : Succ(k) \in C => s[k] = <<>>
    BY <1>1 DEF Pass
  <2>. QED  BY <1>2, <2>1, <2>2, <2>3 DEF Pass
<1>4. ASSUME Head(r[p]) = Final PROVE Pass(s, C \cup {Succ(p)}, b)
  <2>1. Holds(r, p, Final)
    BY <1>1, <1>4 DEF Holds
  <2>2. p = N-1 \/ p \in C
    BY <2>1 DEF Pass
  <2>3. s[p] = <<>>
    <3>1. Len(r[p]) = 1
      BY <1>1, <1>4 DEF Pass
    <3>. QED  BY <1>1, <3>1, EmptySeq
  <2>4. \A i \in C \cup {Succ(p)}, j \in Server : j < i => j \in C \cup {Succ(p)}
    BY <2>2, SuccServer DEF Pass
  <2>5. \A k \in Server : Succ(k) \in C \cup {Succ(p)} => s[k] = <<>>
    BY <1>3, <2>3, SuccServer DEF Pass
  <2>6. b /\ \A k \in Server : ~Holds(s, k, Bid)
    BY <1>2, <2>1 DEF Pass
  <2>. QED  BY <1>3, <2>4, <2>5, <2>6 DEF Pass
<1>5. ASSUME Head(r[p]) = Bid
      PROVE  C = {} /\ b /\ \A k \in Server : ~Holds(r, k, Final) /\ ~Holds(s, k, Bid) /\ ~Holds(s, k, Final)
  <2>1. Holds(r, p, Bid)
    BY <1>1, <1>5 DEF Holds
  <2>2. C = {} /\ b /\ \A k \in Server : ~Holds(r, k, Final)
    BY <2>1 DEF Pass
  <2>3. \A k \in Server : ~Holds(s, k, Bid)
    <3>1. SUFFICES ASSUME NEW k \in Server, NEW n \in 1 .. Len(s[k]), s[k][n] = Bid PROVE FALSE
      BY DEF Holds
    <3>2. \A v \in 1 .. Len(r[k]) : r[k][v] = Bid => k = p /\ v = 1
      BY <1>1, <1>5 DEF Pass
    <3>3. CASE k = p
      BY <1>1, <3>1, <3>2, <3>3
    <3>4. CASE k # p
      BY <1>1, <3>1, <3>2, <3>4
    <3>. QED  BY <3>3, <3>4
  <2>. QED  BY <1>2, <2>2, <2>3
<1>. QED  BY <1>3, <1>4, <1>5

\* Writing adds a last packet to one channel: the writer's own bid, or the
\* winner's when it is nowhere else, or ELECTED by one that leaves.
LEMMA PassWrite ==
  ASSUME NEW r \in [Server -> Seq(Packet)], NEW C \in SUBSET Server, NEW b \in BOOLEAN,
         Pass(r, C, b), NEW i \in Server, NEW m \in Packet, Succ(i) \notin C,
         ~Holds(r, i, Final),
         \/ m # Bid /\ m # Final
         \/ m = Bid /\ b /\ C = {} /\ \A k \in Server : ~Holds(r, k, Final) /\ ~Holds(r, k, Bid)
         \/ m = Final /\ b /\ (i = N-1 \/ i \in C) /\ \A k \in Server : ~Holds(r, k, Bid)
  PROVE  Pass([r EXCEPT ![i] = Append(@, m)], C, b)
<1>. DEFINE s == [r EXCEPT ![i] = Append(@, m)]
<1>1. /\ \A k \in Server : Len(r[k]) \in Nat
      /\ Len(s[i]) = Len(r[i]) + 1 /\ s[i][Len(s[i])] = m
      /\ \A n \in 1 .. Len(r[i]) : s[i][n] = r[i][n]
      /\ \A n \in 1 .. Len(s[i]) : n \in 1 .. Len(r[i]) \/ n = Len(s[i])
      /\ \A k \in Server : k # i => s[k] = r[k]
  BY AppendProperties, LenProperties
<1>2. \A k \in Server : \A x : Holds(s, k, x) => Holds(r, k, x) \/ (k = i /\ x = m)
  BY <1>1 DEF Holds
<1>3. \A k \in Server : \A n \in 1 .. Len(s[k]) : s[k][n] = Final => n = Len(s[k])
  <2>1. \A n \in 1 .. Len(r[i]) : r[i][n] # Final
    BY DEF Holds
  <2>. QED  BY <1>1, <2>1 DEF Pass
<1>4. \A j, k \in Server : \A u \in 1 .. Len(s[j]), v \in 1 .. Len(s[k]) :
        s[j][u] = Bid /\ s[k][v] = Bid => j = k /\ u = v
  <2>1. CASE m = Bid
    <3>1. \A k \in Server : \A n \in 1 .. Len(r[k]) : r[k][n] # Bid
      BY <2>1, SuccServer DEF Holds
    <3>2. \A k \in Server : \A n \in 1 .. Len(s[k]) : s[k][n] = Bid => k = i /\ n = Len(s[i])
      BY <1>1, <3>1
    <3>. QED  BY <3>2
  <2>2. CASE m # Bid
    <3>1. \A k \in Server : \A n \in 1 .. Len(s[k]) : s[k][n] = Bid =>
            n \in 1 .. Len(r[k]) /\ r[k][n] = Bid
      BY <1>1, <2>2
    <3>. QED  BY <3>1 DEF Pass
  <2>. QED  BY <2>1, <2>2
<1>5. \A k \in Server : Succ(k) \in C => s[k] = <<>>
  BY <1>1 DEF Pass
<1>6. \A k \in Server : Holds(s, k, Final) => k = N-1 \/ k \in C
  BY <1>2, SuccServer DEF Pass
<1>7. C # {} \/ (\E k \in Server : Holds(s, k, Final)) => b /\ \A k \in Server : ~Holds(s, k, Bid)
  <2>1. CASE m = Final
    BY <1>2, <2>1, SuccServer DEF Pass
  <2>2. CASE m = Bid
    BY <1>2, <2>2, SuccServer DEF Pass
  <2>3. CASE m # Bid /\ m # Final
    BY <1>2, <2>3 DEF Pass
  <2>. QED  BY <2>1, <2>2, <2>3
<1>8. (\E k \in Server : Holds(s, k, Bid)) => b
  BY <1>2 DEF Pass
<1>. QED  BY <1>3, <1>4, <1>5, <1>6, <1>7, <1>8 DEF Pass

\* The servers that closed their ring sockets, both at once.
Shut == {i \in Server : incoming[i] = Closed}

PassInv ==
  /\ \A i \in Server : incoming[i] = Closed <=> outgoing[i] = Closed
  /\ Pass(ring, Shut, participant[N-1])

\* A step that touches no channel and closes no socket.
LEMMA PassKept ==
  ASSUME TypeOK, PassInv, ring' = ring, participant' = participant,
         \A i \in Server : (incoming'[i] = Closed <=> incoming[i] = Closed)
                           /\ (outgoing'[i] = Closed <=> outgoing[i] = Closed)
  PROVE  PassInv'
<1>1. Shut' = Shut
  BY DEF Shut
<1>. QED  BY <1>1 DEF PassInv

\* What handle_election reads.
LEMMA PassReceive ==
  ASSUME IInv, PassInv, NEW i \in Server, NEW m, Receives(i, m)
  PROVE  /\ m \in Packet /\ m.id \in Server /\ m.type \in {"ELECTION", "ELECTED"}
         /\ Rest(i) \in [Server -> Seq(Packet)]
         /\ i \notin Shut /\ outgoing[i] # Closed
         /\ Pass(Rest(i), Shut, participant[N-1])
         /\ \A k \in Server : Holds(Rest(i), k, Final) => Holds(ring, k, Final)
         /\ m.type = "ELECTED" => /\ m = Final
                                  /\ Pass(Rest(i), Shut \cup {i}, participant[N-1])
         /\ m.type = "ELECTION" /\ i <= m.id =>
              /\ m = Bid /\ Shut = {} /\ participant[N-1]
              /\ \A k \in Server : ~Holds(Rest(i), k, Bid) /\ ~Holds(Rest(i), k, Final)
<1>. DEFINE p == incoming[i]
<1>1. TypeOK /\ ring \in [Server -> Seq(Packet)] /\ RingInv /\ SocketInv
  BY DEF IInv, TypeOK
<1>2. /\ p \in Server /\ i = Succ(p) /\ m \in Legal(p) /\ m = Head(ring[p]) /\ ring[p] # <<>>
      /\ Rest(i) = [ring EXCEPT ![p] = Tail(@)] /\ Rest(i) \in [Server -> Seq(Packet)]
  BY <1>1, ReceiveLegal DEF Receives, Rest
<1>3. m \in Packet /\ m.id \in Server /\ m.type \in {"ELECTION", "ELECTED"} /\ m.id \in {p, N-1}
      /\ m = [type |-> m.type, id |-> m.id]
  BY <1>2 DEF Legal, Packet
<1>4. i \notin Shut /\ outgoing[i] # Closed
  <2>1. Closed \notin Server
    BY DEF Closed, Server
  <2>. QED  BY <1>2, <2>1 DEF Shut, PassInv
<1>5. Shut \in SUBSET Server /\ participant[N-1] \in BOOLEAN
  BY <1>1, SuccServer DEF Shut, TypeOK
<1>6. /\ Pass(Rest(i), Shut, participant[N-1])
      /\ m = Final => Pass(Rest(i), Shut \cup {i}, participant[N-1])
      /\ m = Bid => /\ Shut = {} /\ participant[N-1]
                    /\ \A k \in Server : ~Holds(Rest(i), k, Bid) /\ ~Holds(Rest(i), k, Final)
  <2>. DEFINE s == [ring EXCEPT ![p] = Tail(@)]
  <2>1. /\ Pass(s, Shut, participant[N-1])
        /\ Head(ring[p]) = Final => Pass(s, Shut \cup {Succ(p)}, participant[N-1])
        /\ Head(ring[p]) = Bid => /\ Shut = {} /\ participant[N-1]
                                /\ \A k \in Server : /\ ~Holds(ring, k, Final)
                                                     /\ ~Holds(s, k, Bid)
                                                     /\ ~Holds(s, k, Final)
    <3>. DEFINE C == Shut
                b == participant[N-1]
    <3>1. Pass(ring, C, b) /\ ring \in [Server -> Seq(Packet)]
      BY <1>1 DEF PassInv, TypeOK
    <3>2. C \in SUBSET Server /\ b \in BOOLEAN /\ p \in Server /\ ring[p] # <<>>
      BY <1>2, <1>5
    <3>3. /\ Pass(s, C, b)
          /\ Head(ring[p]) = Final => Pass(s, C \cup {Succ(p)}, b)
          /\ Head(ring[p]) = Bid => /\ C = {} /\ b
                                  /\ \A k \in Server : /\ ~Holds(ring, k, Final)
                                                       /\ ~Holds(s, k, Bid)
                                                       /\ ~Holds(s, k, Final)
      <4>. HIDE DEF C, b, p
      <4>. QED  BY <3>1, <3>2, PassRead
    <3>. QED  BY <3>3
  <2>. QED  BY <1>2, <2>1
<1>7. m.type = "ELECTED" => m = Final
  BY <1>2, <1>3 DEF Legal, Final
<1>8. m.type = "ELECTION" /\ i <= m.id => m = Bid
  BY <1>2, <1>3, SuccServer, ElectionAssumption DEF Bid, Succ, Server
<1>9. \A k \in Server : Holds(Rest(i), k, Final) => Holds(ring, k, Final)
  <2>1. SUFFICES ASSUME NEW k \in Server, NEW n \in 1 .. Len(Rest(i)[k]), Rest(i)[k][n] = Final
                 PROVE  Holds(ring, k, Final)
    BY DEF Holds
  <2>2. CASE k # p
    BY <1>1, <1>2, <2>1, <2>2 DEF Holds
  <2>3. CASE k = p
    <3>1. Rest(i)[k] = Tail(ring[k])
      BY <1>1, <1>2, <2>3
    <3>2. n + 1 \in 1 .. Len(ring[k]) /\ ring[k][n+1] = Final
      BY <1>1, <1>2, <2>1, <2>3, <3>1, HeadTailProperties, LenProperties
    <3>. QED  BY <3>2 DEF Holds
  <2>. QED  BY <2>2, <2>3
<1>. QED  BY <1>2, <1>3, <1>4, <1>6, <1>7, <1>8, <1>9

\* Whoever is still in the ring has a successor that is, unless the winner
\* already told it to leave.
LEMMA StillIn ==
  ASSUME NEW r, NEW C \in SUBSET Server, NEW b, Pass(r, C, b), NEW i \in Server \ C,
         i # N-1 \/ C = {}
  PROVE  Succ(i) \notin C /\ (i # N-1 => ~Holds(r, i, Final))
BY SuccServer DEF Pass

\* A backup that writes, or dies in the attempt, without leaving the ring.
LEMMA PassWritten ==
  ASSUME TypeOK, PassInv, NEW i \in Server, NEW m \in Packet, NEW next,
         NEW r \in [Server -> Seq(Packet)], Write(i, r, m, next),
         UNCHANGED <<incoming, outgoing>>,
         participant'[N-1] \in BOOLEAN, Pass(r, Shut, participant'[N-1]),
         i \notin Shut, Succ(i) \notin Shut, ~Holds(r, i, Final),
         \/ m # Bid /\ m # Final
         \/ /\ m = Bid /\ participant'[N-1] /\ Shut = {}
            /\ \A k \in Server : ~Holds(r, k, Final) /\ ~Holds(r, k, Bid)
         \/ m = Final /\ participant'[N-1] /\ i = N-1 /\ \A k \in Server : ~Holds(r, k, Bid)
  PROVE  PassInv'
<1>1. Shut' = Shut /\ Shut \in SUBSET Server
  BY DEF Shut
<1>2. CASE ring' = r
  BY <1>1, <1>2 DEF PassInv
<1>3. CASE ring' = [r EXCEPT ![i] = Append(@, m)]
  <2>1. Pass([r EXCEPT ![i] = Append(@, m)], Shut, participant'[N-1])
    BY <1>1, PassWrite
  <2>. QED  BY <1>1, <1>3, <2>1 DEF PassInv
<1>. QED  BY <1>2, <1>3 DEF Write

\* close_old_connections.
LEMMA ShutGrows ==
  ASSUME TypeOK, PassInv, NEW i \in Server, CloseOldConnections(i)
  PROVE  /\ Shut' = Shut \cup {i}
         /\ \A k \in Server : (incoming[k] = Closed <=> outgoing[k] = Closed)'
BY DEF CloseOldConnections, TypeOK, Shut, PassInv

\* The winner's bid, and then its ELECTED, are passed on by every step.
LEMMA PassStep ==
  ASSUME IInv, PassInv, [Next]_vars
  PROVE  PassInv'
<1>1. /\ TypeOK /\ TypeOK' /\ ring \in [Server -> Seq(Packet)] /\ N-1 \in Server
      /\ participant[N-1] \in BOOLEAN /\ participant'[N-1] \in BOOLEAN /\ Shut \in SUBSET Server
  BY TypeStep, SuccServer DEF IInv, TypeOK, Shut
<1>2. CASE UNCHANGED <<ring, participant, incoming, outgoing>>
  BY <1>1, <1>2, PassKept
<1>3. ASSUME NEW i \in Server, BuildRing(i) PROVE PassInv'
  <2>1. /\ UNCHANGED <<ring, participant, incoming>>
        /\ \A k \in Server : outgoing'[k] # outgoing[k] =>
             outgoing[k] # Closed /\ outgoing'[k] # Closed
    <3>1. Fresh # Closed /\ Failed # Closed /\ Closed \notin Server
      BY DEF Fresh, Failed, Closed, Server
    <3>. QED  BY <1>1, <1>3, <3>1 DEF BuildRing, TypeOK
  <2>. QED  BY <1>1, <2>1, PassKept
<1>4. ASSUME NEW i \in Server, AcceptElectionConnection(i) PROVE PassInv'
  <2>1. /\ UNCHANGED <<ring, participant, outgoing>>
        /\ \A k \in Server : incoming'[k] # incoming[k] =>
             incoming[k] # Closed /\ incoming'[k] # Closed
    <3>1. Fresh # Closed /\ Closed \notin Server
      BY DEF Fresh, Closed, Server
    <3>. QED  BY <1>1, <1>4, <3>1 DEF AcceptElectionConnection, TypeOK
  <2>. QED  BY <1>1, <2>1, PassKept
<1>5. ASSUME NEW i \in Server, StartRingElection(i) PROVE PassInv'
  <2>1. /\ UNCHANGED <<incoming, outgoing>>
        /\ participant' = [participant EXCEPT ![i] = TRUE]
        /\ participant'[i] /\ (i # N-1 => participant'[N-1] = participant[N-1])
    BY <1>1, <1>5 DEF StartRingElection, TypeOK
  <2>2. CASE participant[i]
    <3>1. ring' = ring /\ participant' = participant
      BY <1>1, <1>5, <2>1, <2>2 DEF StartRingElection, TypeOK
    <3>. QED  BY <1>1, <2>1, <3>1, PassKept
  <2>3. CASE ~participant[i]
    <3>. DEFINE m == [type |-> "ELECTION", id |-> i]
    <3>1. Write(i, ring, m, "vote") /\ m \in Packet /\ m # Final /\ (m = Bid <=> i = N-1)
      BY <1>5, <2>3 DEF StartRingElection, Packet, Bid, Final
    <3>2. CASE i \in Shut
      <4>1. outgoing[i] \notin Server
        BY <3>2 DEF Shut, PassInv, Closed, Server
      <4>2. ring' = ring
        BY <3>1, <4>1 DEF Write
      <4>3. participant[N-1] /\ participant'[N-1]
        BY <2>1, <3>2 DEF PassInv, Pass
      <4>4. Shut' = Shut
        BY <2>1 DEF Shut
      <4>. QED  BY <2>1, <4>2, <4>3, <4>4 DEF PassInv
    <3>3. CASE i \notin Shut /\ i # N-1
      <4>1. Succ(i) \notin Shut /\ ~Holds(ring, i, Final)
        BY <1>1, <3>3, StillIn DEF PassInv
      <4>2. Pass(ring, Shut, participant'[N-1])
        BY <2>1, <3>3 DEF PassInv
      <4>. QED  BY <1>1, <2>1, <3>1, <3>3, <4>1, <4>2, PassWritten
    <3>4. CASE i \notin Shut /\ i = N-1
      <4>1. Shut = {} /\ \A k \in Server : ~Holds(ring, k, Final) /\ ~Holds(ring, k, Bid)
        BY <2>3, <3>4 DEF PassInv, Pass
      <4>2. Pass(ring, Shut, participant'[N-1])
        BY <2>1, <3>4, <4>1 DEF PassInv, Pass
      <4>. QED  BY <1>1, <2>1, <3>1, <3>4, <4>1, <4>2, PassWritten
    <3>. QED  BY <3>2, <3>3, <3>4
  <2>. QED  BY <2>2, <2>3
<1>6. ASSUME NEW i \in Server, RelayElection(i) PROVE PassInv'
  <2>1. PICK m \in Packet : /\ Receives(i, m) /\ m.type = "ELECTION" /\ i < m.id
                            /\ Write(i, Rest(i), m, "vote")
    BY <1>6 DEF RelayElection
  <2>2. i <= m.id
    BY <2>1 DEF Packet, Server
  <2>3. UNCHANGED <<incoming, outgoing, participant>>
    BY <1>6 DEF RelayElection
  <2>. QED  BY <1>1, <2>1, <2>2, <2>3, PassReceive, PassWritten
<1>7. ASSUME NEW i \in Server, DropElection(i) PROVE PassInv'
  <2>1. PICK m \in Packet : Receives(i, m)
    BY <1>7 DEF DropElection
  <2>2. UNCHANGED <<incoming, outgoing, participant>> /\ ring' = Rest(i)
    BY <1>7 DEF DropElection
  <2>3. Shut' = Shut
    BY <2>2 DEF Shut
  <2>. QED  BY <2>1, <2>2, <2>3, PassReceive DEF PassInv
<1>8. ASSUME NEW i \in Server, WinElection(i) PROVE PassInv'
  <2>. DEFINE e == [type |-> "ELECTED", id |-> i]
  <2>1. PICK m \in Packet : /\ Receives(i, m) /\ m.type = "ELECTION" /\ i = m.id
                            /\ Write(i, Rest(i), e, "vote")
    BY <1>8 DEF WinElection
  <2>2. i <= m.id
    BY <2>1 DEF Packet, Server
  <2>3. UNCHANGED <<incoming, outgoing, participant>>
    BY <1>8 DEF WinElection
  <2>4. m = Bid
    BY <2>1, <2>2, PassReceive
  <2>5. i = N-1 /\ e = Final /\ e \in Packet
    BY <2>1, <2>4, SuccServer DEF Bid, Final
  <2>. QED  BY <1>1, <2>1, <2>2, <2>3, <2>5, PassReceive, PassWritten, ZenonT(60)
<1>9. ASSUME NEW i \in Server, LearnLeader(i) PROVE PassInv'
  <2>1. PICK m \in Packet : /\ Receives(i, m) /\ m.type = "ELECTED" /\ i # m.id
                            /\ Write(i, Rest(i), m, "accept")
    BY <1>9 DEF LearnLeader
  <2>2. CloseOldConnections(i) /\ participant' = participant
    BY <1>9 DEF LearnLeader
  <2>3. /\ Shut' = Shut \cup {i}
        /\ \A k \in Server : (incoming[k] = Closed <=> outgoing[k] = Closed)'
    BY <1>1, <2>2, ShutGrows
  <2>4. /\ m = Final /\ i # N-1 /\ i \notin Shut
        /\ Rest(i) \in [Server -> Seq(Packet)]
        /\ Pass(Rest(i), Shut \cup {i}, participant[N-1])
    <3>1. m = Final
      BY <2>1, PassReceive
    <3>. QED  BY <2>1, <3>1, PassReceive DEF Final
  <2>5. CASE ring' = Rest(i)
    BY <2>2, <2>3, <2>4, <2>5 DEF PassInv
  <2>6. CASE ring' = [Rest(i) EXCEPT ![i] = Append(@, m)]
    <3>1. Succ(i) \notin Shut /\ ~Holds(ring, i, Final)
      BY <1>1, <2>4, StillIn DEF PassInv
    <3>2. Succ(i) \notin Shut \cup {i} /\ ~Holds(Rest(i), i, Final)
      BY <2>1, <2>4, <3>1, PassReceive, SuccServer
    <3>3. participant[N-1] /\ \A k \in Server : ~Holds(Rest(i), k, Bid)
      BY <2>4 DEF Pass
    <3>4. Pass([Rest(i) EXCEPT ![i] = Append(@, m)], Shut \cup {i}, participant[N-1])
      BY <1>1, <2>4, <3>2, <3>3, SuccServer, PassWrite
    <3>. QED  BY <2>2, <2>3, <2>6, <3>4 DEF PassInv
  <2>. QED  BY <2>1, <2>5, <2>6 DEF Write
<1>10. ASSUME NEW i \in Server, BecomeElected(i) PROVE PassInv'
  <2>1. PICK m \in Packet : Receives(i, m) /\ m.type = "ELECTED"
    BY <1>10 DEF BecomeElected
  <2>2. CloseOldConnections(i) /\ participant' = participant /\ ring' = Rest(i)
    BY <1>10 DEF BecomeElected
  <2>3. /\ Shut' = Shut \cup {i}
        /\ \A k \in Server : (incoming[k] = Closed <=> outgoing[k] = Closed)'
    BY <1>1, <2>2, ShutGrows
  <2>. QED  BY <2>1, <2>2, <2>3, PassReceive DEF PassInv
<1>. QED
  BY <1>2, <1>3, <1>4, <1>5, <1>6, <1>7, <1>8, <1>9, <1>10
  DEF Next, Backup, HandleElection, HeartbeatLost, HeartbeatLate, TimerExpires,
      Crash, HeartbeatBrokenPipe, DeleteServer, StaleVote, ReconnectToServer,
      ReconnectExits, AnnounceMain, vars

\* A predecessor's successor.
LEMMA PredSucc == \A i \in Server : Pred(i) \in Server /\ Succ(Pred(i)) = i
<1>1. \A n \in Nat \ {0} : (0 + n - 1) % n = n - 1 /\ \A i \in 1 .. n-1 : (i + n - 1) % n = i - 1
  OBVIOUS
<1>2. SUFFICES ASSUME NEW i \in Server PROVE Pred(i) \in Server /\ Succ(Pred(i)) = i
  OBVIOUS
<1>3. N \in Nat \ {0} /\ i \in 0 .. N-1
  BY ElectionAssumption DEF Server
<1>4. CASE i = 0
  <2>1. Pred(i) = N - 1
    BY <1>1, <1>3, <1>4 DEF Pred
  <2>. QED  BY <1>3, <1>4, <2>1 DEF Server, Succ
<1>5. CASE i # 0
  <2>1. i \in 1 .. N-1
    BY <1>3, <1>5
  <2>2. (i + N - 1) % N = i - 1
    BY <1>1, <1>3, <2>1, Zenon
  <2>3. Pred(i) = i - 1
    BY <2>2 DEF Pred
  <2>. QED  BY <1>3, <2>1, <2>3 DEF Server, Succ
<1>. QED  BY <1>4, <1>5

\* For every number of backups, close_old_connections cuts no packet off,
\* whoever dies and however late the heartbeats are.
THEOREM NoneLost == Spec => []NoPacketLost
<1>1. Init => PassInv
  <2>. SUFFICES ASSUME Init PROVE PassInv
    OBVIOUS
  <2>1. Closed # Fresh
    BY DEF Closed, Fresh
  <2>2. Shut = {} /\ \A k \in Server : ring[k] = <<>> /\ incoming[k] = Fresh /\ outgoing[k] = Fresh
    BY <2>1 DEF Init, Shut
  <2>3. \A k \in Server : \A m : ~Holds(ring, k, m)
    BY <2>2 DEF Holds
  <2>. QED  BY <2>1, <2>2, <2>3 DEF PassInv, Pass, Holds
<1>2. PassInv => NoPacketLost
  BY PredSucc DEF PassInv, Pass, Shut, NoPacketLost
<1>3. IInv /\ PassInv /\ [Next]_vars => PassInv'
  BY PassStep
<1>. QED  BY <1>1, <1>2, <1>3, Invariance, PTL DEF Spec

-----------------------------------------------------------------------------
(* The fail-over is a succession.                                          *)

Late == {"evolve", "main", "down"}

\* The heir is the last of the list, the only one that leaves its own list, and
\* the only one that others follow; it never follows anyone.
HeirInv ==
  /\ \A i \in Server : feed[i] \in {Primary, N-1}
  /\ feed[N-1] = Primary
  /\ \A i \in Server : i # N-1 => i \in known[i] /\ i \in known[N-1]
  /\ pc[N-1] \in {"evolve", "main"} => N-1 \notin known[N-1]
  /\ N-1 \notin known[N-1] => pc[N-1] \in Late

\* The greatest id, and the order of the ids.
LEMMA LastServer ==
  /\ N-1 \in Server /\ N-1 \in Node /\ Primary \in Node /\ Primary # N-1
  /\ Server \subseteq Node /\ \A i \in Server : i # Primary /\ i \in Int /\ i <= N-1
BY ElectionAssumption DEF Server, Node, Primary

\* Nobody comes back from a promotion, and only an election leads there.
LEMMA PlaceOrder ==
  ASSUME TypeOK, [Next]_vars, NEW i \in Server
  PROVE  /\ pc[i] \in Late => pc'[i] \in Late
         /\ Leads(i)' => Leads(i) \/ BecomeElected(i)
         /\ pc'[i] = "evolve" => pc[i] = "evolve" \/ BecomeElected(i)
<1>. DEFINE Goal == /\ pc[i] \in Late => pc'[i] \in Late
                    /\ Leads(i)' => Leads(i) \/ BecomeElected(i)
                    /\ pc'[i] = "evolve" => pc[i] = "evolve" \/ BecomeElected(i)
<1>. USE DEF Leads, Late
<1>1. ASSUME NEW n \in Node, NEW q \in Place, pc' = [pc EXCEPT ![n] = q],
             \/ q = "down"
             \/ pc[n] = "evolve" /\ q = "main"
             \/ pc[n] \notin Late /\ q \in {"sync", "ring", "vote", "accept"}
      PROVE  Goal
  <2>1. n = i => pc'[i] = q
    BY <1>1 DEF TypeOK, Node
  <2>2. n # i => pc'[i] = pc[i]
    BY <1>1 DEF TypeOK, Node
  <2>. QED  BY <1>1, <2>1, <2>2
<1>2. "down" \in Place /\ "main" \in Place /\ "sync" \in Place /\ "ring" \in Place
        /\ "vote" \in Place /\ "accept" \in Place
  BY DEF Place
<1>3. ASSUME NEW n \in Server, NEW rest, NEW m, NEW q \in {"vote", "accept"},
             pc[n] \in {"ring", "vote"}, Write(n, rest, m, q)
      PROVE  Goal
  BY <1>1, <1>2, <1>3, LastServer DEF Write
<1>4. CASE pc' = pc
  BY <1>4
<1>5. ASSUME NEW n \in Server, StartRingElection(n) PROVE Goal
  BY <1>1, <1>2, <1>3, <1>5, LastServer DEF StartRingElection
<1>6. ASSUME NEW n \in Server, RelayElection(n) \/ WinElection(n) \/ LearnLeader(n) PROVE Goal
  BY <1>3, <1>6 DEF RelayElection, WinElection, LearnLeader, Receives
<1>7. ASSUME NEW n \in Server, BecomeElected(n) PROVE Goal
  <2>1. pc' = [pc EXCEPT ![n] = "evolve"] /\ pc[n] = "vote"
    BY <1>7 DEF BecomeElected, Receives
  <2>2. n # i => pc'[i] = pc[i]
    BY <2>1 DEF TypeOK, Node
  <2>. QED  BY <1>7, <2>1, <2>2, SMTT(60)
<1>8. ASSUME NEW n \in Server, BuildRing(n) PROVE Goal
  <2>1. pc' = [pc EXCEPT ![n] = "down"] \/ pc' = [pc EXCEPT ![n] = "ring"]
    BY <1>8, Zenon DEF BuildRing
  <2>2. pc[n] = "sync"
    BY <1>8 DEF BuildRing
  <2>. QED  BY <1>1, <1>2, <2>1, <2>2, LastServer
<1>9. ASSUME NEW n \in Server, ReconnectToServer(n) PROVE Goal
  <2>1. PICK j \in Server : pc[j] = "accept" /\ pc' = [pc EXCEPT ![j] = "sync"]
    BY <1>9 DEF ReconnectToServer
  <2>. QED  BY <1>1, <1>2, <2>1, LastServer
<1>10. ASSUME NEW n \in Server, AnnounceMain(n) PROVE Goal
  <2>1. pc' = [pc EXCEPT ![n] = "main"] \/ pc' = [pc EXCEPT ![n] = "down"]
    BY <1>10, Zenon DEF AnnounceMain
  <2>2. pc[n] = "evolve"
    BY <1>10 DEF AnnounceMain
  <2>. QED  BY <1>1, <1>2, <2>1, <2>2, LastServer
<1>11. ASSUME NEW n \in Node, pc' = [pc EXCEPT ![n] = "down"] PROVE Goal
  BY <1>1, <1>2, <1>11
<1>. QED
  BY <1>4, <1>5, <1>6, <1>7, <1>8, <1>9, <1>10, <1>11, LastServer
  DEF Next, Backup, HandleElection, HeartbeatLost, HeartbeatLate, TimerExpires,
      Crash, HeartbeatBrokenPipe, DeleteServer, AcceptElectionConnection,
      DropElection, StaleVote, ReconnectExits, vars

\* Besides BecomeElected, what makes a server follow another or forget one.
LEMMA FeedKnown ==
  ASSUME TypeOK, [Next]_vars
  PROVE  \/ feed' = feed /\ known' = known
         \/ \E i \in Server : DeleteServer(i) \/ BecomeElected(i) \/ ReconnectToServer(i)
BY DEF Next, Backup, HandleElection, HeartbeatLost, HeartbeatLate, TimerExpires,
       Crash, HeartbeatBrokenPipe, BuildRing, AcceptElectionConnection,
       StartRingElection, RelayElection, DropElection, WinElection, LearnLeader,
       StaleVote, ReconnectExits, AnnounceMain, vars

\* Only the last server's ELECTED comes round, when all have left.
LEMMA ElectedIsLast ==
  ASSUME IInv, NEW i \in Server, BecomeElected(i)
  PROVE  i = N-1 /\ \A j \in Server : Left(j)
<1>1. PICK m : Receives(i, m) /\ m.type = "ELECTED" /\ m.id = i
  BY DEF BecomeElected
<1>. QED  BY <1>1, ReceiveLegal DEF IInv, Legal

\* What reconnect_to_servers does.
LEMMA ReconnectFollows ==
  ASSUME IInv, HeirInv, NEW l \in Server, ReconnectToServer(l)
  PROVE  /\ l = N-1 /\ pc[l] = "evolve" /\ known' = known
         /\ \E j \in Server :
              /\ j # l /\ pc[j] = "accept" /\ feed[j] # l
              /\ \A k \in Server : k < j => feed[k] = l
              /\ pc' = [pc EXCEPT ![j] = "sync"]
              /\ feed' = [feed EXCEPT ![j] = l]
<1>1. pc[l] = "evolve" /\ known' = known /\ l = N-1
  BY DEF ReconnectToServer, IInv, LeaderInv, Leads
<1>2. PICK j \in Server : /\ NextToConnect(l, j) /\ pc[j] = "accept"
                          /\ pc' = [pc EXCEPT ![j] = "sync"]
                          /\ feed' = [feed EXCEPT ![j] = l]
  BY DEF ReconnectToServer
<1>3. j # l
  BY <1>1, <1>2
<1>4. \A k \in Server : k < j => feed[k] = l
  BY <1>1, <1>2, LastServer DEF NextToConnect, HeirInv
<1>. QED  BY <1>1, <1>2, <1>3, <1>4 DEF NextToConnect

\* Nobody but the last backup is followed or leaves a list.
LEMMA HeirStep ==
  ASSUME IInv, HeirInv, [Next]_vars
  PROVE  HeirInv'
<1>1. TypeOK
  BY DEF IInv
<1>2. CASE feed' = feed /\ known' = known /\ ~BecomeElected(N-1)
  BY <1>1, <1>2, PlaceOrder, LastServer DEF HeirInv, Leads
<1>3. ASSUME NEW i \in Server, BecomeElected(i) PROVE HeirInv'
  <2>1. i = N-1 /\ feed' = feed /\ known' = [known EXCEPT ![i] = @ \ {i}]
          /\ pc' = [pc EXCEPT ![i] = "evolve"]
    BY <1>3, ElectedIsLast DEF BecomeElected
  <2>2. /\ known'[N-1] = known[N-1] \ {N-1} /\ pc'[N-1] = "evolve"
        /\ \A k \in Server : k # N-1 => known'[k] = known[k]
    BY <1>1, <2>1, LastServer DEF TypeOK
  <2>. QED  BY <2>1, <2>2 DEF HeirInv, Late
<1>4. ASSUME NEW i \in Server, DeleteServer(i) PROVE HeirInv'
  <2>1. feed' = feed /\ pc' = pc /\ known' = [known EXCEPT ![i] = @ \ {feed[i]}]
          /\ feed[i] = N-1 /\ i # N-1
    BY <1>4, LastServer DEF DeleteServer, IInv, PlaceInv, HeirInv
  <2>2. /\ known'[N-1] = known[N-1] /\ known'[i] = known[i] \ {N-1}
        /\ \A k \in Server : k # i => known'[k] = known[k]
    BY <1>1, <2>1, LastServer DEF TypeOK
  <2>. QED  BY <2>1, <2>2 DEF HeirInv
<1>5. ASSUME NEW l \in Server, ReconnectToServer(l) PROVE HeirInv'
  <2>1. PICK j \in Server : /\ j # l /\ pc' = [pc EXCEPT ![j] = "sync"]
                            /\ feed' = [feed EXCEPT ![j] = l]
    BY <1>5, ReconnectFollows
  <2>2. l = N-1 /\ known' = known
    BY <1>5, ReconnectFollows
  <2>3. pc'[N-1] = pc[N-1] /\ \A k \in Server : feed'[k] \in {feed[k], N-1}
    BY <1>1, <2>1, <2>2, LastServer DEF TypeOK
  <2>4. feed'[N-1] = feed[N-1]
    BY <1>1, <2>1, <2>2, LastServer DEF TypeOK
  <2>. QED  BY <2>2, <2>3, <2>4 DEF HeirInv
<1>. QED  BY <1>1, <1>2, <1>3, <1>4, <1>5, FeedKnown, LastServer

\* The steps that change what Succession sees.
LEMMA VisibleSteps ==
  ASSUME TypeOK, [Next]_vars
  PROVE  \/ feed' = feed /\ known' = known /\ link' = link
              /\ (pc'[N-1] = "main" => pc[N-1] = "main" \/ AnnounceMain(N-1))
         \/ \E i \in Server : \/ TimerExpires(i) \/ DeleteServer(i)
                              \/ BecomeElected(i) \/ ReconnectToServer(i)
<1>. DEFINE Quiet == feed' = feed /\ known' = known /\ link' = link
            Promoted == pc'[N-1] = "main" => pc[N-1] = "main" \/ AnnounceMain(N-1)
<1>1. \/ Quiet
      \/ \E i \in Server : \/ TimerExpires(i) \/ DeleteServer(i)
                           \/ BecomeElected(i) \/ ReconnectToServer(i)
  BY DEF Next, Backup, HandleElection, HeartbeatLost, HeartbeatLate, Crash,
         HeartbeatBrokenPipe, BuildRing, AcceptElectionConnection,
         StartRingElection, RelayElection, DropElection, WinElection, LearnLeader,
         StaleVote, ReconnectExits, AnnounceMain, vars
<1>2. ASSUME NEW n \in Node, NEW q \in Place \ {"main"}, pc' = [pc EXCEPT ![n] = q]
      PROVE  Promoted
  BY <1>2, LastServer DEF TypeOK
<1>3. "down" \in Place /\ "sync" \in Place /\ "ring" \in Place
        /\ "vote" \in Place /\ "accept" \in Place /\ "evolve" \in Place
  BY DEF Place
<1>4. ASSUME NEW n \in Server, NEW m, NEW r, NEW q \in {"vote", "accept"}, Write(n, r, m, q)
      PROVE  Promoted
  BY <1>2, <1>3, <1>4, LastServer DEF Write
<1>5. ASSUME NEW n \in Server, AnnounceMain(n) PROVE Promoted
  <2>1. pc' = [pc EXCEPT ![n] = "main"] \/ pc' = [pc EXCEPT ![n] = "down"]
    BY <1>5, Zenon DEF AnnounceMain
  <2>2. n # N-1 => pc'[N-1] = pc[N-1]
    BY <2>1, LastServer DEF TypeOK
  <2>. QED  BY <1>5, <2>2
<1>6. ASSUME NEW n \in Server, BuildRing(n) PROVE Promoted
  <2>1. pc' = [pc EXCEPT ![n] = "down"] \/ pc' = [pc EXCEPT ![n] = "ring"]
    BY <1>6, Zenon DEF BuildRing
  <2>. QED  BY <1>2, <1>3, <2>1, LastServer
<1>7. ASSUME NEW n \in Server, StartRingElection(n) PROVE Promoted
  BY <1>2, <1>3, <1>4, <1>7, LastServer DEF StartRingElection
<1>8. ASSUME NEW n \in Server, ReconnectToServer(n) PROVE Promoted
  BY <1>2, <1>3, <1>8, LastServer DEF ReconnectToServer
<1>9. Promoted
  BY <1>2, <1>3, <1>4, <1>5, <1>6, <1>7, <1>8, LastServer
  DEF Next, Backup, HandleElection, HeartbeatLost, HeartbeatLate, TimerExpires,
      Crash, HeartbeatBrokenPipe, DeleteServer, AcceptElectionConnection,
      RelayElection, WinElection, LearnLeader, BecomeElected,
      DropElection, StaleVote, ReconnectExits, vars
<1>. QED  BY <1>1, <1>9

\* The initial states are those of a succession.
LEMMA SuccessionInit == Init => S!Init
<1>. SUFFICES ASSUME Init PROVE S!Init
  OBVIOUS
<1>1. \A i \in Server : ~Left(i) /\ Stage(i) = "member"
  BY LastServer DEF Init, Left, Stage
<1>. QED  BY <1>1 DEF Init, S!Init

\* Every step of the protocol is a step of Succession or changes nothing in it.
LEMMA SuccessionStep ==
  ASSUME IInv, HeirInv, HeirInv', [Next]_vars
  PROVE  [S!Next]_S!vars
<1>. DEFINE gone  == {i \in Server : Left(i)}
            stage == [i \in Server |-> Stage(i)]
<1>1. TypeOK
  BY DEF IInv
<1>2. \A i \in Server : i # N-1 => Stage(i) = "member" /\ Stage(i)' = "member"
  BY DEF HeirInv, Stage
<1>3. ASSUME Stage(N-1)' = Stage(N-1) PROVE stage' = stage
  BY <1>2, <1>3
<1>4. stage' = [stage EXCEPT ![N-1] = Stage(N-1)']
  BY <1>2, LastServer
<1>5. ASSUME feed' = feed, known' = known, link' = link,
             pc'[N-1] = "main" => pc[N-1] = "main" \/ AnnounceMain(N-1),
             ~BecomeElected(N-1)
      PROVE  [S!Next]_S!vars
  <2>1. gone' = gone
    BY <1>5 DEF Left
  <2>2. CASE Stage(N-1)' = Stage(N-1)
    BY <1>3, <1>5, <2>1, <2>2 DEF S!vars
  <2>3. CASE Stage(N-1)' # Stage(N-1)
    <3>1. N-1 \notin known[N-1] /\ pc[N-1] \in Late /\ pc'[N-1] \in Late /\ pc'[N-1] # pc[N-1]
            /\ (pc'[N-1] = "evolve" => pc[N-1] = "evolve")
      BY <1>1, <1>5, <2>3, PlaceOrder, LastServer DEF Stage, HeirInv
    <3>2. CASE pc'[N-1] = "main"
      <4>1. AnnounceMain(N-1)
        BY <1>5, <3>1, <3>2
      <4>2. pc[N-1] = "evolve" /\ \A j \in known[N-1] : feed[j] = N-1
        BY <4>1 DEF AnnounceMain
      <4>3. Stage(N-1) = "heir" /\ Stage(N-1)' = "main"
        BY <1>5, <3>1, <3>2, <4>2 DEF Stage
      <4>4. S!Serve(N-1)
        BY <1>4, <1>5, <2>1, <4>2, <4>3, LastServer DEF S!Serve, HeirInv
      <4>. QED  BY <4>4, LastServer DEF S!Next
    <3>3. CASE pc'[N-1] = "down"
      <4>1. Stage(N-1) \in {"heir", "main"} /\ Stage(N-1)' = "gone"
        BY <1>5, <3>1, <3>3 DEF Stage, Late
      <4>2. S!End(N-1)
        BY <1>4, <1>5, <2>1, <4>1, LastServer DEF S!End
      <4>. QED  BY <4>2, LastServer DEF S!Next
    <3>. QED  BY <3>1, <3>2, <3>3 DEF Late
  <2>. QED  BY <2>2, <2>3
<1>6. ASSUME NEW i \in Server, TimerExpires(i) PROVE [S!Next]_S!vars
  <2>1. feed' = feed /\ known' = known /\ pc' = pc /\ link' = [link EXCEPT ![i] = "closed"]
    BY <1>6 DEF TimerExpires
  <2>2. stage' = stage
    BY <2>1 DEF Stage
  <2>3. gone' = gone \cup {i}
    BY <1>1, <2>1 DEF Left, TypeOK
  <2>4. CASE i \in gone
    BY <2>1, <2>2, <2>3, <2>4 DEF S!vars
  <2>5. CASE i \notin gone
    <3>1. S!GiveUp(i)
      BY <2>1, <2>2, <2>3, <2>5 DEF S!GiveUp
    <3>. QED  BY <3>1 DEF S!Next
  <2>. QED  BY <2>4, <2>5
<1>7. ASSUME NEW i \in Server, DeleteServer(i) PROVE [S!Next]_S!vars
  <2>1. feed' = feed /\ pc' = pc /\ link' = link /\ i # N-1
          /\ known' = [known EXCEPT ![i] = @ \ {feed[i]}]
    BY <1>7, LastServer DEF DeleteServer, IInv, PlaceInv, HeirInv
  <2>2. known'[N-1] = known[N-1]
    BY <1>1, <2>1, LastServer DEF TypeOK
  <2>3. Stage(N-1)' = Stage(N-1) /\ gone' = gone
    BY <2>1, <2>2 DEF Stage, Left
  <2>. QED  BY <1>3, <2>1, <2>3 DEF S!vars
<1>8. ASSUME NEW i \in Server, BecomeElected(i) PROVE [S!Next]_S!vars
  <2>1. i = N-1 /\ (\A j \in Server : Left(j))
    BY <1>8, ElectedIsLast, SMTT(60)
  <2>2. feed' = feed /\ link' = link /\ pc[N-1] = "vote" /\ pc'[N-1] = "evolve"
    BY <1>1, <1>8, <2>1, LastServer DEF BecomeElected, Receives, TypeOK
  <2>3. Stage(N-1) = "member" /\ Stage(N-1)' = "heir"
    BY <2>2 DEF Stage, HeirInv, Late
  <2>4. gone = Server /\ gone' = gone
    BY <2>1, <2>2 DEF Left
  <2>5. S!Inherit(N-1)
    BY <1>4, <2>2, <2>3, <2>4, LastServer DEF S!Inherit
  <2>. QED  BY <2>5, LastServer DEF S!Next
<1>9. ASSUME NEW l \in Server, ReconnectToServer(l) PROVE [S!Next]_S!vars
  <2>1. l = N-1 /\ pc[l] = "evolve" /\ known' = known
    BY <1>9, ReconnectFollows
  <2>2. PICK j \in Server :
          /\ j # l /\ pc[j] = "accept" /\ feed[j] # l
          /\ \A k \in Server : k < j => feed[k] = l
          /\ pc' = [pc EXCEPT ![j] = "sync"]
          /\ feed' = [feed EXCEPT ![j] = l]
    BY <1>9, ReconnectFollows
  <2>3. pc'[N-1] = "evolve"
    BY <1>1, <2>1, <2>2, LastServer DEF TypeOK
  <2>4. Stage(N-1) = "heir" /\ Stage(N-1)' = "heir"
    BY <2>1, <2>3 DEF Stage, HeirInv
  <2>5. gone = Server /\ gone' = Server
    <3>1. \A k \in Server : Left(k)
      BY <2>1 DEF IInv, LeaderInv, Leads
    <3>. QED  BY <1>1, <3>1, LeftStable
  <2>6. feed[j] = Primary
    BY <2>1, <2>2 DEF HeirInv
  <2>7. S!Follow(j, N-1)
    BY <1>3, <2>1, <2>2, <2>4, <2>5, <2>6, LastServer DEF S!Follow
  <2>. QED  BY <2>7, LastServer DEF S!Next
<1>. QED  BY <1>1, <1>5, <1>6, <1>7, <1>8, <1>9, VisibleSteps, LastServer

\* The protocol implements the succession: for every number of backups,
\* whoever dies and however late the heartbeats are.
THEOREM Succeeds == Spec => OrderlySuccession
<1>1. Init => HeirInv
  BY LastServer DEF Init, HeirInv
<1>2. IInv /\ HeirInv /\ [Next]_vars => HeirInv'
  BY HeirStep
<1>3. IInv /\ HeirInv /\ HeirInv' /\ [Next]_vars => [S!Next]_S!vars
  BY SuccessionStep
<1>. QED
  BY <1>1, <1>2, <1>3, SuccessionInit, Invariance, PTL DEF Spec, OrderlySuccession, S!Spec

=============================================================================
