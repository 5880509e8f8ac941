------------------------------ MODULE Election ------------------------------
(***************************************************************************)
(* The fail-over protocol of the backup servers: the heartbeat timer that  *)
(* suspects the main server, the ring the backups then build on port 3999, *)
(* the election that runs round it, and the elected backup's evolution     *)
(* into the new main server, to which the others re-attach on port 4001.   *)
(*                                                                         *)
(* A backup is named by the id it computes when it starts: its position in *)
(* the server list, the same on every backup.  The ring follows that list, *)
(* so the successor of id i is the next listed id, the last one's is the   *)
(* first.  Primary is the main server that was started as one.             *)
(*                                                                         *)
(* Each backup runs three threads: the one in await_sync (its place in the *)
(* code is pc), the election_timer (timer) and the one that accepts a      *)
(* single ring connection.  Time is abstracted: the timer may find the     *)
(* last heartbeat too old when the main server is dead, and also when it   *)
(* is alive but the heartbeat was delayed.                                 *)
(***************************************************************************)
EXTENDS Integers, Sequences

CONSTANTS
  N,              \* the number of backup servers in the server list
  BackupCrashes   \* may backups be killed?  (a main server always may)

ASSUME ElectionAssumption == N \in Nat \ {0} /\ BackupCrashes \in BOOLEAN

Server  == 0 .. N-1
Primary == N
Node    == Server \cup {Primary}

\* The states of a ring socket that is not connected to a server.
Fresh  == -1      \* created, or "not accepted yet"
Failed == -2      \* its connect() returned an error
Closed == -3
RingEnd == Server \cup {Fresh, Failed, Closed}

Packet == [type : {"ELECTION", "ELECTED"}, id : Server]

Place == {"sync",      \* in the loop of await_sync, reading the sync socket
          "ring",      \* connected to the successor, spinning in build_ring
          "vote",      \* in handle_election
          "accept",    \* listening on 4001 in await_main_server_connection
          "evolve",    \* elected, in evolve_into_main
          "main",      \* running as main server, heartbeat thread started
          "down"}      \* the process is gone

VARIABLES
  pc,           \* where each process is
  feed,         \* the main server at the other end of a backup's sync socket
  link,         \* a backup's own end of that socket
  notice,       \* a DELETESERVER packet waits in that socket
  timer,        \* the election_timer thread is running
  suspects,     \* should_start_election
  participant,
  known,        \* the ids in the server list
  outgoing,     \* outgoing_election_socket: the successor reached, or a RingEnd
  incoming,     \* incoming_election_socket: the predecessor accepted
  ring          \* the packets a backup sent on outgoing that are still unread

vars == <<pc, feed, link, notice, timer, suspects, participant, known,
          outgoing, incoming, ring>>

TypeOK ==
  /\ pc \in [Node -> Place]
  /\ feed \in [Server -> Node]
  /\ link \in [Server -> {"open", "closed"}]
  /\ notice \in [Server -> BOOLEAN]
  /\ timer \in [Server -> BOOLEAN]
  /\ suspects \in [Server -> BOOLEAN]
  /\ participant \in [Server -> BOOLEAN]
  /\ known \in [Node -> SUBSET Server]
  /\ outgoing \in [Server -> RingEnd]
  /\ incoming \in [Server -> RingEnd]
  /\ ring \in [Server -> Seq(Packet)]

\* All N backups have joined Primary and armed their timers.
Init ==
  /\ pc = [n \in Node |-> IF n = Primary THEN "main" ELSE "sync"]
  /\ feed = [i \in Server |-> Primary]
  /\ link = [i \in Server |-> "open"]
  /\ notice = [i \in Server |-> FALSE]
  /\ timer = [i \in Server |-> TRUE]
  /\ suspects = [i \in Server |-> FALSE]
  /\ participant = [i \in Server |-> FALSE]
  /\ known = [n \in Node |-> Server]
  /\ outgoing = [i \in Server |-> Fresh]
  /\ incoming = [i \in Server |-> Fresh]
  /\ ring = [i \in Server |-> <<>>]

-----------------------------------------------------------------------------
(* Processes that die.                                                     *)

Down(n) == pc[n] = "down"

\* A main server is killed, or a backup where the instance allows it.
Crash(n) ==
  /\ ~Down(n)
  /\ pc[n] = "main" \/ BackupCrashes
  /\ pc' = [pc EXCEPT ![n] = "down"]
  /\ UNCHANGED <<feed, link, notice, timer, suspects, participant, known,
                 outgoing, incoming, ring>>

\* Backup j still holds its end of the sync socket of main server m.
Attached(j, m) == ~Down(j) /\ feed[j] = m /\ link[j] = "open"

\* Were only a peer's death noticed, not its closed socket.
HeartbeatDeadPeer(m) ==
  /\ pc[m] = "main"
  /\ \E j \in known[m] : Down(j)
  /\ pc' = [pc EXCEPT ![m] = "down"]
  /\ UNCHANGED <<feed, link, notice, timer, suspects, participant, known,
                 outgoing, incoming, ring>>

\* The heartbeat thread of m writes to every listed socket and SIGPIPE is not
\* handled: a peer that has gone or closed its end ends the whole process.
HeartbeatBrokenPipe(m) ==
  /\ pc[m] = "main"
  /\ \E j \in known[m] : ~Attached(j, m)
  /\ pc' = [pc EXCEPT ![m] = "down"]
  /\ UNCHANGED <<feed, link, notice, timer, suspects, participant, known,
                 outgoing, incoming, ring>>

-----------------------------------------------------------------------------
(* Detection.                                                              *)

\* The timer finds the last heartbeat too old, closes the sync socket under
\* the thread that reads it, and ends.
TimerExpires(i) ==
  /\ timer[i] /\ ~Down(i)
  /\ suspects' = [suspects EXCEPT ![i] = TRUE]
  /\ link' = [link EXCEPT ![i] = "closed"]
  /\ timer' = [timer EXCEPT ![i] = FALSE]
  /\ UNCHANGED <<pc, feed, notice, participant, known, outgoing, incoming, ring>>

HeartbeatLost(i) == Down(feed[i]) /\ TimerExpires(i)
HeartbeatLate(i) == ~Down(feed[i]) /\ TimerExpires(i)

\* await_sync handles DELETESERVER: the elected server leaves the list.
DeleteServer(i) ==
  /\ pc[i] = "sync" /\ ~suspects[i]
  /\ link[i] = "open" /\ notice[i]
  /\ known' = [known EXCEPT ![i] = @ \ {feed[i]}]
  /\ notice' = [notice EXCEPT ![i] = FALSE]
  /\ UNCHANGED <<pc, feed, link, timer, suspects, participant, outgoing, incoming, ring>>

-----------------------------------------------------------------------------
(* The ring.                                                               *)

\* The next listed id, were the last one taken for its own successor.
IsNextNoWrap(i, j) ==
  /\ j \in known[i]
  /\ \/ j > i /\ \A k \in known[i] : k > i => j <= k
     \/ i = j /\ \A k \in known[i] : k <= i

\* j follows i in the server list of i, cyclically.
IsNext(i, j) ==
  /\ j \in known[i]
  /\ \/ j > i /\ \A k \in known[i] : k > i => j <= k
     \/ \A k \in known[i] : k <= i /\ j <= k

\* build_ring up to its wait.  A successor whose host is gone makes
\* gethostbyname fail, and the process exits; where the name still resolves,
\* connect() fails.  So does connect() on the socket a past election closed.
BuildRing(i) ==
  /\ pc[i] = "sync" /\ suspects[i]
  /\ \E j \in Server :
       /\ IsNext(i, j)
       /\ \/ /\ Down(j)
             /\ pc' = [pc EXCEPT ![i] = "down"]
             /\ UNCHANGED outgoing
          \/ /\ pc' = [pc EXCEPT ![i] = "ring"]
             /\ outgoing' = [outgoing EXCEPT ![i] =
                  IF @ # Fresh THEN @ ELSE IF Down(j) THEN Failed ELSE j]
  /\ UNCHANGED <<feed, link, notice, timer, suspects, participant, known, incoming, ring>>

\* The accepting thread takes one connection, once.
AcceptElectionConnection(i) ==
  /\ ~Down(i)
  /\ incoming[i] = Fresh
  /\ \E p \in Server :
       /\ outgoing[p] = i
       /\ incoming' = [incoming EXCEPT ![i] = p]
  /\ UNCHANGED <<pc, feed, link, notice, timer, suspects, participant, known, outgoing, ring>>

\* Nobody holds the other end of the ring socket i writes to.
Unreachable(i) ==
  outgoing[i] \in Server =>
    Down(outgoing[i]) \/ incoming[outgoing[i]] = Closed

\* i writes m to its successor and goes on at place next, `rest` being the
\* ring's channels once the packet it answers was read.  A write to a
\* successor that is gone, or to a socket never connected, may kill i.
Write(i, rest, m, next) ==
  \/ /\ outgoing[i] \in Server
     /\ ring' = [rest EXCEPT ![i] = Append(@, m)]
     /\ pc' = [pc EXCEPT ![i] = next]
  \/ /\ Unreachable(i)
     /\ ring' = rest
     /\ pc' = [pc EXCEPT ![i] = "down"]

\* With ids counted from one.
StartRingElectionFromOne(i) ==
  /\ pc[i] = "ring"
  /\ incoming[i] # Fresh
  /\ Write(i, ring, [type |-> "ELECTION", id |-> i + 1], "vote")
  /\ participant' = [participant EXCEPT ![i] = TRUE]
  /\ suspects' = [suspects EXCEPT ![i] = FALSE]
  /\ UNCHANGED <<feed, link, notice, timer, known, outgoing, incoming>>

\* build_ring's wait ends once a connection was accepted; start_ring_election
\* sends the own id unless this backup already takes part.
StartRingElection(i) ==
  /\ pc[i] = "ring"
  /\ incoming[i] # Fresh
  /\ IF participant[i]
       THEN pc' = [pc EXCEPT ![i] = "vote"] /\ UNCHANGED ring
       ELSE Write(i, ring, [type |-> "ELECTION", id |-> i], "vote")
  /\ participant' = [participant EXCEPT ![i] = TRUE]
  /\ suspects' = [suspects EXCEPT ![i] = FALSE]
  /\ UNCHANGED <<feed, link, notice, timer, known, outgoing, incoming>>

-----------------------------------------------------------------------------
(* handle_election, one action per way through it.                         *)

\* i, voting, reads m from its predecessor.
Receives(i, m) ==
  /\ pc[i] = "vote"
  /\ incoming[i] \in Server
  /\ ring[incoming[i]] # <<>>
  /\ m = Head(ring[incoming[i]])

Rest(i) == [ring EXCEPT ![incoming[i]] = Tail(@)]

\* A greater id goes on round the ring.
RelayElection(i) ==
  /\ \E m \in Packet :
       /\ Receives(i, m) /\ m.type = "ELECTION" /\ i < m.id
       /\ Write(i, Rest(i), m, "vote")
  /\ UNCHANGED <<feed, link, notice, timer, suspects, participant, known, outgoing, incoming>>

\* A smaller one is passed on as well.
RelayAnyElection(i) ==
  /\ \E m \in Packet :
       /\ Receives(i, m) /\ m.type = "ELECTION" /\ i > m.id
       /\ Write(i, Rest(i), m, "vote")
  /\ UNCHANGED <<feed, link, notice, timer, suspects, participant, known, outgoing, incoming>>

\* A smaller one stops here: participant is always set at this point.
DropElection(i) ==
  /\ \E m \in Packet : Receives(i, m) /\ m.type = "ELECTION" /\ i > m.id
  /\ ring' = Rest(i)
  /\ UNCHANGED <<pc, feed, link, notice, timer, suspects, participant, known, outgoing, incoming>>

\* With a comparison that takes a smaller id for the own one.
WinElectionEarly(i) ==
  /\ \E m \in Packet :
       /\ Receives(i, m) /\ m.type = "ELECTION" /\ i >= m.id
       /\ Write(i, Rest(i), [type |-> "ELECTED", id |-> i], "vote")
  /\ UNCHANGED <<feed, link, notice, timer, suspects, participant, known, outgoing, incoming>>

\* The own id came round.
WinElection(i) ==
  /\ \E m \in Packet :
       /\ Receives(i, m) /\ m.type = "ELECTION" /\ i = m.id
       /\ Write(i, Rest(i), [type |-> "ELECTED", id |-> i], "vote")
  /\ UNCHANGED <<feed, link, notice, timer, suspects, participant, known, outgoing, incoming>>

CloseOldConnections(i) ==
  /\ outgoing' = [outgoing EXCEPT ![i] = Closed]
  /\ incoming' = [incoming EXCEPT ![i] = Closed]

\* Without passing the news on.
KeepLeaderSecret(i) ==
  /\ \E m \in Packet : Receives(i, m) /\ m.type = "ELECTED" /\ i # m.id
  /\ ring' = Rest(i)
  /\ pc' = [pc EXCEPT ![i] = "accept"]
  /\ CloseOldConnections(i)
  /\ UNCHANGED <<feed, link, notice, timer, suspects, participant, known>>

\* Another server was elected: pass the news on, leave the ring and listen.
LearnLeader(i) ==
  /\ \E m \in Packet :
       /\ Receives(i, m) /\ m.type = "ELECTED" /\ i # m.id
       /\ Write(i, Rest(i), m, "accept")
  /\ CloseOldConnections(i)
  /\ UNCHANGED <<feed, link, notice, timer, suspects, participant, known>>

\* The own ELECTED came round: leave the ring, and the server list.
BecomeElected(i) ==
  /\ \E m \in Packet : Receives(i, m) /\ m.type = "ELECTED" /\ i = m.id
  /\ ring' = Rest(i)
  /\ pc' = [pc EXCEPT ![i] = "evolve"]
  /\ known' = [known EXCEPT ![i] = @ \ {i}]
  /\ CloseOldConnections(i)
  /\ UNCHANGED <<feed, link, notice, timer, suspects, participant>>

HandleElection(i) ==
  \/ RelayElection(i) \/ DropElection(i) \/ WinElection(i)
  \/ LearnLeader(i) \/ BecomeElected(i)

\* A vote on the closed socket of a past election: the empty packet has an
\* unset payload, on which stoi may throw (the process ends) or not (it
\* stays where it is).
StaleVote(i) ==
  /\ pc[i] = "vote" /\ incoming[i] = Closed
  /\ pc' = [pc EXCEPT ![i] = "down"]
  /\ UNCHANGED <<feed, link, notice, timer, suspects, participant, known,
                 outgoing, incoming, ring>>

-----------------------------------------------------------------------------
(* evolve_into_main.                                                       *)

\* The first listed backup that is not connected yet.
NextToConnect(l, j) ==
  /\ j \in known[l] /\ feed[j] # l
  /\ \A k \in known[l] : k < j => feed[k] = l

\* reconnect_to_servers retries connect() until that backup listens on 4001;
\* the backup's accept returns, and its loop starts a new timer.
ReconnectToServer(l) ==
  /\ pc[l] = "evolve"
  /\ \E j \in Server :
       /\ NextToConnect(l, j) /\ pc[j] = "accept"
       /\ pc' = [pc EXCEPT ![j] = "sync"]
       /\ feed' = [feed EXCEPT ![j] = l]
       /\ link' = [link EXCEPT ![j] = "open"]
       /\ timer' = [timer EXCEPT ![j] = TRUE]
  /\ UNCHANGED <<notice, suspects, participant, known, outgoing, incoming, ring>>

\* The host of that backup is gone: gethostbyname fails and l exits.
ReconnectExits(l) ==
  /\ pc[l] = "evolve"
  /\ \E j \in Server : NextToConnect(l, j) /\ Down(j)
  /\ pc' = [pc EXCEPT ![l] = "down"]
  /\ UNCHANGED <<feed, link, notice, timer, suspects, participant, known,
                 outgoing, incoming, ring>>

\* Without waiting for reconnect_to_servers.
AnnounceMainEarly(l) ==
  /\ pc[l] = "evolve"
  /\ notice' = [j \in Server |-> notice[j] \/ j \in known[l]]
  /\ pc' = [pc EXCEPT ![l] = "main"]
  /\ UNCHANGED <<feed, link, timer, suspects, participant, known, outgoing, incoming, ring>>

\* All are connected: tell them, in list order, to delete l, and serve as
\* main.  A listed backup that has gone again may end l half-way.
AnnounceMain(l) ==
  /\ pc[l] = "evolve"
  /\ \A j \in known[l] : feed[j] = l
  /\ \/ /\ notice' = [j \in Server |-> notice[j] \/ j \in known[l]]
        /\ pc' = [pc EXCEPT ![l] = "main"]
     \/ \E k \in known[l] :
          /\ ~Attached(k, l)
          /\ notice' = [j \in Server |-> notice[j] \/ (j \in known[l] /\ j < k)]
          /\ pc' = [pc EXCEPT ![l] = "down"]
  /\ UNCHANGED <<feed, link, timer, suspects, participant, known, outgoing, incoming, ring>>

-----------------------------------------------------------------------------
Backup(i) ==
  \/ HeartbeatLost(i) \/ HeartbeatLate(i) \/ DeleteServer(i)
  \/ BuildRing(i) \/ AcceptElectionConnection(i) \/ StartRingElection(i)
  \/ HandleElection(i) \/ StaleVote(i)
  \/ ReconnectToServer(i) \/ ReconnectExits(i) \/ AnnounceMain(i)

Next ==
  \/ \E n \in Node : Crash(n) \/ HeartbeatBrokenPipe(n)
  \/ \E i \in Server : Backup(i)

Spec == Init /\ [][Next]_vars

\* The operating system schedules every thread, TCP delivers what was sent and
\* a heartbeat thread keeps beating.  No process has to crash, no heartbeat
\* has to be late, and what unset memory holds is left to chance.
Fairness ==
  /\ \A n \in Node : WF_vars(HeartbeatBrokenPipe(n))
  /\ \A i \in Server :
       /\ WF_vars(HeartbeatLost(i)) /\ WF_vars(DeleteServer(i))
       /\ WF_vars(BuildRing(i)) /\ WF_vars(AcceptElectionConnection(i))
       /\ WF_vars(StartRingElection(i)) /\ WF_vars(HandleElection(i))
       /\ WF_vars(ReconnectToServer(i)) /\ WF_vars(AnnounceMain(i))

FairSpec == Spec /\ Fairness

-----------------------------------------------------------------------------
(* Properties.                                                             *)

Leads(i) == pc[i] \in {"evolve", "main"}

\* Backup i no longer takes the original main server's word for anything.
Left(i) == feed[i] # Primary \/ link[i] = "closed"

\* handle_election promotes only the server with the greatest id of the list,
\* so two backups are never both promoted, whatever crashes and however the
\* timers fire.
OnlyHighestElected == \A i \in Server : Leads(i) => i = N-1

\* A backup is promoted only after every backup's own timer gave up on the
\* original main server: one backup's late heartbeat never starts a take-over
\* on its own.
UnanimousElection == (\E i \in Server : Leads(i)) => \A j \in Server : Left(j)

Pred(i) == (i + N - 1) % N

\* How a backup's promotion ends: it leaves its own list when it is elected.
Stage(i) ==
  CASE i \in known[i] -> "member"
    [] i \notin known[i] /\ pc[i] = "evolve" -> "heir"
    [] i \notin known[i] /\ pc[i] = "main" -> "main"
    [] OTHER -> "gone"

S == INSTANCE Succession WITH
       Member <- Server, First <- Primary,
       left <- {i \in Server : Left(i)}, stage <- [i \in Server |-> Stage(i)],
       lead <- feed

\* Timers, ring, election and evolution together are an orderly succession,
\* whoever dies and however late the heartbeats are: every step of theirs is
\* one of Succession's or none.
OrderlySuccession == S!Spec

\* When a backup closes its ring sockets no packet of the election is unread
\* in them, or sent to them later: close_old_connections cuts nothing off.
NoPacketLost == \A i \in Server : incoming[i] = Closed => ring[Pred(i)] = <<>>

\* Backup l has taken over: every other listed backup re-attached to it.
TookOver(l) ==
  /\ l \notin known[l] /\ pc[l] # "evolve"
  /\ \A j \in known[l] : feed[j] = l

\* When the main server dies, the timers, the ring and the evolution end with
\* a backup that took over, unless a backup dies too.
FailoverCompletes ==
  Down(Primary) ~> \E l \in Server : TookOver(l) \/ Down(l)

\* Two main servers at once (every backup's heartbeat was late, not lost) do
\* not last: the old one writes to a backup that closed its socket, and dies.
SplitBrainHeals ==
  (pc[Primary] = "main" /\ \E l \in Server : pc[l] = "main") ~> Down(Primary)

\* What the comment on election_timer says: it signals the backups to initiate
\* an election when the main server is killed.  So while a backup runs, the
\* loss of the last main server ends with a new one.
MainRestored ==
  ((\A n \in Node : pc[n] # "main") /\ (\E i \in Server : ~Down(i)))
     ~> ((\E n \in Node : pc[n] = "main") \/ (\A i \in Server : Down(i)))

=============================================================================
