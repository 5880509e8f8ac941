------------------------------ MODULE Admission ------------------------------
(***************************************************************************)
(* How the main server admits clients and backup servers.                  *)
(*                                                                         *)
(* Every connection to the server's port waits in one queue.  The main     *)
(* loop takes the mutex connect_hand, accepts a first contact and starts a *)
(* handler thread for it, which unlocks connect_hand when it is done.  The *)
(* handler greets the agent; a client answers by connecting twice more,    *)
(* for its upload and its fetch socket, and only then acknowledges, so the *)
(* handler takes the next two connections of the queue for them.           *)
(*                                                                         *)
(* An agent may die anywhere.  What it connected and wrote stays, and       *)
(* receive_packet on its connection never returns, unless the agent left   *)
(* data unread: then the connection is reset and read() fails.             *)
(*                                                                         *)
(* A connection is named by the agent that made it and by what the agent   *)
(* made it for.                                                            *)
(***************************************************************************)
EXTENDS Naturals, Sequences

CONSTANTS
  Client, Backup    \* the devices and the backup servers that join

ASSUME AdmissionAssumption == Client \cap Backup = {}

Agent == Client \cup Backup
Role  == {"cmd", "upload", "fetch"}
Conn  == [agent : Agent, role : Role]

Cmd(a)    == [agent |-> a, role |-> "cmd"]
Upload(a) == [agent |-> a, role |-> "upload"]
Fetch(a)  == [agent |-> a, role |-> "fetch"]

VARIABLES
  queue,     \* the connections that wait to be accepted, oldest first
  main,      \* the main loop is at its "lock" or "accept", or all is "down"
  locked,    \* connect_hand
  place,     \* where the handler whose first contact is a connection stands
  upload,    \* the upload sockets that handler accepted (one or none)
  fetch,     \* its fetch sockets
  step,      \* what each agent does next
  dead,      \* the agents that died
  reset,     \* the connections they left with a handshake unread
  serial     \* no agent has connected between a client's connects so far: only
             \* the properties read it

vars == <<queue, main, locked, place, upload, fetch, step, dead, reset, serial>>

Place == {"none", "greet", "ack", "upload", "fetch", "hello", "serving", "backup"}
Step  == {"connect", "greeting", "upload", "fetch", "ack", "hello", "reply", "done"}

TypeOK ==
  /\ queue \in Seq(Conn)
  /\ main \in {"lock", "accept", "down"}
  /\ locked \in BOOLEAN
  /\ place \in [Conn -> Place]
  /\ upload \in [Conn -> SUBSET Conn]
  /\ fetch \in [Conn -> SUBSET Conn]
  /\ step \in [Agent -> Step]
  /\ dead \in SUBSET Agent
  /\ reset \in SUBSET Conn
  /\ serial \in BOOLEAN

Init ==
  /\ queue = <<>>
  /\ main = "lock"
  /\ locked = FALSE
  /\ place = [c \in Conn |-> "none"]
  /\ upload = [c \in Conn |-> {}]
  /\ fetch = [c \in Conn |-> {}]
  /\ step = [a \in Agent |-> "connect"]
  /\ dead = {}
  /\ reset = {}
  /\ serial = TRUE

-----------------------------------------------------------------------------
(* The server.                                                             *)

\* Without the mutex in the main loop.
LockHandNot ==
  /\ main = "lock"
  /\ main' = "accept"
  /\ locked' = TRUE
  /\ UNCHANGED <<queue, place, upload, fetch, step, dead, reset, serial>>

LockHand ==
  /\ main = "lock" /\ ~locked
  /\ main' = "accept"
  /\ locked' = TRUE
  /\ UNCHANGED <<queue, place, upload, fetch, step, dead, reset, serial>>

\* The oldest connection becomes a first contact, with a handler of its own.
AcceptFirstContact ==
  /\ main = "accept" /\ queue # <<>>
  /\ place' = [place EXCEPT ![Head(queue)] = "greet"]
  /\ queue' = Tail(queue)
  /\ main' = "lock"
  /\ UNCHANGED <<locked, upload, fetch, step, dead, reset, serial>>

SendHandshake(c) ==
  /\ place[c] = "greet"
  /\ place' = [place EXCEPT ![c] = "ack"]
  /\ UNCHANGED <<queue, main, locked, upload, fetch, step, dead, reset, serial>>

\* The agent's first packet on c.  Only its command socket ever carries one
\* before it is admitted.
Acknowledged(c) == c.role = "cmd" /\ step[c.agent] \in {"hello", "reply", "done"}

\* seqn 1 says it is a client: its other sockets are accepted next.
ReceiveClientAck(c) ==
  /\ place[c] = "ack" /\ Acknowledged(c) /\ c.agent \in Client
  /\ place' = [place EXCEPT ![c] = "upload"]
  /\ UNCHANGED <<queue, main, locked, upload, fetch, step, dead, reset, serial>>

\* Without the unlock.
ReceiveBackupAckLocked(c) ==
  /\ place[c] = "ack" /\ Acknowledged(c) /\ c.agent \in Backup
  /\ place' = [place EXCEPT ![c] = "backup"]
  /\ UNCHANGED <<queue, main, locked, upload, fetch, step, dead, reset, serial>>

\* seqn 0 says it is a backup server: that is all the main loop waits for.
ReceiveBackupAck(c) ==
  /\ place[c] = "ack" /\ Acknowledged(c) /\ c.agent \in Backup
  /\ place' = [place EXCEPT ![c] = "backup"]
  /\ locked' = FALSE
  /\ UNCHANGED <<queue, main, upload, fetch, step, dead, reset, serial>>

\* read() failed: the empty packet's seqn is 0 too, so the handler takes c for
\* a backup server, whose host name is then unset memory: no string at all,
\* which ends the process, or some.
ReceiveReset(c) ==
  /\ place[c] = "ack" /\ c \in reset
  /\ \/ /\ place' = [place EXCEPT ![c] = "backup"]
        /\ locked' = FALSE
        /\ UNCHANGED main
     \/ /\ main' = "down"
        /\ UNCHANGED <<place, locked>>
  /\ UNCHANGED <<queue, upload, fetch, step, dead, reset, serial>>

\* The result of a failed accept() is kept for a socket.
AcceptUploadFailed(c) ==
  /\ place[c] = "upload" /\ queue # <<>>
  /\ upload' = [upload EXCEPT ![c] = {[agent |-> c.agent, role |-> "none"]}]
  /\ place' = [place EXCEPT ![c] = "fetch"]
  /\ UNCHANGED <<queue, main, locked, fetch, step, dead, reset, serial>>

AcceptUpload(c) ==
  /\ place[c] = "upload" /\ queue # <<>>
  /\ upload' = [upload EXCEPT ![c] = {Head(queue)}]
  /\ queue' = Tail(queue)
  /\ place' = [place EXCEPT ![c] = "fetch"]
  /\ UNCHANGED <<main, locked, fetch, step, dead, reset, serial>>

\* Accepting leaves the connection where the next accept finds it again.
AcceptFetchTwice(c) ==
  /\ place[c] = "fetch" /\ queue # <<>>
  /\ fetch' = [fetch EXCEPT ![c] = {Head(queue)}]
  /\ place' = [place EXCEPT ![c] = "hello"]
  /\ UNCHANGED <<queue, main, locked, upload, step, dead, reset, serial>>

AcceptFetch(c) ==
  /\ place[c] = "fetch" /\ queue # <<>>
  /\ fetch' = [fetch EXCEPT ![c] = {Head(queue)}]
  /\ queue' = Tail(queue)
  /\ place' = [place EXCEPT ![c] = "hello"]
  /\ UNCHANGED <<main, locked, upload, step, dead, reset, serial>>

\* start_communications reads the user and host names from c, answers with
\* the files of the user, and the handler unlocks connect_hand.  Writing them
\* to a client that died may end the process: SIGPIPE is not handled.
StartCommunications(c) ==
  /\ place[c] = "hello" /\ step[c.agent] = "reply"
  /\ \/ /\ place' = [place EXCEPT ![c] = "serving"]
        /\ locked' = FALSE
        /\ UNCHANGED main
     \/ /\ c.agent \in dead
        /\ main' = "down"
        /\ UNCHANGED <<place, locked>>
  /\ UNCHANGED <<queue, upload, fetch, step, dead, reset, serial>>

Handler(c) ==
  \/ SendHandshake(c) \/ ReceiveClientAck(c) \/ ReceiveBackupAck(c)
  \/ ReceiveReset(c)
  \/ AcceptUpload(c) \/ AcceptFetch(c) \/ StartCommunications(c)

Server ==
  main # "down" /\ (LockHand \/ AcceptFirstContact \/ \E c \in Conn : Handler(c))

-----------------------------------------------------------------------------
(* The agents.                                                             *)

\* Client b has made its first connection but not its third.
Connecting(b) ==
  b \in Client /\ b \notin dead /\ step[b] \in {"greeting", "upload", "fetch"}

\* Agent a goes on; one whose server is down waits, or dies of SIGPIPE.
Moves(a, next) ==
  /\ a \notin dead /\ main # "down"
  /\ step' = [step EXCEPT ![a] = next]
  /\ UNCHANGED <<main, locked, place, upload, fetch, dead, reset>>

Connect(a) ==
  /\ step[a] = "connect"
  /\ serial' = (serial /\ \A b \in Client : ~Connecting(b))
  /\ queue' = Append(queue, Cmd(a))
  /\ Moves(a, "greeting")

Handshaken(a) == place[Cmd(a)] \notin {"none", "greet"}

ReceiveHandshake(a) ==
  /\ step[a] = "greeting" /\ Handshaken(a)
  /\ Moves(a, IF a \in Client THEN "upload" ELSE "ack")
  /\ UNCHANGED <<queue, serial>>

ConnectUpload(a) ==
  /\ step[a] = "upload"
  /\ queue' = Append(queue, Upload(a))
  /\ Moves(a, "fetch")
  /\ UNCHANGED serial

\* The acknowledgement overtakes the last connection.
ConnectFetchLate(a) ==
  \/ /\ step[a] = "fetch"
     /\ Moves(a, "hello")
     /\ UNCHANGED <<queue, serial>>
  \/ /\ step[a] = "reply"
     /\ queue' = Append(queue, Fetch(a))
     /\ Moves(a, "done")
     /\ UNCHANGED serial

ConnectFetch(a) ==
  /\ step[a] = "fetch"
  /\ queue' = Append(queue, Fetch(a))
  /\ Moves(a, "ack")
  /\ UNCHANGED serial

SendAck(a) ==
  /\ step[a] = "ack"
  /\ Moves(a, IF a \in Client THEN "hello" ELSE "done")
  /\ UNCHANGED <<queue, serial>>

SendHello(a) ==
  /\ step[a] = "hello"
  /\ Moves(a, "reply")
  /\ UNCHANGED <<queue, serial>>

ReceiveReply(a) ==
  /\ step[a] = "reply" /\ place[Cmd(a)] = "serving"
  /\ Moves(a, "done")
  /\ UNCHANGED <<queue, serial>>

\* A handshake is read from the command socket only, by ReceiveHandshake.
Die(a) ==
  /\ step[a] # "connect"
  /\ a \notin dead
  /\ dead' = dead \cup {a}
  /\ reset' = reset \cup
       {c \in Conn : /\ c.agent = a /\ place[c] = "ack"
                     /\ c.role = "cmd" => step[a] = "greeting"}
  /\ UNCHANGED <<queue, main, locked, place, upload, fetch, step, serial>>

Run(a) ==
  \/ ReceiveHandshake(a) \/ ConnectUpload(a) \/ ConnectFetch(a)
  \/ SendAck(a) \/ SendHello(a) \/ ReceiveReply(a)

Next == Server \/ \E a \in Agent : Connect(a) \/ Run(a) \/ Die(a)

Spec == Init /\ [][Next]_vars

\* Every thread of the server and of a living agent is scheduled; nobody has
\* to join, nor to die.
Fairness == WF_vars(Server) /\ \A a \in Agent : WF_vars(Run(a))

FairSpec == Spec /\ Fairness

-----------------------------------------------------------------------------
(* Properties.                                                             *)

Greeting(c) == place[c] \in {"greet", "ack", "upload", "fetch", "hello"}

\* connect_hand, locked by the main loop and unlocked by a handler, lets one
\* handler at a time read from the queue, and never beside the main loop.
OneAccepter ==
  /\ \A c, d \in Conn : Greeting(c) /\ Greeting(d) => c = d
  /\ \A c \in Conn : Greeting(c) => locked /\ main # "accept"

\* A connection is accepted once: it is the first contact, the upload socket
\* or the fetch socket of one handler.
AcceptedOnce ==
  \A c, d \in Conn :
    /\ upload[c] \cap fetch[d] = {}
    /\ c # d => upload[c] \cap upload[d] = {} /\ fetch[c] \cap fetch[d] = {}
    /\ place[c] # "none" => c \notin upload[d] \cup fetch[d]

SocketsOf(c) ==
  /\ c.role = "cmd"
  /\ upload[c] = {Upload(c.agent)}
  /\ fetch[c] = {Fetch(c.agent)}

\* The three sockets of a session are one client's, each used for what the
\* client made it for, whoever dies, as long as agents came one at a time.
SessionOfOneClient ==
  serial => \A c \in Conn : place[c] = "serving" => SocketsOf(c)

\* What the comment on connect_hand promises: the loop accepts no other client
\* until the first one is through, so all sessions are of one client.
EverySessionOfOneClient ==
  \A c \in Conn : place[c] = "serving" => SocketsOf(c)

\* Whoever connects is admitted, unless an agent dies, or connects between the
\* connects of a client.
Admitted ==
  \A a \in Agent :
    step[a] = "greeting" ~> (step[a] = "done" \/ dead # {} \/ ~serial)

=============================================================================
