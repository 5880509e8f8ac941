-------------------------- MODULE AdmissionProofs --------------------------
(***************************************************************************)
(* For every set of clients and backup servers: connect_hand keeps the     *)
(* handlers from accepting beside each other, and no connection is used    *)
(* twice, however the agents start; and as long as no agent came between   *)
(* the connects of a client, every session has the three sockets of one    *)
(* client, whoever dies.                                                   *)
(***************************************************************************)
EXTENDS Admission, SequenceTheorems, TLAPS

\* What the first connection of a queue and the others become.
LEMMA QueueTail ==
  ASSUME TypeOK, queue # <<>>
  PROVE  /\ Head(queue) \in Conn /\ Head(queue) = queue[1]
         /\ Tail(queue) \in Seq(Conn)
         /\ Len(queue) \in Nat /\ Len(queue) >= 1
         /\ Len(Tail(queue)) = Len(queue) - 1
         /\ \A n \in 1 .. Len(queue) - 1 : Tail(queue)[n] = queue[n+1]
BY HeadTailProperties, EmptySeq, LenProperties DEF TypeOK

\* Every step keeps the variables in their types.
LEMMA TypeStep == TypeOK /\ [Next]_vars => TypeOK'
<1>. SUFFICES ASSUME TypeOK, [Next]_vars PROVE TypeOK'
  OBVIOUS
<1>1. ASSUME NEW a \in Agent, Connect(a) \/ Run(a) \/ Die(a) PROVE TypeOK'
  <2>1. Cmd(a) \in Conn /\ Upload(a) \in Conn /\ Fetch(a) \in Conn
    BY DEF Cmd, Upload, Fetch, Conn, Role
  <2>2. queue' \in Seq(Conn)
    <3>1. \A c \in Conn : Append(queue, c) \in Seq(Conn)
      BY AppendProperties DEF TypeOK
    <3>2. queue' = queue \/ \E c \in Conn : queue' = Append(queue, c)
      BY <1>1, <2>1
      DEF Connect, Run, Die, ReceiveHandshake, ConnectUpload, ConnectFetch,
          SendAck, SendHello, ReceiveReply
    <3>. QED  BY <3>1, <3>2 DEF TypeOK
  <2>3. CASE Die(a)
    BY <2>2, <2>3 DEF Die, TypeOK
  <2>4. ASSUME NEW s \in Step, Moves(a, s) PROVE TypeOK'
    <3>1. serial' \in BOOLEAN
      BY <1>1 DEF TypeOK, Connect, Run, Die, ReceiveHandshake, ConnectUpload,
          ConnectFetch, SendAck, SendHello, ReceiveReply
    <3>. QED  BY <2>2, <2>4, <3>1 DEF Moves, TypeOK
  <2>. QED
    BY <1>1, <2>3, <2>4
    DEF Connect, Run, ReceiveHandshake, ConnectUpload, ConnectFetch, SendAck,
        SendHello, ReceiveReply, Step
<1>2. CASE LockHand
  BY <1>2 DEF LockHand, TypeOK
<1>3. CASE AcceptFirstContact
  BY <1>3, QueueTail DEF AcceptFirstContact, TypeOK, Place
<1>4. ASSUME NEW c \in Conn, Handler(c) PROVE TypeOK'
  <2>1. queue' \in Seq(Conn) /\ upload' \in [Conn -> SUBSET Conn] /\ fetch' \in [Conn -> SUBSET Conn]
    <3>1. CASE AcceptUpload(c)
      BY <3>1, QueueTail DEF AcceptUpload, TypeOK
    <3>2. CASE AcceptFetch(c)
      BY <3>2, QueueTail DEF AcceptFetch, TypeOK
    <3>3. CASE queue' = queue /\ upload' = upload /\ fetch' = fetch
      BY <3>3 DEF TypeOK
    <3>. QED
      BY <1>4, <3>1, <3>2, <3>3
      DEF Handler, SendHandshake, ReceiveClientAck, ReceiveBackupAck,
          ReceiveReset, StartCommunications
  <2>2. CASE \E p \in Place : place' = [place EXCEPT ![c] = p]
    <3>1. place' \in [Conn -> Place]
      BY <2>2 DEF TypeOK
    <3>. QED
      BY <1>4, <2>1, <3>1
      DEF Handler, SendHandshake, ReceiveClientAck, ReceiveBackupAck,
          ReceiveReset, AcceptUpload, AcceptFetch, StartCommunications, TypeOK
  <2>3. CASE place' = place
    BY <1>4, <2>1, <2>3
    DEF Handler, SendHandshake, ReceiveClientAck, ReceiveBackupAck,
        ReceiveReset, AcceptUpload, AcceptFetch, StartCommunications, TypeOK
  <2>. QED
    BY <1>4, <2>2, <2>3
    DEF Handler, SendHandshake, ReceiveClientAck, ReceiveBackupAck,
        ReceiveReset, AcceptUpload, AcceptFetch, StartCommunications, Place
<1>5. CASE UNCHANGED vars
  BY <1>5 DEF vars, TypeOK
<1>. QED  BY <1>1, <1>2, <1>3, <1>4, <1>5 DEF Next, Server

\* The types hold at the start.
LEMMA TypeInit == Init => TypeOK
BY EmptySeq DEF Init, TypeOK, Place, Step

-----------------------------------------------------------------------------
(* One accepter at a time.                                                 *)

HandInv == OneAccepter /\ (main = "accept" => locked)

\* A step of one handler, with what it does to connect_hand.
LEMMA HandlerHand ==
  ASSUME TypeOK, HandInv, NEW c \in Conn, Greeting(c), NEW p \in Place,
         place' = [place EXCEPT ![c] = p], main' = main,
         \/ p \in {"ack", "upload", "fetch", "hello"} /\ locked' = locked
         \/ p \in {"serving", "backup"}
  PROVE  HandInv'
BY DEF HandInv, OneAccepter, Greeting, TypeOK

\* A handler begins with the mutex held and gives it back when it is done.
LEMMA HandStep == TypeOK /\ HandInv /\ [Next]_vars => HandInv'
<1>. SUFFICES ASSUME TypeOK, HandInv, [Next]_vars PROVE HandInv'
  OBVIOUS
<1>1. CASE place' = place /\ main' = main /\ locked' = locked
  BY <1>1 DEF HandInv, OneAccepter, Greeting
<1>2. CASE LockHand
  BY <1>2 DEF LockHand, HandInv, OneAccepter, Greeting
<1>3. CASE AcceptFirstContact
  <2>1. \A d \in Conn : ~Greeting(d)
    BY <1>3 DEF AcceptFirstContact, HandInv, OneAccepter
  <2>. QED
    BY <1>3, <2>1, QueueTail DEF AcceptFirstContact, HandInv, OneAccepter, Greeting, TypeOK
<1>4. CASE place' = place /\ main' = "down" /\ locked' = locked
  BY <1>4 DEF HandInv, OneAccepter, Greeting
<1>5. ASSUME NEW c \in Conn, Handler(c) PROVE HandInv'
  BY <1>4, <1>5, HandlerHand
  DEF Handler, SendHandshake, ReceiveClientAck, ReceiveBackupAck, ReceiveReset,
      AcceptUpload, AcceptFetch, StartCommunications, Greeting, Place
<1>. QED
  BY <1>1, <1>2, <1>3, <1>5
  DEF Next, Server, Connect, Run, Die, Moves, ReceiveHandshake, ConnectUpload,
      ConnectFetch, SendAck, SendHello, ReceiveReply, vars

\* Every variable of the admission always has its type.
THEOREM TypeCorrect == Spec => []TypeOK
<1>. QED  BY TypeInit, TypeStep, PTL DEF Spec

\* However agents start and die, one handler accepts at a time and the main
\* loop never beside it.
THEOREM OneAccepterAlways == Spec => []OneAccepter
<1>1. Init => HandInv
  BY DEF Init, HandInv, OneAccepter, Greeting
<1>2. HandInv => OneAccepter
  BY DEF HandInv
<1>. QED  BY <1>1, <1>2, TypeInit, TypeStep, HandStep, PTL DEF Spec

-----------------------------------------------------------------------------
(* Sessions, when no agent starts between the connects of a client.        *)

\* What an agent has connected so far.
Made(c) ==
  CASE c.role = "cmd"    -> step[c.agent] # "connect"
    [] c.role = "upload" -> step[c.agent] \in {"fetch", "ack", "hello", "reply", "done"}
    [] OTHER             -> step[c.agent] \in {"ack", "hello", "reply", "done"}

\* Only command sockets become first contacts, each connection waits once,
\* and none waits that has a handler.
QueueInv ==
  /\ \A n \in 1 .. Len(queue) : Made(queue[n]) /\ place[queue[n]] = "none"
  /\ \A m, n \in 1 .. Len(queue) : queue[m] = queue[n] => m = n
  /\ \A c \in Conn : place[c] # "none" => c.role = "cmd" /\ Made(c)

\* The handler and its agent go on hand in hand.
PaceInv ==
  /\ \A a \in Agent :
       /\ step[a] \in {"connect", "greeting"} \/ Handshaken(a)
       /\ a \in Backup => step[a] \notin {"upload", "fetch"}
       /\ a \in Client /\ place[Cmd(a)] = "backup" => a \in dead /\ step[a] = "greeting"
  /\ \A c \in Conn : place[c] \in {"upload", "fetch", "hello", "serving"} =>
       c.agent \in Client /\ step[c.agent] \in {"hello", "reply", "done"}
  /\ \A c \in reset : place[c] # "none" /\ c.agent \in dead /\ step[c.agent] = "greeting"

\* Data sockets wait in the order in which the handler that greets their
\* client will accept them, before everything else.
OrderInv ==
  /\ \A n \in 1 .. Len(queue) : queue[n].role # "cmd" =>
       \E a \in Client :
         \/ n = 1 /\ queue[n] = Upload(a) /\ place[Cmd(a)] \in {"ack", "upload"}
         \/ n = 2 /\ queue[n] = Fetch(a) /\ place[Cmd(a)] \in {"ack", "upload"}
         \/ n = 1 /\ queue[n] = Fetch(a) /\ place[Cmd(a)] = "fetch"
  /\ \A a \in Client :
       /\ place[Cmd(a)] \in {"ack", "upload"} /\ step[a] \in {"ack", "hello", "reply", "done"} =>
            Len(queue) >= 2 /\ queue[1] = Upload(a) /\ queue[2] = Fetch(a)
       /\ place[Cmd(a)] = "fetch" => Len(queue) >= 1 /\ queue[1] = Fetch(a)

\* Nothing comes after the last connection of the one connecting client.
ConnectInv ==
  /\ \A a, b \in Client : Connecting(a) /\ Connecting(b) => a = b
  /\ \A a \in Client : Connecting(a) =>
       /\ place[Cmd(a)] = "none" => Len(queue) >= 1 /\ queue[Len(queue)] = Cmd(a)
       /\ place[Cmd(a)] # "none" =>
            IF step[a] = "fetch" THEN queue = <<Upload(a)>> ELSE queue = <<>>

SocketsInv ==
  \A c \in Conn :
    /\ place[c] \in {"fetch", "hello", "serving"} => upload[c] = {Upload(c.agent)}
    /\ place[c] \in {"hello", "serving"} => fetch[c] = {Fetch(c.agent)}

SInv == /\ TypeOK /\ HandInv /\ QueueInv /\ PaceInv /\ OrderInv
        /\ ConnectInv /\ SocketsInv

\* What makes the names of connections differ.
LEMMA Names ==
  /\ \A a \in Agent :
       /\ Cmd(a) \in Conn /\ Cmd(a).agent = a /\ Cmd(a).role = "cmd"
       /\ Upload(a) \in Conn /\ Upload(a).agent = a /\ Upload(a).role = "upload"
       /\ Fetch(a) \in Conn /\ Fetch(a).agent = a /\ Fetch(a).role = "fetch"
  /\ \A c \in Conn : c.agent \in Agent /\ (c.role = "cmd" => c = Cmd(c.agent))
  /\ Client \subseteq Agent /\ Backup \subseteq Agent /\ \A a \in Backup : a \notin Client
BY AdmissionAssumption DEF Cmd, Upload, Fetch, Conn, Role, Agent

\* The queue's connections are connections.
LEMMA QueueElements ==
  ASSUME TypeOK
  PROVE  Len(queue) \in Nat /\ \A n \in 1 .. Len(queue) : queue[n] \in Conn
BY LenProperties, ElementOfSeq DEF TypeOK

\* The first contact is the queue's head: no data socket is in the queue.
LEMMA FirstContactStep == SInv /\ AcceptFirstContact => SInv'
<1>. SUFFICES ASSUME SInv, AcceptFirstContact PROVE SInv'
  OBVIOUS
<1>. USE DEF SInv
<1>. DEFINE c == Head(queue)
<1>1. [Next]_vars
  BY DEF Next, Server, AcceptFirstContact
<1>2. TypeOK' /\ HandInv'
  BY <1>1, TypeStep, HandStep
<1>3. \A d \in Conn : ~Greeting(d)
  BY DEF AcceptFirstContact, HandInv, OneAccepter
<1>4. \A n \in 1 .. Len(queue) : queue[n].role = "cmd"
  BY <1>3, Names DEF OrderInv, Greeting
<1>5. /\ c \in Conn /\ c = queue[1] /\ Len(queue) \in Nat /\ Len(queue) >= 1
      /\ Len(queue') = Len(queue) - 1
      /\ \A n \in 1 .. Len(queue') : queue'[n] = queue[n+1] /\ n+1 \in 1 .. Len(queue)
  BY QueueTail DEF AcceptFirstContact
<1>6. c.role = "cmd" /\ c = Cmd(c.agent) /\ place[c] = "none" /\ Made(c)
  BY <1>4, <1>5, Names DEF QueueInv
<1>7. place'[c] = "greet" /\ \A d \in Conn : d # c => place'[d] = place[d]
  BY <1>5 DEF AcceptFirstContact, TypeOK
<1>8. \A n \in 1 .. Len(queue') : queue'[n] # c /\ queue'[n] \in Conn
  BY <1>5, QueueElements DEF QueueInv
<1>9. UNCHANGED <<upload, fetch, step, dead, reset>>
  BY DEF AcceptFirstContact
<1>10. QueueInv'
  <2>1. \A d : Made(d)' <=> Made(d)
    BY <1>9 DEF Made
  <2>2. \A n \in 1 .. Len(queue') : (Made(queue[n]) /\ place[queue[n]] = "none")'
    BY <1>5, <1>7, <1>8, <1>9 DEF QueueInv, Made
  <2>3. \A m, n \in 1 .. Len(queue') : queue'[m] = queue'[n] => m = n
    BY <1>5 DEF QueueInv
  <2>4. \A d \in Conn : place'[d] # "none" => d.role = "cmd" /\ Made(d)'
    BY <1>6, <1>7, <2>1 DEF QueueInv
  <2>. QED  BY <2>2, <2>3, <2>4 DEF QueueInv
<1>11. step[c.agent] \in {"greeting"}
  BY <1>5, <1>6, Names DEF PaceInv, Handshaken, Made, TypeOK, Step
<1>12. PaceInv'
  <2>1. \A a \in Agent : Cmd(a) \in Conn /\ (Cmd(a) = c => a = c.agent)
    BY Names
  <2>. QED  BY <1>5, <1>6, <1>7, <1>9, <1>11, <2>1 DEF PaceInv, Handshaken, TypeOK
<1>13. OrderInv'
  <2>1. \A n \in 1 .. Len(queue') : queue'[n].role = "cmd"
    BY <1>4, <1>5
  <2>2. \A a \in Client : Cmd(a) \in Conn /\ place'[Cmd(a)] \notin {"ack", "upload", "fetch"}
    BY <1>3, <1>7, Names DEF Greeting
  <2>. QED  BY <2>1, <2>2 DEF OrderInv
<1>14. ConnectInv'
  <2>1. SUFFICES ASSUME NEW a \in Client, Connecting(a)
                 PROVE /\ place'[Cmd(a)] = "none" => Len(queue') >= 1 /\ queue'[Len(queue')] = Cmd(a)
                       /\ place'[Cmd(a)] # "none" =>
                            IF step[a] = "fetch" THEN queue' = <<Upload(a)>> ELSE queue' = <<>>
    BY <1>9 DEF ConnectInv, Connecting
  <2>2. CASE c = Cmd(a)
    <3>1. queue[Len(queue)] = queue[1]
      BY <1>5, <1>6, <2>1, <2>2 DEF ConnectInv
    <3>2. Len(queue) = 1
      BY <1>5, <3>1 DEF QueueInv
    <3>3. queue' = <<>>
      BY <1>2, <1>5, <3>2, EmptySeq DEF TypeOK
    <3>4. step[a] = "greeting"
      BY <1>11, <2>2, Names
    <3>. QED  BY <1>7, <2>2, <3>3, <3>4
  <2>3. CASE c # Cmd(a)
    <3>1. Cmd(a) \in Conn /\ place'[Cmd(a)] = place[Cmd(a)]
      BY <1>7, <2>3, Names
    <3>2. CASE place[Cmd(a)] = "none"
      <4>1. queue[Len(queue)] = Cmd(a)
        BY <2>1, <3>2 DEF ConnectInv
      <4>2. Len(queue) # 1
        BY <1>5, <2>3, <4>1
      <4>3. Len(queue') \in 1 .. Len(queue') /\ Len(queue') + 1 = Len(queue)
        BY <1>5, <4>2
      <4>. QED  BY <1>5, <3>1, <3>2, <4>1, <4>3
    <3>3. CASE place[Cmd(a)] # "none"
      <4>1. queue = <<>> \/ queue = <<Upload(a)>>
        BY <2>1, <3>3 DEF ConnectInv
      <4>2. queue = <<Upload(a)>>
        BY <4>1 DEF AcceptFirstContact
      <4>3. queue[1].role = "upload"
        BY <4>2, Names
      <4>. QED  BY <1>5, <1>6, <4>3
    <3>. QED  BY <3>2, <3>3
  <2>. QED  BY <2>2, <2>3
<1>15. SocketsInv'
  BY <1>7, <1>9 DEF SocketsInv
<1>. QED  BY <1>2, <1>10, <1>12, <1>13, <1>14, <1>15

\* A handler takes the queue's head, which is its client's: upload, then fetch.
LEMMA DataSocketStep ==
  ASSUME SInv, NEW c \in Conn, main # "down", AcceptUpload(c) \/ AcceptFetch(c)
  PROVE  SInv'
<1>. USE DEF SInv
<1>. DEFINE a == c.agent
<1>1. TypeOK' /\ HandInv'
  BY TypeStep, HandStep DEF Next, Server, Handler
<1>2. c.role = "cmd" /\ c = Cmd(a) /\ a \in Client /\ a \in Agent
      /\ step[a] \in {"hello", "reply", "done"} /\ queue # <<>>
      /\ place[c] \in {"upload", "fetch"}
  BY Names DEF AcceptUpload, AcceptFetch, QueueInv, PaceInv
<1>3. /\ Len(queue) \in Nat /\ Len(queue) >= 1 /\ Len(queue') = Len(queue) - 1
      /\ \A n \in 1 .. Len(queue') : queue'[n] = queue[n+1] /\ n+1 \in 1 .. Len(queue)
      /\ Head(queue) = queue[1]
  <2>1. queue' = Tail(queue)
    BY DEF AcceptUpload, AcceptFetch
  <2>2. \A n \in 1 .. Len(queue) - 1 : n+1 \in 1 .. Len(queue)
    BY QueueElements
  <2>. QED  BY <1>2, <2>1, <2>2, QueueTail
<1>4. /\ place[c] = "upload" => Len(queue) >= 2 /\ queue[1] = Upload(a) /\ queue[2] = Fetch(a)
      /\ place[c] = "fetch" => queue[1] = Fetch(a)
      /\ queue[1].role # "cmd" /\ queue[1].agent = a
  BY <1>2, Names DEF OrderInv
<1>5. /\ \A d \in Conn : d # c => /\ place'[d] = place[d] /\ upload'[d] = upload[d]
                                 /\ fetch'[d] = fetch[d] /\ ~Greeting(d)
      /\ place[c] = "upload" => place'[c] = "fetch" /\ upload'[c] = {queue[1]}
      /\ place[c] = "fetch" => place'[c] = "hello" /\ upload'[c] = upload[c] /\ fetch'[c] = {queue[1]}
  <2>1. \A d \in Conn : d # c => ~Greeting(d)
    BY <1>2 DEF HandInv, OneAccepter, Greeting
  <2>. QED  BY <1>3, <2>1 DEF AcceptUpload, AcceptFetch, TypeOK
<1>6. UNCHANGED <<step, dead, reset>>
  BY DEF AcceptUpload, AcceptFetch
<1>7. \A n \in 1 .. Len(queue') : queue'[n] \in Conn /\ queue'[n] # c
  BY <1>2, <1>3, QueueElements DEF QueueInv
<1>8. QueueInv'
  <2>1. \A n \in 1 .. Len(queue') : (Made(queue[n]) /\ place[queue[n]] = "none")'
    BY <1>3, <1>5, <1>6, <1>7 DEF QueueInv, Made
  <2>2. \A m, n \in 1 .. Len(queue') : queue'[m] = queue'[n] => m = n
    BY <1>3 DEF QueueInv
  <2>3. \A d \in Conn : place'[d] # "none" => d.role = "cmd" /\ Made(d)'
    BY <1>2, <1>5, <1>6 DEF QueueInv, Made
  <2>. QED  BY <2>1, <2>2, <2>3 DEF QueueInv
<1>9. PaceInv'
  <2>1. \A b \in Agent : Cmd(b) \in Conn /\ (Cmd(b) = c => b = a)
    BY Names
  <2>2. place'[c] \in {"fetch", "hello"}
    BY <1>2, <1>5
  <2>3. \A b \in Agent : Handshaken(b)' <=> Handshaken(b)
    BY <1>2, <1>5, <2>1, <2>2 DEF Handshaken
  <2>4. \A b \in Agent : place'[Cmd(b)] = "backup" => place[Cmd(b)] = "backup"
    BY <1>5, <2>1, <2>2
  <2>5. \A d \in Conn : place'[d] \in {"upload", "fetch", "hello", "serving"} =>
          place[d] \in {"upload", "fetch", "hello", "serving"}
    BY <1>2, <1>5
  <2>6. \A d \in reset : d \in Conn /\ place'[d] # "none"
    BY <1>5, <2>2 DEF PaceInv, TypeOK
  <2>. QED  BY <1>6, <2>3, <2>4, <2>5, <2>6 DEF PaceInv
<1>10. OrderInv'
  <2>1. \A b \in Client : b # a => Cmd(b) \in Conn /\ Cmd(b) # c /\ ~Greeting(Cmd(b))
          /\ place'[Cmd(b)] \notin {"ack", "upload", "fetch"}
    BY <1>5, Names DEF Greeting
  <2>2. ASSUME NEW n \in 1 .. Len(queue'), queue'[n].role # "cmd"
        PROVE  place[c] = "upload" /\ n = 1
    <3>1. PICK b \in Client :
            \/ n+1 = 1
            \/ n+1 = 2 /\ queue[n+1] = Fetch(b) /\ place[Cmd(b)] \in {"ack", "upload"}
      BY <1>3, <2>2 DEF OrderInv
    <3>2. b = a /\ n = 1
      BY <1>3, <2>1, <3>1 DEF Greeting
    <3>. QED  BY <1>2, <3>1, <3>2
  <2>3. ASSUME NEW n \in 1 .. Len(queue'), queue'[n].role # "cmd"
        PROVE  n = 1 /\ queue'[n] = Fetch(a) /\ place'[Cmd(a)] = "fetch"
    <3>1. place[c] = "upload" /\ n = 1
      BY <2>2, <2>3
    <3>. QED  BY <1>2, <1>3, <1>4, <1>5, <3>1
  <2>4. place'[c] = "fetch" => Len(queue') >= 1 /\ queue'[1] = Fetch(a)
    BY <1>2, <1>3, <1>4, <1>5
  <2>5. place'[c] \notin {"ack", "upload"}
    BY <1>2, <1>5
  <2>. QED  BY <1>2, <2>1, <2>3, <2>4, <2>5 DEF OrderInv
<1>11. ConnectInv'
  <2>1. SUFFICES ASSUME NEW b \in Client, Connecting(b)
                 PROVE /\ place'[Cmd(b)] = "none" => Len(queue') >= 1 /\ queue'[Len(queue')] = Cmd(b)
                       /\ place'[Cmd(b)] # "none" =>
                            IF step[b] = "fetch" THEN queue' = <<Upload(b)>> ELSE queue' = <<>>
    BY <1>6 DEF ConnectInv, Connecting
  <2>2. b # a /\ Cmd(b) \in Conn /\ Cmd(b) # c
    BY <1>2, <2>1, Names DEF Connecting
  <2>3. place[Cmd(b)] = "none"
    <3>1. queue # <<Upload(b)>>
      BY <1>4, <2>2, Names
    <3>. QED  BY <1>2, <2>1, <3>1 DEF ConnectInv
  <2>4. queue[Len(queue)] = Cmd(b) /\ Len(queue) # 1
    BY <1>4, <2>1, <2>3, Names DEF ConnectInv
  <2>5. Len(queue') \in 1 .. Len(queue') /\ Len(queue') + 1 = Len(queue)
    BY <1>3, <2>4
  <2>. QED  BY <1>3, <1>5, <2>2, <2>3, <2>4, <2>5
<1>12. SocketsInv'
  BY <1>2, <1>4, <1>5 DEF SocketsInv
<1>. QED  BY <1>1, <1>8, <1>9, <1>10, <1>11, <1>12

\* The steps of a handler that take nothing from the queue.
LEMMA HandlerStep ==
  ASSUME SInv, NEW c \in Conn, main # "down",
         \/ SendHandshake(c) \/ ReceiveClientAck(c) \/ ReceiveBackupAck(c)
         \/ ReceiveReset(c) \/ StartCommunications(c)
  PROVE  SInv'
<1>. USE DEF SInv
<1>. DEFINE a == c.agent
<1>1. TypeOK' /\ HandInv'
  BY TypeStep, HandStep DEF Next, Server, Handler
<1>2. c.role = "cmd" /\ c = Cmd(a) /\ a \in Agent /\ Greeting(c)
  BY Names
  DEF SendHandshake, ReceiveClientAck, ReceiveBackupAck, ReceiveReset,
      StartCommunications, QueueInv, Greeting
<1>3. UNCHANGED <<queue, upload, fetch, step, dead, reset>>
  BY DEF SendHandshake, ReceiveClientAck, ReceiveBackupAck, ReceiveReset, StartCommunications
<1>4. \A d \in Conn : d # c => place'[d] = place[d] /\ ~Greeting(d)
  <2>1. \A d \in Conn : d # c => ~Greeting(d)
    BY <1>2 DEF HandInv, OneAccepter
  <2>. QED
    BY <2>1
    DEF SendHandshake, ReceiveClientAck, ReceiveBackupAck, ReceiveReset,
        StartCommunications, TypeOK
<1>5. \/ place'[c] = place[c]
      \/ place[c] = "greet" /\ place'[c] = "ack"
      \/ place[c] = "ack" /\ place'[c] = "upload" /\ a \in Client /\ step[a] \in {"hello", "reply", "done"}
      \/ place[c] = "ack" /\ place'[c] = "backup" /\ a \notin Client
      \/ place[c] = "ack" /\ place'[c] = "backup" /\ a \in dead /\ step[a] = "greeting"
      \/ place[c] = "hello" /\ place'[c] = "serving"
  BY <1>2, Names
  DEF SendHandshake, ReceiveClientAck, ReceiveBackupAck, ReceiveReset,
      StartCommunications, Acknowledged, PaceInv, TypeOK
<1>6. \A b \in Agent : Cmd(b) \in Conn /\ (Cmd(b) = c <=> b = a)
  BY <1>2, Names
<1>7. QueueInv'
  <2>1. \A n \in 1 .. Len(queue) : queue[n] # c /\ queue[n] \in Conn
    BY <1>2, QueueElements DEF QueueInv, Greeting
  <2>2. \A d : Made(d)' <=> Made(d)
    BY <1>3 DEF Made
  <2>3. \A n \in 1 .. Len(queue) : (Made(queue[n]) /\ place[queue[n]] = "none")'
    BY <1>3, <1>4, <2>1 DEF QueueInv, Made
  <2>4. \A d \in Conn : place'[d] # "none" => d.role = "cmd" /\ Made(d)'
    BY <1>2, <1>4, <2>2 DEF QueueInv, Greeting
  <2>. QED  BY <1>3, <2>3, <2>4 DEF QueueInv
<1>8. PaceInv'
  <2>1. \A b \in Agent : Handshaken(b) => Handshaken(b)'
    BY <1>2, <1>4, <1>5, <1>6 DEF Handshaken
  <2>2. \A b \in Agent : b \in Client /\ place'[Cmd(b)] = "backup" =>
          place[Cmd(b)] = "backup" \/ (b \in dead /\ step[b] = "greeting")
    BY <1>2, <1>4, <1>5, <1>6
  <2>3. \A d \in Conn : place'[d] \in {"upload", "fetch", "hello", "serving"} =>
          d.agent \in Client /\ step[d.agent] \in {"hello", "reply", "done"}
    BY <1>4, <1>5 DEF PaceInv
  <2>4. \A d \in reset : d \in Conn /\ place'[d] # "none"
    BY <1>2, <1>4, <1>5 DEF PaceInv, TypeOK, Greeting
  <2>. QED  BY <1>3, <2>1, <2>2, <2>3, <2>4 DEF PaceInv
<1>9. OrderInv'
  <2>1. \A b \in Client : b # a => Cmd(b) \in Conn /\ Cmd(b) # c
          /\ place[Cmd(b)] \notin {"ack", "upload", "fetch"} /\ place'[Cmd(b)] = place[Cmd(b)]
    BY <1>4, <1>6, Names DEF Greeting
  <2>2. ASSUME NEW n \in 1 .. Len(queue), queue[n].role # "cmd"
        PROVE  a \in Client /\ step[a] # "greeting"
                 /\ (queue[n] = Upload(a) \/ queue[n] = Fetch(a))
                 /\ place[c] \in {"ack", "upload", "fetch"}
    <3>1. PICK b \in Client :
            (queue[n] = Upload(b) \/ queue[n] = Fetch(b)) /\ place[Cmd(b)] \in {"ack", "upload", "fetch"}
      BY <2>2 DEF OrderInv
    <3>2. b = a
      BY <2>1, <3>1
    <3>3. Made(queue[n])
      BY DEF QueueInv
    <3>. QED  BY <1>2, <3>1, <3>2, <3>3, Names DEF Made
  <2>3. CASE place'[c] = place[c]
    BY <1>2, <1>3, <2>1, <2>3 DEF OrderInv
  <2>4. CASE place[c] \in {"greet", "hello"} \/ place'[c] = "backup"
    <3>1. \A n \in 1 .. Len(queue) : queue[n].role = "cmd"
      BY <1>5, <2>2, <2>4
    <3>2. a \in Client /\ place'[c] = "ack" => step[a] \notin {"ack", "hello", "reply", "done"}
      BY <1>2, <1>5, <2>4 DEF PaceInv, Handshaken
    <3>3. place'[c] \notin {"upload", "fetch"} \/ place'[c] = place[c]
      BY <1>5, <2>4
    <3>. QED  BY <1>2, <1>3, <1>5, <2>1, <3>1, <3>2, <3>3, <2>4 DEF OrderInv
  <2>5. CASE place[c] = "ack" /\ place'[c] = "upload" /\ a \in Client /\ step[a] \in {"hello", "reply", "done"}
    <3>1. \A b \in Client : place[Cmd(b)] \in {"ack", "upload"} => place'[Cmd(b)] \in {"ack", "upload"}
      BY <1>2, <2>1, <2>5
    <3>2. \A b \in Client : place'[Cmd(b)] \in {"ack", "upload"} => place[Cmd(b)] \in {"ack", "upload"}
      BY <1>2, <2>1, <2>5
    <3>3. \A b \in Client : place'[Cmd(b)] = "fetch" <=> place[Cmd(b)] = "fetch"
      BY <1>2, <2>1, <2>5
    <3>. QED  BY <1>3, <3>1, <3>2, <3>3 DEF OrderInv
  <2>. QED  BY <1>5, <2>3, <2>4, <2>5
<1>10. ConnectInv'
  <2>1. \A b \in Client : place'[Cmd(b)] = "none" <=> place[Cmd(b)] = "none"
    BY <1>2, <1>4, <1>5, Names DEF Greeting
  <2>. QED  BY <1>3, <2>1 DEF ConnectInv, Connecting
<1>11. SocketsInv'
  BY <1>3, <1>4, <1>5 DEF SocketsInv
<1>. QED  BY <1>1, <1>7, <1>8, <1>9, <1>10, <1>11

\* Appending a connection to the queue.
LEMMA QueueAppend ==
  ASSUME TypeOK, NEW c \in Conn, queue' = Append(queue, c)
  PROVE  /\ Len(queue) \in Nat /\ Len(queue') = Len(queue) + 1
         /\ queue'[Len(queue')] = c
         /\ \A n \in 1 .. Len(queue) : queue'[n] = queue[n] /\ queue[n] \in Conn
         /\ \A n \in 1 .. Len(queue') : n \in 1 .. Len(queue) \/ n = Len(queue')
BY AppendProperties, LenProperties, ElementOfSeq DEF TypeOK

\* A new command socket goes to the end, when no client is connecting.
LEMMA ConnectStep ==
  ASSUME SInv, serial', NEW a \in Agent, Connect(a)
  PROVE  SInv'
<1>. USE DEF SInv
<1>1. TypeOK' /\ HandInv'
  BY TypeStep, HandStep DEF Next
<1>2. /\ queue' = Append(queue, Cmd(a)) /\ step[a] = "connect"
      /\ step' = [step EXCEPT ![a] = "greeting"]
      /\ UNCHANGED <<main, locked, place, upload, fetch, dead, reset>>
      /\ \A b \in Client : ~Connecting(b)
  BY DEF Connect, Moves
<1>3. /\ Len(queue) \in Nat /\ Len(queue') = Len(queue) + 1
      /\ queue'[Len(queue')] = Cmd(a)
      /\ \A n \in 1 .. Len(queue) : queue'[n] = queue[n] /\ queue[n] \in Conn
      /\ \A n \in 1 .. Len(queue') : n \in 1 .. Len(queue) \/ n = Len(queue')
  BY <1>2, Names, QueueAppend
<1>4. step'[a] = "greeting" /\ \A b \in Agent : b # a => step'[b] = step[b]
  BY <1>2 DEF TypeOK
<1>5. place[Cmd(a)] = "none" /\ \A n \in 1 .. Len(queue) : queue[n] # Cmd(a)
  BY <1>2, Names DEF QueueInv, Made
<1>6. \A c \in Conn : Made(c) => Made(c)'
  BY <1>2, <1>4, Names DEF Made
<1>7. QueueInv'
  <2>1. \A n \in 1 .. Len(queue') : (Made(queue[n]) /\ place[queue[n]] = "none")'
    <3>1. SUFFICES ASSUME NEW n \in 1 .. Len(queue')
                   PROVE  (Made(queue[n]) /\ place[queue[n]] = "none")'
      OBVIOUS
    <3>2. CASE n \in 1 .. Len(queue)
      <4>1. Made(queue[n]) /\ queue'[n] = queue[n] /\ queue[n] \in Conn
        BY <1>3, <3>2 DEF QueueInv
      <4>. QED  BY <1>2, <1>4, <3>2, <4>1, Names DEF QueueInv, Made
    <3>3. CASE n = Len(queue')
      BY <1>2, <1>3, <1>4, <1>5, <3>3, Names DEF Made
    <3>. QED  BY <1>3, <3>2, <3>3
  <2>2. \A m, n \in 1 .. Len(queue') : queue'[m] = queue'[n] => m = n
    BY <1>3, <1>5 DEF QueueInv
  <2>3. \A d \in Conn : place'[d] # "none" => d.role = "cmd" /\ Made(d)'
    BY <1>2, <1>6 DEF QueueInv
  <2>. QED  BY <2>1, <2>2, <2>3 DEF QueueInv
<1>8. PaceInv'
  <2>1. \A b \in Agent : Handshaken(b)' <=> Handshaken(b)
    BY <1>2 DEF Handshaken
  <2>2. \A c \in Conn : place[c] # "none" => c.agent # a \/ c.role # "cmd"
    BY <1>5, Names
  <2>3. \A c \in Conn : place[c] # "none" => c.agent # a
    BY <2>2 DEF QueueInv
  <2>4. \A c \in reset : c.agent # a /\ c.agent \in Agent
    BY <2>3, Names DEF PaceInv, TypeOK
  <2>5. \A b \in Agent :
          /\ step'[b] \in {"connect", "greeting"} \/ Handshaken(b)'
          /\ b \in Backup => step'[b] \notin {"upload", "fetch"}
          /\ b \in Client /\ place'[Cmd(b)] = "backup" => b \in dead' /\ step'[b] = "greeting"
    BY <1>2, <1>4, <1>5, <2>1 DEF PaceInv
  <2>6. \A c \in Conn : place'[c] \in {"upload", "fetch", "hello", "serving"} =>
          c.agent \in Client /\ step'[c.agent] \in {"hello", "reply", "done"}
    BY <1>2, <1>4, <2>3, Names DEF PaceInv
  <2>7. \A c \in reset' : place'[c] # "none" /\ c.agent \in dead' /\ step'[c.agent] = "greeting"
    BY <1>2, <1>4, <2>4 DEF PaceInv
  <2>. QED  BY <2>5, <2>6, <2>7 DEF PaceInv
<1>9. OrderInv'
  <2>1. \A n \in 1 .. Len(queue') : queue'[n].role # "cmd" => n \in 1 .. Len(queue)
    BY <1>3, Names
  <2>2. \A b \in Client : step'[b] \in {"ack", "hello", "reply", "done"} => step[b] = step'[b]
    BY <1>4, Names
  <2>3. \A n \in 1 .. Len(queue') : queue'[n].role # "cmd" =>
          \E b \in Client :
            \/ n = 1 /\ queue'[n] = Upload(b) /\ place'[Cmd(b)] \in {"ack", "upload"}
            \/ n = 2 /\ queue'[n] = Fetch(b) /\ place'[Cmd(b)] \in {"ack", "upload"}
            \/ n = 1 /\ queue'[n] = Fetch(b) /\ place'[Cmd(b)] = "fetch"
    BY <1>2, <1>3, <2>1 DEF OrderInv
  <2>4. \A b \in Client :
          /\ place'[Cmd(b)] \in {"ack", "upload"} /\ step'[b] \in {"ack", "hello", "reply", "done"} =>
               Len(queue') >= 2 /\ queue'[1] = Upload(b) /\ queue'[2] = Fetch(b)
          /\ place'[Cmd(b)] = "fetch" => Len(queue') >= 1 /\ queue'[1] = Fetch(b)
    BY <1>2, <1>3, <2>2 DEF OrderInv
  <2>. QED  BY <2>3, <2>4 DEF OrderInv
<1>10. ConnectInv'
  <2>1. \A b \in Client : Connecting(b)' => b = a
    BY <1>2, <1>4, Names DEF Connecting
  <2>. QED  BY <1>2, <1>3, <1>5, <2>1 DEF ConnectInv
<1>11. SocketsInv'
  BY <1>2 DEF SocketsInv
<1>. QED  BY <1>1, <1>7, <1>8, <1>9, <1>10, <1>11

\* While a client connects, the handler that greets it takes nothing off the
\* queue, which ends with what the client connected last.
LEMMA ConnectingQueue ==
  ASSUME SInv, NEW a \in Client, step[a] \in {"upload", "fetch"}, a \notin dead
  PROVE  /\ Connecting(a) /\ Cmd(a) \in Conn /\ place[Cmd(a)] = "ack"
         /\ IF step[a] = "fetch" THEN queue = <<Upload(a)>> ELSE queue = <<>>
         /\ \A b \in Client : Connecting(b) => b = a
<1>1. Connecting(a) /\ a \in Agent /\ Cmd(a) \in Conn /\ Cmd(a).agent = a
  BY Names DEF Connecting
<1>2. place[Cmd(a)] \notin {"none", "greet", "backup", "upload", "fetch", "hello", "serving"}
  BY <1>1 DEF SInv, PaceInv, Handshaken
<1>3. place[Cmd(a)] = "ack"
  BY <1>1, <1>2 DEF SInv, TypeOK, Place
<1>. QED  BY <1>1, <1>3 DEF SInv, ConnectInv

\* The data sockets join an otherwise empty queue, in order.
LEMMA ConnectDataStep ==
  ASSUME SInv, NEW a \in Agent, ConnectUpload(a) \/ ConnectFetch(a)
  PROVE  SInv'
<1>. USE DEF SInv
<1>1. TypeOK' /\ HandInv'
  BY TypeStep, HandStep DEF Next, Run
<1>2. a \in Client /\ a \notin dead /\ step[a] \in {"upload", "fetch"}
  BY DEF ConnectUpload, ConnectFetch, Moves, PaceInv, Agent
<1>3. UNCHANGED <<main, locked, place, upload, fetch, dead, reset>>
  BY DEF ConnectUpload, ConnectFetch, Moves
<1>4. /\ Connecting(a) /\ Cmd(a) \in Conn /\ place[Cmd(a)] = "ack"
      /\ \A b \in Client : Connecting(b) => b = a
      /\ step[a] = "upload" => queue = <<>>
      /\ step[a] = "fetch" => queue = <<Upload(a)>>
  BY <1>2, ConnectingQueue
<1>5. /\ step[a] = "upload" => step'[a] = "fetch" /\ queue' = <<Upload(a)>>
      /\ step[a] = "fetch" => step'[a] = "ack" /\ Len(queue') = 2
                              /\ queue'[1] = Upload(a) /\ queue'[2] = Fetch(a)
      /\ \A b \in Agent : b # a => step'[b] = step[b]
  <2>1. CASE ConnectUpload(a)
    <3>1. step[a] = "upload" /\ step' = [step EXCEPT ![a] = "fetch"] /\ queue' = Append(queue, Upload(a))
      BY <2>1 DEF ConnectUpload, Moves
    <3>2. queue' = <<Upload(a)>>
      BY <3>1, <1>4
    <3>. QED  BY <3>1, <3>2 DEF TypeOK
  <2>2. CASE ConnectFetch(a)
    <3>1. step[a] = "fetch" /\ step' = [step EXCEPT ![a] = "ack"] /\ queue' = Append(queue, Fetch(a))
      BY <2>2 DEF ConnectFetch, Moves
    <3>2. queue' = Append(<<Upload(a)>>, Fetch(a))
      BY <3>1, <1>4
    <3>3. <<Upload(a)>> \in Seq(Conn) /\ Fetch(a) \in Conn
      BY Names
    <3>4. Len(queue') = 2 /\ queue'[1] = Upload(a) /\ queue'[2] = Fetch(a)
      BY <3>2, <3>3
    <3>. QED  BY <3>1, <3>4 DEF TypeOK
  <2>. QED  BY <2>1, <2>2
<1>6. place[Upload(a)] = "none" /\ place[Fetch(a)] = "none"
  BY Names DEF QueueInv
<1>7. \A c \in Conn : Made(c) => Made(c)'
  BY <1>2, <1>5, Names DEF Made
<1>8. QueueInv'
  <2>1. CASE step[a] = "upload"
    BY <1>3, <1>5, <1>6, <1>7, <2>1, Names DEF QueueInv, Made
  <2>2. CASE step[a] = "fetch"
    <3>1. Len(queue') = 2 /\ queue'[1] = Upload(a) /\ queue'[2] = Fetch(a) /\ step'[a] = "ack"
      BY <1>5, <2>2
    <3>2. \A n \in 1 .. Len(queue') : (Made(queue[n]) /\ place[queue[n]] = "none")'
      BY <1>2, <1>3, <1>6, <3>1, Names DEF Made
    <3>3. \A m, n \in 1 .. Len(queue') : queue'[m] = queue'[n] => m = n
      BY <3>1, Names
    <3>4. \A c \in Conn : place'[c] # "none" => c.role = "cmd" /\ Made(c)'
      BY <1>3, <1>7 DEF QueueInv
    <3>. QED  BY <3>2, <3>3, <3>4 DEF QueueInv
  <2>. QED  BY <1>2, <2>1, <2>2
<1>9. PaceInv'
  <2>1. \A b \in Agent : Handshaken(b)' <=> Handshaken(b)
    BY <1>3 DEF Handshaken
  <2>2. \A c \in Conn : place[c] \in {"upload", "fetch", "hello", "serving"} => c.agent # a
    BY <1>2 DEF PaceInv
  <2>3. \A c \in reset : c \in Conn /\ c.agent # a
    BY <1>2 DEF PaceInv, TypeOK
  <2>4. Handshaken(a) /\ place[Cmd(a)] # "backup" /\ a \notin Backup
    BY <1>2, <1>4, Names DEF Handshaken
  <2>5. \A b \in Agent :
          /\ step'[b] \in {"connect", "greeting"} \/ Handshaken(b)'
          /\ b \in Backup => step'[b] \notin {"upload", "fetch"}
          /\ b \in Client /\ place'[Cmd(b)] = "backup" => b \in dead' /\ step'[b] = "greeting"
    BY <1>3, <1>5, <2>1, <2>4 DEF PaceInv
  <2>6. \A c \in Conn : place'[c] \in {"upload", "fetch", "hello", "serving"} =>
          c.agent \in Client /\ step'[c.agent] \in {"hello", "reply", "done"}
    BY <1>3, <1>5, <2>2, Names DEF PaceInv
  <2>7. \A c \in reset' : place'[c] # "none" /\ c.agent \in dead' /\ step'[c.agent] = "greeting"
    BY <1>3, <1>5, <2>3, Names DEF PaceInv
  <2>. QED  BY <2>5, <2>6, <2>7 DEF PaceInv
<1>10. OrderInv'
  <2>1. \A b \in Client : b # a => step'[b] = step[b]
    BY <1>5, Names
  <2>2. \A b \in Client : b # a /\ place[Cmd(b)] \in {"ack", "upload"} =>
          step[b] \notin {"ack", "hello", "reply", "done"}
    BY <1>2, <1>4 DEF OrderInv
  <2>3. \A b \in Client : place[Cmd(b)] # "fetch"
    <3>1. SUFFICES ASSUME NEW b \in Client, place[Cmd(b)] = "fetch" PROVE FALSE
      OBVIOUS
    <3>2. Len(queue) >= 1 /\ queue[1] = Fetch(b)
      BY <3>1 DEF OrderInv
    <3>3. queue # <<>> /\ queue # <<Upload(a)>>
      BY <3>2, Names
    <3>. QED  BY <1>2, <1>4, <3>3
  <2>4. CASE step[a] = "upload"
    BY <1>2, <1>3, <1>4, <1>5, <2>1, <2>2, <2>3, <2>4, Names DEF OrderInv
  <2>5. CASE step[a] = "fetch"
    <3>1. Len(queue') = 2 /\ queue'[1] = Upload(a) /\ queue'[2] = Fetch(a)
      BY <1>5, <2>5
    <3>2. \A n \in 1 .. Len(queue') : n = 1 \/ n = 2
      BY <3>1
    <3>3. \A n \in 1 .. Len(queue') : queue'[n].role # "cmd" =>
            \E b \in Client :
              \/ n = 1 /\ queue'[n] = Upload(b) /\ place'[Cmd(b)] \in {"ack", "upload"}
              \/ n = 2 /\ queue'[n] = Fetch(b) /\ place'[Cmd(b)] \in {"ack", "upload"}
              \/ n = 1 /\ queue'[n] = Fetch(b) /\ place'[Cmd(b)] = "fetch"
      BY <1>2, <1>3, <1>4, <3>1, <3>2
    <3>4. \A b \in Client :
            /\ place'[Cmd(b)] \in {"ack", "upload"} /\ step'[b] \in {"ack", "hello", "reply", "done"} =>
                 Len(queue') >= 2 /\ queue'[1] = Upload(b) /\ queue'[2] = Fetch(b)
            /\ place'[Cmd(b)] = "fetch" => Len(queue') >= 1 /\ queue'[1] = Fetch(b)
      BY <1>3, <2>1, <2>2, <2>3, <3>1
    <3>. QED  BY <3>3, <3>4 DEF OrderInv
  <2>. QED  BY <1>2, <2>4, <2>5
<1>11. ConnectInv'
  <2>1. \A b \in Client : Connecting(b)' => b = a
    BY <1>3, <1>4, <1>5, Names DEF Connecting
  <2>2. Connecting(a)' => step'[a] = "fetch"
    BY <1>2, <1>5 DEF Connecting
  <2>3. step'[a] = "fetch" => queue' = <<Upload(a)>>
    BY <1>2, <1>5
  <2>. QED  BY <1>3, <1>4, <2>1, <2>2, <2>3 DEF ConnectInv
<1>12. SocketsInv'
  BY <1>3 DEF SocketsInv
<1>. QED  BY <1>1, <1>8, <1>9, <1>10, <1>11, <1>12

\* The other steps of an agent leave the queue alone.
LEMMA MoveStep ==
  ASSUME SInv, NEW a \in Agent,
         ReceiveHandshake(a) \/ SendAck(a) \/ SendHello(a) \/ ReceiveReply(a)
  PROVE  SInv'
<1>. USE DEF SInv
<1>1. TypeOK' /\ HandInv'
  BY TypeStep, HandStep DEF Next, Run
<1>2. UNCHANGED <<queue, main, locked, place, upload, fetch, dead, reset>> /\ a \notin dead
  BY DEF ReceiveHandshake, SendAck, SendHello, ReceiveReply, Moves
<1>3. /\ \/ /\ step[a] = "greeting" /\ Handshaken(a)
            /\ a \in Client => step'[a] = "upload"
            /\ a \notin Client => step'[a] = "ack"
         \/ step[a] \in {"ack", "hello", "reply"} /\ step'[a] \in {"hello", "reply", "done"}
      /\ \A b \in Agent : b # a => step'[b] = step[b]
  BY DEF ReceiveHandshake, SendAck, SendHello, ReceiveReply, Moves, TypeOK
<1>4. \A c \in Conn : Made(c) => Made(c)'
  BY <1>3, Names DEF Made
<1>5. QueueInv'
  <2>1. \A n \in 1 .. Len(queue) : Made(queue[n])'
    BY <1>2, <1>3, QueueElements, Names DEF QueueInv, Made
  <2>. QED  BY <1>2, <1>4, <2>1 DEF QueueInv
<1>6. PaceInv'
  <2>1. \A b \in Agent : Handshaken(b)' <=> Handshaken(b)
    BY <1>2 DEF Handshaken
  <2>2. \A c \in reset : c \in Conn /\ c.agent # a
    BY <1>2 DEF PaceInv, TypeOK
  <2>3. \A b \in Agent :
          /\ step'[b] \in {"connect", "greeting"} \/ Handshaken(b)'
          /\ b \in Backup => step'[b] \notin {"upload", "fetch"}
          /\ b \in Client /\ place'[Cmd(b)] = "backup" => b \in dead' /\ step'[b] = "greeting"
    BY <1>2, <1>3, <2>1, Names DEF PaceInv
  <2>4. \A c \in Conn : place'[c] \in {"upload", "fetch", "hello", "serving"} =>
          c.agent \in Client /\ step'[c.agent] \in {"hello", "reply", "done"}
    BY <1>2, <1>3, Names DEF PaceInv
  <2>5. \A c \in reset' : place'[c] # "none" /\ c.agent \in dead' /\ step'[c.agent] = "greeting"
    BY <1>2, <1>3, <2>2, Names DEF PaceInv
  <2>. QED  BY <2>3, <2>4, <2>5 DEF PaceInv
<1>7. OrderInv'
  <2>1. \A b \in Client : step'[b] \in {"ack", "hello", "reply", "done"} =>
          step[b] \in {"ack", "hello", "reply", "done"}
    BY <1>3, Names
  <2>. QED  BY <1>2, <2>1 DEF OrderInv
<1>8. ConnectInv'
  <2>1. \A b \in Client : Connecting(b)' => Connecting(b) /\ (step'[b] = "fetch" <=> step[b] = "fetch")
                              /\ (b = a => place[Cmd(a)] # "none")
    BY <1>2, <1>3, Names DEF Connecting, Handshaken
  <2>. QED  BY <1>2, <2>1 DEF ConnectInv
<1>9. SocketsInv'
  BY <1>2 DEF SocketsInv
<1>. QED  BY <1>1, <1>5, <1>6, <1>7, <1>8, <1>9

\* A death takes nothing away; only a greeted agent leaves a handshake unread.
LEMMA DieStep ==
  ASSUME SInv, NEW a \in Agent, Die(a)
  PROVE  SInv'
<1>. USE DEF SInv
<1>1. TypeOK' /\ HandInv'
  BY TypeStep, HandStep DEF Next
<1>2. UNCHANGED <<queue, main, locked, place, upload, fetch, step>> /\ dead' = dead \cup {a}
  BY DEF Die
<1>3. \A c \in reset' : c \in reset \/
        (c \in Conn /\ c.agent = a /\ place[c] = "ack" /\ (c.role = "cmd" => step[a] = "greeting"))
  BY DEF Die
<1>4. QueueInv'
  BY <1>2 DEF QueueInv, Made
<1>5. PaceInv'
  <2>1. \A c \in reset' : place'[c] # "none" /\ c.agent \in dead' /\ step'[c.agent] = "greeting"
    BY <1>2, <1>3 DEF PaceInv, QueueInv
  <2>. QED  BY <1>2, <2>1 DEF PaceInv, Handshaken
<1>6. OrderInv' /\ SocketsInv'
  BY <1>2 DEF OrderInv, SocketsInv
<1>7. ConnectInv'
  <2>1. \A b \in Client : Connecting(b)' => Connecting(b)
    BY <1>2 DEF Connecting
  <2>. QED  BY <1>2, <2>1 DEF ConnectInv
<1>. QED  BY <1>1, <1>4, <1>5, <1>6, <1>7

\* The invariant of the sessions is inductive.
LEMMA SessionStep == serial' /\ SInv /\ [Next]_vars => SInv'
<1>. SUFFICES ASSUME serial', SInv, [Next]_vars PROVE SInv'
  OBVIOUS
<1>1. CASE LockHand \/ UNCHANGED vars
  <2>1. TypeOK' /\ HandInv'
    BY TypeStep, HandStep DEF SInv
  <2>2. UNCHANGED <<queue, place, upload, fetch, step, dead, reset>>
    BY <1>1 DEF LockHand, vars
  <2>3. QueueInv' /\ PaceInv'
    BY <2>2 DEF SInv, QueueInv, PaceInv, Made, Handshaken
  <2>4. OrderInv' /\ ConnectInv' /\ SocketsInv'
    BY <2>2 DEF SInv, OrderInv, ConnectInv, SocketsInv, Connecting
  <2>. QED  BY <2>1, <2>3, <2>4 DEF SInv
<1>. QED
  BY <1>1, FirstContactStep, DataSocketStep, HandlerStep, ConnectStep,
     ConnectDataStep, MoveStep, DieStep
  DEF Next, Server, Handler, Run

\* Once an agent came between the connects of a client, nothing takes that back.
LEMMA SerialStep == [Next]_vars => (serial' => serial)
BY DEF Next, Server, Handler, LockHand, AcceptFirstContact, SendHandshake,
       ReceiveClientAck, ReceiveBackupAck, ReceiveReset, AcceptUpload, AcceptFetch,
       StartCommunications, Connect, Run, Die, ReceiveHandshake, ConnectUpload,
       ConnectFetch, SendAck, SendHello, ReceiveReply, vars

\* Every session serves one client over that client's own three sockets, as
\* long as agents came one at a time; no death at any point can mix them up.
THEOREM OneClientSessions == Spec => []SessionOfOneClient
<1>1. Init => SInv
  <2>. SUFFICES ASSUME Init PROVE SInv
    OBVIOUS
  <2>1. TypeOK /\ HandInv
    BY TypeInit DEF Init, HandInv, OneAccepter, Greeting
  <2>2. Len(queue) = 0 /\ \A a \in Agent : Cmd(a) \in Conn
    BY Names DEF Init
  <2>3. QueueInv /\ PaceInv /\ OrderInv
    BY <2>2, Names DEF Init, QueueInv, PaceInv, OrderInv
  <2>4. ConnectInv /\ SocketsInv
    BY <2>2, Names DEF Init, ConnectInv, SocketsInv, Connecting
  <2>. QED  BY <2>1, <2>3, <2>4 DEF SInv
<1>2. (serial => SInv) => SessionOfOneClient
  BY DEF SInv, QueueInv, SocketsInv, SessionOfOneClient, SocketsOf
<1>3. (serial => SInv) /\ [Next]_vars => (serial => SInv)'
  BY SessionStep, SerialStep
<1>. QED  BY <1>1, <1>2, <1>3, PTL DEF Spec

-----------------------------------------------------------------------------
(* No connection is accepted twice, however the agents start.              *)

Taken(c) == place[c] # "none" \/ \E d \in Conn : c \in upload[d] \cup fetch[d]

\* An agent makes each of its connections once, and what it made waits or was
\* accepted, never both.
OnceInv ==
  /\ \A n \in 1 .. Len(queue) : Made(queue[n]) /\ ~Taken(queue[n])
  /\ \A m, n \in 1 .. Len(queue) : queue[m] = queue[n] => m = n
  /\ \A c \in Conn : Taken(c) => Made(c)
  /\ AcceptedOnce

\* A step that leaves the queue alone and accepts nothing.
LEMMA OnceKept ==
  ASSUME TypeOK, OnceInv, queue' = queue, upload' = upload, fetch' = fetch,
         \A c \in Conn : Made(c) => Made(c)',
         \A c \in Conn : place'[c] # "none" => place[c] # "none"
  PROVE  OnceInv'
<1>1. \A c \in Conn : Taken(c)' => Taken(c)
  BY DEF Taken
<1>2. \A n \in 1 .. Len(queue) : queue[n] \in Conn
  BY QueueElements
<1>3. AcceptedOnce'
  BY DEF OnceInv, AcceptedOnce
<1>. QED  BY <1>1, <1>2, <1>3 DEF OnceInv

\* The head of the queue becomes a first contact or a socket of a handler.
LEMMA OnceAccepted ==
  ASSUME TypeOK, OnceInv, queue # <<>>, queue' = Tail(queue), step' = step,
         NEW c \in Conn,
         \/ place' = [place EXCEPT ![Head(queue)] = "greet"] /\ UNCHANGED <<upload, fetch>>
         \/ /\ place[c] # "none" /\ \E p \in Place : place' = [place EXCEPT ![c] = p]
            /\ \/ upload' = [upload EXCEPT ![c] = {Head(queue)}] /\ fetch' = fetch
               \/ fetch' = [fetch EXCEPT ![c] = {Head(queue)}] /\ upload' = upload
  PROVE  OnceInv'
<1>. DEFINE h == Head(queue)
<1>1. /\ h \in Conn /\ h = queue[1] /\ Len(queue) \in Nat /\ Len(queue) >= 1
      /\ Len(queue') = Len(queue) - 1
      /\ \A n \in 1 .. Len(queue') : queue'[n] = queue[n+1] /\ n+1 \in 1 .. Len(queue)
  BY QueueTail
<1>2. Made(h) /\ ~Taken(h) /\ \A n \in 1 .. Len(queue') : queue'[n] # h /\ queue'[n] \in Conn
  BY <1>1, QueueElements DEF OnceInv
<1>3. \A d \in Conn : Taken(d)' => Taken(d) \/ d = h
  BY <1>1 DEF Taken, TypeOK
<1>4. \A d \in Conn : Made(d)' <=> Made(d)
  BY DEF Made
<1>5. \A n \in 1 .. Len(queue') : (Made(queue[n]) /\ ~Taken(queue[n]))'
  <2>1. SUFFICES ASSUME NEW n \in 1 .. Len(queue')
                 PROVE  Made(queue[n])' /\ ~Taken(queue[n])'
    OBVIOUS
  <2>2. queue'[n] \in Conn /\ queue'[n] # h /\ Made(queue'[n]) /\ ~Taken(queue'[n])
    BY <1>1, <1>2 DEF OnceInv
  <2>3. Made(queue[n])'
    BY <2>2 DEF Made
  <2>4. ~Taken(queue[n])'
    BY <1>1, <2>2, SMTT(60) DEF Taken, TypeOK
  <2>. QED  BY <2>3, <2>4
<1>6. \A m, n \in 1 .. Len(queue') : queue'[m] = queue'[n] => m = n
  BY <1>1 DEF OnceInv
<1>7. \A d \in Conn : Taken(d)' => Made(d)'
  BY <1>2, <1>3, <1>4 DEF OnceInv
<1>8. AcceptedOnce'
  <2>1. AcceptedOnce /\ \A d \in Conn : place[h] = "none" /\ h \notin upload[d] \cup fetch[d]
    BY <1>1, <1>2 DEF OnceInv, Taken
  <2>2. CASE place' = [place EXCEPT ![h] = "greet"] /\ UNCHANGED <<upload, fetch>>
    BY <2>1, <2>2 DEF AcceptedOnce, TypeOK
  <2>3. CASE /\ place[c] # "none" /\ \A d \in Conn : place'[d] # "none" => place[d] # "none"
             /\ upload' = [upload EXCEPT ![c] = {h}] /\ fetch' = fetch
    BY <2>1, <2>3 DEF AcceptedOnce, TypeOK
  <2>4. CASE /\ place[c] # "none" /\ \A d \in Conn : place'[d] # "none" => place[d] # "none"
             /\ fetch' = [fetch EXCEPT ![c] = {h}] /\ upload' = upload
    BY <2>1, <2>4 DEF AcceptedOnce, TypeOK
  <2>. QED  BY <2>2, <2>3, <2>4 DEF TypeOK
<1>. QED  BY <1>5, <1>6, <1>7, <1>8 DEF OnceInv

\* An agent connects for what it has not connected for yet.
LEMMA OnceConnected ==
  ASSUME TypeOK, OnceInv, NEW c \in Conn, ~Made(c), Made(c)',
         queue' = Append(queue, c), UNCHANGED <<place, upload, fetch>>,
         \A d \in Conn : Made(d) => Made(d)'
  PROVE  OnceInv'
<1>1. /\ Len(queue) \in Nat /\ Len(queue') = Len(queue) + 1
      /\ queue'[Len(queue')] = c
      /\ \A n \in 1 .. Len(queue) : queue'[n] = queue[n] /\ queue[n] \in Conn
      /\ \A n \in 1 .. Len(queue') : n \in 1 .. Len(queue) \/ n = Len(queue')
  BY QueueAppend
<1>2. \A d \in Conn : Taken(d)' <=> Taken(d)
  BY DEF Taken
<1>3. ~Taken(c) /\ \A n \in 1 .. Len(queue) : queue[n] # c
  BY DEF OnceInv
<1>4. \A n \in 1 .. Len(queue') : (Made(queue[n]) /\ ~Taken(queue[n]))'
  <2>1. SUFFICES ASSUME NEW n \in 1 .. Len(queue')
                 PROVE  Made(queue[n])' /\ ~Taken(queue[n])'
    OBVIOUS
  <2>2. CASE n \in 1 .. Len(queue)
    <3>1. queue'[n] \in Conn /\ queue'[n] = queue[n] /\ Made(queue[n]) /\ ~Taken(queue[n])
      BY <1>1, <2>2 DEF OnceInv
    <3>2. Made(queue[n])'
      BY <3>1, <2>2, Names DEF Made
    <3>. QED  BY <3>1, <3>2 DEF Taken
  <2>3. CASE n = Len(queue')
    BY <1>1, <1>3, <2>3 DEF Taken, Made
  <2>. QED  BY <1>1, <2>2, <2>3
<1>5. \A m, n \in 1 .. Len(queue') : queue'[m] = queue'[n] => m = n
  BY <1>1, <1>3 DEF OnceInv
<1>6. AcceptedOnce'
  BY DEF OnceInv, AcceptedOnce
<1>. QED  BY <1>2, <1>4, <1>5, <1>6 DEF OnceInv

\* A connection enters the queue once, and leaves it for one place.
LEMMA OnceStep == TypeOK /\ OnceInv /\ [Next]_vars => OnceInv'
<1>. SUFFICES ASSUME TypeOK, OnceInv, [Next]_vars PROVE OnceInv'
  OBVIOUS
<1>1. CASE LockHand \/ UNCHANGED vars
  BY <1>1, OnceKept DEF LockHand, vars, Made
<1>2. CASE AcceptFirstContact
  <2>1. Head(queue) \in Conn /\ queue # <<>>
    BY <1>2, QueueTail DEF AcceptFirstContact
  <2>. QED  BY <1>2, <2>1, OnceAccepted DEF AcceptFirstContact
<1>3. ASSUME NEW c \in Conn, AcceptUpload(c) \/ AcceptFetch(c) PROVE OnceInv'
  <2>1. place[c] # "none" /\ \E p \in Place : place' = [place EXCEPT ![c] = p]
    BY <1>3 DEF AcceptUpload, AcceptFetch, Place
  <2>. QED  BY <1>3, <2>1, OnceAccepted DEF AcceptUpload, AcceptFetch
<1>4. ASSUME NEW c \in Conn,
             \/ SendHandshake(c) \/ ReceiveClientAck(c) \/ ReceiveBackupAck(c)
             \/ ReceiveReset(c) \/ StartCommunications(c)
      PROVE  OnceInv'
  <2>1. /\ UNCHANGED <<queue, upload, fetch, step>> /\ place[c] # "none"
        /\ place' = place \/ \E p \in Place : place' = [place EXCEPT ![c] = p]
    BY <1>4 DEF SendHandshake, ReceiveClientAck, ReceiveBackupAck, ReceiveReset,
                StartCommunications, Place
  <2>2. \A d \in Conn : (Made(d) => Made(d)') /\ (place'[d] # "none" => place[d] # "none")
    BY <2>1 DEF Made, TypeOK
  <2>. QED  BY <2>1, <2>2, OnceKept
<1>5. ASSUME NEW a \in Agent, Connect(a) \/ Run(a) \/ Die(a) PROVE OnceInv'
  <2>1. UNCHANGED <<place, upload, fetch>>
    BY <1>5 DEF Connect, Run, Die, Moves, ReceiveHandshake, ConnectUpload,
                ConnectFetch, SendAck, SendHello, ReceiveReply
  <2>2. \A d \in Conn : Made(d) => Made(d)'
    BY <1>5, Names
    DEF Made, Connect, Run, Die, Moves, ReceiveHandshake, ConnectUpload,
        ConnectFetch, SendAck, SendHello, ReceiveReply, TypeOK
  <2>3. CASE queue' = queue
    BY <2>1, <2>2, <2>3, OnceKept
  <2>4. ASSUME NEW c \in Conn, queue' = Append(queue, c), ~Made(c), Made(c)' PROVE OnceInv'
    BY <2>1, <2>2, <2>4, OnceConnected
  <2>5. CASE Connect(a)
    <3>1. Cmd(a) \in Conn /\ queue' = Append(queue, Cmd(a)) /\ ~Made(Cmd(a)) /\ Made(Cmd(a))'
      BY <2>5, Names DEF Connect, Moves, Made, TypeOK
    <3>. QED  BY <2>4, <3>1
  <2>6. CASE ConnectUpload(a)
    <3>1. Upload(a) \in Conn /\ queue' = Append(queue, Upload(a)) /\ ~Made(Upload(a)) /\ Made(Upload(a))'
      BY <2>6, Names DEF ConnectUpload, Moves, Made, TypeOK
    <3>. QED  BY <2>4, <3>1
  <2>7. CASE ConnectFetch(a)
    <3>1. Fetch(a) \in Conn /\ queue' = Append(queue, Fetch(a)) /\ ~Made(Fetch(a)) /\ Made(Fetch(a))'
      BY <2>7, Names DEF ConnectFetch, Moves, Made, TypeOK
    <3>. QED  BY <2>4, <3>1
  <2>. QED
    BY <1>5, <2>3, <2>5, <2>6, <2>7
    DEF Run, Die, ReceiveHandshake, SendAck, SendHello, ReceiveReply
<1>. QED  BY <1>1, <1>2, <1>3, <1>4, <1>5 DEF Next, Server, Handler

\* Each connection becomes one first contact or one socket of one handler,
\* however agents start, whatever they die of, and whoever's sockets they are.
THEOREM AcceptedOnceAlways == Spec => []AcceptedOnce
<1>1. Init => OnceInv
  <2>. SUFFICES ASSUME Init PROVE OnceInv
    OBVIOUS
  <2>1. Len(queue) = 0 /\ \A c \in Conn : ~Taken(c)
    BY DEF Init, Taken
  <2>. QED  BY <2>1 DEF Init, OnceInv, AcceptedOnce
<1>2. OnceInv => AcceptedOnce
  BY DEF OnceInv
<1>. QED  BY <1>1, <1>2, TypeInit, TypeStep, OnceStep, PTL DEF Spec

=============================================================================
