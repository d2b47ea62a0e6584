--------------------------- MODULE DareProxyProofs ---------------------------
(***************************************************************************)
(* Proofs about DareProxy under a leader that lasts, for every group, any  *)
(* number of clients, inputs and descriptors: the types, that every        *)
(* application gets the committed inputs of every connection in order, and *)
(* that what a server has applied has reached its application.             *)
(***************************************************************************)
EXTENDS DareProxy, FiniteSetTheorems, FunctionTheorems, SequenceTheorems, WellFoundedInduction, TLAPS

\* The connection ids of the clients are different.  pair_count is a uint8_t: after
\* ConnCount connections the ids begin again.
EnoughIds == Cardinality(Client) <= ConnCount

\* An application has descriptors for the connections of all clients.
EnoughFds == Cardinality(Client) <= Cardinality(Fd)

-----------------------------------------------------------------------------
(* The inductive invariant.                                                *)

\* An open socket and the thread that serves it.
Socket == [conn : Client, todo : Seq(Token), pc : {"app", "lock", "spin"}, rec : Nat]

\* f is a function on a subset of A with values in B.
IsMap(f, A, B) == DOMAIN f \subseteq A /\ f \in [DOMAIN f -> B]

\* What the leader has logged and what waits in its queue: the request that got number
\* k in leader_handle_submit_req is the k-th of them.
All == log \o tailq[0]

\* Server 0 leads; it has applied what is committed, and highest_rec is the number of
\* these requests.  A thread that has passed is_leader() has something to submit.
Basics ==
    /\ leader = 0 /\ leads = {0} /\ up = Server
    /\ log \in Seq(Entry) /\ committed \in 0 .. Len(log)
    /\ applied \in [Server -> 0 .. committed] /\ applied[0] = committed
    /\ tailq \in [Server -> Seq(Entry)]
    /\ cur_rec \in [Server -> Nat] /\ cur_rec[0] = Len(log) + Len(tailq[0])
    /\ highest_rec \in [Server -> Nat] /\ highest_rec[0] = committed
    /\ pair_count \in [Server -> 0 .. ConnCount - 1]
    /\ DOMAIN leader_hash_map = Server /\ DOMAIN follower_hash_map = Server
    /\ DOMAIN sock = Server
    /\ input \in [Server -> [Client -> Seq(Token)]]
    /\ new \subseteq Client
    /\ \A s \in Server :
         /\ s # 0 => highest_rec[s] = 0
         /\ IsMap(leader_hash_map[s], Fd, ConnId)
         /\ IsMap(follower_hash_map[s], ConnId, Fd)
         /\ IsMap(sock[s], Fd, Socket)
         /\ \A f \in DOMAIN sock[s] :
              /\ sock[s][f].pc # "app" => s = 0 /\ sock[s][f].todo # <<>>
              /\ sock[s][f].rec <= cur_rec[s]

\* How many inputs of client c the application of s has got.
Got(s, c) == Len(input[s][c])

\* What an application gets and is about to get on a connection are the inputs of one
\* client, in order, and no client has two sockets on a server.
Streams(s) ==
    /\ \A c \in Client : \A k \in DOMAIN input[s][c] : input[s][c][k] = <<c, k - 1>>
    /\ \A f \in DOMAIN sock[s] : \A j \in DOMAIN sock[s][f].todo :
         sock[s][f].todo[j] = <<sock[s][f].conn, Got(s, sock[s][f].conn) + j - 1>>
    /\ \A f, g \in DOMAIN sock[s] : sock[s][f].conn = sock[s][g].conn => f = g

\* On the leader a socket has the rest of what its client sends.
LeaderSockets ==
    /\ \A f \in DOMAIN sock[0] :
         /\ Got(0, sock[0][f].conn) + Len(sock[0][f].todo) = Reads + 2
         /\ sock[0][f].todo # <<>>
         /\ sock[0][f].conn \notin new
    /\ \A c \in new : input[0][c] = <<>>

\* The inputs of a client are submitted in order and none is left out or repeated.
Ordered ==
    /\ \A i \in 1 .. Len(All) : \A m \in 0 .. All[i].tok[2] - 1 :
         \E j \in 1 .. i - 1 : All[j].tok = <<All[i].tok[1], m>>
    /\ \A i, j \in 1 .. Len(All) :
         i < j /\ All[i].tok[1] = All[j].tok[1] => All[i].tok[2] < All[j].tok[2]

\* A thread that spins waits for its own request.
SpinsForOwn ==
    \A f \in DOMAIN sock[0] : sock[0][f].pc = "spin" =>
      /\ sock[0][f].rec \in 1 .. Len(All)
      /\ All[sock[0][f].rec].tok = Head(sock[0][f].todo)

\* Every request was given to the application or has a thread that spins.
GivenOrSpins ==
    \A i \in 1 .. Len(All) :
      \/ All[i].tok[2] < Got(0, All[i].tok[1])
      \/ /\ All[i].tok[2] = Got(0, All[i].tok[1])
         /\ \E f \in DOMAIN sock[0] : /\ sock[0][f].conn = All[i].tok[1]
                                      /\ sock[0][f].pc = "spin" /\ sock[0][f].rec = i

\* What was given is committed.
GivenCommitted ==
    \A c \in Client : \A m \in 0 .. Got(0, c) - 1 :
      \E i \in 1 .. committed : All[i].tok = <<c, m>>

\* Threads that wait and requests, together.
Waiting == SpinsForOwn /\ GivenOrSpins /\ GivenCommitted

\* Clients whose connection the leader has announced.
Connected == {All[i].tok[1] : i \in 1 .. Len(All)}

\* A connection has one id, and no other connection has it; the leader finds it under
\* the descriptor.
Ids ==
    /\ Cardinality(Connected) < ConnCount => pair_count[0] = Cardinality(Connected)
    /\ \A i \in 1 .. Len(All) : All[i].conn[2] < Cardinality(Connected)
    /\ \A i, j \in 1 .. Len(All) :
         All[i].tok[1] = All[j].tok[1] <=> All[i].conn = All[j].conn
    /\ \A f \in DOMAIN sock[0] \cap DOMAIN leader_hash_map[0] : \A i \in 1 .. Len(All) :
         All[i].tok[1] = sock[0][f].conn => All[i].conn = leader_hash_map[0][f]

\* Server s has applied the m-th input of client c.
Applied(s, c, m) == \E i \in 1 .. applied[s] : log[i].tok = <<c, m>>

\* The application of s knows nothing of client c; if the connection was announced,
\* there was no descriptor for it.
Unknown(s, c) == input[s][c] = <<>> /\ \A f \in DOMAIN sock[s] : sock[s][f].conn # c

\* What a follower gave to its application, or will, it has applied.
OnlyApplied(s) ==
    /\ \A c \in Client : \A m \in 0 .. Got(s, c) - 1 : Applied(s, c, m)
    /\ \A f \in DOMAIN sock[s] :
         /\ Got(s, sock[s][f].conn) + Len(sock[s][f].todo) >= 1
         /\ \A m \in 0 .. Got(s, sock[s][f].conn) + Len(sock[s][f].todo) - 1 :
              Applied(s, sock[s][f].conn, m)

\* What it has applied it gave to its application, or will.
HandedOver(s) ==
    \A i \in 1 .. applied[s] :
      \/ log[i].tok[2] < Got(s, log[i].tok[1])
      \/ \E f \in DOMAIN sock[s] :
           /\ sock[s][f].conn = log[i].tok[1]
           /\ log[i].tok[2] < Got(s, log[i].tok[1]) + Len(sock[s][f].todo)
      \/ Unknown(s, log[i].tok[1]) /\ ~EnoughFds

\* It finds the socket of a connection that is not closed under the id.
SocketFound(s) ==
    \A i \in 1 .. applied[s] : ~Applied(s, log[i].tok[1], Reads + 1) =>
      IF log[i].conn \in DOMAIN follower_hash_map[s]
      THEN /\ follower_hash_map[s][log[i].conn] \in DOMAIN sock[s]
           /\ sock[s][follower_hash_map[s][log[i].conn]].conn = log[i].tok[1]
      ELSE Unknown(s, log[i].tok[1])

\* The ids it knows are ids of entries that it has applied.
OnlyKnownIds(s) ==
    \A x \in DOMAIN follower_hash_map[s] : \E i \in 1 .. applied[s] : log[i].conn = x

\* The invariant of a follower.
FollowerRest(s) ==
    Streams(s) /\ OnlyApplied(s) /\ HandedOver(s) /\ SocketFound(s) /\ OnlyKnownIds(s)

\* The inductive invariant: of the leader, of the ids, of the followers.
LeaderInv == Basics /\ Streams(0) /\ LeaderSockets /\ Ordered /\ Waiting
FollowerInv == \A s \in Server \ {0} : FollowerRest(s)
IInv == LeaderInv /\ Ids /\ FollowerInv

-----------------------------------------------------------------------------
(* Lemmas about the operators.                                             *)

\* Server 0, which leads, is a server.
LEMMA Zero == 0 \in Server /\ Server \subseteq Nat
BY ProxyAssumption DEF Server

\* Put and Without keep maps maps.
LEMMA PutMap ==
    ASSUME NEW A, NEW B, NEW f, IsMap(f, A, B), NEW x \in A, NEW v \in B
    PROVE  /\ IsMap(Put(f, x, v), A, B)
           /\ DOMAIN Put(f, x, v) = DOMAIN f \cup {x}
           /\ Put(f, x, v)[x] = v
           /\ \A y \in DOMAIN f \ {x} : Put(f, x, v)[y] = f[y]
BY DEF IsMap, Put

LEMMA WithoutMap ==
    ASSUME NEW A, NEW B, NEW f, IsMap(f, A, B), NEW x
    PROVE  /\ IsMap(Without(f, x), A, B)
           /\ DOMAIN Without(f, x) = DOMAIN f \ {x}
           /\ \A y \in DOMAIN f \ {x} : Without(f, x)[y] = f[y]
BY DEF IsMap, Without

\* A server that has a free descriptor finds the lowest one.
LEMMA FreeFd ==
    ASSUME NEW s, Free(s) # {}
    PROVE  FirstFree(s) \in Fd \ DOMAIN sock[s]
<1>1. Free(s) \subseteq Nat
  BY ProxyAssumption DEF Free
<1>2. PICK t \in Free(s) : \A u \in Free(s) : ~(<<u, t>> \in OpToRel(<, Nat))
  BY <1>1, NatLessThanWellFounded, WFMin, Zenon
<1>3. \A u \in Free(s) : t <= u
  <2>1. \A u, v \in Nat : <<u, v>> \in OpToRel(<, Nat) <=> u < v
    BY Zenon DEF OpToRel
  <2>2. \A u \in Free(s) : ~(u < t)
    BY <2>1, <1>1, <1>2, Zenon
  <2> QED BY <2>2, <1>1
<1>4. \E f \in Free(s) : \A g \in Free(s) : f <= g
  BY <1>3
<1>5. FirstFree(s) \in Free(s)
  BY <1>4 DEF FirstFree
<1> QED BY <1>5 DEF Free

\* A socket with two fields replaced.
LEMMA TodoPc ==
    ASSUME NEW k \in Socket, NEW a, NEW b
    PROVE  [k EXCEPT !.todo = a, !.pc = b] = [conn |-> k.conn, todo |-> a, pc |-> b, rec |-> k.rec]
<1> DEFINE x == [k EXCEPT !.todo = a, !.pc = b]
<1>1. x = [i \in DOMAIN k |-> x[i]] /\ DOMAIN x = {"conn", "todo", "pc", "rec"}
  BY DEF Socket
<1>2. x.conn = k.conn /\ x.todo = a /\ x.pc = b /\ x.rec = k.rec
  BY DEF Socket
<1> HIDE DEF x
<1>3. x = [conn |-> k.conn, todo |-> a, pc |-> b, rec |-> k.rec]
  BY <1>1, <1>2 DEF Socket
<1> QED BY <1>3 DEF x

LEMMA PcRec ==
    ASSUME NEW k \in Socket, NEW a, NEW b
    PROVE  [k EXCEPT !.pc = a, !.rec = b] = [conn |-> k.conn, todo |-> k.todo, pc |-> a, rec |-> b]
<1> DEFINE x == [k EXCEPT !.pc = a, !.rec = b]
<1>1. x = [i \in DOMAIN k |-> x[i]] /\ DOMAIN x = {"conn", "todo", "pc", "rec"}
  BY DEF Socket
<1>2. x.conn = k.conn /\ x.todo = k.todo /\ x.pc = a /\ x.rec = b
  BY DEF Socket
<1> HIDE DEF x
<1>3. x = [conn |-> k.conn, todo |-> k.todo, pc |-> a, rec |-> b]
  BY <1>1, <1>2 DEF Socket
<1> QED BY <1>3 DEF x

\* The first input of a connection is a CONNECT, the last one a CLOSE.
LEMMA Types ==
    ASSUME NEW t \in Token
    PROVE  /\ t[1] \in Client /\ t[2] \in 0 .. Reads + 1 /\ t = <<t[1], t[2]>>
           /\ Type(t) = "CONNECT" <=> t[2] = 0
           /\ Type(t) = "CLOSE" <=> t[2] = Reads + 1
           /\ Type(t) = "SEND" <=> t[2] \in 1 .. Reads
BY ProxyAssumption DEF Token, Inputs, Type

\* All is a sequence of entries that begins with the log.
LEMMA AllSeq ==
    ASSUME log \in Seq(Entry), tailq[0] \in Seq(Entry)
    PROVE  /\ All \in Seq(Entry) /\ Len(All) = Len(log) + Len(tailq[0])
           /\ \A i \in 1 .. Len(log) : All[i] = log[i]
           /\ \A i \in 1 .. Len(All) : All[i].tok \in Token /\ All[i].conn \in ConnId
<1>1. All \in Seq(Entry) /\ Len(All) = Len(log) + Len(tailq[0])
      /\ \A i \in 1 .. Len(log) : All[i] = log[i]
  BY ConcatProperties DEF All
<1>2. \A i \in 1 .. Len(All) : All[i] \in Entry
  BY <1>1, ElementOfSeq
<1> QED BY <1>1, <1>2 DEF Entry

-----------------------------------------------------------------------------
(* What the actions do to the sockets.                                     *)

\* The socket of s behind f is r now, a new one or a changed one; no other changed.
SocketSet(s, f, r) ==
    /\ DOMAIN sock' = Server /\ \A t \in Server \ {s} : sock'[t] = sock[t]
    /\ DOMAIN sock'[s] = DOMAIN sock[s] \cup {f}
    /\ sock'[s][f] = r
    /\ \A g \in DOMAIN sock[s] \ {f} : sock'[s][g] = sock[s][g]
    /\ IsMap(sock'[s], Fd, Socket)

\* The socket of s behind f is gone.
SocketClosed(s, f) ==
    /\ DOMAIN sock' = Server /\ \A t \in Server \ {s} : sock'[t] = sock[t]
    /\ DOMAIN sock'[s] = DOMAIN sock[s] \ {f}
    /\ \A g \in DOMAIN sock[s] \ {f} : sock'[s][g] = sock[s][g]
    /\ IsMap(sock'[s], Fd, Socket)

\* The three ways the actions change a socket.
LEMMA SetByPut ==
    ASSUME NEW s \in Server, NEW f \in Fd, NEW r \in Socket,
           DOMAIN sock = Server, IsMap(sock[s], Fd, Socket),
           sock' = [sock EXCEPT ![s] = Put(sock[s], f, r)]
    PROVE  SocketSet(s, f, r)
<1>1. sock'[s] = Put(sock[s], f, r) /\ DOMAIN sock' = Server
      /\ \A t \in Server \ {s} : sock'[t] = sock[t]
  OBVIOUS
<1>2. /\ IsMap(Put(sock[s], f, r), Fd, Socket)
      /\ DOMAIN Put(sock[s], f, r) = DOMAIN sock[s] \cup {f}
      /\ Put(sock[s], f, r)[f] = r
      /\ \A y \in DOMAIN sock[s] \ {f} : Put(sock[s], f, r)[y] = sock[s][y]
  BY PutMap
<1> QED BY <1>1, <1>2 DEF SocketSet

LEMMA ClosedByWithout ==
    ASSUME NEW s \in Server, NEW f,
           DOMAIN sock = Server, IsMap(sock[s], Fd, Socket),
           sock' = [sock EXCEPT ![s] = Without(sock[s], f)]
    PROVE  SocketClosed(s, f)
<1>1. sock'[s] = Without(sock[s], f) /\ DOMAIN sock' = Server
      /\ \A t \in Server \ {s} : sock'[t] = sock[t]
  OBVIOUS
<1>2. /\ IsMap(Without(sock[s], f), Fd, Socket)
      /\ DOMAIN Without(sock[s], f) = DOMAIN sock[s] \ {f}
      /\ \A y \in DOMAIN sock[s] \ {f} : Without(sock[s], f)[y] = sock[s][y]
  BY DEF IsMap, Without
<1> QED BY <1>1, <1>2 DEF SocketClosed

LEMMA SetByExcept ==
    ASSUME NEW s \in Server, NEW f \in DOMAIN sock[s], NEW r \in Socket,
           DOMAIN sock = Server, IsMap(sock[s], Fd, Socket),
           sock' = [sock EXCEPT ![s] = [sock[s] EXCEPT ![f] = r]]
    PROVE  SocketSet(s, f, r)
<1>1. sock'[s] = [sock[s] EXCEPT ![f] = r] /\ DOMAIN sock' = Server
      /\ \A t \in Server \ {s} : sock'[t] = sock[t]
  OBVIOUS
<1>2. [sock[s] EXCEPT ![f] = r] = Put(sock[s], f, r) /\ f \in Fd
  BY DEF Put, IsMap
<1>3. /\ IsMap(Put(sock[s], f, r), Fd, Socket)
      /\ DOMAIN Put(sock[s], f, r) = DOMAIN sock[s] \cup {f}
      /\ Put(sock[s], f, r)[f] = r
      /\ \A y \in DOMAIN sock[s] \ {f} : Put(sock[s], f, r)[y] = sock[s][y]
  BY <1>2, PutMap
<1> QED BY <1>1, <1>2, <1>3 DEF SocketSet

\* A client that connects gets a socket of the leader, and all of its inputs wait.
LEMMA ConnectEffect ==
    ASSUME Basics, NEW c \in Client, Connect(c)
    PROVE  /\ c \in new /\ new' = new \ {c}
           /\ \E f \in Fd \ DOMAIN sock[0] :
                SocketSet(0, f, [conn |-> c, todo |-> [k \in 1 .. Reads + 2 |-> <<c, k - 1>>],
                                 pc |-> "app", rec |-> 0])
           /\ UNCHANGED <<log, committed, applied, leader, leads, up, tailq, cur_rec,
                          highest_rec, pair_count, leader_hash_map, follower_hash_map, input>>
<1> DEFINE t == [k \in 1 .. Reads + 2 |-> <<c, k - 1>>]
           r == [conn |-> c, todo |-> t, pc |-> "app", rec |-> 0]
<1>1. t \in Seq(Token)
  <2>1. \A k \in 1 .. Reads + 2 : <<c, k - 1>> \in Token
    BY ProxyAssumption DEF Token, Inputs
  <2> QED BY <2>1, ProxyAssumption, IsASeq
<1>2. r \in Socket
  BY <1>1 DEF Socket
<1>3. Free(0) # {} /\ sock' = [sock EXCEPT ![0] = Put(sock[0], FirstFree(0), r)]
  BY Zero DEF Connect, Basics, Opened
<1>4. FirstFree(0) \in Fd \ DOMAIN sock[0]
  BY <1>3, FreeFd
<1>5. SocketSet(0, FirstFree(0), r)
  BY <1>2, <1>3, <1>4, SetByPut, Zero DEF Basics
<1> QED BY <1>4, <1>5 DEF Connect, proxyVars

\* What Return does, with an input left: the application gets it.
LEMMA ReturnEffect ==
    ASSUME Basics, NEW s \in Server, NEW f \in DOMAIN sock[s], sock[s][f].todo # <<>>,
           Return(s, f)
    PROVE  LET k == sock[s][f]
               tok == Head(k.todo)
           IN  /\ tok \in Token
               /\ input' = [input EXCEPT ![s] = [input[s] EXCEPT ![k.conn] = Append(input[s][k.conn], tok)]]
               /\ IF Type(tok) = "CLOSE" THEN SocketClosed(s, f)
                  ELSE SocketSet(s, f, [conn |-> k.conn, todo |-> Tail(k.todo),
                                        pc |-> "app", rec |-> k.rec])
<1> DEFINE k == sock[s][f]
           r == [conn |-> k.conn, todo |-> Tail(k.todo), pc |-> "app", rec |-> k.rec]
<1>1. k \in Socket /\ f \in Fd
  BY DEF Basics, IsMap
<1>2. k.todo \in Seq(Token) /\ k.todo # <<>> /\ k.rec \in Nat /\ k.conn \in Client
  BY <1>1 DEF Socket
<1> HIDE DEF k
<1>3. Head(k.todo) \in Token /\ Tail(k.todo) \in Seq(Token)
  BY <1>2, HeadTailProperties
<1>4. r \in Socket
  BY <1>2, <1>3 DEF Socket
<1>5. [k EXCEPT !.todo = Tail(@), !.pc = "app"] = r
  BY <1>1, TodoPc
<1>6. /\ input' = [input EXCEPT ![s] = [input[s] EXCEPT ![k.conn] = Append(input[s][k.conn], Head(k.todo))]]
      /\ sock' = [sock EXCEPT ![s] = IF Type(Head(k.todo)) = "CLOSE" THEN Without(@, f)
                                     ELSE Put(@, f, [k EXCEPT !.todo = Tail(@), !.pc = "app"])]
  <2>1. k \in Socket /\ input \in [Server -> [Client -> Seq(Token)]]
    BY <1>1 DEF Basics
  <2> QED BY <2>1 DEF Return, k
<1>7. CASE Type(Head(k.todo)) = "CLOSE"
  <2>1. sock' = [sock EXCEPT ![s] = Without(sock[s], f)]
    BY <1>6, <1>7
  <2>2. SocketClosed(s, f)
    BY <2>1, ClosedByWithout DEF Basics
  <2> QED BY <1>3, <1>6, <1>7, <2>2 DEF k
<1>8. CASE Type(Head(k.todo)) # "CLOSE"
  <2>1. sock' = [sock EXCEPT ![s] = Put(sock[s], f, r)]
    BY <1>5, <1>6, <1>8
  <2>2. SocketSet(s, f, r)
    BY <2>1, <1>1, <1>4, SetByPut DEF Basics
  <2> QED BY <1>3, <1>6, <1>8, <2>2 DEF k
<1> QED BY <1>7, <1>8

\* The leader's hooks wait for the lock.
LEMMA LockEffect ==
    ASSUME Basics, NEW s \in Server, NEW f \in DOMAIN sock[s], Hook(s, f), s = 0
    PROVE  /\ sock[0][f].pc = "app" /\ sock[0][f].todo # <<>>
           /\ SocketSet(0, f, [conn |-> sock[0][f].conn, todo |-> sock[0][f].todo,
                               pc |-> "lock", rec |-> sock[0][f].rec])
           /\ UNCHANGED <<log, committed, applied, leader, leads, up, tailq, cur_rec,
                          highest_rec, pair_count, leader_hash_map, follower_hash_map, input, new>>
<1> DEFINE k == sock[0][f]
           r == [conn |-> k.conn, todo |-> k.todo, pc |-> "lock", rec |-> k.rec]
<1>1. k \in Socket /\ IsMap(sock[0], Fd, Socket) /\ DOMAIN sock = Server
  BY Zero DEF Basics, IsMap
<1>2. r \in Socket /\ r = [k EXCEPT !.pc = "lock"]
  BY <1>1 DEF Socket
<1>3. sock' = [sock EXCEPT ![0] = [sock[0] EXCEPT ![f] = r]]
  BY <1>1, <1>2 DEF Hook, Basics
<1>4. SocketSet(0, f, r)
  BY <1>1, <1>2, <1>3, SetByExcept, Zero
<1> QED BY <1>4 DEF Hook, Basics, proxyVars

\* The hooks of the other servers return at once.
LEMMA PassEffect ==
    ASSUME Basics, NEW s \in Server, NEW f \in DOMAIN sock[s], Hook(s, f), s # 0
    PROVE  /\ sock[s][f].todo # <<>> /\ Return(s, f)
           /\ UNCHANGED <<log, committed, applied, leader, leads, up, tailq, cur_rec,
                          highest_rec, pair_count, leader_hash_map, follower_hash_map, new>>
BY DEF Hook, Basics, proxyVars

\* A thread that waits is let go on the leader only, when its number is committed.
LEMMA ReleasedEffect ==
    ASSUME Basics, NEW s \in Server, NEW f \in DOMAIN sock[s], Released(s, f)
    PROVE  /\ s = 0 /\ sock[0][f].todo # <<>> /\ sock[0][f].pc = "spin"
           /\ sock[0][f].rec <= committed
           /\ Return(0, f)
           /\ UNCHANGED <<log, committed, applied, leader, leads, up, tailq, cur_rec,
                          highest_rec, pair_count, leader_hash_map, follower_hash_map, new>>
BY DEF Released, Basics, proxyVars

\* A request gets the next number and goes to the end of the queue.
LEMMA SubmitEffect ==
    ASSUME Basics, NEW s \in Server, NEW f \in DOMAIN sock[s], Submit(s, f)
    PROVE  LET k == sock[0][f]
               tok == Head(k.todo)
               conn == IF Type(tok) = "CONNECT" THEN <<0, pair_count[0]>>
                       ELSE leader_hash_map[0][f]
           IN  /\ s = 0 /\ k.todo # <<>> /\ k.pc = "lock"
               /\ Type(tok) = "CONNECT" \/ f \in DOMAIN leader_hash_map[0]
               /\ tok \in Token /\ [conn |-> conn, tok |-> tok] \in Entry
               /\ SocketSet(0, f, [conn |-> k.conn, todo |-> k.todo, pc |-> "spin",
                                   rec |-> Len(All) + 1])
               /\ cur_rec' = [cur_rec EXCEPT ![0] = @ + 1]
               /\ pair_count' = IF Type(tok) = "CONNECT"
                                THEN [pair_count EXCEPT ![0] = (@ + 1) % ConnCount]
                                ELSE pair_count
               /\ leader_hash_map' = [leader_hash_map EXCEPT ![0] =
                    IF Type(tok) = "CLOSE" THEN Without(@, f) ELSE Put(@, f, conn)]
               /\ tailq' = [tailq EXCEPT ![0] = Append(@, [conn |-> conn, tok |-> tok])]
               /\ All' = Append(All, [conn |-> conn, tok |-> tok])
               /\ UNCHANGED <<log, committed, applied, leader, leads, up, highest_rec,
                              follower_hash_map, input, new>>
<1> DEFINE k == sock[0][f]
           tok == Head(k.todo)
           conn == IF Type(tok) = "CONNECT" THEN <<0, pair_count[0]>> ELSE leader_hash_map[0][f]
           e == [conn |-> conn, tok |-> tok]
           r == [conn |-> k.conn, todo |-> k.todo, pc |-> "spin", rec |-> Len(All) + 1]
<1>1. s = 0
  BY DEF Submit, Basics
<1>2. k \in Socket /\ IsMap(sock[0], Fd, Socket) /\ DOMAIN sock = Server /\ f \in Fd
  BY <1>1 DEF Basics, IsMap
<1>3. k.todo # <<>> /\ k.pc = "lock"
      /\ (Type(tok) = "CONNECT" \/ f \in DOMAIN leader_hash_map[0])
  BY <1>1 DEF Submit, Basics
<1>4. tok \in Token
  BY <1>2, <1>3, HeadTailProperties DEF Socket
<1>5. conn \in ConnId
  BY <1>3, Zero, ProxyAssumption DEF Basics, IsMap, ConnId
<1>6. Len(All) \in Nat /\ cur_rec[0] = Len(All)
  BY Zero, AllSeq DEF Basics
<1>7. r \in Socket /\ r = [k EXCEPT !.pc = "spin", !.rec = Len(All) + 1]
  <2>1. r \in Socket
    BY <1>2, <1>6 DEF Socket
  <2> HIDE DEF k
  <2> QED BY <2>1, <1>2, PcRec
<1>8. sock' = [sock EXCEPT ![0] = [sock[0] EXCEPT ![f] = r]]
  <2>1. sock' = [sock EXCEPT ![0][f].pc = "spin", ![0][f].rec = Len(All) + 1]
    BY <1>1, <1>6 DEF Submit
  <2> HIDE DEF k, r
  <2> QED BY <2>1, <1>2, <1>7, <1>1 DEF k
<1>9. SocketSet(0, f, r)
  BY <1>1, <1>2, <1>7, <1>8, SetByExcept, Zero
<1>10. /\ cur_rec' = [cur_rec EXCEPT ![0] = @ + 1]
       /\ pair_count' = IF Type(tok) = "CONNECT"
                        THEN [pair_count EXCEPT ![0] = (@ + 1) % ConnCount]
                        ELSE pair_count
       /\ leader_hash_map' = [leader_hash_map EXCEPT ![0] =
            IF Type(tok) = "CLOSE" THEN Without(@, f) ELSE Put(@, f, conn)]
       /\ tailq' = [tailq EXCEPT ![0] = Append(@, [conn |-> conn, tok |-> tok])]
       /\ UNCHANGED <<log, committed, applied, leader, leads, up, highest_rec,
                      follower_hash_map, input, new>>
  BY <1>1 DEF Submit, GenKey, Enqueued
<1>11. e \in Entry
  BY <1>4, <1>5 DEF Entry
<1>12. All' = Append(All, e)
  <2>1. log' = log /\ tailq'[0] = Append(tailq[0], e)
    BY <1>10, Zero DEF Basics
  <2>2. log \in Seq(Entry) /\ tailq[0] \in Seq(Entry)
    BY Zero DEF Basics
  <2> HIDE DEF e
  <2>3. log \o Append(tailq[0], e) = Append(log \o tailq[0], e)
    BY <2>2, <1>11
  <2> QED BY <2>1, <2>3 DEF All
<1> QED BY <1>1, <1>3, <1>4, <1>9, <1>10, <1>11, <1>12

\* A pass of the leader empties the queue into the log and goes on with commit and apply.
LEMMA LeaderPassEffect ==
    ASSUME Basics, NEW s \in Server, LeaderPass(s)
    PROVE  /\ s = 0 /\ log' = All /\ All' = All
           /\ tailq' = [tailq EXCEPT ![0] = <<>>]
           /\ committed' \in committed .. Len(All)
           /\ applied' = [applied EXCEPT ![0] = committed']
           /\ highest_rec' = [highest_rec EXCEPT ![0] = committed']
           /\ UNCHANGED <<leader, leads, up, cur_rec, pair_count, leader_hash_map,
                          follower_hash_map, sock, input, new>>
<1>1. s = 0 /\ log' = All
  BY DEF LeaderPass, Basics, Appended, All
<1>2. tailq' = [tailq EXCEPT ![0] = <<>>] /\ committed' \in committed .. Len(All)
      /\ applied' = [applied EXCEPT ![0] = committed']
      /\ UNCHANGED <<leader, leads, up, cur_rec, pair_count, leader_hash_map,
                     follower_hash_map, sock, input, new>>
  BY <1>1 DEF LeaderPass
<1>3. All' = All
  <2>1. tailq'[0] = <<>> /\ All \in Seq(Entry)
    BY <1>2, Zero, AllSeq DEF Basics
  <2>2. All' = All \o <<>>
    BY <2>1, <1>1 DEF All
  <2> QED BY <2>1, <2>2, ConcatEmptySeq
<1>4. highest_rec[0] = committed /\ applied[0] = committed /\ committed \in Int /\ Len(All) \in Int
  BY Zero, AllSeq DEF Basics
<1>5. highest_rec' = [highest_rec EXCEPT ![0] = committed + (committed' - committed)]
  BY <1>1, <1>4 DEF LeaderPass, HighestRecUpdates
<1>6. committed + (committed' - committed) = committed'
  <2>1. \A a, b, m \in Int : m \in a .. b => a + (m - a) = m
    OBVIOUS
  <2>2. committed' \in Int
    BY <1>2, <1>4
  <2> QED BY <2>1, <2>2, <1>2, <1>4
<1> QED BY <1>1, <1>2, <1>3, <1>5, <1>6

\* A replayed input is put behind what the socket has.
LEMMA AppendTodo ==
    ASSUME NEW k \in Socket, NEW tok
    PROVE  [k EXCEPT !.todo = Append(@, tok)]
             = [conn |-> k.conn, todo |-> Append(k.todo, tok), pc |-> k.pc, rec |-> k.rec]
<1>1. \A t : [k EXCEPT !.todo = t] = [conn |-> k.conn, todo |-> t, pc |-> k.pc, rec |-> k.rec]
  BY DEF Socket
<1> QED BY <1>1

\* do_action_send and do_action_close give the input to the socket behind the descriptor,
\* if there is one.
LEMMA SendEffect ==
    ASSUME Basics, NEW s \in Server, NEW f, NEW tok \in Token,
           sock' = [sock EXCEPT ![s][f].todo = Append(@, tok)]
    PROVE  IF f \in DOMAIN sock[s]
           THEN SocketSet(s, f, [conn |-> sock[s][f].conn, todo |-> Append(sock[s][f].todo, tok),
                                 pc |-> sock[s][f].pc, rec |-> sock[s][f].rec])
           ELSE DOMAIN sock' = Server /\ \A t \in Server : sock'[t] = sock[t]
<1> DEFINE k == sock[s][f]
           r == [conn |-> k.conn, todo |-> Append(k.todo, tok), pc |-> k.pc, rec |-> k.rec]
<1>1. IsMap(sock[s], Fd, Socket) /\ DOMAIN sock = Server
  BY DEF Basics
<1>2. sock' = [sock EXCEPT ![s] = [sock[s] EXCEPT ![f] = [sock[s][f] EXCEPT !.todo = Append(@, tok)]]]
  OBVIOUS
<1>3. CASE f \in DOMAIN sock[s]
  <2>1. k \in Socket /\ k.todo \in Seq(Token)
    BY <1>1, <1>3 DEF IsMap, Socket
  <2>2. Append(k.todo, tok) \in Seq(Token)
    BY <2>1, AppendProperties
  <2>3. r \in Socket
    BY <2>1, <2>2 DEF Socket
  <2>4. sock' = [sock EXCEPT ![s] = [sock[s] EXCEPT ![f] = r]]
    BY <1>2, <2>1, AppendTodo
  <2>5. SocketSet(s, f, r)
    BY <1>1, <1>3, <2>3, <2>4, SetByExcept
  <2> QED BY <1>3, <2>5
<1>4. CASE f \notin DOMAIN sock[s]
  <2> DEFINE v == [sock[s][f] EXCEPT !.todo = Append(@, tok)]
  <2>1. sock' = [sock EXCEPT ![s] = [sock[s] EXCEPT ![f] = v]]
    BY <1>2
  <2> HIDE DEF v
  <2>2. [sock[s] EXCEPT ![f] = v] = sock[s]
    BY <1>1, <1>4 DEF IsMap
  <2> QED BY <1>1, <1>4, <2>1, <2>2
<1> QED BY <1>3, <1>4

\* A follower takes the next committed entry: it opens a socket, gives an input to one,
\* or leaves everything.
LEMMA FollowerApplyEffect ==
    ASSUME Basics, NEW s \in Server, FollowerApply(s)
    PROVE  LET e == log[applied[s] + 1]
               map == follower_hash_map[s]
               f == map[e.conn]
               known == e.conn \in DOMAIN map
               connect == Type(e.tok) = "CONNECT"
           IN  /\ s # 0 /\ e \in Entry /\ applied[s] + 1 \in 1 .. committed
               /\ applied' = [applied EXCEPT ![s] = @ + 1]
               /\ \/ /\ connect /\ ~known /\ Free(s) # {}
                     /\ \E g \in Fd \ DOMAIN sock[s] :
                          /\ SocketSet(s, g, [conn |-> e.tok[1], todo |-> <<e.tok>>,
                                              pc |-> "app", rec |-> 0])
                          /\ follower_hash_map' = [follower_hash_map EXCEPT ![s] = Put(@, e.conn, g)]
                  \/ /\ ~connect /\ known
                     /\ IF f \in DOMAIN sock[s]
                        THEN SocketSet(s, f, [conn |-> sock[s][f].conn,
                                              todo |-> Append(sock[s][f].todo, e.tok),
                                              pc |-> sock[s][f].pc, rec |-> sock[s][f].rec])
                        ELSE DOMAIN sock' = Server /\ \A t \in Server : sock'[t] = sock[t]
                     /\ follower_hash_map' = IF Type(e.tok) = "CLOSE"
                          THEN [follower_hash_map EXCEPT ![s] = Without(@, e.conn)]
                          ELSE follower_hash_map
                  \/ /\ IF connect THEN known \/ Free(s) = {} ELSE ~known
                     /\ UNCHANGED <<sock, follower_hash_map>>
               /\ UNCHANGED <<log, committed, leader, leads, up, tailq, cur_rec, highest_rec,
                              pair_count, leader_hash_map, input, new>>
<1> DEFINE e == log[applied[s] + 1]
           map == follower_hash_map[s]
           f == map[e.conn]
           known == e.conn \in DOMAIN map
           connect == Type(e.tok) = "CONNECT"
           r == [conn |-> e.tok[1], todo |-> <<e.tok>>, pc |-> "app", rec |-> 0]
<1>1. s # 0 /\ applied[s] < committed /\ DoAction(s, e)
      /\ applied' = [applied EXCEPT ![s] = @ + 1]
      /\ UNCHANGED <<log, committed, leader, leads, up, tailq, cur_rec, highest_rec,
                     pair_count, leader_hash_map, input, new>>
  BY DEF FollowerApply, Basics
<1>2. applied[s] + 1 \in 1 .. committed /\ applied[s] + 1 \in 1 .. Len(log)
  BY <1>1 DEF Basics
<1>3. e \in Entry
  BY <1>2, ElementOfSeq DEF Basics
<1>4. e.tok \in Token /\ e.conn \in ConnId /\ e.tok[1] \in Client
  BY <1>3, Types DEF Entry
<1> HIDE DEF e
<1>5. Type(e.tok) \in {"CONNECT", "SEND", "CLOSE"}
  BY DEF Type
<1>6. CASE connect /\ ~known /\ Free(s) # {}
  <2>1. /\ follower_hash_map' = [follower_hash_map EXCEPT ![s] = Put(@, e.conn, FirstFree(s))]
        /\ sock' = [sock EXCEPT ![s] = Put(@, FirstFree(s), Opened(e.tok[1], <<e.tok>>))]
    BY <1>1, <1>6 DEF DoAction
  <2>2. FirstFree(s) \in Fd \ DOMAIN sock[s]
    BY <1>6, FreeFd
  <2>3. r \in Socket
    BY <1>4 DEF Socket
  <2>4. SocketSet(s, FirstFree(s), r)
    <3>1. sock' = [sock EXCEPT ![s] = Put(sock[s], FirstFree(s), r)]
      BY <2>1 DEF Opened
    <3> QED BY <3>1, <2>2, <2>3, SetByPut DEF Basics
  <2>5. \E g \in Fd \ DOMAIN sock[s] :
          /\ SocketSet(s, g, r)
          /\ follower_hash_map' = [follower_hash_map EXCEPT ![s] = Put(@, e.conn, g)]
    BY <2>1, <2>2, <2>4
  <2> QED BY <1>1, <1>2, <1>3, <1>6, <2>5 DEF e
<1>7. CASE ~connect /\ known
  <2>1. sock' = [sock EXCEPT ![s][f].todo = Append(@, e.tok)]
    BY <1>1, <1>5, <1>7 DEF DoAction
  <2>2. follower_hash_map' = IF Type(e.tok) = "CLOSE"
                             THEN [follower_hash_map EXCEPT ![s] = Without(@, e.conn)]
                             ELSE follower_hash_map
    BY <1>1, <1>5, <1>7 DEF DoAction
  <2>3. IF f \in DOMAIN sock[s]
        THEN SocketSet(s, f, [conn |-> sock[s][f].conn, todo |-> Append(sock[s][f].todo, e.tok),
                              pc |-> sock[s][f].pc, rec |-> sock[s][f].rec])
        ELSE DOMAIN sock' = Server /\ \A t \in Server : sock'[t] = sock[t]
    BY <1>4, <2>1, SendEffect
  <2> QED BY <1>1, <1>2, <1>3, <1>7, <2>2, <2>3 DEF e
<1>8. CASE IF connect THEN known \/ Free(s) = {} ELSE ~known
  <2>1. UNCHANGED <<sock, follower_hash_map>>
    BY <1>1, <1>5, <1>8 DEF DoAction
  <2> QED BY <1>1, <1>2, <1>3, <1>8, <2>1 DEF e
<1> QED BY <1>6, <1>7, <1>8

-----------------------------------------------------------------------------
(* The types and the counters.                                             *)

\* The part of Basics about the sockets.
SocketsOK ==
    /\ DOMAIN sock = Server
    /\ \A s \in Server :
         /\ IsMap(sock[s], Fd, Socket)
         /\ \A f \in DOMAIN sock[s] :
              /\ sock[s][f].pc # "app" => s = 0 /\ sock[s][f].todo # <<>>
              /\ sock[s][f].rec <= cur_rec[s]

\* The sockets keep their part of Basics.
LEMMA SocketsSet ==
    ASSUME Basics, NEW s \in Server, NEW f, NEW r \in Socket, SocketSet(s, f, r),
           cur_rec' \in [Server -> Nat], \A t \in Server : cur_rec[t] <= cur_rec'[t],
           r.pc # "app" => s = 0 /\ r.todo # <<>>, r.rec <= cur_rec'[s]
    PROVE  SocketsOK'
<1> SUFFICES ASSUME NEW t \in Server
             PROVE  /\ IsMap(sock'[t], Fd, Socket)
                    /\ \A g \in DOMAIN sock'[t] :
                         /\ sock'[t][g].pc # "app" => t = 0 /\ sock'[t][g].todo # <<>>
                         /\ sock'[t][g].rec <= cur_rec'[t]
  BY DEF SocketsOK, SocketSet
<1>1. IsMap(sock'[t], Fd, Socket)
  BY DEF SocketSet, Basics
<1>2. ASSUME NEW g \in DOMAIN sock[t], sock'[t][g] = sock[t][g]
      PROVE  /\ sock'[t][g].pc # "app" => t = 0 /\ sock'[t][g].todo # <<>>
             /\ sock'[t][g].rec <= cur_rec'[t]
  <2>1. sock[t][g].rec \in Nat /\ cur_rec[t] \in Nat /\ cur_rec'[t] \in Nat
    BY DEF Basics, IsMap, Socket
  <2>2. sock[t][g].rec <= cur_rec[t] /\ cur_rec[t] <= cur_rec'[t]
    BY DEF Basics
  <2>3. sock[t][g].rec <= cur_rec'[t]
    BY <2>1, <2>2
  <2> QED BY <1>2, <2>3 DEF Basics
<1>3. CASE t # s
  BY <1>1, <1>2, <1>3 DEF SocketSet
<1>4. CASE t = s
  <2> SUFFICES ASSUME NEW g \in DOMAIN sock'[t]
               PROVE  /\ sock'[t][g].pc # "app" => t = 0 /\ sock'[t][g].todo # <<>>
                      /\ sock'[t][g].rec <= cur_rec'[t]
    BY <1>1
  <2>1. CASE g = f
    BY <1>4, <2>1 DEF SocketSet
  <2>2. CASE g # f
    BY <1>2, <1>4, <2>2 DEF SocketSet
  <2> QED BY <2>1, <2>2
<1> QED BY <1>3, <1>4

LEMMA SocketsClosed ==
    ASSUME Basics, NEW s \in Server, NEW f, SocketClosed(s, f), cur_rec' = cur_rec
    PROVE  SocketsOK'
<1>1. ASSUME NEW t \in Server
      PROVE  /\ IsMap(sock'[t], Fd, Socket)
             /\ DOMAIN sock'[t] \subseteq DOMAIN sock[t]
             /\ \A g \in DOMAIN sock'[t] : sock'[t][g] = sock[t][g]
  BY DEF SocketClosed, Basics
<1>2. \A t \in Server : \A g \in DOMAIN sock[t] :
              /\ sock[t][g].pc # "app" => t = 0 /\ sock[t][g].todo # <<>>
              /\ sock[t][g].rec <= cur_rec[t]
  BY DEF Basics
<1> QED BY <1>1, <1>2 DEF SocketsOK, SocketClosed

\* Appending an input to what an application got.
LEMMA InputType ==
    ASSUME Basics, NEW s \in Server, NEW c \in Client, NEW tok \in Token,
           input' = [input EXCEPT ![s] = [input[s] EXCEPT ![c] = Append(input[s][c], tok)]]
    PROVE  /\ input' \in [Server -> [Client -> Seq(Token)]]
           /\ input'[s][c] = Append(input[s][c], tok)
           /\ \A d \in Client \ {c} : input'[s][d] = input[s][d]
           /\ \A t \in Server \ {s} : input'[t] = input[t]
<1>1. input \in [Server -> [Client -> Seq(Token)]]
  BY DEF Basics
<1>2. Append(input[s][c], tok) \in Seq(Token)
  BY <1>1, AppendProperties
<1> DEFINE v == Append(input[s][c], tok)
<1> HIDE DEF v
<1>3. input' = [input EXCEPT ![s] = [input[s] EXCEPT ![c] = v]]
  BY DEF v
<1>4. v \in Seq(Token)
  BY <1>2 DEF v
<1>5. input'[s][c] = v
  BY <1>1, <1>3
<1> QED BY <1>1, <1>3, <1>4, <1>5 DEF v

\* Basics holds initially.
LEMMA InitBasics == Init => Basics
<1> SUFFICES ASSUME Init PROVE Basics
  OBVIOUS
<1>1. <<>> \in Seq(Entry) /\ <<>> \in Seq(Token) /\ Len(<<>>) = 0
  OBVIOUS
<1>2. \A A, B : IsMap(<<>>, A, B)
  BY DEF IsMap
<1>3. \A s \in Server : IsMap(leader_hash_map[s], Fd, ConnId) /\ IsMap(sock[s], Fd, Socket)
                        /\ IsMap(follower_hash_map[s], ConnId, Fd) /\ DOMAIN sock[s] = {}
  BY <1>2 DEF Init
<1>4. 0 \in 0 .. ConnCount - 1
  BY ProxyAssumption
<1>5. input \in [Server -> [Client -> Seq(Token)]] /\ tailq \in [Server -> Seq(Entry)]
      /\ log \in Seq(Entry)
  BY <1>1 DEF Init
<1>6. /\ leader = 0 /\ leads = {0} /\ up = Server /\ committed \in 0 .. Len(log)
      /\ applied \in [Server -> 0 .. committed] /\ applied[0] = committed
      /\ cur_rec \in [Server -> Nat] /\ cur_rec[0] = Len(log) + Len(tailq[0])
      /\ highest_rec \in [Server -> Nat] /\ highest_rec[0] = committed
      /\ pair_count \in [Server -> 0 .. ConnCount - 1]
      /\ DOMAIN leader_hash_map = Server /\ DOMAIN follower_hash_map = Server
      /\ DOMAIN sock = Server /\ new \subseteq Client
      /\ \A s \in Server : s # 0 => highest_rec[s] = 0
  BY <1>1, <1>4, Zero DEF Init
<1> QED BY <1>3, <1>5, <1>6 DEF Basics

\* What Basics says of the group and of the counters.
Counters ==
    /\ leader = 0 /\ leads = {0} /\ up = Server
    /\ log \in Seq(Entry) /\ committed \in 0 .. Len(log)
    /\ applied \in [Server -> 0 .. committed] /\ applied[0] = committed
    /\ tailq \in [Server -> Seq(Entry)]
    /\ cur_rec \in [Server -> Nat] /\ cur_rec[0] = Len(log) + Len(tailq[0])
    /\ highest_rec \in [Server -> Nat] /\ highest_rec[0] = committed
    /\ pair_count \in [Server -> 0 .. ConnCount - 1]
    /\ new \subseteq Client
    /\ \A s \in Server : s # 0 => highest_rec[s] = 0

Tables ==
    /\ DOMAIN leader_hash_map = Server /\ DOMAIN follower_hash_map = Server
    /\ \A s \in Server : /\ IsMap(leader_hash_map[s], Fd, ConnId)
                         /\ IsMap(follower_hash_map[s], ConnId, Fd)

\* Basics, and Basics after a step, by its parts.
LEMMA BasicsParts ==
    Basics <=> Counters /\ Tables /\ SocketsOK /\ input \in [Server -> [Client -> Seq(Token)]]
BY DEF Basics, Counters, Tables, SocketsOK

LEMMA BasicsPartsPrime ==
    Basics' <=> Counters' /\ Tables' /\ SocketsOK' /\ input' \in [Server -> [Client -> Seq(Token)]]
BY DEF Basics, Counters, Tables, SocketsOK

\* Basics after a hook has returned.
LEMMA ReturnBasics ==
    ASSUME Basics, NEW s \in Server, NEW f \in DOMAIN sock[s], sock[s][f].todo # <<>>, Return(s, f),
           UNCHANGED <<log, committed, applied, leader, leads, up, tailq, cur_rec,
                       highest_rec, pair_count, leader_hash_map, follower_hash_map, new>>
    PROVE  Basics'
<1> DEFINE k == sock[s][f]
           r == [conn |-> k.conn, todo |-> Tail(k.todo), pc |-> "app", rec |-> k.rec]
<1>1. k \in Socket /\ k.rec <= cur_rec[s] /\ cur_rec \in [Server -> Nat]
  BY DEF Basics, IsMap
<1>2. k.conn \in Client /\ k.todo \in Seq(Token) /\ k.rec \in Nat
  BY <1>1 DEF Socket
<1>3. /\ Head(k.todo) \in Token
      /\ input' = [input EXCEPT ![s] = [input[s] EXCEPT ![k.conn] = Append(input[s][k.conn], Head(k.todo))]]
      /\ SocketClosed(s, f) \/ SocketSet(s, f, r)
  BY ReturnEffect
<1>4. input' \in [Server -> [Client -> Seq(Token)]]
  BY <1>2, <1>3, InputType
<1>5. r \in Socket
  <2>1. Tail(k.todo) \in Seq(Token)
    BY <1>2, HeadTailProperties
  <2> QED BY <1>2, <2>1 DEF Socket
<1>6. SocketsOK'
  <2>1. CASE SocketClosed(s, f)
    BY <2>1, SocketsClosed
  <2>2. CASE SocketSet(s, f, r)
    <3>1. cur_rec' \in [Server -> Nat] /\ \A t \in Server : cur_rec[t] <= cur_rec'[t]
      BY <1>1
    <3>2. r.pc = "app" /\ r.rec <= cur_rec'[s]
      BY <1>1
    <3> HIDE DEF r
    <3> QED BY <2>2, <3>1, <3>2, <1>5, SocketsSet
  <2> QED BY <1>3, <2>1, <2>2
<1>7. Counters' /\ Tables'
  BY BasicsParts DEF Counters, Tables
<1> QED BY <1>4, <1>6, <1>7, BasicsPartsPrime

\* Basics after a client has connected.
LEMMA ConnectBasics ==
    ASSUME Basics, NEW c \in Client, Connect(c)
    PROVE  Basics'
<1> DEFINE t == [k \in 1 .. Reads + 2 |-> <<c, k - 1>>]
           r == [conn |-> c, todo |-> t, pc |-> "app", rec |-> 0]
<1>1. PICK f \in Fd \ DOMAIN sock[0] : SocketSet(0, f, r)
  BY ConnectEffect
<1>2. r \in Socket
  BY <1>1 DEF SocketSet, IsMap
<1>3. cur_rec' \in [Server -> Nat] /\ \A u \in Server : cur_rec[u] <= cur_rec'[u]
  BY ConnectEffect DEF Basics
<1>4. r.pc = "app" /\ r.rec <= cur_rec'[0]
  BY <1>3, Zero
<1>5. SocketsOK'
  <2> HIDE DEF r
  <2> QED BY <1>1, <1>2, <1>3, <1>4, Zero, SocketsSet
<1>6. Counters' /\ Tables' /\ input' \in [Server -> [Client -> Seq(Token)]]
  BY ConnectEffect, BasicsParts DEF Counters, Tables
<1> QED BY <1>5, <1>6, BasicsPartsPrime

\* Basics after a thread of the leader has passed is_leader().
LEMMA LockBasics ==
    ASSUME Basics, NEW s \in Server, NEW f \in DOMAIN sock[s], Hook(s, f), s = 0
    PROVE  Basics'
<1> DEFINE k == sock[0][f]
           r == [conn |-> k.conn, todo |-> k.todo, pc |-> "lock", rec |-> k.rec]
<1>1. SocketSet(0, f, r) /\ k.todo # <<>>
  BY LockEffect
<1>2. k \in Socket /\ k.rec <= cur_rec[0] /\ f \in DOMAIN sock[0]
  BY Zero DEF Basics, IsMap
<1>3. r \in Socket
  BY <1>2 DEF Socket
<1>4. cur_rec' \in [Server -> Nat] /\ \A u \in Server : cur_rec[u] <= cur_rec'[u]
  <2>1. cur_rec' = cur_rec
    BY LockEffect
  <2> QED BY <2>1 DEF Basics
<1>5. r.pc = "lock" /\ r.rec <= cur_rec'[0] /\ r.todo # <<>>
  BY <1>1, <1>2, LockEffect
<1>6. SocketsOK'
  <2> HIDE DEF r
  <2> QED BY <1>1, <1>3, <1>4, <1>5, Zero, SocketsSet
<1>7. Counters' /\ Tables' /\ input' \in [Server -> [Client -> Seq(Token)]]
  BY LockEffect, BasicsParts DEF Counters, Tables
<1> QED BY <1>6, <1>7, BasicsPartsPrime

\* Basics after a request is queued: cur_rec is still the number of requests.
LEMMA SubmitBasics ==
    ASSUME Basics, NEW s \in Server, NEW f \in DOMAIN sock[s], Submit(s, f)
    PROVE  Basics'
<1> DEFINE k == sock[0][f]
           tok == Head(k.todo)
           conn == IF Type(tok) = "CONNECT" THEN <<0, pair_count[0]>> ELSE leader_hash_map[0][f]
           e == [conn |-> conn, tok |-> tok]
           r == [conn |-> k.conn, todo |-> k.todo, pc |-> "spin", rec |-> Len(All) + 1]
<1>1. /\ s = 0 /\ k.todo # <<>> /\ e \in Entry /\ SocketSet(0, f, r)
      /\ cur_rec' = [cur_rec EXCEPT ![0] = @ + 1]
      /\ pair_count' = IF Type(tok) = "CONNECT"
                       THEN [pair_count EXCEPT ![0] = (@ + 1) % ConnCount]
                       ELSE pair_count
      /\ leader_hash_map' = [leader_hash_map EXCEPT ![0] =
           IF Type(tok) = "CLOSE" THEN Without(@, f) ELSE Put(@, f, conn)]
      /\ tailq' = [tailq EXCEPT ![0] = Append(@, e)]
      /\ UNCHANGED <<log, committed, applied, leader, leads, up, highest_rec,
                     follower_hash_map, input, new>>
  BY SubmitEffect
<1>2. r \in Socket /\ f \in Fd
  BY <1>1 DEF SocketSet, IsMap
<1>3. Len(All) \in Nat /\ cur_rec[0] = Len(All) /\ cur_rec \in [Server -> Nat]
  BY Zero, AllSeq DEF Basics
<1>4. cur_rec' \in [Server -> Nat] /\ cur_rec'[0] = Len(All) + 1
      /\ \A u \in Server : cur_rec[u] <= cur_rec'[u]
  <2>1. cur_rec' = [cur_rec EXCEPT ![0] = @ + 1]
    BY <1>1
  <2> QED BY <2>1, <1>3, Zero
<1>5. r.pc = "spin" /\ r.todo # <<>> /\ r.rec <= cur_rec'[0]
  BY <1>1, <1>3, <1>4
<1>6. SocketsOK'
  <2> HIDE DEF r
  <2> QED BY <1>1, <1>2, <1>4, <1>5, Zero, SocketsSet
<1>7. tailq' \in [Server -> Seq(Entry)] /\ Len(tailq'[0]) = Len(tailq[0]) + 1
  <2>1. tailq \in [Server -> Seq(Entry)] /\ tailq[0] \in Seq(Entry)
    BY Zero DEF Basics
  <2> HIDE DEF e
  <2>2. Append(tailq[0], e) \in Seq(Entry) /\ Len(Append(tailq[0], e)) = Len(tailq[0]) + 1
    BY <1>1, <2>1, AppendProperties
  <2> QED BY <1>1, <2>1, <2>2, Zero
<1>8. pair_count' \in [Server -> 0 .. ConnCount - 1]
  <2>1. pair_count \in [Server -> 0 .. ConnCount - 1]
    BY DEF Basics
  <2>2. \A x \in Nat : (x + 1) % ConnCount \in 0 .. ConnCount - 1
    BY ProxyAssumption
  <2>3. (pair_count[0] + 1) % ConnCount \in 0 .. ConnCount - 1
    BY <2>1, <2>2, Zero, ProxyAssumption
  <2> QED BY <1>1, <2>1, <2>3
<1>9. Counters'
  <2>1. log \in Seq(Entry) /\ tailq[0] \in Seq(Entry) /\ cur_rec[0] = Len(log) + Len(tailq[0])
        /\ Len(log) \in Nat /\ Len(tailq[0]) \in Nat
    BY Zero DEF Basics
  <2>2. cur_rec'[0] = Len(log') + Len(tailq'[0])
    BY <1>1, <1>3, <1>4, <1>7, <2>1
  <2> QED BY <1>1, <1>4, <1>7, <1>8, <2>2, BasicsParts DEF Counters
<1>10. Tables'
  <2>1. IsMap(leader_hash_map[0], Fd, ConnId) /\ conn \in ConnId
    BY <1>1, Zero DEF Basics, Entry
  <2> HIDE DEF conn
  <2>2. IsMap(Put(leader_hash_map[0], f, conn), Fd, ConnId)
    BY <1>2, <2>1, PutMap
  <2>3. IsMap(Without(leader_hash_map[0], f), Fd, ConnId)
    BY <2>1 DEF IsMap, Without
  <2>4. /\ DOMAIN leader_hash_map' = Server /\ IsMap(leader_hash_map'[0], Fd, ConnId)
        /\ \A u \in Server \ {0} : leader_hash_map'[u] = leader_hash_map[u]
    BY <1>1, <2>2, <2>3, Zero DEF Basics
  <2> QED BY <1>1, <2>4, BasicsParts DEF Tables
<1> QED BY <1>1, <1>6, <1>9, <1>10, BasicsParts, BasicsPartsPrime

\* Basics after a pass of the leader: highest_rec is still the number of committed requests.
LEMMA LeaderPassBasics ==
    ASSUME Basics, NEW s \in Server, LeaderPass(s)
    PROVE  Basics'
<1>1. /\ log' = All /\ tailq' = [tailq EXCEPT ![0] = <<>>]
      /\ committed' \in committed .. Len(All)
      /\ applied' = [applied EXCEPT ![0] = committed']
      /\ highest_rec' = [highest_rec EXCEPT ![0] = committed']
      /\ UNCHANGED <<leader, leads, up, cur_rec, pair_count, leader_hash_map,
                     follower_hash_map, sock, input, new>>
  BY LeaderPassEffect
<1>2. /\ All \in Seq(Entry) /\ Len(All) = Len(log) + Len(tailq[0])
      /\ Len(All) \in Nat /\ committed \in Nat
  BY Zero, AllSeq DEF Basics
<1>3. committed' \in 0 .. Len(All) /\ committed' \in Nat /\ committed <= committed'
  BY <1>1, <1>2
<1>4. tailq' \in [Server -> Seq(Entry)] /\ Len(tailq'[0]) = 0
  BY <1>1, Zero DEF Basics
<1>5. applied' \in [Server -> 0 .. committed'] /\ applied'[0] = committed'
  <2>1. applied \in [Server -> 0 .. committed] /\ 0 \in Server
    BY Zero DEF Basics
  <2>2. \A n \in 0 .. committed : n \in 0 .. committed'
    BY <1>2, <1>3
  <2>3. committed' \in 0 .. committed'
    BY <1>3
  <2> QED BY <1>1, <2>1, <2>2, <2>3
<1>6. highest_rec' \in [Server -> Nat] /\ highest_rec'[0] = committed'
      /\ \A u \in Server \ {0} : highest_rec'[u] = highest_rec[u]
  BY <1>1, <1>3, Zero DEF Basics
<1>7. Counters'
  <2>1. cur_rec'[0] = Len(log') + Len(tailq'[0]) /\ cur_rec' \in [Server -> Nat]
    BY <1>1, <1>2, <1>4 DEF Basics
  <2> QED BY <1>1, <1>2, <1>3, <1>4, <1>5, <1>6, <2>1, BasicsParts DEF Counters
<1>8. Tables' /\ SocketsOK' /\ input' \in [Server -> [Client -> Seq(Token)]]
  BY <1>1, BasicsParts DEF Tables, SocketsOK
<1> QED BY <1>7, <1>8, BasicsPartsPrime

\* Basics after a replay.
LEMMA FollowerApplyBasics ==
    ASSUME Basics, NEW s \in Server, FollowerApply(s)
    PROVE  Basics'
<1> DEFINE e == log[applied[s] + 1]
           map == follower_hash_map[s]
           f == map[e.conn]
           r0 == [conn |-> e.tok[1], todo |-> <<e.tok>>, pc |-> "app", rec |-> 0]
           r == [conn |-> sock[s][f].conn, todo |-> Append(sock[s][f].todo, e.tok),
                 pc |-> sock[s][f].pc, rec |-> sock[s][f].rec]
<1>1. /\ s # 0 /\ e \in Entry /\ applied[s] + 1 \in 1 .. committed
      /\ applied' = [applied EXCEPT ![s] = @ + 1]
      /\ UNCHANGED <<log, committed, leader, leads, up, tailq, cur_rec, highest_rec,
                     pair_count, leader_hash_map, input, new>>
  BY FollowerApplyEffect
<1>2. \/ \E g \in Fd \ DOMAIN sock[s] :
           /\ SocketSet(s, g, r0)
           /\ follower_hash_map' = [follower_hash_map EXCEPT ![s] = Put(map, e.conn, g)]
      \/ /\ IF f \in DOMAIN sock[s] THEN SocketSet(s, f, r)
            ELSE DOMAIN sock' = Server /\ \A t \in Server : sock'[t] = sock[t]
         /\ \/ follower_hash_map' = [follower_hash_map EXCEPT ![s] = Without(map, e.conn)]
            \/ follower_hash_map' = follower_hash_map
      \/ UNCHANGED <<sock, follower_hash_map>>
  BY FollowerApplyEffect
<1>3. Counters'
  <2>1. applied' \in [Server -> 0 .. committed'] /\ applied'[0] = applied[0]
    BY <1>1, Zero DEF Basics
  <2> QED BY <1>1, <2>1, BasicsParts DEF Counters
<1>4. IsMap(map, ConnId, Fd) /\ e.conn \in ConnId /\ DOMAIN follower_hash_map = Server
  BY <1>1 DEF Basics, Entry
<1>5. cur_rec' \in [Server -> Nat] /\ \A t \in Server : cur_rec[t] <= cur_rec'[t]
  BY <1>1 DEF Basics
<1> HIDE DEF e
<1>6. ASSUME NEW v, IsMap(v, ConnId, Fd), follower_hash_map' = [follower_hash_map EXCEPT ![s] = v]
      PROVE  Tables'
  <2>1. DOMAIN follower_hash_map' = Server /\ follower_hash_map'[s] = v
        /\ \A t \in Server \ {s} : follower_hash_map'[t] = follower_hash_map[t]
    BY <1>4, <1>6
  <2> QED BY <2>1, <1>1, <1>6, BasicsParts DEF Tables
<1>7. ASSUME follower_hash_map' = follower_hash_map PROVE Tables'
  BY <1>1, <1>7, BasicsParts DEF Tables
<1>8. ASSUME NEW g \in Fd \ DOMAIN sock[s], SocketSet(s, g, r0),
             follower_hash_map' = [follower_hash_map EXCEPT ![s] = Put(map, e.conn, g)]
      PROVE  Tables' /\ SocketsOK'
  <2>1. IsMap(Put(map, e.conn, g), ConnId, Fd)
    BY <1>4, PutMap
  <2>2. Tables'
    BY <1>6, <1>8, <2>1
  <2>3. r0 \in Socket
    BY <1>8 DEF SocketSet, IsMap
  <2>4. r0.pc = "app" /\ r0.rec <= cur_rec'[s]
    BY <1>5
  <2>5. SocketsOK'
    <3> HIDE DEF r0
    <3> QED BY <1>5, <1>8, <2>3, <2>4, SocketsSet
  <2> QED BY <2>2, <2>5
<1>9. ASSUME follower_hash_map' = [follower_hash_map EXCEPT ![s] = Without(map, e.conn)]
      PROVE  Tables'
  <2>1. IsMap(Without(map, e.conn), ConnId, Fd)
    BY <1>4 DEF IsMap, Without
  <2> QED BY <1>6, <1>9, <2>1
<1>10. ASSUME f \in DOMAIN sock[s], SocketSet(s, f, r)
       PROVE  SocketsOK'
  <2>1. r \in Socket
    BY <1>10 DEF SocketSet, IsMap
  <2>2. sock[s][f].pc = "app" /\ sock[s][f].rec <= cur_rec[s]
    BY <1>1, <1>10 DEF Basics
  <2>3. r.pc = "app" /\ r.rec <= cur_rec'[s]
    BY <1>1, <2>2
  <2> HIDE DEF r
  <2> QED BY <1>5, <1>10, <2>1, <2>3, SocketsSet
<1>11. ASSUME DOMAIN sock' = Server, \A t \in Server : sock'[t] = sock[t]
       PROVE  SocketsOK'
  BY <1>1, <1>11, BasicsParts DEF SocketsOK
<1>12. ASSUME sock' = sock PROVE SocketsOK'
  BY <1>1, <1>12, BasicsParts DEF SocketsOK
<1>13. Tables' /\ SocketsOK'
  <2> HIDE DEF r, r0, f, map
  <2> QED BY <1>2, <1>7, <1>8, <1>9, <1>10, <1>11, <1>12
<1> QED BY <1>1, <1>3, <1>13, BasicsParts, BasicsPartsPrime

\* Every step keeps Basics.
LEMMA NextBasics == Basics /\ [Next]_vars => Basics'
<1> SUFFICES ASSUME Basics, [Next]_vars PROVE Basics'
  OBVIOUS
<1>1. ASSUME NEW c \in Client, Connect(c) PROVE Basics'
  BY <1>1, ConnectBasics
<1>2. ASSUME NEW s \in Server, NEW f \in DOMAIN sock[s], Hook(s, f) PROVE Basics'
  <2>1. CASE s = 0
    BY <1>2, <2>1, LockBasics
  <2>2. CASE s # 0
    BY <1>2, <2>2, PassEffect, ReturnBasics
  <2> QED BY <2>1, <2>2
<1>3. ASSUME NEW s \in Server, NEW f \in DOMAIN sock[s], Submit(s, f) PROVE Basics'
  BY <1>3, SubmitBasics
<1>4. ASSUME NEW s \in Server, NEW f \in DOMAIN sock[s], Released(s, f) PROVE Basics'
  BY <1>4, ReleasedEffect, ReturnBasics
<1>5. ASSUME NEW s \in Server, LeaderPass(s) PROVE Basics'
  BY <1>5, LeaderPassBasics
<1>6. ASSUME NEW s \in Server, FollowerApply(s) PROVE Basics'
  BY <1>6, FollowerApplyBasics
<1>7. CASE UNCHANGED vars
  BY <1>7, BasicsParts, BasicsPartsPrime DEF vars, proxyVars, Counters, Tables, SocketsOK
<1> QED BY <1>1, <1>2, <1>3, <1>4, <1>5, <1>6, <1>7 DEF Next, App

-----------------------------------------------------------------------------
(* The leader.                                                             *)

LeaderRest == Streams(0) /\ LeaderSockets /\ Ordered /\ Waiting

\* The types of sockets and of what was given, as the proofs below use them.
LEMMA SocketTypes ==
    ASSUME Basics, NEW s \in Server, NEW f \in DOMAIN sock[s]
    PROVE  /\ f \in Fd /\ sock[s][f] \in Socket /\ sock[s][f].conn \in Client
           /\ sock[s][f].todo \in Seq(Token) /\ Len(sock[s][f].todo) \in Nat
           /\ DOMAIN sock[s][f].todo = 1 .. Len(sock[s][f].todo)
           /\ sock[s][f].rec \in Nat
<1>1. f \in Fd /\ sock[s][f] \in Socket
  BY DEF Basics, IsMap
<1> QED BY <1>1, LenProperties DEF Socket

LEMMA GotTypes ==
    ASSUME Basics
    PROVE  \A s \in Server, c \in Client :
             /\ Got(s, c) \in Nat /\ DOMAIN input[s][c] = 1 .. Got(s, c)
             /\ input[s][c] = <<>> <=> Got(s, c) = 0
<1> SUFFICES ASSUME NEW s \in Server, NEW c \in Client
             PROVE  /\ Got(s, c) \in Nat /\ DOMAIN input[s][c] = 1 .. Got(s, c)
                    /\ input[s][c] = <<>> <=> Got(s, c) = 0
  OBVIOUS
<1>1. input[s][c] \in Seq(Token)
  BY DEF Basics
<1> QED BY <1>1, LenProperties, EmptySeq DEF Got

\* What the entries of All are.
LEMMA AllTypes ==
    ASSUME Basics
    PROVE  /\ All \in Seq(Entry) /\ Len(All) \in Nat /\ committed \in Nat
           /\ committed <= Len(log) /\ Len(log) <= Len(All) /\ Len(log) \in Nat
           /\ \A i \in 1 .. Len(log) : All[i] = log[i]
           /\ \A i \in 1 .. Len(All) :
                /\ All[i].tok \in Token /\ All[i].tok[1] \in Client
                /\ All[i].tok[2] \in 0 .. Reads + 1 /\ All[i].tok[2] \in Nat
                /\ All[i].tok = <<All[i].tok[1], All[i].tok[2]>>
                /\ All[i].conn \in ConnId
<1>1. log \in Seq(Entry) /\ tailq[0] \in Seq(Entry) /\ committed \in 0 .. Len(log)
  BY Zero DEF Basics
<1>2. Len(log) \in Nat /\ Len(tailq[0]) \in Nat
  BY <1>1, LenProperties
<1>3. /\ All \in Seq(Entry) /\ Len(All) = Len(log) + Len(tailq[0])
      /\ \A i \in 1 .. Len(log) : All[i] = log[i]
      /\ \A i \in 1 .. Len(All) : All[i].tok \in Token /\ All[i].conn \in ConnId
  BY <1>1, AllSeq
<1>4. ASSUME NEW i \in 1 .. Len(All)
      PROVE  /\ All[i].tok[1] \in Client
             /\ All[i].tok[2] \in 0 .. Reads + 1 /\ All[i].tok[2] \in Nat
             /\ All[i].tok = <<All[i].tok[1], All[i].tok[2]>>
  <2>1. All[i].tok \in Token
    BY <1>3
  <2> QED BY <2>1, Types, ProxyAssumption
<1> QED BY <1>1, <1>2, <1>3, <1>4

\* What the followers do, and what the leader does to its log alone.
LEMMA LeaderFrame ==
    ASSUME Basics, LeaderRest, sock'[0] = sock[0], input'[0] = input[0], All' = All, new' = new,
           committed' \in Nat, committed <= committed'
    PROVE  LeaderRest'
<1>1. \A d : Got(0, d)' = Got(0, d)
  BY DEF Got
<1>2. Streams(0)'
  BY <1>1 DEF LeaderRest, Streams
<1>3. LeaderSockets'
  BY <1>1 DEF LeaderRest, LeaderSockets
<1>4. Ordered'
  BY DEF LeaderRest, Ordered
<1>5. SpinsForOwn'
  BY DEF LeaderRest, Waiting, SpinsForOwn
<1>6. GivenOrSpins'
  BY <1>1 DEF LeaderRest, Waiting, GivenOrSpins
<1>7. GivenCommitted'
  <2>1. \A i \in 1 .. committed : i \in 1 .. committed'
    BY AllTypes
  <2> QED BY <1>1, <2>1 DEF LeaderRest, Waiting, GivenCommitted
<1> QED BY <1>2, <1>3, <1>4, <1>5, <1>6, <1>7 DEF LeaderRest, Waiting

\* A client that has not connected has no entry.
LEMMA NewClient ==
    ASSUME Basics, LeaderRest, NEW c \in new
    PROVE  /\ Got(0, c) = 0
           /\ \A f \in DOMAIN sock[0] : sock[0][f].conn # c
           /\ \A i \in 1 .. Len(All) : All[i].tok[1] # c
<1>1. c \in Client
  BY DEF Basics
<1>2. Got(0, c) = 0
  BY <1>1, Zero, GotTypes DEF LeaderRest, LeaderSockets
<1>3. \A f \in DOMAIN sock[0] : sock[0][f].conn # c
  BY DEF LeaderRest, LeaderSockets
<1>4. ASSUME NEW i \in 1 .. Len(All), All[i].tok[1] = c PROVE FALSE
  <2>1. All[i].tok[2] \in Nat
    BY AllTypes
  <2>2. ~(All[i].tok[2] < Got(0, c))
    BY <1>2, <2>1
  <2> QED BY <1>3, <1>4, <2>2 DEF LeaderRest, Waiting, GivenOrSpins
<1> QED BY <1>2, <1>3, <1>4

\* LeaderRest after a client has connected.
LEMMA ConnectLeader ==
    ASSUME Basics, LeaderRest, NEW c \in Client, Connect(c)
    PROVE  LeaderRest'
<1> DEFINE t == [k \in 1 .. Reads + 2 |-> <<c, k - 1>>]
           r == [conn |-> c, todo |-> t, pc |-> "app", rec |-> 0]
<1>1. PICK f \in Fd \ DOMAIN sock[0] : SocketSet(0, f, r)
  BY ConnectEffect
<1>2. c \in new /\ new' = new \ {c} /\ input' = input /\ All' = All /\ committed' = committed
  BY ConnectEffect DEF All
<1>3. Len(t) = Reads + 2 /\ DOMAIN t = 1 .. Reads + 2 /\ \A j \in 1 .. Reads + 2 : t[j] = <<c, j - 1>>
  BY ProxyAssumption
<1>4. r.conn = c /\ r.todo = t /\ r.pc = "app"
  OBVIOUS
<1> HIDE DEF r, t
<1>5. /\ DOMAIN sock'[0] = DOMAIN sock[0] \cup {f} /\ sock'[0][f] = r
      /\ \A g \in DOMAIN sock[0] : sock'[0][g] = sock[0][g]
  BY <1>1 DEF SocketSet
<1>6. Got(0, c) = 0 /\ \A g \in DOMAIN sock[0] : sock[0][g].conn # c
  BY <1>2, NewClient
<1>7. \A s, d : Got(s, d)' = Got(s, d)
  BY <1>2 DEF Got
<1>8. Streams(0)'
  <2>1. \A d \in Client : \A k \in DOMAIN input'[0][d] : input'[0][d][k] = <<d, k - 1>>
    BY <1>2 DEF LeaderRest, Streams
  <2>2. ASSUME NEW g \in DOMAIN sock'[0], NEW j \in DOMAIN sock'[0][g].todo
        PROVE  sock'[0][g].todo[j] = <<sock'[0][g].conn, Got(0, sock'[0][g].conn) + j - 1>>
    <3>1. CASE g = f
      <4>1. j \in 1 .. Reads + 2 /\ t[j] = <<c, j - 1>>
        BY <1>3, <1>4, <1>5, <3>1
      <4>2. 0 + j - 1 = j - 1
        BY <4>1, ProxyAssumption
      <4> QED BY <1>4, <1>5, <1>6, <3>1, <4>1, <4>2
    <3>2. CASE g # f
      BY <1>5, <3>2 DEF LeaderRest, Streams
    <3> QED BY <3>1, <3>2
  <2>3. \A g, h \in DOMAIN sock'[0] : sock'[0][g].conn = sock'[0][h].conn => g = h
    BY <1>4, <1>5, <1>6 DEF LeaderRest, Streams
  <2> QED BY <1>7, <2>1, <2>2, <2>3 DEF Streams
<1>9. LeaderSockets'
  <2>1. t # <<>>
    BY <1>3, ProxyAssumption
  <2>2. 0 + Len(t) = Reads + 2
    BY <1>3, ProxyAssumption
  <2>3. ASSUME NEW g \in DOMAIN sock'[0]
        PROVE  /\ Got(0, sock'[0][g].conn) + Len(sock'[0][g].todo) = Reads + 2
               /\ sock'[0][g].todo # <<>>
               /\ sock'[0][g].conn \notin new'
    BY <1>2, <1>4, <1>5, <1>6, <2>1, <2>2 DEF LeaderRest, LeaderSockets
  <2> QED BY <1>2, <1>7, <2>3 DEF LeaderRest, LeaderSockets
<1>10. Ordered'
  BY <1>2 DEF LeaderRest, Ordered
<1>11. Waiting'
  <2>1. \A g \in DOMAIN sock'[0] : sock'[0][g].pc = "spin" => g \in DOMAIN sock[0]
    BY <1>4, <1>5
  <2>2. DOMAIN sock[0] \subseteq DOMAIN sock'[0]
    BY <1>5
  <2>3. SpinsForOwn'
    BY <1>2, <1>5, <2>1 DEF LeaderRest, Waiting, SpinsForOwn
  <2>4. GivenOrSpins'
    BY <1>2, <1>5, <1>7, <2>2 DEF LeaderRest, Waiting, GivenOrSpins
  <2>5. GivenCommitted'
    BY <1>2, <1>7 DEF LeaderRest, Waiting, GivenCommitted
  <2> QED BY <2>3, <2>4, <2>5 DEF Waiting
<1> QED BY <1>8, <1>9, <1>10, <1>11 DEF LeaderRest

\* LeaderRest after a thread has passed is_leader().
LEMMA LockLeader ==
    ASSUME Basics, LeaderRest, NEW f \in DOMAIN sock[0], Hook(0, f)
    PROVE  LeaderRest'
<1> DEFINE k == sock[0][f]
           r == [conn |-> k.conn, todo |-> k.todo, pc |-> "lock", rec |-> k.rec]
<1>1. SocketSet(0, f, r) /\ k.pc = "app"
  BY Zero, LockEffect
<1>2. input' = input /\ All' = All /\ committed' = committed /\ new' = new
  BY Zero, LockEffect DEF All
<1>3. r.conn = k.conn /\ r.todo = k.todo /\ r.pc = "lock"
  OBVIOUS
<1> HIDE DEF r
<1>4. /\ DOMAIN sock'[0] = DOMAIN sock[0]
      /\ \A g \in DOMAIN sock[0] : /\ sock'[0][g].conn = sock[0][g].conn
                                   /\ sock'[0][g].todo = sock[0][g].todo
                                   /\ g # f => sock'[0][g] = sock[0][g]
      /\ sock'[0][f].pc = "lock"
  BY <1>1, <1>3 DEF SocketSet
<1>5. \A s, d : Got(s, d)' = Got(s, d)
  BY <1>2 DEF Got
<1>6. Streams(0)'
  BY <1>2, <1>4, <1>5 DEF LeaderRest, Streams
<1>7. LeaderSockets'
  BY <1>2, <1>4, <1>5 DEF LeaderRest, LeaderSockets
<1>8. Ordered'
  BY <1>2 DEF LeaderRest, Ordered
<1>9. Waiting'
  <2>1. \A g \in DOMAIN sock[0] : sock[0][g].pc = "spin" => sock'[0][g] = sock[0][g]
    BY <1>1, <1>4
  <2>2. \A g \in DOMAIN sock'[0] : sock'[0][g].pc = "spin" => sock'[0][g] = sock[0][g]
    BY <1>4
  <2>3. SpinsForOwn'
    BY <1>2, <1>4, <2>2 DEF LeaderRest, Waiting, SpinsForOwn
  <2>4. GivenOrSpins'
    BY <1>2, <1>4, <1>5, <2>1 DEF LeaderRest, Waiting, GivenOrSpins
  <2>5. GivenCommitted'
    BY <1>2, <1>5 DEF LeaderRest, Waiting, GivenCommitted
  <2> QED BY <2>3, <2>4, <2>5 DEF Waiting
<1> QED BY <1>6, <1>7, <1>8, <1>9 DEF LeaderRest

\* The next input of a connection.
LEMMA NextInput ==
    ASSUME Basics, NEW s \in Server, Streams(s), NEW f \in DOMAIN sock[s], sock[s][f].todo # <<>>
    PROVE  /\ Head(sock[s][f].todo) = <<sock[s][f].conn, Got(s, sock[s][f].conn)>>
           /\ Head(sock[s][f].todo) \in Token
           /\ Got(s, sock[s][f].conn) \in 0 .. Reads + 1
<1> DEFINE q == sock[s][f].todo
           c == sock[s][f].conn
<1>1. q \in Seq(Token) /\ c \in Client /\ Got(s, c) \in Nat
  BY SocketTypes, GotTypes
<1>2. 1 \in DOMAIN q /\ Head(q) = q[1] /\ q[1] \in Token
  BY <1>1, EmptySeq, HeadTailProperties, LenProperties
<1>3. q[1] = <<c, Got(s, c) + 1 - 1>>
  BY <1>2 DEF Streams
<1>4. Got(s, c) + 1 - 1 = Got(s, c)
  BY <1>1
<1>5. Got(s, c) \in 0 .. Reads + 1
  <2>1. <<c, Got(s, c)>> \in Token
    BY <1>2, <1>3, <1>4
  <2> QED BY <2>1 DEF Token, Inputs
<1> QED BY <1>2, <1>3, <1>4, <1>5

\* Nothing that a thread is about to submit was submitted before.
LEMMA LockFresh ==
    ASSUME Basics, LeaderRest, NEW f \in DOMAIN sock[0], sock[0][f].pc = "lock",
           NEW i \in 1 .. Len(All), All[i].tok[1] = sock[0][f].conn
    PROVE  All[i].tok[2] < Got(0, sock[0][f].conn)
<1>1. ASSUME NEW g \in DOMAIN sock[0], sock[0][g].conn = All[i].tok[1], sock[0][g].pc = "spin"
      PROVE  FALSE
  BY <1>1 DEF LeaderRest, Streams
<1> QED BY <1>1 DEF LeaderRest, Waiting, GivenOrSpins

\* All with one more entry.
LEMMA Grown ==
    ASSUME Basics, NEW e \in Entry, All' = Append(All, e)
    PROVE  /\ Len(All)' = Len(All) + 1 /\ All'[Len(All) + 1] = e
           /\ \A i \in 1 .. Len(All) : All'[i] = All[i]
           /\ \A i \in 1 .. Len(All)' : i \in 1 .. Len(All) \/ i = Len(All) + 1
<1>1. All \in Seq(Entry) /\ Len(All) \in Nat
  BY AllTypes
<1>2. /\ Len(Append(All, e)) = Len(All) + 1 /\ Append(All, e)[Len(All) + 1] = e
      /\ \A i \in 1 .. Len(All) : Append(All, e)[i] = All[i]
  BY <1>1, AppendProperties
<1> QED BY <1>1, <1>2

\* LeaderRest after a request is queued: it is the next input of its client.
LEMMA SubmitLeader ==
    ASSUME Basics, LeaderRest, NEW f \in DOMAIN sock[0], Submit(0, f)
    PROVE  LeaderRest'
<1> DEFINE k == sock[0][f]
           c == k.conn
           n == Len(All)
           tok == Head(k.todo)
           r == [conn |-> c, todo |-> k.todo, pc |-> "spin", rec |-> n + 1]
<1>1. PICK e \in Entry : e.tok = tok /\ All' = Append(All, e)
  <2> DEFINE x == IF Type(tok) = "CONNECT" THEN <<0, pair_count[0]>> ELSE leader_hash_map[0][f]
  <2>1. [conn |-> x, tok |-> tok] \in Entry /\ All' = Append(All, [conn |-> x, tok |-> tok])
    BY Zero, SubmitEffect
  <2> QED BY <2>1
<1>2. /\ k.todo # <<>> /\ k.pc = "lock" /\ SocketSet(0, f, r)
      /\ input' = input /\ new' = new /\ committed' = committed
  BY Zero, SubmitEffect
<1>3. tok = <<c, Got(0, c)>> /\ Got(0, c) \in Nat /\ c \in Client
  BY <1>2, Zero, NextInput, SocketTypes, GotTypes DEF LeaderRest
<1>4. r.conn = c /\ r.todo = k.todo /\ r.pc = "spin" /\ r.rec = n + 1
  OBVIOUS
<1>5. n \in Nat /\ committed \in Nat /\ committed <= n
  BY AllTypes
<1>6. /\ Len(All') = n + 1 /\ All'[n + 1] = e
      /\ \A i \in 1 .. n : All'[i] = All[i]
      /\ \A i \in 1 .. Len(All') : i \in 1 .. n \/ i = n + 1
  BY <1>1, Grown
<1>7. \A i \in 1 .. n : All[i].tok[1] = c => All[i].tok[2] < Got(0, c)
  BY <1>2, LockFresh
<1>8. e.tok = tok /\ tok[1] = c /\ tok[2] = Got(0, c)
  BY <1>1, <1>3
<1> HIDE DEF r, n, tok
<1>9. /\ DOMAIN sock'[0] = DOMAIN sock[0]
      /\ \A g \in DOMAIN sock[0] : /\ sock'[0][g].conn = sock[0][g].conn
                                   /\ sock'[0][g].todo = sock[0][g].todo
                                   /\ g # f => sock'[0][g] = sock[0][g]
      /\ sock'[0][f].pc = "spin" /\ sock'[0][f].rec = n + 1
  BY <1>2, <1>4 DEF SocketSet
<1>10. \A d : Got(0, d)' = Got(0, d)
  BY <1>2 DEF Got
<1>11. Streams(0)'
  BY <1>2, <1>9, <1>10 DEF LeaderRest, Streams
<1>12. LeaderSockets'
  BY <1>2, <1>9, <1>10 DEF LeaderRest, LeaderSockets
<1>13. Ordered'
  <2>1. ASSUME NEW i \in 1 .. Len(All'), NEW m \in 0 .. All'[i].tok[2] - 1
        PROVE  \E j \in 1 .. i - 1 : All'[j].tok = <<All'[i].tok[1], m>>
    <3>1. CASE i \in 1 .. n
      <4>1. PICK j \in 1 .. i - 1 : All[j].tok = <<All[i].tok[1], m>>
        BY <1>6, <3>1 DEF LeaderRest, Ordered, n
      <4>2. j \in 1 .. n
        BY <3>1, <1>5
      <4> QED BY <1>6, <3>1, <4>1, <4>2
    <3>2. CASE i = n + 1
      <4>1. m \in 0 .. Got(0, c) - 1
        BY <1>6, <1>8, <3>2
      <4>2. PICK j \in 1 .. committed : All[j].tok = <<c, m>>
        BY <1>3, <4>1 DEF LeaderRest, Waiting, GivenCommitted
      <4>3. j \in 1 .. n /\ j \in 1 .. i - 1
        BY <1>5, <3>2
      <4> QED BY <1>6, <1>8, <3>2, <4>2, <4>3
    <3> QED BY <1>6, <3>1, <3>2
  <2>2. ASSUME NEW i \in 1 .. Len(All'), NEW j \in 1 .. Len(All'), i < j,
               All'[i].tok[1] = All'[j].tok[1]
        PROVE  All'[i].tok[2] < All'[j].tok[2]
    <3>1. i \in 1 .. n
      BY <1>5, <1>6, <2>2
    <3>2. CASE j \in 1 .. n
      BY <1>6, <2>2, <3>1, <3>2 DEF LeaderRest, Ordered, n
    <3>3. CASE j = n + 1
      BY <1>6, <1>7, <1>8, <2>2, <3>1, <3>3
    <3> QED BY <1>6, <3>2, <3>3
  <2> QED BY <2>1, <2>2 DEF Ordered
<1>14. SpinsForOwn'
  <2> SUFFICES ASSUME NEW g \in DOMAIN sock[0], sock'[0][g].pc = "spin"
               PROVE  /\ sock'[0][g].rec \in 1 .. Len(All')
                      /\ All'[sock'[0][g].rec].tok = Head(sock'[0][g].todo)
    BY <1>9 DEF SpinsForOwn
  <2>1. CASE g = f
    BY <1>5, <1>6, <1>8, <1>9, <2>1 DEF tok
  <2>2. CASE g # f
    <3>1. sock[0][g].rec \in 1 .. n /\ All[sock[0][g].rec].tok = Head(sock[0][g].todo)
      BY <1>9, <2>2 DEF LeaderRest, Waiting, SpinsForOwn, n
    <3>2. sock[0][g].rec \in 1 .. Len(All')
      BY <3>1, <1>5, <1>6
    <3> QED BY <1>6, <1>9, <2>2, <3>1, <3>2
  <2> QED BY <2>1, <2>2
<1>15. GivenOrSpins'
  <2> SUFFICES ASSUME NEW i \in 1 .. Len(All')
               PROVE  \/ All'[i].tok[2] < Got(0, All'[i].tok[1])
                      \/ /\ All'[i].tok[2] = Got(0, All'[i].tok[1])
                         /\ \E g \in DOMAIN sock'[0] : /\ sock'[0][g].conn = All'[i].tok[1]
                                                       /\ sock'[0][g].pc = "spin" /\ sock'[0][g].rec = i
    BY <1>10 DEF GivenOrSpins
  <2>1. CASE i = n + 1
    BY <1>6, <1>8, <1>9, <2>1
  <2>2. CASE i \in 1 .. n
    <3>1. \A g \in DOMAIN sock[0] : sock[0][g].pc = "spin" => sock'[0][g] = sock[0][g]
      BY <1>2, <1>9
    <3>2. \/ All[i].tok[2] < Got(0, All[i].tok[1])
          \/ /\ All[i].tok[2] = Got(0, All[i].tok[1])
             /\ \E g \in DOMAIN sock[0] : /\ sock[0][g].conn = All[i].tok[1]
                                          /\ sock[0][g].pc = "spin" /\ sock[0][g].rec = i
      BY <2>2 DEF LeaderRest, Waiting, GivenOrSpins, n
    <3> QED BY <1>6, <1>9, <2>2, <3>1, <3>2
  <2> QED BY <1>6, <2>1, <2>2
<1>16. GivenCommitted'
  <2>1. \A i \in 1 .. committed : All'[i] = All[i]
    BY <1>5, <1>6
  <2> QED BY <1>2, <1>10, <2>1 DEF LeaderRest, Waiting, GivenCommitted
<1> QED BY <1>11, <1>12, <1>13, <1>14, <1>15, <1>16 DEF LeaderRest, Waiting

\* The application of s has one input more of client c, and the socket lasts until the
\* CLOSE.
Returned(s, f, c) ==
    /\ input'[s][c] = Append(input[s][c], <<c, Got(s, c)>>)
    /\ Len(input'[s][c]) = Got(s, c) + 1
    /\ \A d \in Client \ {c} : input'[s][d] = input[s][d]
    /\ \A t \in Server \ {s} : input'[t] = input[t] /\ sock'[t] = sock[t]
    /\ DOMAIN sock'[s] = IF Got(s, c) = Reads + 1 THEN DOMAIN sock[s] \ {f} ELSE DOMAIN sock[s]
    /\ \A g \in DOMAIN sock[s] \ {f} : sock'[s][g] = sock[s][g]
    /\ f \in DOMAIN sock'[s] => /\ sock'[s][f].conn = c /\ sock'[s][f].pc = "app"
                                /\ sock'[s][f].todo = Tail(sock[s][f].todo)

\* That is what a hook that returns does.
LEMMA ReturnShape ==
    ASSUME Basics, NEW s \in Server, Streams(s), NEW f \in DOMAIN sock[s],
           sock[s][f].todo # <<>>, Return(s, f), NEW c, c = sock[s][f].conn
    PROVE  Returned(s, f, c)
<1> DEFINE k == sock[s][f]
           tok == Head(k.todo)
           r == [conn |-> k.conn, todo |-> Tail(k.todo), pc |-> "app", rec |-> k.rec]
<1>1. tok = <<c, Got(s, c)>> /\ tok \in Token /\ c \in Client /\ Got(s, c) \in Nat
  BY NextInput, SocketTypes, GotTypes
<1>2. /\ input' = [input EXCEPT ![s] = [input[s] EXCEPT ![c] = Append(input[s][c], tok)]]
      /\ IF Type(tok) = "CLOSE" THEN SocketClosed(s, f) ELSE SocketSet(s, f, r)
  BY ReturnEffect
<1>3. r.conn = c /\ r.todo = Tail(k.todo) /\ r.pc = "app"
  OBVIOUS
<1>4. Type(tok) = "CLOSE" <=> Got(s, c) = Reads + 1
  BY <1>1, Types
<1> HIDE DEF r, tok
<1>5. /\ input'[s][c] = Append(input[s][c], tok)
      /\ \A d \in Client \ {c} : input'[s][d] = input[s][d]
      /\ \A t \in Server \ {s} : input'[t] = input[t]
  BY ZenonT(30), <1>1, <1>2, InputType
<1>6. Len(input'[s][c]) = Got(s, c) + 1
  <2>1. input[s][c] \in Seq(Token)
    BY <1>1 DEF Basics
  <2> DEFINE q == input[s][c]
  <2> HIDE DEF q
  <2>2. q \in Seq(Token) => Len(Append(q, tok)) = Len(q) + 1
    BY <1>1, AppendProperties
  <2> QED BY <1>5, <2>1, <2>2 DEF Got, q
<1>8. CASE Got(s, c) = Reads + 1
  BY <1>1, <1>2, <1>4, <1>5, <1>6, <1>8 DEF SocketClosed, Returned
<1>9. CASE Got(s, c) # Reads + 1
  <2>1. SocketSet(s, f, r)
    BY <1>2, <1>4, <1>9
  <2>2. DOMAIN sock'[s] = DOMAIN sock[s]
    BY <2>1 DEF SocketSet
  <2> QED BY <1>1, <1>3, <1>5, <1>6, <1>9, <2>1, <2>2 DEF SocketSet, Returned
<1> QED BY <1>8, <1>9

\* Returning the head of a stream keeps the streams.
LEMMA ReturnStreams ==
    ASSUME Basics, NEW s \in Server, Streams(s), NEW f \in DOMAIN sock[s],
           sock[s][f].todo # <<>>, Return(s, f)
    PROVE  Streams(s)'
<1>0. PICK c : c = sock[s][f].conn
  OBVIOUS
<1> DEFINE q == sock[s][f].todo
<1>1. /\ input'[s][c] = Append(input[s][c], <<c, Got(s, c)>>)
      /\ Got(s, c)' = Got(s, c) + 1
      /\ \A d \in Client \ {c} : input'[s][d] = input[s][d] /\ Got(s, d)' = Got(s, d)
      /\ DOMAIN sock'[s] \subseteq DOMAIN sock[s]
      /\ \A g \in DOMAIN sock[s] \ {f} : sock'[s][g] = sock[s][g]
      /\ f \in DOMAIN sock'[s] => /\ sock'[s][f].conn = c /\ sock'[s][f].todo = Tail(q)
  <2>1. Returned(s, f, c)
    BY <1>0, ReturnShape
  <2>2. DOMAIN sock'[s] \subseteq DOMAIN sock[s]
    BY <2>1 DEF Returned
  <2> QED BY <2>1, <2>2 DEF Returned, Got
<1>2. c \in Client /\ Got(s, c) \in Nat /\ q \in Seq(Token) /\ q # <<>> /\ input[s][c] \in Seq(Token)
      /\ <<c, Got(s, c)>> \in Token
  BY ZenonT(30), <1>0, SocketTypes, GotTypes, NextInput DEF Basics
<1>3. ASSUME NEW d \in Client, NEW i \in DOMAIN input'[s][d]
      PROVE  input'[s][d][i] = <<d, i - 1>>
  <2>1. CASE d # c
    BY <1>1, <1>3, <2>1 DEF Streams
  <2>2. CASE d = c
    <3>1. Len(input[s][c]) = Got(s, c) /\ DOMAIN input[s][c] = 1 .. Got(s, c)
      BY <1>2, GotTypes DEF Got
    <3>2. /\ DOMAIN input'[s][c] = 1 .. Got(s, c) + 1
          /\ input'[s][c][Got(s, c) + 1] = <<c, Got(s, c)>>
          /\ \A j \in 1 .. Got(s, c) : input'[s][c][j] = input[s][c][j]
      BY <1>1, <1>2, <3>1, AppendProperties
    <3>3. CASE i \in 1 .. Got(s, c)
      BY <1>2, <2>2, <3>1, <3>2, <3>3 DEF Streams
    <3>4. CASE i = Got(s, c) + 1
      <4>1. Got(s, c) + 1 - 1 = Got(s, c)
        BY <1>2
      <4>2. i - 1 = Got(s, c)
        BY <1>2, <3>4
      <4> QED BY <2>2, <3>2, <3>4, <4>2
    <3>5. i \in 1 .. Got(s, c) \/ i = Got(s, c) + 1
      BY <1>2, <2>2, <3>2
    <3> QED BY <3>3, <3>4, <3>5
  <2> QED BY <2>1, <2>2
<1>4. ASSUME NEW g \in DOMAIN sock'[s], NEW j \in DOMAIN sock'[s][g].todo
      PROVE  sock'[s][g].todo[j] = <<sock'[s][g].conn, Len(input'[s][sock'[s][g].conn]) + j - 1>>
  <2>1. CASE g # f
    <3>1. g \in DOMAIN sock[s] /\ sock'[s][g] = sock[s][g] /\ sock[s][g].conn \in Client
      BY <1>1, <2>1, SocketTypes
    <3>2. sock[s][g].conn # c
      BY <1>0, <2>1, <3>1 DEF Streams
    <3> QED BY <1>1, <3>1, <3>2 DEF Streams, Got
  <2>2. CASE g = f
    <3>1. /\ DOMAIN Tail(q) = 1 .. Len(q) - 1 /\ Len(q) \in Nat /\ DOMAIN q = 1 .. Len(q)
          /\ \A i \in 1 .. Len(q) - 1 : Tail(q)[i] = q[i + 1]
      BY <1>2, HeadTailProperties, LenProperties
    <3>2. j \in 1 .. Len(q) - 1 /\ sock'[s][g].todo[j] = q[j + 1] /\ j + 1 \in DOMAIN q
      <4>1. sock'[s][g].todo = Tail(q)
        BY <1>1, <2>2
      <4> HIDE DEF q
      <4> QED BY <1>4, <3>1, <4>1
    <3>3. q[j + 1] = <<c, Got(s, c) + (j + 1) - 1>>
      BY <1>0, <3>2 DEF Streams
    <3>4. Got(s, c) + (j + 1) - 1 = (Got(s, c) + 1) + j - 1
      BY <1>2, <3>1, <3>2
    <3> QED BY <1>1, <1>4, <2>2, <3>2, <3>3, <3>4 DEF Got
  <2> QED BY <2>1, <2>2
<1>5. ASSUME NEW g \in DOMAIN sock'[s], NEW h \in DOMAIN sock'[s], sock'[s][g].conn = sock'[s][h].conn
      PROVE  g = h
  <2>1. \A x \in DOMAIN sock'[s] : x \in DOMAIN sock[s] /\ sock'[s][x].conn = sock[s][x].conn
    BY <1>0, <1>1
  <2> QED BY <1>5, <2>1 DEF Streams
<1> QED BY <1>3, <1>4, <1>5 DEF Streams, Got

\* LeaderRest after a thread is let go: the request with its number is its own.
LEMMA ReleasedLeader ==
    ASSUME Basics, LeaderRest, NEW f \in DOMAIN sock[0], Released(0, f)
    PROVE  LeaderRest'
<1> DEFINE k == sock[0][f]
<1>0. PICK c : c = k.conn
  OBVIOUS
<1>1. /\ k.todo # <<>> /\ k.pc = "spin" /\ k.rec <= committed /\ Return(0, f)
      /\ committed' = committed /\ All' = All /\ new' = new
  BY Zero, ReleasedEffect DEF All
<1>2. Returned(0, f, c)
  BY <1>0, <1>1, Zero, ReturnShape DEF LeaderRest
<1>3. c \in Client /\ Got(0, c) \in Nat /\ Head(k.todo) = <<c, Got(0, c)>> /\ k.todo \in Seq(Token)
  BY <1>0, <1>1, Zero, SocketTypes, GotTypes, NextInput DEF LeaderRest
<1>4. \A d \in Client : Len(input'[0][d]) = IF d = c THEN Got(0, c) + 1 ELSE Got(0, d)
  BY <1>2 DEF Returned, Got
<1>5. /\ DOMAIN sock'[0] \subseteq DOMAIN sock[0]
      /\ \A g \in DOMAIN sock[0] \ {f} : g \in DOMAIN sock'[0] /\ sock'[0][g] = sock[0][g]
      /\ \A g \in DOMAIN sock[0] \ {f} : sock[0][g].conn # c /\ sock[0][g].conn \in Client
      /\ f \in DOMAIN sock'[0] => /\ sock'[0][f].conn = c /\ sock'[0][f].pc = "app"
                                  /\ sock'[0][f].todo = Tail(k.todo) /\ Got(0, c) # Reads + 1
  <2>1. \A g \in DOMAIN sock[0] \ {f} : sock[0][g].conn # c
    BY <1>0 DEF LeaderRest, Streams
  <2>2. \A g \in DOMAIN sock[0] : sock[0][g].conn \in Client
    BY Zero, SocketTypes
  <2> QED BY <1>2, <2>1, <2>2 DEF Returned
<1>6. Streams(0)'
  BY <1>1, Zero, ReturnStreams DEF LeaderRest
<1>7. Got(0, c) + Len(k.todo) = Reads + 2 /\ c \notin new /\ new \subseteq Client
  BY <1>0 DEF LeaderRest, LeaderSockets, Basics
<1>8. LeaderSockets'
  <2>1. ASSUME NEW g \in DOMAIN sock'[0], g # f
        PROVE  /\ Len(input'[0][sock'[0][g].conn]) + Len(sock'[0][g].todo) = Reads + 2
               /\ sock'[0][g].todo # <<>> /\ sock'[0][g].conn \notin new'
    <3>1. /\ Got(0, sock[0][g].conn) + Len(sock[0][g].todo) = Reads + 2
          /\ sock[0][g].todo # <<>> /\ sock[0][g].conn \notin new
      BY <1>5, <2>1 DEF LeaderRest, LeaderSockets
    <3> QED BY <1>1, <1>4, <1>5, <2>1, <3>1
  <2>2. ASSUME f \in DOMAIN sock'[0]
        PROVE  /\ Len(input'[0][c]) + Len(Tail(k.todo)) = Reads + 2
               /\ Tail(k.todo) # <<>>
    <3> DEFINE q == k.todo
    <3>1. q \in Seq(Token) /\ q # <<>> /\ Len(q) \in Nat
      BY <1>1, <1>3, LenProperties
    <3> HIDE DEF q
    <3>2. Tail(q) \in Seq(Token) /\ Len(Tail(q)) = Len(q) - 1
      BY <3>1, HeadTailProperties
    <3>3. Got(0, c) + Len(q) = Reads + 2 /\ Got(0, c) # Reads + 1
      BY <1>5, <1>7, <2>2 DEF q
    <3>4. Len(Tail(q)) # 0 /\ (Got(0, c) + 1) + Len(Tail(q)) = Reads + 2
      <4>1. \A a, l, m, n \in Int : a + l = n + 2 /\ a # n + 1 /\ m = l - 1 =>
                                    m # 0 /\ (a + 1) + m = n + 2
        OBVIOUS
      <4>2. PICK a, l, m : a = Got(0, c) /\ l = Len(q) /\ m = Len(Tail(q))
        OBVIOUS
      <4>3. a \in Int /\ l \in Int /\ m = l - 1 /\ Reads \in Int
        BY <1>3, <3>1, <3>2, <4>2, ProxyAssumption
      <4>4. a + l = Reads + 2 /\ a # Reads + 1
        BY <3>3, <4>2
      <4>5. m # 0 /\ (a + 1) + m = Reads + 2
        BY <4>1, <4>3, <4>4
      <4> QED BY <4>2, <4>5
    <3>5. Tail(q) # <<>>
      BY <3>2, <3>4, EmptySeq
    <3> QED BY <1>3, <1>4, <3>4, <3>5 DEF q
  <2>3. \A d \in new' : input'[0][d] = <<>>
    <3>1. \A d \in new : d \in Client \ {c} /\ input[0][d] = <<>>
      BY <1>7 DEF LeaderRest, LeaderSockets
    <3> QED BY <1>1, <1>2, <3>1 DEF Returned
  <2> QED BY <1>1, <1>5, <1>7, <2>1, <2>2, <2>3 DEF LeaderSockets, Got
<1>9. Ordered'
  BY <1>1 DEF LeaderRest, Ordered
<1>10. SpinsForOwn'
  <2>1. \A g \in DOMAIN sock'[0] : sock'[0][g].pc = "spin" =>
          g \in DOMAIN sock[0] /\ sock'[0][g] = sock[0][g]
    BY <1>5
  <2> QED BY <1>1, <2>1 DEF LeaderRest, Waiting, SpinsForOwn
<1>11. GivenOrSpins'
  <2> SUFFICES ASSUME NEW i \in 1 .. Len(All)
               PROVE  \/ All[i].tok[2] < Len(input'[0][All[i].tok[1]])
                      \/ /\ All[i].tok[2] = Len(input'[0][All[i].tok[1]])
                         /\ \E g \in DOMAIN sock'[0] : /\ sock'[0][g].conn = All[i].tok[1]
                                                       /\ sock'[0][g].pc = "spin" /\ sock'[0][g].rec = i
    BY <1>1 DEF GivenOrSpins, Got
  <2>1. All[i].tok[1] \in Client /\ All[i].tok[2] \in Nat
    BY AllTypes
  <2>2. \/ All[i].tok[2] < Got(0, All[i].tok[1])
        \/ /\ All[i].tok[2] = Got(0, All[i].tok[1])
           /\ \E g \in DOMAIN sock[0] : /\ sock[0][g].conn = All[i].tok[1]
                                        /\ sock[0][g].pc = "spin" /\ sock[0][g].rec = i
    BY DEF LeaderRest, Waiting, GivenOrSpins
  <2>3. CASE All[i].tok[1] = c
    BY <1>3, <1>4, <2>1, <2>2, <2>3
  <2>4. CASE All[i].tok[1] # c
    <3>1. \A g \in DOMAIN sock[0] : sock[0][g].conn = All[i].tok[1] =>
            g \in DOMAIN sock'[0] /\ sock'[0][g] = sock[0][g]
      BY <1>0, <1>5, <2>4
    <3>2. Len(input'[0][All[i].tok[1]]) = Got(0, All[i].tok[1])
      BY <1>4, <2>1, <2>4
    <3> QED BY <2>2, <3>1, <3>2
  <2> QED BY <2>3, <2>4
<1>12. GivenCommitted'
  <2> SUFFICES ASSUME NEW d \in Client, NEW m \in 0 .. Len(input'[0][d]) - 1
               PROVE  \E i \in 1 .. committed : All[i].tok = <<d, m>>
    BY <1>1 DEF GivenCommitted, Got
  <2>1. CASE m \in 0 .. Got(0, d) - 1
    BY <2>1 DEF LeaderRest, Waiting, GivenCommitted
  <2>2. CASE ~(m \in 0 .. Got(0, d) - 1)
    <3>1. Got(0, d) \in Nat
      BY Zero, GotTypes
    <3>2. d = c /\ m = Got(0, c)
      <4>1. d = c
        BY <1>4, <2>2
      <4>2. m \in 0 .. Got(0, c)
        BY <1>3, <1>4, <4>1
      <4> QED BY <1>3, <2>2, <4>1, <4>2
    <3>3. k.rec \in 1 .. Len(All) /\ All[k.rec].tok = Head(k.todo)
      BY <1>1 DEF LeaderRest, Waiting, SpinsForOwn
    <3>4. k.rec \in 1 .. committed
      BY <1>1, <3>3, AllTypes
    <3> QED BY <1>3, <3>2, <3>3, <3>4
  <2> QED BY <2>1, <2>2
<1> QED BY <1>6, <1>8, <1>9, <1>10, <1>11, <1>12 DEF LeaderRest, Waiting

\* LeaderRest holds initially.
LEMMA InitLeader == Init => LeaderRest
<1> SUFFICES ASSUME Init PROVE LeaderRest
  OBVIOUS
<1>1. /\ sock[0] = <<>> /\ \A c \in Client : input[0][c] = <<>>
      /\ log = <<>> /\ tailq[0] = <<>> /\ committed = 0
  BY Zero DEF Init
<1>2. All = <<>> /\ Len(All) = 0
  BY <1>1 DEF All
<1>3. DOMAIN sock[0] = {}
  BY <1>1
<1>4. \A c \in Client : Got(0, c) = 0 /\ DOMAIN input[0][c] = {}
  BY <1>1 DEF Got
<1>5. Streams(0) /\ LeaderSockets
  BY <1>1, <1>3, <1>4 DEF Streams, LeaderSockets, Init
<1>6. Ordered /\ SpinsForOwn /\ GivenOrSpins
  BY <1>2, <1>3 DEF Ordered, SpinsForOwn, GivenOrSpins
<1>7. GivenCommitted
  BY <1>4 DEF GivenCommitted
<1> QED BY <1>5, <1>6, <1>7 DEF LeaderRest, Waiting

\* Every step keeps LeaderRest.
LEMMA NextLeader == Basics /\ LeaderRest /\ [Next]_vars => LeaderRest'
<1> SUFFICES ASSUME Basics, LeaderRest, [Next]_vars PROVE LeaderRest'
  OBVIOUS
<1>0. committed \in Nat
  BY AllTypes
<1>1. ASSUME NEW c \in Client, Connect(c) PROVE LeaderRest'
  BY <1>1, ConnectLeader
<1>2. ASSUME NEW s \in Server, NEW f \in DOMAIN sock[s], Hook(s, f) PROVE LeaderRest'
  <2>1. CASE s = 0
    BY <1>2, <2>1, LockLeader
  <2>2. CASE s # 0
    <3>1. /\ sock[s][f].todo # <<>> /\ Return(s, f) /\ committed' = committed
          /\ All' = All /\ new' = new
      BY <1>2, <2>2, PassEffect DEF All
    <3>2. input'[0] = input[0] /\ sock'[0] = sock[0]
      <4>1. /\ input' = [input EXCEPT ![s] = [input[s] EXCEPT ![sock[s][f].conn] =
                           Append(input[s][sock[s][f].conn], Head(sock[s][f].todo))]]
            /\ SocketClosed(s, f) \/ \E r : SocketSet(s, f, r)
        BY <3>1, ReturnEffect
      <4>2. input'[0] = input[0]
        BY <2>2, <4>1, Zero DEF Basics
      <4>3. sock'[0] = sock[0]
        BY <2>2, <4>1, Zero DEF SocketClosed, SocketSet
      <4> QED BY <4>2, <4>3
    <3> QED BY <1>0, <3>1, <3>2, LeaderFrame
  <2> QED BY <2>1, <2>2
<1>3. ASSUME NEW s \in Server, NEW f \in DOMAIN sock[s], Submit(s, f) PROVE LeaderRest'
  BY <1>3, SubmitEffect, SubmitLeader
<1>4. ASSUME NEW s \in Server, NEW f \in DOMAIN sock[s], Released(s, f) PROVE LeaderRest'
  BY <1>4, ReleasedEffect, ReleasedLeader
<1>5. ASSUME NEW s \in Server, LeaderPass(s) PROVE LeaderRest'
  <2>1. All' = All /\ sock' = sock /\ input' = input /\ new' = new /\ committed' \in committed .. Len(All)
    BY <1>5, LeaderPassEffect
  <2>2. committed' \in Nat /\ committed <= committed'
    BY <2>1, AllTypes
  <2> QED BY <2>1, <2>2, LeaderFrame
<1>6. ASSUME NEW s \in Server, FollowerApply(s) PROVE LeaderRest'
  <2>1. s # 0 /\ All' = All /\ input' = input /\ new' = new /\ committed' = committed
    BY <1>6, FollowerApplyEffect DEF All
  <2>2. sock'[0] = sock[0]
    <3>1. (\E g, r : SocketSet(s, g, r)) \/ (\A t \in Server : sock'[t] = sock[t])
      BY <1>6, FollowerApplyEffect
    <3> QED BY <2>1, <3>1, Zero DEF SocketSet
  <2> QED BY <1>0, <2>1, <2>2, LeaderFrame
<1>7. CASE UNCHANGED vars
  BY <1>0, <1>7, LeaderFrame DEF vars, proxyVars, All
<1> QED BY <1>1, <1>2, <1>3, <1>4, <1>5, <1>6, <1>7 DEF Next, App

-----------------------------------------------------------------------------
(* Connection ids.                                                         *)

\* There are at most as many announced connections as clients.
LEMMA ConnectedFinite ==
    ASSUME Basics
    PROVE  /\ Connected \subseteq Client /\ IsFiniteSet(Connected)
           /\ Cardinality(Connected) \in Nat
<1>1. Connected \subseteq Client
  BY AllTypes DEF Connected
<1>2. IsFiniteSet(Connected)
  BY <1>1, FS_Subset, ProxyAssumption
<1> QED BY <1>1, <1>2, FS_CardinalityType

\* A socket that is new belongs to a client without entries.
LEMMA IdsFrame ==
    ASSUME Ids, All' = All, pair_count' = pair_count, leader_hash_map' = leader_hash_map,
           \A g \in DOMAIN sock'[0] :
             \/ g \in DOMAIN sock[0] /\ sock'[0][g].conn = sock[0][g].conn
             \/ \A i \in 1 .. Len(All) : All[i].tok[1] # sock'[0][g].conn
    PROVE  Ids'
<1>1. Connected' = Connected
  BY DEF Connected
<1>2. \A f \in DOMAIN sock'[0] \cap DOMAIN leader_hash_map[0] : \A i \in 1 .. Len(All) :
        All[i].tok[1] = sock'[0][f].conn => All[i].conn = leader_hash_map[0][f]
  BY DEF Ids
<1> QED BY <1>1, <1>2 DEF Ids

\* The entry that Submit appends.
Submitted(f, c, e) ==
    /\ e \in Entry /\ e.tok = <<c, Got(0, c)>> /\ All' = Append(All, e)
    /\ IF Got(0, c) = 0
       THEN /\ e.conn = <<0, pair_count[0]>>
            /\ pair_count' = [pair_count EXCEPT ![0] = (@ + 1) % ConnCount]
            /\ leader_hash_map'[0] = Put(leader_hash_map[0], f, e.conn)
       ELSE /\ e.conn = leader_hash_map[0][f] /\ f \in DOMAIN leader_hash_map[0]
            /\ pair_count' = pair_count
            /\ \/ leader_hash_map'[0] = Put(leader_hash_map[0], f, e.conn)
               \/ leader_hash_map'[0] = Without(leader_hash_map[0], f)
    /\ DOMAIN sock'[0] = DOMAIN sock[0]
    /\ \A g \in DOMAIN sock[0] : sock'[0][g].conn = sock[0][g].conn

\* That is what a request that is queued does to All.
LEMMA SubmitShape ==
    ASSUME Basics, LeaderRest, NEW f \in DOMAIN sock[0], Submit(0, f), NEW c, c = sock[0][f].conn
    PROVE  \E e : Submitted(f, c, e)
<1> DEFINE k == sock[0][f]
           tok == Head(k.todo)
           x == IF Type(tok) = "CONNECT" THEN <<0, pair_count[0]>> ELSE leader_hash_map[0][f]
           e == [conn |-> x, tok |-> tok]
           r == [conn |-> k.conn, todo |-> k.todo, pc |-> "spin", rec |-> Len(All) + 1]
<1>1. /\ k.todo # <<>> /\ k.pc = "lock"
      /\ Type(tok) = "CONNECT" \/ f \in DOMAIN leader_hash_map[0]
      /\ e \in Entry /\ SocketSet(0, f, r)
      /\ pair_count' = IF Type(tok) = "CONNECT"
                       THEN [pair_count EXCEPT ![0] = (@ + 1) % ConnCount]
                       ELSE pair_count
      /\ leader_hash_map' = [leader_hash_map EXCEPT ![0] =
           IF Type(tok) = "CLOSE" THEN Without(@, f) ELSE Put(@, f, x)]
      /\ All' = Append(All, e)
  BY Zero, SubmitEffect
<1>2. tok = <<c, Got(0, c)>> /\ tok \in Token /\ Got(0, c) \in Nat
  BY <1>1, Zero, NextInput, SocketTypes, GotTypes DEF LeaderRest
<1>3. /\ Type(tok) = "CONNECT" <=> Got(0, c) = 0
      /\ Type(tok) = "CONNECT" => Type(tok) # "CLOSE"
  BY <1>2, Types
<1>4. leader_hash_map'[0] = IF Type(tok) = "CLOSE" THEN Without(leader_hash_map[0], f)
                            ELSE Put(leader_hash_map[0], f, x)
  BY <1>1, Zero DEF Basics
<1>5. e.conn = x /\ e.tok = tok /\ r.conn = k.conn
  OBVIOUS
<1> HIDE DEF e, r
<1>6. /\ DOMAIN sock'[0] = DOMAIN sock[0]
      /\ \A g \in DOMAIN sock[0] : sock'[0][g].conn = sock[0][g].conn
  BY <1>1, <1>5 DEF SocketSet
<1>7. CASE Got(0, c) = 0
  BY <1>1, <1>2, <1>3, <1>4, <1>5, <1>6, <1>7 DEF Submitted
<1>8. CASE Got(0, c) # 0
  BY <1>1, <1>2, <1>3, <1>4, <1>5, <1>6, <1>8 DEF Submitted
<1> QED BY <1>7, <1>8

\* Ids after a request is queued: gen_key gives an id that no connection has.
LEMMA SubmitIds ==
    ASSUME EnoughIds, Basics, LeaderRest, Ids, NEW f \in DOMAIN sock[0], Submit(0, f)
    PROVE  Ids'
<1>0. PICK c : c = sock[0][f].conn
  OBVIOUS
<1>1. PICK e : Submitted(f, c, e)
  BY <1>0, SubmitShape
<1> DEFINE n == Len(All)
           p == Cardinality(Connected)
           map == leader_hash_map[0]
<1>2. n \in Nat /\ p \in Nat /\ Connected \subseteq Client /\ IsFiniteSet(Connected)
      /\ c \in Client /\ Got(0, c) \in Nat /\ IsMap(map, Fd, ConnId) /\ f \in Fd /\ committed \in Nat
      /\ committed <= n
  <2>1. n \in Nat /\ committed \in Nat /\ committed <= n
    BY AllTypes
  <2>2. c \in Client /\ Got(0, c) \in Nat /\ f \in Fd
    BY <1>0, Zero, SocketTypes, GotTypes
  <2>3. IsMap(map, Fd, ConnId)
    BY Zero DEF Basics
  <2> QED BY <2>1, <2>2, <2>3, ConnectedFinite
<1>3. /\ e \in Entry /\ e.tok = <<c, Got(0, c)>> /\ e.tok[1] = c /\ e.conn \in ConnId
      /\ DOMAIN sock'[0] = DOMAIN sock[0]
      /\ \A g \in DOMAIN sock[0] : sock'[0][g].conn = sock[0][g].conn
      /\ \A g \in DOMAIN sock[0] \ {f} : sock[0][g].conn # c
  BY <1>0, <1>1 DEF Submitted, Entry, LeaderRest, Streams
<1>4. /\ Len(All') = n + 1 /\ All'[n + 1] = e
      /\ \A i \in 1 .. n : All'[i] = All[i]
      /\ \A i \in 1 .. Len(All') : i \in 1 .. n \/ i = n + 1
      /\ n + 1 \in 1 .. Len(All') /\ \A i \in 1 .. n : i \in 1 .. Len(All')
  <2>1. /\ Len(All') = n + 1 /\ All'[n + 1] = e
        /\ \A i \in 1 .. n : All'[i] = All[i]
        /\ \A i \in 1 .. Len(All') : i \in 1 .. n \/ i = n + 1
    BY <1>1, <1>3, Grown DEF Submitted
  <2> QED BY <1>2, <2>1
<1>5. \A i \in 1 .. n : All[i].tok[1] = c => All[i].tok[2] < Got(0, c)
  <2>1. sock[0][f].pc = "lock"
    BY DEF Submit
  <2> QED BY <1>0, <2>1, LockFresh
<1>6. Connected' = Connected \cup {c}
  <2>1. Connected' = {All'[i].tok[1] : i \in 1 .. Len(All')}
    BY DEF Connected
  <2> QED BY <1>3, <1>4, <2>1 DEF Connected
<1>7. /\ p < ConnCount => pair_count[0] = p
      /\ \A i \in 1 .. n : All[i].conn[2] < p
      /\ \A i, j \in 1 .. n : All[i].tok[1] = All[j].tok[1] <=> All[i].conn = All[j].conn
      /\ \A g \in DOMAIN sock[0] \cap DOMAIN map : \A i \in 1 .. n :
           All[i].tok[1] = sock[0][g].conn => All[i].conn = map[g]
  BY DEF Ids
<1>8. \A i \in 1 .. n : All[i].conn \in ConnId /\ All[i].conn[2] \in Nat
  BY AllTypes, ProxyAssumption DEF ConnId
<1>9. CASE Got(0, c) = 0
  <2>1. \A i \in 1 .. n : All[i].tok[1] # c
    BY <1>5, <1>9, AllTypes
  <2>2. c \notin Connected
    BY <2>1 DEF Connected
  <2>3. Cardinality(Connected') = p + 1
    BY <1>2, <1>6, <2>2, FS_AddElement
  <2>4. p + 1 <= ConnCount
    <3>1. Connected \cup {c} \subseteq Client
      BY <1>2
    <3>2. Cardinality(Connected \cup {c}) <= Cardinality(Client)
      BY <3>1, FS_Subset, ProxyAssumption
    <3>3. Cardinality(Client) \in Nat
      BY FS_CardinalityType, ProxyAssumption
    <3> QED BY <1>2, <1>6, <2>3, <3>2, <3>3, ProxyAssumption DEF EnoughIds
  <2>5. pair_count[0] = p /\ e.conn = <<0, p>>
    BY <1>1, <1>2, <1>7, <1>9, <2>4, ProxyAssumption DEF Submitted
  <2>6. p + 1 < ConnCount => pair_count'[0] = p + 1
    <3>1. pair_count'[0] = (p + 1) % ConnCount
      BY <1>1, <1>9, <2>5, Zero DEF Submitted, Basics
    <3>2. \A a \in Nat, b \in Nat \ {0} : a < b => a % b = a
      OBVIOUS
    <3>3. p + 1 \in Nat
      BY <1>2
    <3> HIDE DEF p
    <3> QED BY <3>1, <3>2, <3>3, ProxyAssumption
  <2>7. \A i \in 1 .. Len(All') : All'[i].conn[2] < p + 1
    <3>1. \A x \in Nat : x < p => x < p + 1
      BY <1>2
    <3>2. \A i \in 1 .. n : All[i].conn[2] < p + 1
      <4> HIDE DEF n, p
      <4> QED BY <1>7, <1>8, <3>1
    <3>3. \A i \in 1 .. n : All'[i].conn[2] < p + 1
      <4> HIDE DEF n, p
      <4> QED BY <1>4, <3>2, Zenon
    <3>4. All'[n + 1].conn[2] < p + 1
      <4>1. All'[n + 1].conn = <<0, p>>
        BY <1>4, <2>5, Zenon
      <4>2. p < p + 1
        BY <1>2
      <4> HIDE DEF n, p
      <4> QED BY <4>1, <4>2
    <3> HIDE DEF n, p
    <3> QED BY <1>4, <3>3, <3>4, Zenon
  <2>8. \A i \in 1 .. n : All[i].conn # e.conn
    BY <1>2, <1>7, <1>8, <2>5
  <2>9. \A i, j \in 1 .. Len(All') : All'[i].tok[1] = All'[j].tok[1] <=> All'[i].conn = All'[j].conn
    BY <1>3, <1>4, <1>7, <2>1, <2>8
  <2>10. ASSUME NEW g \in DOMAIN sock'[0] \cap DOMAIN leader_hash_map'[0],
                NEW i \in 1 .. Len(All'), All'[i].tok[1] = sock'[0][g].conn
         PROVE  All'[i].conn = leader_hash_map'[0][g]
    <3>1. leader_hash_map'[0] = Put(map, f, e.conn)
      BY <1>1, <1>9 DEF Submitted
    <3>2. /\ DOMAIN leader_hash_map'[0] = DOMAIN map \cup {f}
          /\ leader_hash_map'[0][f] = e.conn
          /\ \A y \in DOMAIN map \ {f} : leader_hash_map'[0][y] = map[y]
      BY <3>1 DEF Put
    <3>3. CASE g = f
      BY <1>0, <1>3, <1>4, <2>1, <2>10, <3>2, <3>3
    <3>4. CASE g # f
      BY <1>3, <1>4, <1>7, <2>10, <3>2, <3>4
    <3> QED BY <3>3, <3>4
  <2> QED BY <2>3, <2>6, <2>7, <2>9, <2>10 DEF Ids
<1>10. CASE Got(0, c) # 0
  <2>1. PICK j \in 1 .. n : All[j].tok = <<c, 0>>
    <3>1. 0 \in 0 .. Got(0, c) - 1
      BY <1>2, <1>10
    <3>2. PICK j \in 1 .. committed : All[j].tok = <<c, 0>>
      BY <1>2, <3>1 DEF LeaderRest, Waiting, GivenCommitted
    <3>3. j \in 1 .. n
      BY <1>2
    <3> QED BY <3>2, <3>3
  <2>2. All[j].tok[1] = c
    BY <2>1
  <2>3. Connected' = Connected
    BY <1>6, <2>2 DEF Connected
  <2>4. pair_count' = pair_count /\ e.conn = map[f] /\ f \in DOMAIN map
    BY <1>1, <1>10 DEF Submitted
  <2>5. e.conn = All[j].conn
    BY <1>0, <1>7, <2>2, <2>4
  <2>6. \A i \in 1 .. Len(All') : All'[i].conn[2] < p
    BY <1>4, <1>7, <2>5
  <2>7. \A i \in 1 .. n : All[i].tok[1] = c <=> All[i].conn = e.conn
    BY <1>7, <2>2, <2>5
  <2>8. \A h, i \in 1 .. Len(All') : All'[h].tok[1] = All'[i].tok[1] <=> All'[h].conn = All'[i].conn
    BY SMTT(30), <1>3, <1>4, <1>7, <2>7
  <2>9. /\ DOMAIN leader_hash_map'[0] \subseteq DOMAIN map
        /\ \A y \in DOMAIN leader_hash_map'[0] : leader_hash_map'[0][y] = map[y]
    <3>1. CASE leader_hash_map'[0] = Put(map, f, e.conn)
      BY <2>4, <3>1 DEF Put
    <3>2. CASE leader_hash_map'[0] = Without(map, f)
      BY <3>2 DEF Without
    <3> QED BY <1>1, <1>10, <3>1, <3>2 DEF Submitted
  <2>10. ASSUME NEW g \in DOMAIN sock'[0] \cap DOMAIN leader_hash_map'[0],
                NEW i \in 1 .. Len(All'), All'[i].tok[1] = sock'[0][g].conn
         PROVE  All'[i].conn = leader_hash_map'[0][g]
    <3>1. CASE i \in 1 .. n
      BY <1>3, <1>4, <1>7, <2>9, <2>10, <3>1
    <3>2. CASE i = n + 1
      <4>1. g = f
        BY <1>3, <1>4, <2>10, <3>2
      <4> QED BY <1>4, <2>4, <2>9, <3>2, <4>1
    <3> QED BY <1>4, <3>1, <3>2
  <2> QED BY <1>7, <2>3, <2>4, <2>6, <2>8, <2>10 DEF Ids
<1> QED BY <1>9, <1>10

\* Ids holds initially.
LEMMA InitIds == Init => Ids
<1> SUFFICES ASSUME Init PROVE Ids
  OBVIOUS
<1>1. All = <<>> /\ Len(All) = 0 /\ pair_count[0] = 0
  BY Zero DEF Init, All
<1>2. Connected = {}
  BY <1>1 DEF Connected
<1> QED BY <1>1, <1>2, FS_EmptySet DEF Ids

\* Every step keeps Ids.
LEMMA NextIds == EnoughIds /\ Basics /\ LeaderRest /\ Ids /\ [Next]_vars => Ids'
<1> SUFFICES ASSUME EnoughIds, Basics, LeaderRest, Ids, [Next]_vars PROVE Ids'
  OBVIOUS
<1>1. ASSUME NEW c \in Client, Connect(c) PROVE Ids'
  <2>1. /\ c \in new /\ pair_count' = pair_count /\ leader_hash_map' = leader_hash_map
        /\ All' = All
    BY <1>1, ConnectEffect DEF All
  <2> DEFINE r == [conn |-> c, todo |-> [k \in 1 .. Reads + 2 |-> <<c, k - 1>>],
                   pc |-> "app", rec |-> 0]
  <2>2. PICK f : SocketSet(0, f, r) /\ r.conn = c
    BY <1>1, ConnectEffect
  <2>3. \A i \in 1 .. Len(All) : All[i].tok[1] # c
    BY <2>1, NewClient
  <2>4. \A g \in DOMAIN sock'[0] :
          \/ g \in DOMAIN sock[0] /\ sock'[0][g].conn = sock[0][g].conn
          \/ \A i \in 1 .. Len(All) : All[i].tok[1] # sock'[0][g].conn
    <3> HIDE DEF r
    <3> QED BY <2>2, <2>3 DEF SocketSet
  <2> QED BY <2>1, <2>4, IdsFrame
<1>2. ASSUME NEW s \in Server, NEW f \in DOMAIN sock[s], Hook(s, f) PROVE Ids'
  <2>1. CASE s = 0
    <3>1. pair_count' = pair_count /\ leader_hash_map' = leader_hash_map /\ All' = All
      BY <1>2, <2>1, LockEffect DEF All
    <3> DEFINE r == [conn |-> sock[0][f].conn, todo |-> sock[0][f].todo, pc |-> "lock",
                     rec |-> sock[0][f].rec]
    <3>2. SocketSet(0, f, r) /\ r.conn = sock[0][f].conn
      BY <1>2, <2>1, LockEffect
    <3> HIDE DEF r
    <3>3. \A g \in DOMAIN sock'[0] : g \in DOMAIN sock[0] /\ sock'[0][g].conn = sock[0][g].conn
      BY <1>2, <2>1, <3>2 DEF SocketSet
    <3> QED BY <3>1, <3>3, IdsFrame
  <2>2. CASE s # 0
    <3>1. /\ sock[s][f].todo # <<>> /\ Return(s, f) /\ All' = All /\ pair_count' = pair_count
          /\ leader_hash_map' = leader_hash_map
      BY <1>2, <2>2, PassEffect DEF All
    <3>2. sock'[0] = sock[0]
      <4>1. SocketClosed(s, f) \/ \E r : SocketSet(s, f, r)
        BY <3>1, ReturnEffect
      <4> QED BY <2>2, <4>1, Zero DEF SocketClosed, SocketSet
    <3> QED BY <3>1, <3>2, IdsFrame
  <2> QED BY <2>1, <2>2
<1>3. ASSUME NEW s \in Server, NEW f \in DOMAIN sock[s], Submit(s, f) PROVE Ids'
  BY <1>3, SubmitEffect, SubmitIds
<1>4. ASSUME NEW s \in Server, NEW f \in DOMAIN sock[s], Released(s, f) PROVE Ids'
  <2>1. /\ s = 0 /\ sock[0][f].todo # <<>> /\ Return(0, f)
        /\ pair_count' = pair_count /\ leader_hash_map' = leader_hash_map /\ All' = All
    BY <1>4, ReleasedEffect DEF All
  <2>2. PICK c : c = sock[0][f].conn
    OBVIOUS
  <2>3. Returned(0, f, c)
    BY <1>4, <2>1, <2>2, Zero, ReturnShape DEF LeaderRest
  <2>4. \A g \in DOMAIN sock'[0] : g \in DOMAIN sock[0] /\ sock'[0][g].conn = sock[0][g].conn
    BY <2>2, <2>3 DEF Returned
  <2> QED BY <2>1, <2>4, IdsFrame
<1>5. ASSUME NEW s \in Server, LeaderPass(s) PROVE Ids'
  <2>1. All' = All /\ sock' = sock /\ pair_count' = pair_count /\ leader_hash_map' = leader_hash_map
    BY <1>5, LeaderPassEffect
  <2> QED BY <2>1, IdsFrame
<1>6. ASSUME NEW s \in Server, FollowerApply(s) PROVE Ids'
  <2>1. s # 0 /\ All' = All /\ pair_count' = pair_count /\ leader_hash_map' = leader_hash_map
    BY <1>6, FollowerApplyEffect DEF All
  <2>2. sock'[0] = sock[0]
    <3>1. (\E g, r : SocketSet(s, g, r)) \/ (\A t \in Server : sock'[t] = sock[t])
      BY <1>6, FollowerApplyEffect
    <3> QED BY <2>1, <3>1, Zero DEF SocketSet
  <2> QED BY <2>1, <2>2, IdsFrame
<1>7. CASE UNCHANGED vars
  BY <1>7, IdsFrame DEF vars, proxyVars, All
<1> QED BY <1>1, <1>2, <1>3, <1>4, <1>5, <1>6, <1>7 DEF Next, App

-----------------------------------------------------------------------------
(* The followers.                                                          *)

\* Entries that a server has applied are entries of All.
LEMMA AppliedTypes ==
    ASSUME Basics, NEW s \in Server
    PROVE  /\ applied[s] \in Nat /\ applied[s] <= committed
           /\ \A i \in 1 .. applied[s] :
                /\ i \in 1 .. Len(All) /\ log[i] = All[i]
                /\ log[i].tok[1] \in Client /\ log[i].tok[2] \in 0 .. Reads + 1
                /\ log[i].tok = <<log[i].tok[1], log[i].tok[2]>>
<1>1. applied[s] \in Nat /\ applied[s] <= committed /\ committed \in Nat
  BY AllTypes DEF Basics
<1>2. \A i \in 1 .. applied[s] : i \in 1 .. Len(All) /\ i \in 1 .. Len(log)
  BY <1>1, AllTypes
<1>3. \A i \in 1 .. applied[s] : log[i] = All[i]
  BY <1>2, AllTypes
<1> QED BY <1>1, <1>2, <1>3, AllTypes

\* What happens elsewhere, and to the end of the log.
LEMMA FollowerFrame ==
    ASSUME Basics, NEW s \in Server, FollowerRest(s), sock'[s] = sock[s], input'[s] = input[s],
           follower_hash_map'[s] = follower_hash_map[s], applied'[s] = applied[s],
           \A i \in 1 .. applied[s] : log'[i] = log[i]
    PROVE  FollowerRest(s)'
<1>1. \A c : Got(s, c)' = Got(s, c)
  BY DEF Got
<1>2. \A c, m : Applied(s, c, m)' <=> Applied(s, c, m)
  BY DEF Applied
<1>3. \A c : Unknown(s, c)' <=> Unknown(s, c)
  BY DEF Unknown
<1>4. Streams(s)'
  BY <1>1 DEF FollowerRest, Streams
<1>5. OnlyApplied(s)'
  BY <1>1, <1>2 DEF FollowerRest, OnlyApplied
<1>6. HandedOver(s)'
  BY <1>1, <1>3 DEF FollowerRest, HandedOver, EnoughFds
<1>7. SocketFound(s)'
  BY <1>2, <1>3 DEF FollowerRest, SocketFound
<1>8. OnlyKnownIds(s)'
  BY DEF FollowerRest, OnlyKnownIds
<1> QED BY <1>4, <1>5, <1>6, <1>7, <1>8 DEF FollowerRest

\* The hook of a follower returns an input that was replayed.
LEMMA PassFollower ==
    ASSUME Basics, NEW s \in Server, FollowerRest(s), NEW f \in DOMAIN sock[s],
           sock[s][f].todo # <<>>, Return(s, f),
           UNCHANGED <<log, applied, follower_hash_map>>
    PROVE  FollowerRest(s)'
<1> DEFINE q == sock[s][f].todo
<1>0. PICK c : c = sock[s][f].conn
  OBVIOUS
<1>1. Returned(s, f, c)
  BY <1>0, ReturnShape DEF FollowerRest
<1>2. c \in Client /\ Got(s, c) \in Nat /\ q \in Seq(Token) /\ Len(q) \in Nat /\ Len(q) >= 1
      /\ Len(Tail(q)) = Len(q) - 1 /\ Len(Tail(q)) \in Nat
  <2>1. q \in Seq(Token) /\ q # <<>> /\ c \in Client /\ Got(s, c) \in Nat /\ Len(q) \in Nat
    BY <1>0, SocketTypes, GotTypes
  <2> HIDE DEF q
  <2>2. Len(q) # 0
    BY <2>1, EmptySeq
  <2>3. Len(Tail(q)) = Len(q) - 1
    BY <2>1, HeadTailProperties
  <2> QED BY <2>1, <2>2, <2>3
<1>3. \A d \in Client : Len(input'[s][d]) = IF d = c THEN Got(s, c) + 1 ELSE Got(s, d)
  BY <1>1 DEF Returned, Got
<1>4. /\ DOMAIN sock'[s] \subseteq DOMAIN sock[s]
      /\ \A g \in DOMAIN sock[s] \ {f} : g \in DOMAIN sock'[s] /\ sock'[s][g] = sock[s][g]
      /\ \A g \in DOMAIN sock[s] \ {f} : sock[s][g].conn # c
      /\ \A g \in DOMAIN sock[s] : sock[s][g].conn \in Client
      /\ f \in DOMAIN sock'[s] => sock'[s][f].conn = c /\ sock'[s][f].todo = Tail(q)
      /\ f \notin DOMAIN sock'[s] => Got(s, c) = Reads + 1
  <2>1. \A g \in DOMAIN sock[s] \ {f} : sock[s][g].conn # c
    BY <1>0 DEF FollowerRest, Streams
  <2>2. \A g \in DOMAIN sock[s] : sock[s][g].conn \in Client
    BY SocketTypes
  <2> QED BY <1>1, <2>1, <2>2 DEF Returned
<1>5. \A d, m : Applied(s, d, m)' <=> Applied(s, d, m)
  BY DEF Applied
<1>6. \A d \in Client \ {c} : Unknown(s, d) => Unknown(s, d)'
  <2> SUFFICES ASSUME NEW d \in Client \ {c}, Unknown(s, d)
               PROVE  input'[s][d] = <<>> /\ \A g \in DOMAIN sock'[s] : sock'[s][g].conn # d
    BY DEF Unknown
  <2>1. input'[s][d] = <<>>
    BY <1>1 DEF Returned, Unknown
  <2> QED BY <1>4, <2>1 DEF Unknown
<1>7. ~Unknown(s, c)
  BY <1>0 DEF Unknown
<1>8. \A m \in 0 .. Got(s, c) + Len(q) - 1 : Applied(s, c, m)
  BY <1>0 DEF FollowerRest, OnlyApplied
<1> HIDE DEF q
<1>9. OnlyApplied(s)'
  <2>1. ASSUME NEW d \in Client, NEW m \in 0 .. Len(input'[s][d]) - 1
        PROVE  Applied(s, d, m)
    <3>1. CASE d = c
      <4>1. m \in 0 .. Got(s, c) + Len(q) - 1
        BY <1>2, <1>3, <2>1, <3>1
      <4> QED BY <1>8, <3>1, <4>1
    <3>2. CASE d # c
      BY <1>3, <2>1, <3>2 DEF FollowerRest, OnlyApplied
    <3> QED BY <3>1, <3>2
  <2>2. ASSUME NEW g \in DOMAIN sock'[s], NEW d, d = sock'[s][g].conn
        PROVE  /\ Len(input'[s][d]) + Len(sock'[s][g].todo) >= 1
               /\ \A m \in 0 .. Len(input'[s][d]) + Len(sock'[s][g].todo) - 1 : Applied(s, d, m)
    <3>1. CASE g = f
      <4>1. Len(input'[s][d]) = Got(s, c) + 1 /\ Len(sock'[s][g].todo) = Len(q) - 1 /\ d = c
        BY <1>2, <1>3, <1>4, <2>2, <3>1
      <4>2. PICK a, b : a = Len(input'[s][d]) /\ b = Len(sock'[s][g].todo)
        OBVIOUS
      <4>3. a \in Int /\ b \in Int /\ a + b = Got(s, c) + Len(q) /\ a + b >= 1
        <5>1. a = Got(s, c) + 1 /\ b = Len(q) - 1
          BY <4>1, <4>2
        <5>2. \A x, y \in Nat : y >= 1 => /\ x + 1 \in Int /\ y - 1 \in Int /\ x + y >= 1
                                         /\ (x + 1) + (y - 1) = x + y
          OBVIOUS
        <5> QED BY <1>2, <5>1, <5>2
      <4>4. \A m \in 0 .. a + b - 1 : Applied(s, d, m)
        BY <1>2, <1>8, <4>1, <4>3
      <4> QED BY <4>2, <4>3, <4>4
    <3>2. CASE g # f
      BY <1>3, <1>4, <2>2, <3>2 DEF FollowerRest, OnlyApplied
    <3> QED BY <3>1, <3>2
  <2>3. \A d, m : Applied(s, d, m)' <=> \E i \in 1 .. applied[s] : log[i].tok = <<d, m>>
    BY DEF Applied
  <2> QED BY ZenonT(30), <2>1, <2>2, <2>3 DEF OnlyApplied, Got, Applied
<1>10. HandedOver(s)'
  <2> SUFFICES ASSUME NEW i \in 1 .. applied[s]
               PROVE  \/ log[i].tok[2] < Len(input'[s][log[i].tok[1]])
                      \/ \E g \in DOMAIN sock'[s] :
                           /\ sock'[s][g].conn = log[i].tok[1]
                           /\ log[i].tok[2] < Len(input'[s][log[i].tok[1]]) + Len(sock'[s][g].todo)
                      \/ Unknown(s, log[i].tok[1])' /\ ~EnoughFds
    BY DEF HandedOver, Got, EnoughFds
  <2>0. PICK d, m : d = log[i].tok[1] /\ m = log[i].tok[2]
    OBVIOUS
  <2>1. d \in Client /\ m \in 0 .. Reads + 1 /\ Reads \in Nat /\ m \in Int
    BY <2>0, AppliedTypes, ProxyAssumption
  <2>2. \/ m < Got(s, d)
        \/ \E g \in DOMAIN sock[s] : sock[s][g].conn = d /\ m < Got(s, d) + Len(sock[s][g].todo)
        \/ Unknown(s, d) /\ ~EnoughFds
    BY <2>0 DEF FollowerRest, HandedOver
  <2>3. CASE d = c
    <3>1. Len(input'[s][d]) = Got(s, c) + 1
      BY <1>2, <1>3, <2>3
    <3>2. m < Got(s, c) + Len(q)
      <4>1. \A g \in DOMAIN sock[s] : sock[s][g].conn = d => Len(sock[s][g].todo) = Len(q)
        BY <1>4, <2>3 DEF q
      <4> QED BY <1>2, <1>7, <2>1, <2>2, <2>3, <4>1
    <3>3. CASE f \in DOMAIN sock'[s]
      <4>1. sock'[s][f].conn = d /\ Len(sock'[s][f].todo) = Len(q) - 1
        BY <1>2, <1>4, <2>3, <3>3
      <4>2. m < (Got(s, c) + 1) + (Len(q) - 1)
        BY <1>2, <2>1, <3>2
      <4> QED BY <2>0, <3>1, <3>3, <4>1, <4>2
    <3>4. CASE f \notin DOMAIN sock'[s]
      BY <1>4, <2>0, <2>1, <3>1, <3>4
    <3> QED BY <3>3, <3>4
  <2>4. CASE d # c
    <3>1. Len(input'[s][d]) = Got(s, d)
      BY <1>3, <2>1, <2>4
    <3>2. \A g \in DOMAIN sock[s] : sock[s][g].conn = d => g \in DOMAIN sock'[s] /\ sock'[s][g] = sock[s][g]
      BY <1>0, <1>4, <2>4
    <3>3. Unknown(s, d) => Unknown(s, d)'
      BY <1>6, <2>1, <2>4
    <3>4. Unknown(s, d)' => Unknown(s, log[i].tok[1])'
      BY <2>0 DEF Unknown
    <3> QED BY <2>0, <2>2, <3>1, <3>2, <3>3, <3>4
  <2> QED BY <2>3, <2>4
<1>11. SocketFound(s)'
  <2> SUFFICES ASSUME NEW i \in 1 .. applied[s], ~Applied(s, log[i].tok[1], Reads + 1)
               PROVE  IF log[i].conn \in DOMAIN follower_hash_map[s]
                      THEN /\ follower_hash_map[s][log[i].conn] \in DOMAIN sock'[s]
                           /\ sock'[s][follower_hash_map[s][log[i].conn]].conn = log[i].tok[1]
                      ELSE /\ input'[s][log[i].tok[1]] = <<>>
                           /\ \A g \in DOMAIN sock'[s] : sock'[s][g].conn # log[i].tok[1]
    BY DEF SocketFound, Unknown, Applied
  <2>0. PICK d, x : d = log[i].tok[1] /\ x = log[i].conn
    OBVIOUS
  <2>1. d \in Client
    BY <2>0, AppliedTypes
  <2>2. IF x \in DOMAIN follower_hash_map[s]
        THEN /\ follower_hash_map[s][x] \in DOMAIN sock[s]
             /\ sock[s][follower_hash_map[s][x]].conn = d
        ELSE Unknown(s, d)
    BY <2>0 DEF FollowerRest, SocketFound
  <2>3. CASE x \in DOMAIN follower_hash_map[s]
    <3>1. f \notin DOMAIN sock'[s] => Applied(s, c, Reads + 1)
      <4>1. Got(s, c) \in 0 .. Got(s, c) + Len(q) - 1
        BY <1>2
      <4> QED BY <1>4, <1>8, <4>1
    <3>2. CASE follower_hash_map[s][x] = f
      BY <1>0, <1>4, <2>0, <2>2, <2>3, <3>1, <3>2
    <3>3. CASE follower_hash_map[s][x] # f
      BY <1>4, <2>0, <2>2, <2>3, <3>3
    <3> QED BY <3>2, <3>3
  <2>4. CASE x \notin DOMAIN follower_hash_map[s]
    <3>1. Unknown(s, d) /\ d # c
      BY <1>7, <2>2, <2>4
    <3>2. input'[s][d] = <<>> /\ \A g \in DOMAIN sock'[s] : sock'[s][g].conn # d
      BY <1>6, <2>1, <3>1 DEF Unknown
    <3> QED BY <2>0, <2>4, <3>2
  <2> QED BY <2>3, <2>4
<1>12. OnlyKnownIds(s)'
  BY DEF FollowerRest, OnlyKnownIds
<1>13. Streams(s)'
  BY ReturnStreams DEF FollowerRest
<1> QED BY <1>9, <1>10, <1>11, <1>12, <1>13 DEF FollowerRest

\* The entry that a follower applies next: the inputs of its client before it have been
\* applied, the later ones have not, and its id is the id of these inputs and of no other.
NextEntry(s, e) ==
    /\ e.tok[1] \in Client /\ e.tok[2] \in 0 .. Reads + 1 /\ e.tok = <<e.tok[1], e.tok[2]>>
    /\ e.tok \in Token /\ e.conn \in ConnId
    /\ \A i \in 1 .. applied[s] : log[i].tok[1] = e.tok[1] => log[i].tok[2] < e.tok[2]
    /\ \A m \in 0 .. e.tok[2] - 1 : Applied(s, e.tok[1], m)
    /\ \A i \in 1 .. applied[s] : log[i].tok[1] = e.tok[1] <=> log[i].conn = e.conn

\* The leader's order and ids make it so.
LEMMA NextEntryFacts ==
    ASSUME Basics, LeaderRest, Ids, NEW s \in Server, applied[s] + 1 \in 1 .. committed
    PROVE  NextEntry(s, log[applied[s] + 1])
<1> DEFINE a == applied[s]
           e == log[a + 1]
<1>1. a \in Nat /\ a + 1 \in 1 .. Len(log) /\ a + 1 \in 1 .. Len(All) /\ e = All[a + 1]
  BY AppliedTypes, AllTypes
<1>2. /\ e.tok[1] \in Client /\ e.tok[2] \in 0 .. Reads + 1 /\ e.tok = <<e.tok[1], e.tok[2]>>
      /\ e.tok \in Token /\ e.conn \in ConnId
  BY <1>1, AllTypes
<1>3. \A i \in 1 .. a : i \in 1 .. Len(All) /\ log[i] = All[i] /\ i < a + 1
  BY <1>1, AppliedTypes
<1>4. \A i \in 1 .. a : log[i].tok[1] = e.tok[1] => log[i].tok[2] < e.tok[2]
  BY <1>1, <1>3 DEF LeaderRest, Ordered
<1>5. ASSUME NEW m \in 0 .. e.tok[2] - 1 PROVE Applied(s, e.tok[1], m)
  <2>1. PICK j \in 1 .. (a + 1) - 1 : All[j].tok = <<e.tok[1], m>>
    BY <1>1 DEF LeaderRest, Ordered
  <2>2. j \in 1 .. a
    BY <1>1
  <2> QED BY <1>3, <2>1, <2>2 DEF Applied
<1>6. \A i \in 1 .. a : log[i].tok[1] = e.tok[1] <=> log[i].conn = e.conn
  BY <1>1, <1>3 DEF Ids
<1> QED BY <1>2, <1>4, <1>5, <1>6 DEF NextEntry

\* After the entry is applied.
LEMMA OneMore ==
    ASSUME Basics, NEW s \in Server, NEW e, e = log[applied[s] + 1], log' = log,
           NextEntry(s, e), applied' = [applied EXCEPT ![s] = @ + 1]
    PROVE  /\ applied'[s] = applied[s] + 1
           /\ \A i \in 1 .. applied'[s] : i \in 1 .. applied[s] \/ (i = applied[s] + 1 /\ log[i] = e)
           /\ \A i \in 1 .. applied[s] : i \in 1 .. applied'[s]
           /\ applied[s] + 1 \in 1 .. applied'[s]
<1>1. applied[s] \in Nat /\ applied'[s] = applied[s] + 1
  BY AppliedTypes DEF Basics
<1>2. \A i \in 1 .. applied'[s] : i \in 1 .. applied[s] \/ (i = applied[s] + 1 /\ log[i] = e)
  BY <1>1
<1>3. (\A i \in 1 .. applied[s] : i \in 1 .. applied'[s]) /\ applied[s] + 1 \in 1 .. applied'[s]
  BY <1>1
<1> QED BY <1>1, <1>2, <1>3

\* Nothing of the client was applied before its CONNECT.
LEMMA FirstOfClient ==
    ASSUME Basics, NEW s \in Server, FollowerRest(s), NEW e, NextEntry(s, e), e.tok[2] = 0
    PROVE  /\ \A i \in 1 .. applied[s] : log[i].tok[1] # e.tok[1] /\ log[i].conn # e.conn
           /\ Unknown(s, e.tok[1]) /\ Got(s, e.tok[1]) = 0
           /\ e.conn \notin DOMAIN follower_hash_map[s]
<1>1. \A i \in 1 .. applied[s] : log[i].tok[1] # e.tok[1] /\ log[i].conn # e.conn
  <2>1. \A i \in 1 .. applied[s] : ~(log[i].tok[2] < 0)
    BY AppliedTypes
  <2> QED BY <2>1 DEF NextEntry
<1>2. \A m : ~Applied(s, e.tok[1], m)
  <2>1. \A i \in 1 .. applied[s] : \A m : log[i].tok = <<e.tok[1], m>> => log[i].tok[1] = e.tok[1]
    OBVIOUS
  <2> QED BY <1>1, <2>1 DEF Applied
<1>3. e.tok[1] \in Client /\ Got(s, e.tok[1]) \in Nat
  BY GotTypes DEF NextEntry
<1>4. Got(s, e.tok[1]) = 0
  <2>1. CASE Got(s, e.tok[1]) # 0
    <3>1. 0 \in 0 .. Got(s, e.tok[1]) - 1
      BY <1>3, <2>1
    <3> QED BY <1>2, <1>3, <3>1 DEF FollowerRest, OnlyApplied
  <2> QED BY <2>1
<1>5. ASSUME NEW f \in DOMAIN sock[s], sock[s][f].conn = e.tok[1] PROVE FALSE
  <2>1. Got(s, e.tok[1]) + Len(sock[s][f].todo) >= 1 /\ Len(sock[s][f].todo) \in Nat
    BY <1>5, SocketTypes DEF FollowerRest, OnlyApplied
  <2>2. 0 \in 0 .. Got(s, e.tok[1]) + Len(sock[s][f].todo) - 1
    BY <1>3, <2>1
  <2> QED BY <1>2, <1>5, <2>2 DEF FollowerRest, OnlyApplied
<1>6. Unknown(s, e.tok[1])
  BY <1>3, <1>4, <1>5, GotTypes DEF Unknown
<1>7. e.conn \notin DOMAIN follower_hash_map[s]
  BY <1>1 DEF FollowerRest, OnlyKnownIds
<1> QED BY <1>1, <1>4, <1>6, <1>7

\* A follower without a free descriptor, although a client has no socket, has fewer
\* descriptors than there are clients.
LEMMA NoFreeFd ==
    ASSUME Basics, NEW s \in Server, Streams(s), Free(s) = {}, NEW c \in Client, Unknown(s, c)
    PROVE  ~EnoughFds
<1>1. DOMAIN sock[s] = Fd
  BY DEF Free, Basics, IsMap
<1> DEFINE C == Client \ {c}
           h == [f \in Fd |-> sock[s][f].conn]
<1>2. IsFiniteSet(C) /\ Cardinality(C) = Cardinality(Client) - 1
  BY FS_RemoveElement, ProxyAssumption
<1>3. \A f \in Fd : sock[s][f].conn \in C
  BY <1>1, SocketTypes DEF Unknown
<1>4. h \in Injection(Fd, C)
  <2>1. h \in [Fd -> C]
    BY <1>3
  <2>2. \A f, g \in Fd : h[f] = h[g] => f = g
    BY <1>1 DEF Streams
  <2> HIDE DEF h, C
  <2> QED BY <2>1, <2>2, Zenon DEF Injection, IsInjective
<1>5. Cardinality(Fd) <= Cardinality(C)
  <2> HIDE DEF h, C
  <2> QED BY <1>2, <1>4, FS_Injection
<1>6. Cardinality(Client) \in Nat /\ Cardinality(Fd) \in Nat
  BY FS_CardinalityType, ProxyAssumption
<1> HIDE DEF C
<1> QED BY <1>2, <1>5, <1>6 DEF EnoughFds

\* A follower replays entry e.
Replays(s, e) ==
    /\ e = log[applied[s] + 1] /\ NextEntry(s, e)
    /\ log' = log /\ input' = input /\ applied' = [applied EXCEPT ![s] = @ + 1]

\* What is then applied is what was and the input of the entry.
LEMMA ReplayedEntries ==
    ASSUME Basics, NEW s \in Server, NEW e, Replays(s, e)
    PROVE  /\ \A i \in 1 .. applied'[s] : i \in 1 .. applied[s] \/ log[i] = e
           /\ \A i \in 1 .. applied[s] : i \in 1 .. applied'[s]
           /\ \E i \in 1 .. applied'[s] : log[i] = e
           /\ \A d, m : Applied(s, d, m)' <=> Applied(s, d, m) \/ (d = e.tok[1] /\ m = e.tok[2])
           /\ \A d : Got(s, d)' = Got(s, d)
<1>1. e = log[applied[s] + 1] /\ NextEntry(s, e) /\ log' = log /\ input' = input
      /\ applied' = [applied EXCEPT ![s] = @ + 1]
  BY DEF Replays
<1>2. /\ \A i \in 1 .. applied'[s] : i \in 1 .. applied[s] \/ (i = applied[s] + 1 /\ log[i] = e)
      /\ \A i \in 1 .. applied[s] : i \in 1 .. applied'[s]
      /\ applied[s] + 1 \in 1 .. applied'[s]
  BY <1>1, OneMore
<1>3. \A d, m : Applied(s, d, m)' <=> Applied(s, d, m) \/ (d = e.tok[1] /\ m = e.tok[2])
  <2>1. \A d, m : e.tok = <<d, m>> <=> d = e.tok[1] /\ m = e.tok[2]
    BY <1>1 DEF NextEntry
  <2>2. ASSUME NEW d, NEW m
        PROVE  (\E i \in 1 .. applied'[s] : log[i].tok = <<d, m>>) <=>
               Applied(s, d, m) \/ (d = e.tok[1] /\ m = e.tok[2])
    BY <1>1, <1>2, <2>1 DEF Applied
  <2> QED BY ZenonT(30), <1>1, <2>2 DEF Applied
<1>4. \A d : Got(s, d)' = Got(s, d)
  BY <1>1 DEF Got
<1> QED BY <1>1, <1>2, <1>3, <1>4

\* The parts of a follower's invariant after the replay, in terms of what was applied and
\* given before it.
OnlyAppliedThen(s, e) ==
    \A f \in DOMAIN sock'[s] : \A d : d = sock'[s][f].conn =>
      /\ Got(s, d) + Len(sock'[s][f].todo) >= 1
      /\ \A m \in 0 .. Got(s, d) + Len(sock'[s][f].todo) - 1 :
           Applied(s, d, m) \/ (d = e.tok[1] /\ m = e.tok[2])

UnknownThen(s, d) == input[s][d] = <<>> /\ \A f \in DOMAIN sock'[s] : sock'[s][f].conn # d

HandedOverThen(s) ==
    \A i \in 1 .. applied'[s] : \A d : d = log[i].tok[1] =>
      \/ log[i].tok[2] < Got(s, d)
      \/ \E f \in DOMAIN sock'[s] :
           sock'[s][f].conn = d /\ log[i].tok[2] < Got(s, d) + Len(sock'[s][f].todo)
      \/ UnknownThen(s, d) /\ ~EnoughFds

SocketFoundThen(s, e) ==
    \A i \in 1 .. applied'[s] : \A d :
      d = log[i].tok[1] /\ ~Applied(s, d, Reads + 1) /\ ~(d = e.tok[1] /\ Reads + 1 = e.tok[2]) =>
         IF log[i].conn \in DOMAIN follower_hash_map'[s]
         THEN /\ follower_hash_map'[s][log[i].conn] \in DOMAIN sock'[s]
              /\ sock'[s][follower_hash_map'[s][log[i].conn]].conn = d
         ELSE UnknownThen(s, d)

OnlyKnownIdsThen(s) ==
    \A x \in DOMAIN follower_hash_map'[s] : \E i \in 1 .. applied'[s] : log[i].conn = x

\* These parts make up the invariant.
LEMMA ReplayGoal ==
    ASSUME Basics, NEW s \in Server, FollowerRest(s), NEW e, Replays(s, e), Streams(s)',
           OnlyAppliedThen(s, e), HandedOverThen(s), SocketFoundThen(s, e), OnlyKnownIdsThen(s)
    PROVE  FollowerRest(s)'
<1>1. /\ \A d, m : Applied(s, d, m)' <=> Applied(s, d, m) \/ (d = e.tok[1] /\ m = e.tok[2])
      /\ \A d : Got(s, d)' = Got(s, d)
  BY ReplayedEntries
<1>2. log' = log /\ input' = input
  BY DEF Replays
<1>3. OnlyApplied(s)'
  BY <1>1 DEF OnlyApplied, OnlyAppliedThen, FollowerRest
<1>4. HandedOver(s)'
  BY <1>1, <1>2 DEF HandedOver, HandedOverThen, Unknown, UnknownThen, EnoughFds
<1>5. SocketFound(s)'
  BY <1>1, <1>2 DEF SocketFound, SocketFoundThen, Unknown, UnknownThen
<1>6. OnlyKnownIds(s)'
  BY <1>2 DEF OnlyKnownIds, OnlyKnownIdsThen
<1> QED BY <1>3, <1>4, <1>5, <1>6 DEF FollowerRest

\* do_action_connect opens a socket.
LEMMA ReplayConnect ==
    ASSUME Basics, NEW s \in Server, FollowerRest(s), NEW e, Replays(s, e), e.tok[2] = 0,
           NEW g \in Fd \ DOMAIN sock[s],
           SocketSet(s, g, [conn |-> e.tok[1], todo |-> <<e.tok>>, pc |-> "app", rec |-> 0]),
           follower_hash_map' = [follower_hash_map EXCEPT ![s] = Put(@, e.conn, g)]
    PROVE  FollowerRest(s)'
<1>0. PICK c, x : c = e.tok[1] /\ x = e.conn
  OBVIOUS
<1>1. /\ c \in Client /\ e.tok = <<c, 0>>
      /\ \A i \in 1 .. applied[s] : log[i].tok[1] # c /\ log[i].conn # x
      /\ Unknown(s, c) /\ Got(s, c) = 0
      /\ x \notin DOMAIN follower_hash_map[s]
  BY <1>0, FirstOfClient DEF Replays, NextEntry
<1>2. /\ DOMAIN sock'[s] = DOMAIN sock[s] \cup {g}
      /\ sock'[s][g].conn = c /\ sock'[s][g].todo = <<e.tok>>
      /\ \A f \in DOMAIN sock[s] : f # g /\ sock'[s][f] = sock[s][f] /\ sock[s][f].conn # c
  BY <1>0, <1>1 DEF SocketSet, Unknown
<1>3. /\ DOMAIN follower_hash_map'[s] = DOMAIN follower_hash_map[s] \cup {x}
      /\ follower_hash_map'[s][x] = g
      /\ \A y \in DOMAIN follower_hash_map[s] : y # x /\ follower_hash_map'[s][y] = follower_hash_map[s][y]
  BY <1>0, <1>1 DEF Basics, Put
<1>4. /\ \A i \in 1 .. applied'[s] : i \in 1 .. applied[s] \/ log[i] = e
      /\ \A i \in 1 .. applied[s] : i \in 1 .. applied'[s]
      /\ \E i \in 1 .. applied'[s] : log[i] = e
      /\ \A d : Got(s, d)' = Got(s, d)
  BY ReplayedEntries
<1>5. Len(<<e.tok>>) = 1 /\ DOMAIN <<e.tok>> = {1} /\ <<e.tok>>[1] = e.tok
  OBVIOUS
<1>6. Streams(s)'
  <2>1. \A d \in Client : \A k \in DOMAIN input'[s][d] : input'[s][d][k] = <<d, k - 1>>
    BY DEF FollowerRest, Streams, Replays
  <2>2. ASSUME NEW f \in DOMAIN sock'[s], NEW j \in DOMAIN sock'[s][f].todo, NEW d, d = sock'[s][f].conn
        PROVE  sock'[s][f].todo[j] = <<d, Got(s, d) + j - 1>>
    <3>1. CASE f = g
      BY <1>1, <1>2, <1>5, <2>2, <3>1
    <3>2. CASE f # g
      BY <1>2, <2>2, <3>2 DEF FollowerRest, Streams
    <3> QED BY <3>1, <3>2
  <2>3. \A f, h \in DOMAIN sock'[s] : sock'[s][f].conn = sock'[s][h].conn => f = h
    BY <1>2 DEF FollowerRest, Streams
  <2> QED BY <1>4, <2>1, <2>2, <2>3 DEF Streams
<1>8. ASSUME NEW f \in DOMAIN sock'[s], NEW d, d = sock'[s][f].conn
      PROVE  /\ Got(s, d) + Len(sock'[s][f].todo) >= 1
             /\ \A m \in 0 .. Got(s, d) + Len(sock'[s][f].todo) - 1 :
                  Applied(s, d, m) \/ (d = e.tok[1] /\ m = e.tok[2])
  <2>1. CASE f = g
    <3>1. Got(s, d) = 0 /\ Len(sock'[s][f].todo) = 1 /\ d = e.tok[1]
      BY <1>0, <1>1, <1>2, <1>5, <1>8, <2>1
    <3> QED BY <3>1
  <2>2. CASE f # g
    BY <1>2, <1>8, <2>2 DEF FollowerRest, OnlyApplied
  <2> QED BY <2>1, <2>2
<1>9. \A d : d # c /\ Unknown(s, d) =>
               UnknownThen(s, d)
  BY <1>2 DEF Unknown, UnknownThen
<1>10. ASSUME NEW i \in 1 .. applied'[s], NEW d, d = log[i].tok[1]
       PROVE  \/ log[i].tok[2] < Got(s, d)
              \/ \E f \in DOMAIN sock'[s] :
                   sock'[s][f].conn = d /\ log[i].tok[2] < Got(s, d) + Len(sock'[s][f].todo)
              \/ UnknownThen(s, d) /\ ~EnoughFds
  <2>1. CASE i \in 1 .. applied[s]
    <3>1. \/ log[i].tok[2] < Got(s, d)
          \/ \E f \in DOMAIN sock[s] :
               sock[s][f].conn = d /\ log[i].tok[2] < Got(s, d) + Len(sock[s][f].todo)
          \/ Unknown(s, d) /\ ~EnoughFds
      BY <1>10, <2>1 DEF FollowerRest, HandedOver
    <3>2. d # c
      BY <1>1, <1>10, <2>1
    <3> QED BY <1>2, <1>9, <3>1, <3>2
  <2>2. CASE log[i] = e
    <3>1. g \in DOMAIN sock'[s] /\ sock'[s][g].conn = d /\ Got(s, d) = 0 /\ Len(sock'[s][g].todo) = 1
      BY <1>0, <1>1, <1>2, <1>5, <1>10, <2>2
    <3>2. log[i].tok[2] = 0 /\ log[i].tok[2] < Got(s, d) + Len(sock'[s][g].todo)
      BY <2>2, <3>1
    <3> QED BY <3>1, <3>2
  <2> QED BY <1>4, <2>1, <2>2
<1>11. ASSUME NEW i \in 1 .. applied'[s], NEW d, d = log[i].tok[1], ~Applied(s, d, Reads + 1)
       PROVE  IF log[i].conn \in DOMAIN follower_hash_map'[s]
              THEN /\ follower_hash_map'[s][log[i].conn] \in DOMAIN sock'[s]
                   /\ sock'[s][follower_hash_map'[s][log[i].conn]].conn = d
              ELSE UnknownThen(s, d)
  <2>1. CASE i \in 1 .. applied[s]
    <3>1. PICK y : y = log[i].conn
      OBVIOUS
    <3>2. IF y \in DOMAIN follower_hash_map[s]
          THEN /\ follower_hash_map[s][y] \in DOMAIN sock[s]
               /\ sock[s][follower_hash_map[s][y]].conn = d
          ELSE Unknown(s, d)
      BY <1>11, <2>1, <3>1 DEF FollowerRest, SocketFound
    <3>3. y # x /\ d # c
      BY <1>1, <1>11, <2>1, <3>1
    <3> QED BY <1>2, <1>3, <1>9, <3>1, <3>2, <3>3
  <2>2. CASE log[i] = e
    BY <1>0, <1>2, <1>3, <1>11, <2>2
  <2> QED BY <1>4, <2>1, <2>2
<1>12. ASSUME NEW y \in DOMAIN follower_hash_map'[s]
       PROVE  \E i \in 1 .. applied'[s] : log[i].conn = y
  BY <1>0, <1>3, <1>4 DEF FollowerRest, OnlyKnownIds
<1>13. OnlyAppliedThen(s, e)
  BY <1>8 DEF OnlyAppliedThen
<1>14. HandedOverThen(s)
  BY <1>10 DEF HandedOverThen
<1>15. SocketFoundThen(s, e)
  BY <1>11 DEF SocketFoundThen
<1>16. OnlyKnownIdsThen(s)
  BY <1>12 DEF OnlyKnownIdsThen
<1> QED BY <1>6, <1>13, <1>14, <1>15, <1>16, ReplayGoal

\* An entry for which there is nothing to do.
LEMMA ReplayNothing ==
    ASSUME Basics, NEW s \in Server, FollowerRest(s), NEW e, Replays(s, e),
           Unknown(s, e.tok[1]), ~EnoughFds, e.conn \notin DOMAIN follower_hash_map[s],
           UNCHANGED <<sock, follower_hash_map>>
    PROVE  FollowerRest(s)'
<1>1. /\ \A i \in 1 .. applied'[s] : i \in 1 .. applied[s] \/ log[i] = e
      /\ \A i \in 1 .. applied[s] : i \in 1 .. applied'[s]
      /\ \A d : Got(s, d)' = Got(s, d)
  BY ReplayedEntries
<1>2. Streams(s)'
  BY <1>1 DEF FollowerRest, Streams, Replays
<1>3. \A d : Unknown(s, d) => UnknownThen(s, d)
  BY DEF Unknown, UnknownThen
<1>4. OnlyAppliedThen(s, e)
  BY DEF OnlyAppliedThen, FollowerRest, OnlyApplied
<1>5. HandedOverThen(s)
  BY <1>1, <1>3 DEF HandedOverThen, FollowerRest, HandedOver
<1>6. SocketFoundThen(s, e)
  BY <1>1, <1>3 DEF SocketFoundThen, FollowerRest, SocketFound
<1>7. OnlyKnownIdsThen(s)
  BY <1>1 DEF OnlyKnownIdsThen, FollowerRest, OnlyKnownIds
<1> QED BY <1>2, <1>4, <1>5, <1>6, <1>7, ReplayGoal

\* A SEND or a CLOSE finds the socket of its client, with all inputs before it, or the
\* CONNECT found no descriptor.
FoundFor(s, c, n, f) ==
    f \in DOMAIN sock[s] /\ sock[s][f].conn = c /\ Got(s, c) + Len(sock[s][f].todo) = n

\* The socket is found because the input before it was applied.
LEMMA LaterOfClient ==
    ASSUME Basics, NEW s \in Server, FollowerRest(s), NEW e, NextEntry(s, e), e.tok[2] # 0
    PROVE  IF e.conn \in DOMAIN follower_hash_map[s]
           THEN FoundFor(s, e.tok[1], e.tok[2], follower_hash_map[s][e.conn])
           ELSE Unknown(s, e.tok[1]) /\ ~EnoughFds
<1>0. PICK c, n, x : c = e.tok[1] /\ n = e.tok[2] /\ x = e.conn
  OBVIOUS
<1>1. /\ c \in Client /\ n \in 1 .. Reads + 1 /\ Got(s, c) \in Nat /\ Reads \in Nat
      /\ \A i \in 1 .. applied[s] : log[i].tok[1] = c => log[i].tok[2] < n
      /\ \A m \in 0 .. n - 1 : Applied(s, c, m)
      /\ \A i \in 1 .. applied[s] : log[i].tok[1] = c <=> log[i].conn = x
  BY <1>0, GotTypes, ProxyAssumption DEF NextEntry
<1>2. \A m \in Int : m >= n => ~Applied(s, c, m)
  BY <1>1 DEF Applied
<1>3. PICK j \in 1 .. applied[s] : log[j].tok = <<c, n - 1>>
  <2>1. n - 1 \in 0 .. n - 1
    BY <1>1
  <2> QED BY <1>1, <2>1 DEF Applied
<1>4. log[j].tok[1] = c /\ log[j].tok[2] = n - 1 /\ log[j].conn = x
  BY <1>1, <1>3
<1>5. ~Applied(s, c, Reads + 1)
  BY <1>1, <1>2
<1>6. IF x \in DOMAIN follower_hash_map[s]
      THEN /\ follower_hash_map[s][x] \in DOMAIN sock[s]
           /\ sock[s][follower_hash_map[s][x]].conn = c
      ELSE Unknown(s, c)
  BY <1>4, <1>5 DEF FollowerRest, SocketFound
<1>7. \/ n - 1 < Got(s, c)
      \/ \E f \in DOMAIN sock[s] : sock[s][f].conn = c /\ n - 1 < Got(s, c) + Len(sock[s][f].todo)
      \/ Unknown(s, c) /\ ~EnoughFds
  BY <1>4 DEF FollowerRest, HandedOver
<1>8. CASE x \notin DOMAIN follower_hash_map[s]
  <2>1. Unknown(s, c) /\ Got(s, c) = 0
    BY <1>1, <1>6, <1>8, GotTypes DEF Unknown
  <2>2. ~EnoughFds
    BY <1>1, <1>7, <2>1 DEF Unknown
  <2> QED BY <1>0, <1>8, <2>1, <2>2
<1>9. CASE x \in DOMAIN follower_hash_map[s]
  <2>1. PICK f : f = follower_hash_map[s][x]
    OBVIOUS
  <2>2. f \in DOMAIN sock[s] /\ sock[s][f].conn = c
    BY <1>6, <1>9, <2>1
  <2>3. PICK k : k = Len(sock[s][f].todo)
    OBVIOUS
  <2>4. k \in Nat
    BY <2>2, <2>3, SocketTypes
  <2>5. \A g \in DOMAIN sock[s] : sock[s][g].conn = c => Len(sock[s][g].todo) = k
    BY <2>2, <2>3 DEF FollowerRest, Streams
  <2>6. n - 1 < Got(s, c) + k
    <3>1. ~Unknown(s, c)
      BY <2>2 DEF Unknown
    <3>2. n - 1 < Got(s, c) \/ n - 1 < Got(s, c) + k
      BY <1>7, <2>5, <3>1
    <3> QED BY <1>1, <2>4, <3>2
  <2>7. ~(Got(s, c) + k > n)
    <3>1. ASSUME Got(s, c) + k > n PROVE FALSE
      <4>1. n \in 0 .. Got(s, c) + k - 1 /\ n \in Int /\ n >= n
        BY <1>1, <2>4, <3>1
      <4>2. \A m \in 0 .. Got(s, c) + Len(sock[s][f].todo) - 1 : Applied(s, c, m)
        BY <2>2 DEF FollowerRest, OnlyApplied
      <4>3. Applied(s, c, n)
        BY <2>3, <4>1, <4>2
      <4> QED BY <1>2, <4>1, <4>3
    <3> QED BY <3>1
  <2>8. Got(s, c) + k = n
    BY <1>1, <2>4, <2>6, <2>7
  <2>9. FoundFor(s, c, n, f)
    BY <2>2, <2>3, <2>8 DEF FoundFor
  <2> QED BY <1>0, <1>9, <2>1, <2>9
<1> QED BY <1>8, <1>9

\* do_action_send and do_action_close give the input to the socket of its client.
Sent(s, e, f, q, p) ==
    /\ f \in DOMAIN sock[s] /\ sock[s][f].conn = e.tok[1] /\ sock[s][f].todo = q
    /\ Len(q) \in Nat /\ Got(s, e.tok[1]) + Len(q) = e.tok[2] /\ DOMAIN q = 1 .. Len(q)
    /\ Len(p) = Len(q) + 1 /\ DOMAIN p = 1 .. Len(q) + 1
    /\ \A j \in 1 .. Len(q) : p[j] = q[j]
    /\ p[Len(q) + 1] = e.tok
    /\ DOMAIN sock'[s] = DOMAIN sock[s] /\ sock'[s][f].conn = e.tok[1] /\ sock'[s][f].todo = p
    /\ \A g \in DOMAIN sock[s] \ {f} : sock'[s][g] = sock[s][g]

\* That is what a SEND or a CLOSE does to a socket that is found.
LEMMA SendShape ==
    ASSUME Basics, NEW s \in Server, NEW e, e.tok \in Token, NEW f, FoundFor(s, e.tok[1], e.tok[2], f),
           SocketSet(s, f, [conn |-> sock[s][f].conn, todo |-> Append(sock[s][f].todo, e.tok),
                            pc |-> sock[s][f].pc, rec |-> sock[s][f].rec])
    PROVE  \E q, p : Sent(s, e, f, q, p)
<1> DEFINE q == sock[s][f].todo
           p == Append(q, e.tok)
           r == [conn |-> sock[s][f].conn, todo |-> p, pc |-> sock[s][f].pc, rec |-> sock[s][f].rec]
<1>1. /\ f \in DOMAIN sock[s] /\ sock[s][f].conn = e.tok[1]
      /\ Got(s, e.tok[1]) + Len(q) = e.tok[2]
  BY DEF FoundFor
<1>2. q \in Seq(Token) /\ Len(q) \in Nat /\ DOMAIN q = 1 .. Len(q)
  BY <1>1, SocketTypes
<1>3. SocketSet(s, f, r) /\ r.conn = sock[s][f].conn /\ r.todo = p
  OBVIOUS
<1> HIDE DEF r
<1>4. /\ DOMAIN sock'[s] = DOMAIN sock[s] /\ sock'[s][f].conn = e.tok[1] /\ sock'[s][f].todo = p
      /\ \A g \in DOMAIN sock[s] \ {f} : sock'[s][g] = sock[s][g]
  <2> HIDE DEF p
  <2> QED BY <1>1, <1>3 DEF SocketSet
<1>5. /\ Len(p) = Len(q) + 1 /\ DOMAIN p = 1 .. Len(q) + 1
      /\ \A j \in 1 .. Len(q) : p[j] = q[j]
      /\ p[Len(q) + 1] = e.tok
  <2>1. PICK t : t = e.tok /\ t \in Token
    OBVIOUS
  <2> HIDE DEF q
  <2>2. /\ Append(q, t) \in Seq(Token) /\ Len(Append(q, t)) = Len(q) + 1
        /\ \A j \in 1 .. Len(q) : Append(q, t)[j] = q[j]
        /\ Append(q, t)[Len(q) + 1] = t
    BY <1>2, <2>1, AppendProperties
  <2>3. DOMAIN Append(q, t) = 1 .. Len(Append(q, t))
    BY <2>2, LenProperties
  <2> QED BY <2>1, <2>2, <2>3
<1> HIDE DEF p, q
<1>6. sock[s][f].todo = q
  BY DEF q
<1>7. Sent(s, e, f, q, p)
  BY <1>1, <1>2, <1>4, <1>5, <1>6 DEF Sent
<1> QED BY <1>7

\* The follower's invariant after a SEND or a CLOSE.
LEMMA ReplaySend ==
    ASSUME Basics, NEW s \in Server, FollowerRest(s), NEW e, Replays(s, e),
           e.conn \in DOMAIN follower_hash_map[s],
           NEW f, f = follower_hash_map[s][e.conn], NEW q, NEW p, Sent(s, e, f, q, p),
           follower_hash_map' = IF Type(e.tok) = "CLOSE"
                                THEN [follower_hash_map EXCEPT ![s] = Without(@, e.conn)]
                                ELSE follower_hash_map
    PROVE  FollowerRest(s)'
<1>0. PICK c, n, x : c = e.tok[1] /\ n = e.tok[2] /\ x = e.conn
  OBVIOUS
<1>1. /\ c \in Client /\ n \in 0 .. Reads + 1 /\ e.tok = <<c, n>> /\ Got(s, c) \in Nat
      /\ e.tok \in Token /\ Reads \in Nat
      /\ \A i \in 1 .. applied[s] : log[i].tok[1] = c <=> log[i].conn = x
  BY <1>0, GotTypes, ProxyAssumption DEF Replays, NextEntry
<1>2. /\ f \in DOMAIN sock[s] /\ sock[s][f].conn = c /\ sock[s][f].todo = q
      /\ Got(s, c) + Len(q) = n /\ Len(q) \in Nat
  BY <1>0 DEF Sent
<1>3. /\ Len(p) = Len(q) + 1 /\ DOMAIN p = 1 .. Len(q) + 1 /\ DOMAIN q = 1 .. Len(q)
      /\ \A j \in 1 .. Len(q) : p[j] = q[j]
      /\ p[Len(q) + 1] = e.tok
  BY DEF Sent
<1>4. /\ DOMAIN sock'[s] = DOMAIN sock[s]
      /\ sock'[s][f].conn = c /\ sock'[s][f].todo = p
      /\ \A g \in DOMAIN sock[s] \ {f} : sock'[s][g] = sock[s][g] /\ sock[s][g].conn # c
      /\ \A g \in DOMAIN sock[s] : sock'[s][g].conn = sock[s][g].conn
  <2>1. \A g \in DOMAIN sock[s] \ {f} : sock[s][g].conn # c
    BY <1>2 DEF FollowerRest, Streams
  <2> QED BY <1>0, <1>2, <2>1 DEF Sent
<1>5. /\ \A y \in DOMAIN follower_hash_map'[s] :
           y \in DOMAIN follower_hash_map[s] /\ follower_hash_map'[s][y] = follower_hash_map[s][y]
      /\ \A y \in DOMAIN follower_hash_map[s] : y = x \/ y \in DOMAIN follower_hash_map'[s]
      /\ n # Reads + 1 => follower_hash_map' = follower_hash_map
  <2>1. n = Reads + 1 <=> Type(e.tok) = "CLOSE"
    BY <1>0, <1>1, Types
  <2>2. CASE Type(e.tok) = "CLOSE"
    <3>1. follower_hash_map'[s] = Without(follower_hash_map[s], x)
      BY <1>0, <2>2 DEF Basics
    <3> QED BY <2>1, <2>2, <3>1 DEF Without
  <2>3. CASE Type(e.tok) # "CLOSE"
    BY <2>3
  <2> QED BY <2>2, <2>3
<1>6. /\ \A i \in 1 .. applied'[s] : i \in 1 .. applied[s] \/ log[i] = e
      /\ \A i \in 1 .. applied[s] : i \in 1 .. applied'[s]
      /\ \A d : Got(s, d)' = Got(s, d)
  BY ReplayedEntries
<1>7. Streams(s)'
  <2>1. \A d \in Client : \A k \in DOMAIN input'[s][d] : input'[s][d][k] = <<d, k - 1>>
    BY DEF FollowerRest, Streams, Replays
  <2>2. ASSUME NEW g \in DOMAIN sock'[s], NEW j \in DOMAIN sock'[s][g].todo, NEW d, d = sock'[s][g].conn
        PROVE  sock'[s][g].todo[j] = <<d, Got(s, d) + j - 1>>
    <3>1. CASE g = f
      <4>1. j \in 1 .. Len(q) + 1 /\ sock'[s][g].todo[j] = p[j] /\ d = c
        BY <1>3, <1>4, <2>2, <3>1
      <4>2. CASE j \in 1 .. Len(q)
        <5>1. q[j] = <<c, Got(s, c) + j - 1>>
          <6>1. j \in DOMAIN sock[s][f].todo
            BY <1>2, <1>3, <4>2
          <6>2. sock[s][f].todo[j] = <<sock[s][f].conn, Got(s, sock[s][f].conn) + j - 1>>
            BY <1>2, <6>1 DEF FollowerRest, Streams
          <6> QED BY <1>2, <6>2
        <5> QED BY <1>3, <4>1, <4>2, <5>1
      <4>3. CASE j = Len(q) + 1
        <5>1. Got(s, c) + j - 1 = n
          BY <1>1, <1>2, <4>3
        <5> QED BY <1>1, <1>3, <4>1, <4>3, <5>1
      <4> QED BY <1>2, <4>1, <4>2, <4>3
    <3>2. CASE g # f
      BY <1>4, <2>2, <3>2 DEF FollowerRest, Streams
    <3> QED BY <3>1, <3>2
  <2>3. \A g, h \in DOMAIN sock'[s] : sock'[s][g].conn = sock'[s][h].conn => g = h
    BY <1>4 DEF FollowerRest, Streams
  <2> QED BY <1>6, <2>1, <2>2, <2>3 DEF Streams
<1>8. OnlyAppliedThen(s, e)
  <2> SUFFICES ASSUME NEW g \in DOMAIN sock'[s], NEW d, d = sock'[s][g].conn
               PROVE  /\ Got(s, d) + Len(sock'[s][g].todo) >= 1
                      /\ \A m \in 0 .. Got(s, d) + Len(sock'[s][g].todo) - 1 :
                           Applied(s, d, m) \/ (d = e.tok[1] /\ m = e.tok[2])
    BY DEF OnlyAppliedThen
  <2>1. CASE g = f
    <3>1. PICK k : k = Len(sock'[s][g].todo)
      OBVIOUS
    <3>2. d = c /\ k \in Nat /\ Got(s, c) + k = n + 1 /\ n + 1 >= 1
      <4>1. d = c /\ k = Len(q) + 1
        BY <1>3, <1>4, <2>1, <3>1
      <4> QED BY <1>1, <1>2, <4>1
    <3>3. \A m \in 0 .. Got(s, c) + Len(q) - 1 : Applied(s, c, m)
      BY <1>2 DEF FollowerRest, OnlyApplied
    <3>4. \A m \in 0 .. n - 1 : Applied(s, c, m)
      BY <1>1, <1>2, <3>3
    <3>5. \A m \in 0 .. Got(s, c) + k - 1 : Applied(s, c, m) \/ m = n
      BY <1>1, <3>2, <3>4
    <3>6. \A m \in 0 .. Got(s, d) + k - 1 : Applied(s, d, m) \/ (d = e.tok[1] /\ m = e.tok[2])
      BY <1>0, <3>2, <3>5
    <3>7. Got(s, d) + k >= 1
      BY <3>2
    <3> QED BY <3>1, <3>6, <3>7
  <2>2. CASE g # f
    BY <1>4, <2>2 DEF FollowerRest, OnlyApplied
  <2> QED BY <2>1, <2>2
<1>9. \A d : Unknown(s, d) => UnknownThen(s, d)
  BY <1>4 DEF Unknown, UnknownThen
<1>10. HandedOverThen(s)
  <2> SUFFICES ASSUME NEW i \in 1 .. applied'[s], NEW d, d = log[i].tok[1]
               PROVE  \/ log[i].tok[2] < Got(s, d)
                      \/ \E g \in DOMAIN sock'[s] :
                           sock'[s][g].conn = d /\ log[i].tok[2] < Got(s, d) + Len(sock'[s][g].todo)
                      \/ UnknownThen(s, d) /\ ~EnoughFds
    BY DEF HandedOverThen
  <2>1. CASE i \in 1 .. applied[s]
    <3>1. \/ log[i].tok[2] < Got(s, d)
          \/ \E g \in DOMAIN sock[s] :
               sock[s][g].conn = d /\ log[i].tok[2] < Got(s, d) + Len(sock[s][g].todo)
          \/ Unknown(s, d) /\ ~EnoughFds
      BY <2>1 DEF FollowerRest, HandedOver
    <3>2. ASSUME NEW g \in DOMAIN sock[s], sock[s][g].conn = d,
                 log[i].tok[2] < Got(s, d) + Len(sock[s][g].todo)
          PROVE  g \in DOMAIN sock'[s] /\ sock'[s][g].conn = d
                 /\ log[i].tok[2] < Got(s, d) + Len(sock'[s][g].todo)
      <4>1. CASE g = f
        <5>1. d = c /\ Len(sock[s][g].todo) = Len(q) /\ Len(sock'[s][g].todo) = Len(q) + 1
          BY <1>0, <1>2, <1>3, <1>4, <3>2, <4>1
        <5>2. log[i].tok[2] \in Int
          BY <2>1, AppliedTypes
        <5>3. log[i].tok[2] < Got(s, c) + (Len(q) + 1)
          BY <1>1, <1>2, <3>2, <5>1, <5>2
        <5> QED BY <1>4, <3>2, <5>1, <5>3
      <4>2. CASE g # f
        BY <1>4, <3>2, <4>2
      <4> QED BY <4>1, <4>2
    <3> QED BY <1>9, <3>1, <3>2
  <2>2. CASE log[i] = e
    <3>1. d = c /\ log[i].tok[2] = n /\ Len(sock'[s][f].todo) = Len(q) + 1
      BY <1>0, <1>3, <1>4, <2>2
    <3>2. n < Got(s, c) + (Len(q) + 1)
      BY <1>1, <1>2
    <3> QED BY <1>2, <1>4, <3>1, <3>2
  <2> QED BY <1>6, <2>1, <2>2
<1>11. SocketFoundThen(s, e)
  <2> SUFFICES ASSUME NEW i \in 1 .. applied'[s], NEW d, d = log[i].tok[1], ~Applied(s, d, Reads + 1),
                      ~(d = c /\ Reads + 1 = n), NEW y, y = log[i].conn
               PROVE  IF y \in DOMAIN follower_hash_map'[s]
                      THEN /\ follower_hash_map'[s][y] \in DOMAIN sock'[s]
                           /\ sock'[s][follower_hash_map'[s][y]].conn = d
                      ELSE UnknownThen(s, d)
    BY <1>0 DEF SocketFoundThen
  <2>1. CASE i \in 1 .. applied[s]
    <3>1. IF y \in DOMAIN follower_hash_map[s]
          THEN follower_hash_map[s][y] \in DOMAIN sock[s] /\ sock[s][follower_hash_map[s][y]].conn = d
          ELSE Unknown(s, d)
      BY <2>1 DEF FollowerRest, SocketFound
    <3>2. y \in DOMAIN follower_hash_map[s] <=> y \in DOMAIN follower_hash_map'[s]
      BY <1>1, <1>5, <2>1
    <3> QED BY SMTT(30), <1>4, <1>5, <1>9, <3>1, <3>2
  <2>2. CASE log[i] = e
    <3>1. d = c /\ y = x /\ follower_hash_map' = follower_hash_map
      BY <1>0, <1>5, <2>2
    <3> QED BY <1>0, <1>2, <1>4, <3>1
  <2> QED BY <1>6, <2>1, <2>2
<1>12. OnlyKnownIdsThen(s)
  BY <1>5, <1>6 DEF OnlyKnownIdsThen, FollowerRest, OnlyKnownIds
<1> QED BY <1>7, <1>8, <1>10, <1>11, <1>12, ReplayGoal

\* A follower replays the next committed entry.
LEMMA ApplyFollower ==
    ASSUME Basics, LeaderRest, Ids, NEW s \in Server, FollowerRest(s), FollowerApply(s)
    PROVE  FollowerRest(s)'
<1>0. PICK e : e = log[applied[s] + 1]
  OBVIOUS
<1>1. e \in Entry /\ applied[s] + 1 \in 1 .. committed
  BY <1>0, FollowerApplyEffect
<1>2. NextEntry(s, e)
  BY <1>0, <1>1, NextEntryFacts
<1>3. Replays(s, e)
  BY <1>0, <1>2, FollowerApplyEffect DEF Replays
<1>4. e.tok \in Token /\ (Type(e.tok) = "CONNECT" <=> e.tok[2] = 0)
  BY <1>2, Types DEF NextEntry
<1>5. ASSUME e.conn \notin DOMAIN follower_hash_map[s], e.tok[2] = 0,
             NEW g \in Fd \ DOMAIN sock[s],
             SocketSet(s, g, [conn |-> e.tok[1], todo |-> <<e.tok>>, pc |-> "app", rec |-> 0]),
             follower_hash_map' = [follower_hash_map EXCEPT ![s] = Put(@, e.conn, g)]
      PROVE  FollowerRest(s)'
  BY <1>3, <1>5, ReplayConnect
<1>6. ASSUME e.conn \in DOMAIN follower_hash_map[s], e.tok[2] # 0,
             NEW f, f = follower_hash_map[s][e.conn],
             f \in DOMAIN sock[s] =>
               SocketSet(s, f, [conn |-> sock[s][f].conn, todo |-> Append(sock[s][f].todo, e.tok),
                                pc |-> sock[s][f].pc, rec |-> sock[s][f].rec]),
             follower_hash_map' = IF Type(e.tok) = "CLOSE"
                                  THEN [follower_hash_map EXCEPT ![s] = Without(@, e.conn)]
                                  ELSE follower_hash_map
      PROVE  FollowerRest(s)'
  <2>1. FoundFor(s, e.tok[1], e.tok[2], f)
    BY <1>2, <1>6, LaterOfClient
  <2>2. f \in DOMAIN sock[s]
    BY <2>1 DEF FoundFor
  <2>3. SocketSet(s, f, [conn |-> sock[s][f].conn, todo |-> Append(sock[s][f].todo, e.tok),
                         pc |-> sock[s][f].pc, rec |-> sock[s][f].rec])
    BY <1>6, <2>2
  <2>4. PICK q, p : Sent(s, e, f, q, p)
    BY <1>4, <2>1, <2>3, SendShape
  <2> QED BY <1>3, <1>6, <2>4, ReplaySend
<1>7. ASSUME IF e.tok[2] = 0 THEN e.conn \in DOMAIN follower_hash_map[s] \/ Free(s) = {}
             ELSE e.conn \notin DOMAIN follower_hash_map[s],
             UNCHANGED <<sock, follower_hash_map>>
      PROVE  FollowerRest(s)'
  <2>1. Unknown(s, e.tok[1]) /\ e.conn \notin DOMAIN follower_hash_map[s] /\ ~EnoughFds
    <3>1. CASE e.tok[2] = 0
      <4>1. Unknown(s, e.tok[1]) /\ e.conn \notin DOMAIN follower_hash_map[s]
        BY <1>2, <3>1, FirstOfClient
      <4>2. Free(s) = {} /\ e.tok[1] \in Client /\ Streams(s)
        BY <1>2, <1>7, <3>1, <4>1 DEF NextEntry, FollowerRest
      <4> QED BY <4>1, <4>2, NoFreeFd
    <3>2. CASE e.tok[2] # 0
      BY <1>2, <1>7, <3>2, LaterOfClient
    <3> QED BY <3>1, <3>2
  <2> QED BY <1>3, <1>7, <2>1, ReplayNothing
<1>8. \/ /\ e.tok[2] = 0 /\ e.conn \notin DOMAIN follower_hash_map[s]
         /\ \E g \in Fd \ DOMAIN sock[s] :
              /\ SocketSet(s, g, [conn |-> e.tok[1], todo |-> <<e.tok>>, pc |-> "app", rec |-> 0])
              /\ follower_hash_map' = [follower_hash_map EXCEPT ![s] = Put(@, e.conn, g)]
      \/ /\ e.tok[2] # 0 /\ e.conn \in DOMAIN follower_hash_map[s]
         /\ \E f : /\ f = follower_hash_map[s][e.conn]
                   /\ f \in DOMAIN sock[s] =>
                        SocketSet(s, f, [conn |-> sock[s][f].conn,
                                         todo |-> Append(sock[s][f].todo, e.tok),
                                         pc |-> sock[s][f].pc, rec |-> sock[s][f].rec])
         /\ follower_hash_map' = IF Type(e.tok) = "CLOSE"
                                 THEN [follower_hash_map EXCEPT ![s] = Without(@, e.conn)]
                                 ELSE follower_hash_map
      \/ /\ IF e.tok[2] = 0 THEN e.conn \in DOMAIN follower_hash_map[s] \/ Free(s) = {}
            ELSE e.conn \notin DOMAIN follower_hash_map[s]
         /\ UNCHANGED <<sock, follower_hash_map>>
  BY <1>0, <1>4, FollowerApplyEffect
<1> QED BY <1>5, <1>6, <1>7, <1>8

\* FollowerInv holds initially.
LEMMA InitFollower == Init => FollowerInv
<1> SUFFICES ASSUME Init, NEW s \in Server \ {0} PROVE FollowerRest(s)
  BY DEF FollowerInv
<1>1. /\ sock[s] = <<>> /\ \A c \in Client : input[s][c] = <<>>
      /\ applied[s] = 0 /\ follower_hash_map[s] = <<>>
  BY DEF Init
<1>2. DOMAIN sock[s] = {} /\ DOMAIN follower_hash_map[s] = {}
  BY <1>1
<1>3. \A c \in Client : Got(s, c) = 0 /\ DOMAIN input[s][c] = {}
  BY <1>1 DEF Got
<1>4. Streams(s) /\ OnlyKnownIds(s)
  BY <1>2, <1>3 DEF Streams, OnlyKnownIds
<1>5. OnlyApplied(s)
  BY <1>2, <1>3 DEF OnlyApplied
<1>6. HandedOver(s) /\ SocketFound(s)
  BY <1>1 DEF HandedOver, SocketFound
<1> QED BY <1>4, <1>5, <1>6 DEF FollowerRest

\* Every step keeps FollowerInv.
LEMMA NextFollower == Basics /\ LeaderRest /\ Ids /\ FollowerInv /\ [Next]_vars => FollowerInv'
<1> SUFFICES ASSUME Basics, LeaderRest, Ids, FollowerInv, [Next]_vars,
                    NEW s \in Server, s # 0
             PROVE  FollowerRest(s)'
  BY DEF FollowerInv
<1>0. FollowerRest(s)
  BY DEF FollowerInv
<1>1. ASSUME NEW c \in Client, Connect(c) PROVE FollowerRest(s)'
  <2>1. UNCHANGED <<log, applied, follower_hash_map, input>>
    BY <1>1, ConnectEffect
  <2>2. sock'[s] = sock[s]
    <3>1. \E f, r : SocketSet(0, f, r)
      BY <1>1, ConnectEffect
    <3> QED BY <3>1 DEF SocketSet
  <2> QED BY <1>0, <2>1, <2>2, FollowerFrame
<1>2. ASSUME NEW t \in Server, NEW f \in DOMAIN sock[t], sock[t][f].todo # <<>>, Return(t, f),
             UNCHANGED <<log, applied, follower_hash_map>>
      PROVE  FollowerRest(s)'
  <2>1. CASE t = s
    BY <1>0, <1>2, <2>1, PassFollower
  <2>2. CASE t # s
    <3>1. /\ input' = [input EXCEPT ![t] = [input[t] EXCEPT ![sock[t][f].conn] =
                         Append(input[t][sock[t][f].conn], Head(sock[t][f].todo))]]
          /\ SocketClosed(t, f) \/ \E r : SocketSet(t, f, r)
      BY <1>2, ReturnEffect
    <3>2. input'[s] = input[s]
      BY <2>2, <3>1 DEF Basics
    <3>3. sock'[s] = sock[s]
      BY <2>2, <3>1 DEF SocketClosed, SocketSet
    <3> QED BY <1>0, <1>2, <3>2, <3>3, FollowerFrame
  <2> QED BY <2>1, <2>2
<1>3. ASSUME NEW t \in Server, NEW f \in DOMAIN sock[t], Hook(t, f) PROVE FollowerRest(s)'
  <2>1. CASE t = 0
    <3>1. UNCHANGED <<log, applied, follower_hash_map, input>>
      BY <1>3, <2>1, LockEffect
    <3>2. sock'[s] = sock[s]
      <4>1. \E r : SocketSet(0, f, r)
        BY <1>3, <2>1, LockEffect
      <4> QED BY <4>1 DEF SocketSet
    <3> QED BY <1>0, <3>1, <3>2, FollowerFrame
  <2>2. CASE t # 0
    <3>1. sock[t][f].todo # <<>> /\ Return(t, f) /\ UNCHANGED <<log, applied, follower_hash_map>>
      BY <1>3, <2>2, PassEffect
    <3> QED BY <1>2, <1>3, <3>1
  <2> QED BY <2>1, <2>2
<1>4. ASSUME NEW t \in Server, NEW f \in DOMAIN sock[t], Submit(t, f) PROVE FollowerRest(s)'
  <2>1. UNCHANGED <<log, applied, follower_hash_map, input>>
    BY <1>4 DEF Submit
  <2>2. sock'[s] = sock[s]
    <3>1. \E r : SocketSet(0, f, r)
      BY <1>4, SubmitEffect
    <3> QED BY <3>1 DEF SocketSet
  <2> QED BY <1>0, <2>1, <2>2, FollowerFrame
<1>5. ASSUME NEW t \in Server, NEW f \in DOMAIN sock[t], Released(t, f) PROVE FollowerRest(s)'
  <2>1. /\ t = 0 /\ sock[t][f].todo # <<>> /\ Return(t, f)
        /\ UNCHANGED <<log, applied, follower_hash_map>>
    BY <1>5, ReleasedEffect
  <2> QED BY <1>2, <1>5, <2>1
<1>6. ASSUME NEW t \in Server, LeaderPass(t) PROVE FollowerRest(s)'
  <2>1. log' = All /\ sock' = sock /\ input' = input /\ follower_hash_map' = follower_hash_map
        /\ applied' = [applied EXCEPT ![0] = committed']
    BY <1>6, LeaderPassEffect
  <2>2. applied'[s] = applied[s]
    BY <2>1, Zero DEF Basics
  <2>3. \A i \in 1 .. applied[s] : log'[i] = log[i]
    BY <2>1, AppliedTypes
  <2> QED BY <1>0, <2>1, <2>2, <2>3, FollowerFrame
<1>7. ASSUME NEW t \in Server, FollowerApply(t) PROVE FollowerRest(s)'
  <2>1. CASE t = s
    BY <1>0, <1>7, <2>1, ApplyFollower
  <2>2. CASE t # s
    <3>1. /\ log' = log /\ input' = input /\ applied' = [applied EXCEPT ![t] = @ + 1]
          /\ (\E g, r : SocketSet(t, g, r)) \/ (\A u \in Server : sock'[u] = sock[u])
      BY <1>7, FollowerApplyEffect
    <3>2. sock'[s] = sock[s]
      BY <2>2, <3>1 DEF SocketSet
    <3>3. applied'[s] = applied[s]
      BY <2>2, <3>1 DEF Basics
    <3>4. follower_hash_map'[s] = follower_hash_map[s]
      <4>1. \/ \E v : follower_hash_map' = [follower_hash_map EXCEPT ![t] = v]
            \/ follower_hash_map' = follower_hash_map
        BY <1>7, FollowerApplyEffect
      <4> QED BY <2>2, <4>1 DEF Basics
    <3> QED BY <1>0, <3>1, <3>2, <3>3, <3>4, FollowerFrame
  <2> QED BY <2>1, <2>2
<1>8. CASE UNCHANGED vars
  BY <1>0, <1>8, FollowerFrame DEF vars, proxyVars
<1> QED BY <1>1, <1>3, <1>4, <1>5, <1>6, <1>7, <1>8 DEF Next, App

-----------------------------------------------------------------------------
(* The theorems.                                                           *)

\* Init establishes the invariant and every step keeps it.
LEMMA InitInv == Init => IInv
BY InitBasics, InitLeader, InitIds, InitFollower DEF IInv, LeaderInv, LeaderRest

\* Every step keeps what is about the leader, whatever the ids.
LEMMA NextLeaderInv == LeaderInv /\ [Next]_vars => LeaderInv'
BY NextBasics, NextLeader DEF LeaderInv, LeaderRest

\* Every step keeps the invariant.
LEMMA NextInv == EnoughIds /\ IInv /\ [Next]_vars => IInv'
<1>1. IInv <=> Basics /\ LeaderRest /\ Ids /\ FollowerInv
  BY DEF IInv, LeaderInv, LeaderRest
<1>2. IInv' <=> LeaderInv' /\ Ids' /\ FollowerInv'
  BY DEF IInv
<1>3. LeaderInv <=> Basics /\ LeaderRest
  BY DEF LeaderInv, LeaderRest
<1> QED BY <1>1, <1>2, <1>3, NextLeaderInv, NextIds, NextFollower

\* The inductive invariant holds as long as the connections have different ids.
THEOREM Invariance ==
    ASSUME EnoughIds
    PROVE  Spec => []IInv
<1>1. Init => IInv
  BY InitInv
<1>2. IInv /\ [Next]_vars => IInv'
  BY NextInv
<1> QED BY <1>1, <1>2, PTL DEF Spec

\* The part of it that is about one step after the other of the log needs no ids.
THEOREM BasicsAlways == Spec => []Basics
<1>1. Init => Basics
  BY InitBasics
<1>2. Basics /\ [Next]_vars => Basics'
  BY NextBasics
<1> QED BY <1>1, <1>2, PTL DEF Spec

\* Every variable keeps its type: no server applies what is not committed, and
\* highest_rec, on which the threads spin, never passes cur_rec.
THEOREM TypeCorrect == Spec => []TypeOK
<1>1. Basics => TypeOK
  <2> SUFFICES ASSUME Basics PROVE TypeOK
    OBVIOUS
  <2>1. /\ log \in Seq(Entry) /\ committed \in 0 .. Len(log)
        /\ applied \in [Server -> 0 .. committed]
        /\ leader \in Server /\ leads \subseteq Server /\ up \subseteq Server
        /\ new \subseteq Client
    BY Zero DEF Basics
  <2>2. ASSUME NEW s \in Server PROVE highest_rec[s] \in 0 .. cur_rec[s]
    <3>1. CASE s = 0
      <4>1. highest_rec[0] = committed /\ cur_rec[0] = Len(All)
        BY AllSeq, Zero DEF Basics
      <4> QED BY <3>1, <4>1, AllTypes
    <3>2. CASE s # 0
      BY <3>2 DEF Basics
    <3> QED BY <3>1, <3>2
  <2>3. ASSUME NEW s \in Server
        PROVE  /\ tailq[s] \in Seq(Entry)
               /\ pair_count[s] \in 0 .. ConnCount - 1
               /\ DOMAIN leader_hash_map[s] \subseteq Fd
               /\ DOMAIN follower_hash_map[s] \subseteq ConnId
               /\ DOMAIN sock[s] \subseteq Fd
    BY DEF Basics, IsMap
  <2>4. ASSUME NEW s \in Server, NEW f \in DOMAIN sock[s]
        PROVE  /\ sock[s][f].conn \in Client /\ sock[s][f].pc \in {"app", "lock", "spin"}
               /\ sock[s][f].todo \in Seq(Token) /\ sock[s][f].rec \in 0 .. cur_rec[s]
    <3>1. sock[s][f].pc \in {"app", "lock", "spin"}
      BY SocketTypes DEF Socket
    <3>2. sock[s][f].rec \in Nat /\ sock[s][f].rec <= cur_rec[s] /\ cur_rec[s] \in Nat
      BY SocketTypes DEF Basics
    <3> QED BY <3>1, <3>2, SocketTypes
  <2> QED BY <2>1, <2>2, <2>3, <2>4 DEF TypeOK
<1> QED BY <1>1, BasicsAlways, PTL

\* Before the m-th input of a client there are m entries of this client in the log.
LEMMA CountBefore ==
    ASSUME Basics, Ordered, NEW i \in 1 .. Len(log), NEW c, NEW m \in Nat, log[i].tok = <<c, m>>
    PROVE  Cardinality(Before(c, i)) = m
<1> DEFINE B == Before(c, i)
           F == [h \in B |-> log[h].tok[2]]
<1>1. /\ i \in Nat /\ Len(log) \in Nat
      /\ \A h \in 1 .. Len(log) : h \in 1 .. Len(All) /\ All[h] = log[h]
      /\ \A h \in 1 .. Len(log) : log[h].tok[2] \in Nat /\ log[h].tok = <<log[h].tok[1], log[h].tok[2]>>
  <2>1. Len(log) \in Nat /\ Len(All) \in Nat /\ Len(log) <= Len(All)
    BY AllTypes
  <2>2. i \in Nat /\ \A h \in 1 .. Len(log) : h \in 1 .. Len(All)
    BY <2>1
  <2>3. \A h \in 1 .. Len(log) : All[h] = log[h]
    BY AllTypes
  <2>4. \A h \in 1 .. Len(All) : All[h].tok \in Token
    BY AllTypes
  <2>5. \A t \in Token : t[2] \in Nat /\ t = <<t[1], t[2]>>
    BY Types, ProxyAssumption
  <2> QED BY <2>1, <2>2, <2>3, <2>4, <2>5
<1>2. \A h \in B : h \in 1 .. Len(log) /\ h \in Nat /\ h < i /\ log[h].tok[1] = c
  BY <1>1 DEF Before
<1>3. IsFiniteSet(B)
  <2>1. IsFiniteSet(1 .. i - 1)
    BY <1>1, FS_Interval
  <2>2. B \subseteq 1 .. i - 1
    BY DEF Before
  <2> QED BY <2>1, <2>2, FS_Subset
<1>4. \A h \in B : log[h].tok[2] \in 0 .. m - 1
  <2> SUFFICES ASSUME NEW h \in B PROVE log[h].tok[2] \in 0 .. m - 1
    OBVIOUS
  <2> HIDE DEF B, F
  <2>1. h \in 1 .. Len(All) /\ i \in 1 .. Len(All) /\ h < i /\ log[h].tok[2] \in Nat
    BY <1>1, <1>2
  <2>2. All[h].tok[1] = All[i].tok[1] /\ All[h].tok[2] = log[h].tok[2] /\ All[i].tok[2] = m
    BY <1>1, <1>2
  <2>3. All[h].tok[2] < All[i].tok[2]
    BY <2>1, <2>2 DEF Ordered
  <2> QED BY <2>1, <2>2, <2>3
<1>5. \A g, h \in B : log[g].tok[2] = log[h].tok[2] => g = h
  <2>1. ASSUME NEW g \in B, NEW h \in B, g < h PROVE log[g].tok[2] < log[h].tok[2]
    <3> HIDE DEF B, F
    <3>1. g \in 1 .. Len(All) /\ h \in 1 .. Len(All) /\ All[g].tok[1] = All[h].tok[1]
          /\ All[g] = log[g] /\ All[h] = log[h]
      BY <1>1, <1>2
    <3> QED BY <2>1, <3>1 DEF Ordered
  <2>2. \A g, h \in B : g < h \/ h < g \/ g = h
    BY <1>2
  <2>3. \A h \in B : log[h].tok[2] \in Nat
    BY <1>1, <1>2
  <2>4. \A x \in Nat : ~(x < x)
    OBVIOUS
  <2> QED BY <2>1, <2>2, <2>3, <2>4
<1>6. ASSUME NEW n \in 0 .. m - 1 PROVE \E h \in B : log[h].tok[2] = n
  <2>1. i \in 1 .. Len(All) /\ All[i].tok[1] = c /\ All[i].tok[2] = m
    BY <1>1
  <2>2. PICK h \in 1 .. i - 1 : All[h].tok = <<c, n>>
    BY <2>1 DEF Ordered
  <2>3. h \in 1 .. Len(log)
    BY <1>1
  <2> QED BY <1>1, <2>2, <2>3 DEF Before
<1>7. ExistsBijection(B, 0 .. m - 1)
  <2>1. F \in [B -> 0 .. m - 1]
    BY <1>4
  <2>2. \A g, h \in B : F[g] = F[h] => g = h
    BY <1>5
  <2>3. \A n \in 0 .. m - 1 : \E h \in B : F[h] = n
    BY <1>6
  <2> HIDE DEF B, F
  <2>4. F \in Injection(B, 0 .. m - 1)
    BY <2>1, <2>2, Zenon DEF Injection, IsInjective
  <2>5. F \in Surjection(B, 0 .. m - 1)
    BY <2>1, <2>3, Zenon DEF Surjection
  <2> QED BY <2>4, <2>5, Zenon DEF ExistsBijection, Bijection
<1> HIDE DEF B
<1>8. Cardinality(0 .. m - 1) = Cardinality(B)
  BY <1>3, <1>7, FS_Bijection
<1>9. Cardinality(0 .. m - 1) = m
  <2>1. Cardinality(0 .. m - 1) = IF 0 > m - 1 THEN 0 ELSE (m - 1) - 0 + 1
    BY FS_Interval
  <2> QED BY <2>1
<1> QED BY <1>8, <1>9 DEF B

\* As long as the connections have different ids, every application gets, on every
\* connection, exactly the committed inputs in their order: leader_handle_submit_req lets
\* no thread go before its own request is committed, and do_action_* mixes up no connections.
THEOREM InputsTheorem ==
    ASSUME EnoughIds
    PROVE  Spec => []InputsAgreed
<1>1. IInv => InputsAgreed
  <2> SUFFICES ASSUME IInv, NEW s \in Server, NEW c \in Client, NEW k \in DOMAIN input[s][c]
               PROVE  \E i \in 1 .. committed : /\ log[i].tok = input[s][c][k]
                                                /\ log[i].tok[1] = c
                                                /\ Cardinality(Before(c, i)) = k - 1
    BY DEF IInv, LeaderInv, Basics, InputsAgreed
  <2>1. Basics /\ Ordered /\ Streams(s)
    BY DEF IInv, LeaderInv, FollowerInv, FollowerRest
  <2>2. input[s][c][k] = <<c, k - 1>>
    BY <2>1 DEF Streams
  <2>3. k \in 1 .. Got(s, c) /\ Got(s, c) \in Nat
    BY <2>1, GotTypes
  <2>4. k - 1 \in 0 .. Got(s, c) - 1 /\ k - 1 \in Nat
    BY <2>3
  <2>5. PICK i \in 1 .. committed : log[i].tok = <<c, k - 1>>
    <3>1. CASE s = 0
      <4>1. \E i \in 1 .. committed : All[i].tok = <<c, k - 1>>
        BY <2>4, <3>1 DEF IInv, LeaderInv, Waiting, GivenCommitted
      <4>2. \A i \in 1 .. committed : All[i] = log[i]
        BY <2>1, AllTypes
      <4> QED BY <4>1, <4>2
    <3>2. CASE s # 0
      <4>1. Applied(s, c, k - 1)
        BY <2>4, <3>2 DEF IInv, FollowerInv, FollowerRest, OnlyApplied
      <4>2. \A i \in 1 .. applied[s] : i \in 1 .. committed
        BY <2>1, AppliedTypes, AllTypes
      <4> QED BY <4>1, <4>2 DEF Applied
    <3> QED BY <3>1, <3>2
  <2>6. i \in 1 .. Len(log)
    BY <2>1, AllTypes
  <2>7. Cardinality(Before(c, i)) = k - 1
    BY <2>1, <2>4, <2>5, <2>6, CountBefore
  <2> QED BY <2>2, <2>5, <2>7
<1> QED BY <1>1, Invariance, PTL

\* As long as, moreover, an application has a descriptor for every connection, what a
\* server has applied is with its application or on its way in a socket.
THEOREM HandedTheorem ==
    ASSUME EnoughIds, EnoughFds
    PROVE  Spec => []AppliedIsHanded
<1>1. IInv => AppliedIsHanded
  <2> SUFFICES ASSUME IInv, NEW s \in Server, NEW i \in 1 .. applied[s]
               PROVE  log[i].tok \in Handed(s)
    BY DEF IInv, LeaderInv, Basics, AppliedIsHanded
  <2>1. Basics /\ Streams(s)
    BY DEF IInv, LeaderInv, FollowerInv, FollowerRest
  <2>2. PICK c, m : c = log[i].tok[1] /\ m = log[i].tok[2]
    OBVIOUS
  <2>3. /\ c \in Client /\ m \in Nat /\ log[i].tok = <<c, m>>
        /\ i \in 1 .. Len(All) /\ log[i] = All[i] /\ Got(s, c) \in Nat
    BY <2>1, <2>2, AppliedTypes, GotTypes, ProxyAssumption
  <2>4. ASSUME m < Got(s, c) PROVE log[i].tok \in Handed(s)
    <3>1. m + 1 \in DOMAIN input[s][c] /\ (m + 1) - 1 = m
      BY <2>1, <2>3, <2>4, GotTypes
    <3>2. input[s][c][m + 1] = <<c, m>>
      BY <2>1, <2>3, <3>1 DEF Streams
    <3>3. log[i].tok \in ToSet(input[s][c])
      BY <2>3, <3>1, <3>2 DEF ToSet
    <3> QED BY <2>3, <3>3 DEF Handed
  <2>5. ASSUME NEW f \in DOMAIN sock[s], sock[s][f].conn = c, Got(s, c) <= m,
               m < Got(s, c) + Len(sock[s][f].todo)
        PROVE  log[i].tok \in Handed(s)
    <3>1. PICK j : j = m - Got(s, c) + 1
      OBVIOUS
    <3>2. j \in 1 .. Len(sock[s][f].todo) /\ Got(s, c) + j - 1 = m
      BY <2>1, <2>3, <2>5, <3>1, SocketTypes
    <3>3. j \in DOMAIN sock[s][f].todo
      BY <2>1, <3>2, SocketTypes
    <3>4. sock[s][f].todo[j] = <<c, m>>
      BY <2>1, <2>5, <3>2, <3>3 DEF Streams
    <3>5. log[i].tok \in ToSet(sock[s][f].todo)
      BY <2>3, <3>3, <3>4 DEF ToSet
    <3> QED BY <3>5 DEF Handed
  <2>6. CASE s = 0
    <3>1. \/ m < Got(0, c)
          \/ m = Got(0, c) /\ \E f \in DOMAIN sock[0] : sock[0][f].conn = c
      BY <2>2, <2>3 DEF IInv, LeaderInv, Waiting, GivenOrSpins
    <3>2. \A f \in DOMAIN sock[0] : Len(sock[0][f].todo) \in Nat /\ Len(sock[0][f].todo) >= 1
      <4>1. \A f \in DOMAIN sock[0] : sock[0][f].todo # <<>>
        BY DEF IInv, LeaderInv, LeaderSockets
      <4>2. \A f \in DOMAIN sock[0] : sock[0][f].todo \in Seq(Token) /\ Len(sock[0][f].todo) \in Nat
        BY <2>1, Zero, SocketTypes
      <4>3. \A q \in Seq(Token) : q # <<>> /\ Len(q) \in Nat => Len(q) >= 1
        BY EmptySeq
      <4> QED BY <4>1, <4>2, <4>3
    <3>3. ASSUME m = Got(0, c), NEW f \in DOMAIN sock[0], sock[0][f].conn = c
          PROVE  log[i].tok \in Handed(s)
      <4>1. Got(s, c) <= m /\ m < Got(s, c) + Len(sock[0][f].todo)
        BY <2>3, <2>6, <3>2, <3>3
      <4> QED BY <2>5, <2>6, <3>3, <4>1
    <3> QED BY <2>4, <2>6, <3>1, <3>3
  <2>7. CASE s # 0
    <3>1. \/ m < Got(s, c)
          \/ \E f \in DOMAIN sock[s] : sock[s][f].conn = c /\ m < Got(s, c) + Len(sock[s][f].todo)
      BY <2>2, <2>7 DEF IInv, FollowerInv, FollowerRest, HandedOver
    <3>2. m < Got(s, c) \/ Got(s, c) <= m
      BY <2>3
    <3> QED BY <2>4, <2>5, <3>1, <3>2
  <2> QED BY <2>6, <2>7
<1> QED BY <1>1, Invariance, PTL
=============================================================================
