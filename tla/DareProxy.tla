------------------------------ MODULE DareProxy ------------------------------
(***************************************************************************)
(* The proxy between an application and the replicated log (proxy.c), the  *)
(* hooks that call it from the application's threads (spec_hooks.cpp), the *)
(* queue between those threads and the DARE thread (get_tailq_message) and *)
(* what apply_committed_entries does with a committed request.             *)
(*                                                                         *)
(* A connection is a stream of inputs: it is accepted (input 0), read from *)
(* (inputs 1, 2, ...) and closed (the last one).  On the leader the inputs *)
(* come from a client, and a hook returns to the application once its      *)
(* input is committed.  Every other server replays the committed inputs to *)
(* its own application over a socket of its own.                           *)
(*                                                                         *)
(* The log is the one that ReplicatedLog promises (DareLog implements it,  *)
(* DareReplication shows what a new leader keeps of it): a sequence, a     *)
(* number of committed entries, and for each server how many it applied.   *)
(***************************************************************************)
EXTENDS Integers, Sequences, FiniteSets, SequencesExt

CONSTANTS
    N,              \* group size
    Client,         \* clients; each opens one connection
    Reads,          \* inputs between accept and close
    Fd,             \* file descriptors of an application
    ConnCount,      \* number of values of pair_count, a uint8_t
    MaxElections    \* bound on the number of new leaders

Server == 0 .. N - 1

ASSUME ProxyAssumption ==
    /\ N \in Nat \ {0} /\ Reads \in Nat /\ ConnCount \in Nat \ {0} /\ MaxElections \in Nat
    /\ IsFiniteSet(Client) /\ IsFiniteSet(Fd) /\ Fd \subseteq Nat

VARIABLES
    log,                \* entries of the group's log
    committed,          \* number of committed entries
    applied,            \* number of entries that each server has applied
    leader,             \* the server whose log is the group's log
    leads,              \* servers whose SID says IS_LEADER
    up,                 \* servers whose application runs
    tailq,              \* tailhead of each server
    cur_rec,            \* proxy->cur_rec
    highest_rec,        \* proxy->highest_rec
    pair_count,         \* proxy->pair_count
    leader_hash_map,    \* proxy->leader_hash_map: connection id of a descriptor
    follower_hash_map,  \* proxy->follower_hash_map: descriptor behind a connection id
    sock,               \* open sockets of each application, with the thread that serves them
    input,              \* history: inputs each application got, for each connection
    new                 \* clients that have not connected yet

proxyVars == <<tailq, cur_rec, highest_rec, pair_count, leader_hash_map, follower_hash_map>>
vars == <<log, committed, applied, leader, leads, up, proxyVars, sock, input, new>>

Inputs == 0 .. Reads + 1
Token == Client \X Inputs           \* the k-th input of a client's connection
Type(tok) == CASE tok[2] = 0 -> "CONNECT"
               [] tok[2] = Reads + 1 -> "CLOSE"
               [] OTHER -> "SEND"
ConnId == Server \X (0 .. ConnCount - 1)
Entry == [conn : ConnId, tok : Token]

\* A function on a larger or on a smaller domain.
Put(f, x, v) == [y \in DOMAIN f \cup {x} |-> IF y = x THEN v ELSE f[y]]
Without(f, x) == [y \in DOMAIN f \ {x} |-> f[y]]

\* The application accepts: the lowest descriptor that is free.
Free(s) == Fd \ DOMAIN sock[s]
FirstFree(s) == CHOOSE f \in Free(s) : \A g \in Free(s) : f <= g
Opened(c, todo) == [conn |-> c, todo |-> todo, pc |-> "app", rec |-> 0]

-----------------------------------------------------------------------------
Init ==
    /\ log = <<>> /\ committed = 0
    /\ applied = [s \in Server |-> 0]
    /\ leader = 0 /\ leads = {0} /\ up = Server
    /\ tailq = [s \in Server |-> <<>>]
    /\ cur_rec = [s \in Server |-> 0]
    /\ highest_rec = [s \in Server |-> 0]
    /\ pair_count = [s \in Server |-> 0]
    /\ leader_hash_map = [s \in Server |-> <<>>]
    /\ follower_hash_map = [s \in Server |-> <<>>]
    /\ sock = [s \in Server |-> <<>>]
    /\ input = [s \in Server |-> [c \in Client |-> <<>>]]
    /\ new = Client

\* A client connects to the application of a leader and sends what it has to.
Connect(c) ==
    /\ c \in new
    /\ \E s \in leads \cap up :
         /\ Free(s) # {}
         /\ sock' = [sock EXCEPT ![s] =
                       Put(@, FirstFree(s), Opened(c, [k \in 1 .. Reads + 2 |-> <<c, k - 1>>]))]
    /\ new' = new \ {c}
    /\ UNCHANGED <<log, committed, applied, leader, leads, up, proxyVars, input>>

-----------------------------------------------------------------------------
(* A thread of the application, in accept, read or close on descriptor f.  *)

\* The hook returns: the application has its input, or has closed f.
Return(s, f) ==
    LET k == sock[s][f]
        tok == Head(k.todo)
    IN  /\ input' = [input EXCEPT ![s][k.conn] = Append(@, tok)]
        /\ sock' = [sock EXCEPT ![s] =
             IF Type(tok) = "CLOSE" THEN Without(@, f)
             ELSE Put(@, f, [k EXCEPT !.todo = Tail(@), !.pc = "app"])]

\* proxy_on_accept, proxy_on_read, proxy_on_close: is_leader() is tested here, and
\* the lock is taken later.  On other servers there is nothing to do.
Hook(s, f) ==
    /\ s \in up /\ sock[s][f].pc = "app" /\ sock[s][f].todo # <<>>
    /\ IF s \in leads
       THEN sock' = [sock EXCEPT ![s][f].pc = "lock"] /\ UNCHANGED input
       ELSE Return(s, f)
    /\ UNCHANGED <<log, committed, applied, leader, leads, up, proxyVars, new>>

\* Mutant: every connection of a server has the same id.
SameKey(s) == <<s, 0>>

\* gen_key
GenKey(s) == <<s, pair_count[s]>>

\* Mutant: the queue is a stack.
Pushed(q, e) == <<e>> \o q

\* TAILQ_INSERT_TAIL
Enqueued(q, e) == Append(q, e)

\* leader_handle_submit_req, between pthread_spin_lock and pthread_spin_unlock.  A
\* read or a close looks its connection up by its descriptor.
Submit(s, f) ==
    LET tok == Head(sock[s][f].todo)
        map == leader_hash_map[s]
        connect == Type(tok) = "CONNECT"
        conn == IF connect THEN GenKey(s) ELSE map[f]
    IN  /\ s \in up /\ sock[s][f].pc = "lock"
        /\ connect \/ f \in DOMAIN map
        /\ cur_rec' = [cur_rec EXCEPT ![s] = @ + 1]
        /\ sock' = [sock EXCEPT ![s][f].pc = "spin", ![s][f].rec = cur_rec[s] + 1]
        /\ pair_count' = IF connect THEN [pair_count EXCEPT ![s] = (@ + 1) % ConnCount]
                         ELSE pair_count
        /\ leader_hash_map' = [leader_hash_map EXCEPT ![s] =
             IF Type(tok) = "CLOSE" THEN Without(@, f) ELSE Put(@, f, conn)]
        /\ tailq' = [tailq EXCEPT ![s] = Enqueued(@, [conn |-> conn, tok |-> tok])]
        /\ UNCHANGED <<log, committed, applied, leader, leads, up, highest_rec,
                       follower_hash_map, input, new>>

\* The same for a descriptor that was accepted when this server did not lead: there
\* is no pair, and the application is killed by the null pointer.
SubmitUnknown(s, f) ==
    /\ s \in up /\ sock[s][f].pc = "lock"
    /\ Type(Head(sock[s][f].todo)) # "CONNECT" /\ f \notin DOMAIN leader_hash_map[s]
    /\ up' = up \ {s}
    /\ UNCHANGED <<log, committed, applied, leader, leads, proxyVars, sock, input, new>>

\* while (cur_rec > proxy->highest_rec);
Released(s, f) ==
    /\ s \in up /\ sock[s][f].pc = "spin"
    /\ sock[s][f].rec <= highest_rec[s]
    /\ Return(s, f)
    /\ UNCHANGED <<log, committed, applied, leader, leads, up, proxyVars, new>>

-----------------------------------------------------------------------------
(* The DARE thread: a pass of polling().                                   *)

\* Mutant: update_highest_rec is called once in a pass.
OncePerPass(n) == IF n > 0 THEN 1 ELSE 0

\* Mutant: it is called for the blank entry of the pass too.
BlankToo(n) == n + 1

\* update_highest_rec: once for every request that a leader applies, whoever
\* submitted it.
HighestRecUpdates(n) == n

\* get_tailq_message: every queued message is appended to the log.
Appended(l, q) == l \o q

\* A leader appends what is queued, commits what a majority has, and applies it.
LeaderPass(s) ==
    /\ s = leader /\ s \in leads \cap up
    /\ log' = Appended(log, tailq[s])
    /\ tailq' = [tailq EXCEPT ![s] = <<>>]
    /\ committed' \in committed .. Len(log')
    /\ applied' = [applied EXCEPT ![s] = committed']
    /\ highest_rec' = [highest_rec EXCEPT ![s] = @ + HighestRecUpdates(committed' - applied[s])]
    /\ UNCHANGED <<leader, leads, up, cur_rec, pair_count, leader_hash_map, follower_hash_map,
                   sock, input, new>>

\* do_action_connect, do_action_send, do_action_close
DoAction(s, e) ==
    LET map == follower_hash_map[s]
        known == e.conn \in DOMAIN map
        f == IF known THEN map[e.conn] ELSE FirstFree(s)
    IN  CASE Type(e.tok) = "CONNECT" /\ ~known /\ Free(s) # {} ->
               /\ follower_hash_map' = [follower_hash_map EXCEPT ![s] = Put(@, e.conn, f)]
               /\ sock' = [sock EXCEPT ![s] = Put(@, f, Opened(e.tok[1], <<e.tok>>))]
          [] Type(e.tok) = "SEND" /\ known ->
               /\ sock' = [sock EXCEPT ![s][f].todo = Append(@, e.tok)]
               /\ UNCHANGED follower_hash_map
          [] Type(e.tok) = "CLOSE" /\ known ->
               /\ sock' = [sock EXCEPT ![s][f].todo = Append(@, e.tok)]
               /\ follower_hash_map' = [follower_hash_map EXCEPT ![s] = Without(@, e.conn)]
          [] OTHER -> UNCHANGED <<sock, follower_hash_map>>

\* Another server replays a committed entry.
FollowerApply(s) ==
    /\ s \in up \ leads
    /\ applied[s] < committed
    /\ DoAction(s, log[applied[s] + 1])
    /\ applied' = [applied EXCEPT ![s] = @ + 1]
    /\ UNCHANGED <<log, committed, leader, leads, up, tailq, cur_rec, highest_rec, pair_count,
                   leader_hash_map, input, new>>

-----------------------------------------------------------------------------
(* Leader changes, as the proxy meets them.                                *)

\* Server s wins an election: its log, which has what is committed, is the group's.
Elect(s) ==
    /\ s \in up \ leads
    /\ Cardinality(leads) <= MaxElections
    /\ leader' = s
    /\ leads' = leads \cup {s}
    /\ \E k \in committed .. Len(log) : log' = SubSeq(log, 1, k)
    /\ UNCHANGED <<committed, applied, up, proxyVars, sock, input, new>>

\* get_tailq_message does not ask who leads: what is queued on a server that leads
\* no more goes to its own log, where the leader will overwrite it.
AppendStray(s) ==
    /\ s \in up \ {leader}
    /\ tailq[s] # <<>>
    /\ tailq' = [tailq EXCEPT ![s] = <<>>]
    /\ UNCHANGED <<log, committed, applied, leader, leads, up, cur_rec, highest_rec, pair_count,
                   leader_hash_map, follower_hash_map, sock, input, new>>

-----------------------------------------------------------------------------
App(s) == \E f \in DOMAIN sock[s] : Hook(s, f) \/ Submit(s, f) \/ Released(s, f)

\* One leader that lasts.
Next ==
    \/ \E c \in Client : Connect(c)
    \/ \E s \in Server : App(s) \/ LeaderPass(s) \/ FollowerApply(s)

\* A leader commits what it has appended (EntryReachesAll in DareReplication), every
\* thread of the applications runs, and every server polls.
Fairness ==
    /\ \A c \in Client : WF_vars(Connect(c))
    /\ \A s \in Server :
         /\ \A f \in Fd : WF_vars(/\ f \in DOMAIN sock[s]
                                  /\ Hook(s, f) \/ Submit(s, f) \/ Released(s, f))
         /\ WF_vars(LeaderPass(s) /\ committed' = Len(log'))
         /\ WF_vars(FollowerApply(s))

Spec == Init /\ [][Next]_vars /\ Fairness

\* Leaders follow one another; the old one may not have noticed.
FailoverNext ==
    \/ Next
    \/ \E s \in Server :
         \/ Elect(s) \/ AppendStray(s)
         \/ \E f \in DOMAIN sock[s] : SubmitUnknown(s, f)

FailoverSpec == Init /\ [][FailoverNext]_vars

-----------------------------------------------------------------------------
(* Properties.                                                             *)

\* Every variable has its type; in particular nobody applies what is not committed, and
\* highest_rec never passes cur_rec: each update is for a request of a thread that waits.
TypeOK ==
    /\ log \in Seq(Entry) /\ committed \in 0 .. Len(log)
    /\ applied \in [Server -> 0 .. committed]
    /\ leader \in Server /\ leads \subseteq Server /\ up \subseteq Server
    /\ \A s \in Server :
         /\ tailq[s] \in Seq(Entry)
         /\ highest_rec[s] \in 0 .. cur_rec[s]
         /\ pair_count[s] \in 0 .. ConnCount - 1
         /\ DOMAIN leader_hash_map[s] \subseteq Fd
         /\ DOMAIN follower_hash_map[s] \subseteq ConnId
         /\ DOMAIN sock[s] \subseteq Fd
         /\ \A f \in DOMAIN sock[s] :
              /\ sock[s][f].conn \in Client /\ sock[s][f].pc \in {"app", "lock", "spin"}
              /\ sock[s][f].todo \in Seq(Token) /\ sock[s][f].rec \in 0 .. cur_rec[s]
    /\ new \subseteq Client

\* The entries before the i-th that belong to the connection of client c.
Before(c, i) == {h \in 1 .. i - 1 : log[h].tok[1] = c}

\* Whatever an application got on a connection, on the leader from its hooks and
\* elsewhere from the replay, is what is committed for this connection, in the same
\* order (its k-th input is the k-th entry of the connection): leader_handle_submit_req
\* lets no thread go before its own request is committed, although it waits for a number
\* and not for a request.
InputsAgreed ==
    \A s \in up, c \in Client : \A k \in DOMAIN input[s][c] :
      \E i \in 1 .. committed :
         /\ log[i].tok = input[s][c][k]
         /\ log[i].tok[1] = c
         /\ Cardinality(Before(c, i)) = k - 1

\* Inputs that server s gave to its application or will, on the right connection.
Handed(s) ==
    (UNION {ToSet(input[s][c]) : c \in Client}) \cup
    (UNION {ToSet(sock[s][f].todo) : f \in DOMAIN sock[s]})

\* "the server applies all entries from apply to commit" (dare_log.h): an entry before
\* the apply offset of a server has reached the application of that server.
AppliedIsHanded ==
    \A s \in up : \A i \in 1 .. applied[s] : log[i].tok \in Handed(s)

\* Under a leader that lasts, every thread that waits in leader_handle_submit_req is
\* let go, and every application gets the whole connection of every client.
AllServed == \A c \in Client, s \in Server : <>(Len(input[s][c]) = Reads + 2)
=============================================================================
