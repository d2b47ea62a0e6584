------------------------- MODULE DareElectionProofs -------------------------
(***************************************************************************)
(* Proofs about DareElection, for every group size and every bound.        *)
(***************************************************************************)
EXTENDS DareElection, DareSidProofs

-----------------------------------------------------------------------------
(***************************************************************************)
(* Types.                                                                  *)
(***************************************************************************)
\* A server index fits the 8-bit index field of a SID.
LEMMA ServerType == Server \subseteq 0 .. 255 /\ Server \subseteq Nat
  BY GroupAssumption DEF Server

\* The SIDs the handlers build are SIDs.
LEMMA SidTypes ==
  /\ ZeroSid \in Sid /\ NullSid \in Sid
  /\ \A t \in Nat, l \in {0, 1}, i \in Server : MkSid(t, l, i) \in Sid
  /\ \A s \in Sid : SetL(s) \in Sid
  /\ NoRequest \in Request
  BY ServerType DEF ZeroSid, NullSid, NoIdx, MkSid, SetL, Sid, NoRequest, Request

\* The writes the handlers post are writes.
LEMMA WriteTypes ==
  /\ \A s \in Sid : HbWrite(s) \in Write
  /\ \A r \in Request : ReqWrite(r) \in Write
  /\ AckWrite \in Write
  BY SidTypes DEF HbWrite, ReqWrite, AckWrite, Write, NoRequest, Request

Queues == [Server -> Seq(Write)]

\* A vote request built from a SID and a log is one.
LEMMA RequestType ==
  ASSUME NEW s \in Sid, NEW l \in Seq(Nat)
  PROVE  RequestOf(s, l) \in Request
  BY DEF RequestOf, Request, LastTerm

\* The queues the handlers build hold writes only.
LEMMA QueueTypes ==
  ASSUME TypeOK, NEW i \in Server
  PROVE  /\ posted[i] \in Queues
         /\ \A q, out \in Queues : Then(q, out) \in Queues
         /\ \A S : HbTo(i, S) \in Queues
         /\ \A s \in Sid : RequestsOf(i, s) \in Queues /\ AckTo(i, s) \in Queues
<1>1. posted[i] \in Queues
  BY DEF TypeOK, Queues
<1>2. ASSUME NEW q \in Queues, NEW out \in Queues
      PROVE  Then(q, out) \in Queues
  BY DEF Then, Queues
<1>3. ASSUME NEW S PROVE HbTo(i, S) \in Queues
  BY WriteTypes DEF HbTo, Queues, TypeOK
<1>4. ASSUME NEW s \in Sid PROVE RequestsOf(i, s) \in Queues
  <2>1. RequestOf(s, log[i]) \in Request
    BY RequestType DEF TypeOK
  <2>2. ReqWrite(RequestOf(s, log[i])) \in Write
    BY <2>1, WriteTypes
  <2>3. QED
    BY <2>2 DEF RequestsOf, Queues
<1>5. ASSUME NEW s \in Sid PROVE AckTo(i, s) \in Queues
  BY WriteTypes DEF AckTo, Queues
<1>6. QED
  BY <1>1, <1>2, <1>3, <1>4, <1>5

\* So do the queues hb_receive_cb leaves.
LEMMA WithRepliesType ==
  ASSUME TypeOK, NEW i \in Server
  PROVE  WithReplies(i) \in Queues
  BY QueueTypes DEF WithReplies

\* Everything the HB loop looks at is a SID.
LEMMA ReceivedType ==
  ASSUME TypeOK, NEW i \in Server
  PROVE  /\ \A j \in Server : Received(i, j) \in Sid
         /\ \A n : LeaderSids(i, n) \subseteq Sid
  BY DEF TypeOK, Received, LeaderSids, Others

\* start_election keeps the types.
LEMMA StartElectionType ==
  ASSUME TypeOK, NEW i \in Server, NEW s \in Sid, NEW queue \in Queues,
         StartElection(i, s, queue)
  PROVE  /\ sid' \in [Server -> Sid]
         /\ log_access' \in [Server -> SUBSET Server]
         /\ vote_ack' \in [Server -> [Server -> BOOLEAN]]
         /\ hb_event' \in [Server -> {"receive", "send"}]
         /\ posted' \in [Server -> [Server -> Seq(Write)]]
<1> DEFINE new_sid == MkSid(s.term + 1, 0, i)
<1>1. new_sid \in Sid
  <2>1. s.term + 1 \in Nat
    BY DEF Sid
  <2>2. QED
    BY <2>1, SidTypes
<1>2. Then(queue, RequestsOf(i, new_sid)) \in Queues
  BY <1>1, QueueTypes
<1>3. posted' = [posted EXCEPT ![i] = Then(queue, RequestsOf(i, new_sid))]
  BY DEF StartElection, Post
<1>4. posted' \in [Server -> [Server -> Seq(Write)]]
  BY <1>2, <1>3 DEF TypeOK, Queues
<1>5. QED
  BY <1>1, <1>4 DEF StartElection, TypeOK

\* server_to_follower keeps the types.
LEMMA ServerToFollowerType ==
  ASSUME TypeOK, NEW i \in Server, NEW s \in Sid, NEW queue \in Queues,
         ServerToFollower(i, s, queue)
  PROVE  /\ to_adjust' \in [Server -> BOOLEAN]
         /\ log_access' \in [Server -> SUBSET Server]
         /\ hb_event' \in [Server -> {"receive", "send"}]
         /\ posted' \in [Server -> [Server -> Seq(Write)]]
<1>1. RestoredAccess(i, s) \in SUBSET Server
  BY DEF RestoredAccess, Others
<1>2. Then(queue, AckTo(i, s)) \in Queues
  BY QueueTypes
<1>3. \E q \in Queues : posted' = [posted EXCEPT ![i] = q]
  BY <1>2 DEF ServerToFollower, Post
<1>4. posted' \in [Server -> [Server -> Seq(Write)]]
  BY <1>3 DEF TypeOK, Queues
<1>5. QED
  BY <1>1, <1>4 DEF ServerToFollower, TypeOK

\* Clearing HB slots leaves SIDs in them.
LEMMA FetchHbsType ==
  ASSUME TypeOK, NEW i \in Server, FetchHbs(i)
  PROVE  /\ hb' \in [Server -> [Server -> Sid]]
         /\ latest_hb_received' \in [Server -> Sid]
  BY SidTypes DEF TypeOK, FetchHbs, Others

\* Every write sits in a typed place.
LEMMA TypeStep ==
  ASSUME TypeOK, [Next]_vars
  PROVE  TypeOK'
<1> USE DEF Queues
<1>1. ASSUME NEW i \in Server, Start(i) PROVE TypeOK'
  <2>1. sid[i] \in Sid /\ posted[i] \in Queues
    BY DEF TypeOK
  <2>2. QED
    BY <1>1, <2>1, StartElectionType DEF Start, TypeOK
<1>2. ASSUME NEW i \in Server, HbTimeout(i) PROVE TypeOK'
  <2>1. sid[i] \in Sid /\ WithReplies(i) \in Queues
    BY WithRepliesType DEF TypeOK
  <2>2. QED
    BY <1>2, <2>1, StartElectionType, FetchHbsType DEF HbTimeout, TypeOK
<1>3. ASSUME NEW i \in Server, HbRearm(i) PROVE TypeOK'
  BY <1>3, WithRepliesType, FetchHbsType DEF HbRearm, Post, TypeOK
<1>4. ASSUME NEW i \in Server, HbFollow(i) PROVE TypeOK'
  <2>1. PICK new_sid \in LeaderSids(i, N) :
           /\ sid' = [sid EXCEPT ![i] = new_sid]
           /\ IF new_sid.term # sid[i].term
              THEN ServerToFollower(i, new_sid, WithReplies(i))
              ELSE /\ Post(i, WithReplies(i))
                   /\ UNCHANGED <<hb_event, to_adjust, log_access>>
    BY <1>4 DEF HbFollow
  <2>2. new_sid \in Sid /\ WithReplies(i) \in Queues
    BY ReceivedType, WithRepliesType
  <2>3. /\ to_adjust' \in [Server -> BOOLEAN]
        /\ log_access' \in [Server -> SUBSET Server]
        /\ hb_event' \in [Server -> {"receive", "send"}]
        /\ posted' \in [Server -> [Server -> Seq(Write)]]
    <3>1. CASE new_sid.term # sid[i].term
      BY <2>1, <2>2, <3>1, ServerToFollowerType
    <3>2. CASE new_sid.term = sid[i].term
      BY <2>1, <2>2, <3>2 DEF Post, TypeOK
    <3>3. QED
      BY <3>1, <3>2
  <2>4. QED
    BY <1>4, <2>1, <2>2, <2>3, FetchHbsType DEF HbFollow, TypeOK
<1>5. ASSUME NEW i \in Server, AdjustTimeout(i) PROVE TypeOK'
  BY <1>5, SidTypes DEF AdjustTimeout, TypeOK
<1>6. ASSUME NEW i \in Server, HbSend(i) PROVE TypeOK'
  <2>1. Then(posted[i], HbTo(i, Others(i))) \in Queues
    BY QueueTypes
  <2>2. QED
    BY <1>6, <2>1, SidTypes DEF HbSend, Post, TypeOK, timerVars
<1>7. ASSUME NEW i \in Server, HbSendOutranked(i) PROVE TypeOK'
  <2>1. sid[i] \in Sid /\ posted[i] \in Queues
    BY DEF TypeOK
  <2>2. hb' \in [Server -> [Server -> Sid]]
    BY <1>7, SidTypes DEF HbSendOutranked, TypeOK
  <2>3. QED
    BY <1>7, <2>1, <2>2, ServerToFollowerType DEF HbSendOutranked, TypeOK
<1>8. ASSUME NEW i \in Server, AdoptSupported(i) PROVE TypeOK'
  <2>1. KnownLeaderHb(i) \in Sid
    BY SidTypes DEF KnownLeaderHb, TypeOK
  <2>2. QED
    BY <1>8, <2>1 DEF AdoptSupported, TypeOK, ctrlVars, timerVars
<1>9. ASSUME NEW i \in Server, DropRequests(i) PROVE TypeOK'
  BY <1>9, SidTypes DEF DropRequests, ClearRequests, TypeOK, timerVars
<1>10. ASSUME NEW i \in Server, RaiseTerm(i) PROVE TypeOK'
  <2>1. PICK b \in Server :
           sid' = [sid EXCEPT ![i] = MkSid(vote_req[i][b].sid.term, sid[i].L, i)]
    BY <1>10 DEF RaiseTerm, RaisedSid, BetterSid, Others
  <2>2. vote_req[i][b].sid.term \in Nat /\ sid[i].L \in {0, 1}
    <3>1. vote_req[i][b] \in Request /\ sid[i] \in Sid
      BY DEF TypeOK
    <3>2. vote_req[i][b].sid \in Sid
      BY <3>1 DEF Request
    <3>3. QED
      BY <3>1, <3>2 DEF Sid
  <2>3. MkSid(vote_req[i][b].sid.term, sid[i].L, i) \in Sid
    BY <2>2, SidTypes
  <2>4. QED
    BY <1>10, <2>1, <2>3, SidTypes DEF RaiseTerm, ClearRequests, TypeOK, timerVars
<1>11. ASSUME NEW i \in Server, Vote(i) PROVE TypeOK'
  <2>1. PICK c \in Server :
           LET new_sid == vote_req[i][c].sid IN
           /\ sid' = [sid EXCEPT ![i] = new_sid]
           /\ prv_data' = [j \in Server |-> IF j \in up
                                            THEN [prv_data[j] EXCEPT ![i] = new_sid]
                                            ELSE prv_data[j]]
           /\ log_access' = [log_access EXCEPT ![i] = RestoredAccess(i, new_sid)]
           /\ Post(i, Then(posted[i], AckTo(i, new_sid)))
    BY <1>11 DEF Vote, BetterLog, BetterSid, Others
  <2>2. vote_req[i][c].sid \in Sid
    BY DEF TypeOK, Request
  <2>3. RestoredAccess(i, vote_req[i][c].sid) \in SUBSET Server
    BY DEF RestoredAccess, Others
  <2>4. Then(posted[i], AckTo(i, vote_req[i][c].sid)) \in Queues
    BY <2>2, QueueTypes
  <2>5. QED
    BY <1>11, <2>1, <2>2, <2>3, <2>4, SidTypes DEF Vote, Post, ClearRequests, TypeOK
<1>12. ASSUME NEW i \in Server, BecomeLeader(i) PROVE TypeOK'
  <2>1. SetL(sid[i]) \in Sid /\ sid[i].term \in Nat
    BY ZenonT(30), SidTypes DEF TypeOK, Sid
  <2>2. QED
    BY <1>12, <2>1 DEF BecomeLeader, Others, TypeOK, ctrlVars
<1>13. ASSUME NEW i \in Server, AppendEntry(i) PROVE TypeOK'
  <2>1. sid[i].term \in Nat
    BY DEF TypeOK, Sid
  <2>2. QED
    BY <1>13, <2>1 DEF AppendEntry, TypeOK, ctrlVars, timerVars
<1>14. ASSUME NEW i \in Server, Crash(i) PROVE TypeOK'
  BY <1>14 DEF Crash, TypeOK, ctrlVars, timerVars
<1>15. ASSUME NEW i \in Server, NEW j \in Server, Land(i, j) PROVE TypeOK'
  <2>1. Head(posted[i][j]) \in Write /\ Tail(posted[i][j]) \in Seq(Write)
    BY <1>15 DEF Land, TypeOK
  <2>2. Head(posted[i][j]).req \in Request /\ Head(posted[i][j]).req.sid \in Sid
    BY <2>1 DEF Write, Request
  <2>3. QED
    BY <1>15, <2>1, <2>2 DEF Land, TypeOK, timerVars
<1>16. ASSUME NEW i \in Server, NEW j \in Server, AckFails(i, j) PROVE TypeOK'
  <2>1. sid[i] \in Sid /\ [posted[i] EXCEPT ![j] = Tail(@)] \in Queues
    BY <1>16 DEF AckFails, TypeOK
  <2>2. QED
    BY <1>16, <2>1, StartElectionType DEF AckFails, TypeOK
<1>17. ASSUME NEW i \in Server, NEW f \in Server, WriteRemoteLog(i, f) PROVE TypeOK'
  <2>1. ASSUME NEW n \in 0 .. Len(log[i]) PROVE SubSeq(log[i], 1, n) \in Seq(Nat)
    BY DEF TypeOK
  <2>2. QED
    BY ZenonT(30), <1>17, <2>1 DEF WriteRemoteLog, TypeOK, ctrlVars, timerVars
<1>18. CASE UNCHANGED vars
  BY <1>18 DEF vars, ctrlVars, timerVars, TypeOK
<1>19. QED
  BY <1>1, <1>2, <1>3, <1>4, <1>5, <1>6, <1>7, <1>8, <1>9, <1>10, <1>11, <1>12,
     <1>13, <1>14, <1>15, <1>16, <1>17, <1>18 DEF Next

\* init_server_data sets typed values.
LEMMA TypeInit == Init => TypeOK
  BY SidTypes DEF Init, TypeOK

\* Every run keeps every variable in its type: no handler builds a SID, a
\* request or a queue the memory of the servers could not hold.
THEOREM TypeCorrect == Spec => []TypeOK
<1>1. Init => TypeOK
  BY TypeInit
<1>2. TypeOK /\ [Next]_vars => TypeOK'
  BY TypeStep
<1>3. QED
  BY <1>1, <1>2, PTL DEF Spec

-----------------------------------------------------------------------------
(***************************************************************************)
(* The writes in a server's queues.                                        *)
(***************************************************************************)
WritesOf(queue) == UNION {Range(queue[j]) : j \in Server}

\* The elements of a concatenation, a tail and a head.
LEMMA RangeFacts ==
  /\ \A q, r \in Seq(Write) : Range(q \o r) \subseteq Range(q) \cup Range(r)
  /\ \A q \in Seq(Write) : q # <<>> => Range(Tail(q)) \subseteq Range(q) /\ Head(q) \in Range(q)
  /\ \A w \in Write : Range(<<w>>) \subseteq {w}
  /\ Range(<<>>) = {}
<1>1. ASSUME NEW q \in Seq(Write), NEW r \in Seq(Write), NEW w \in Range(q \o r)
      PROVE  w \in Range(q) \cup Range(r)
  <2>1. PICK n \in 1 .. Len(q) + Len(r) : w = (q \o r)[n]
    BY <1>1 DEF Range
  <2>2. CASE n <= Len(q)
    BY <2>1, <2>2 DEF Range
  <2>3. CASE n > Len(q)
    <3>1. n - Len(q) \in 1 .. Len(r) /\ w = r[n - Len(q)]
      BY <2>1, <2>3
    <3>2. QED
      BY <3>1 DEF Range
  <2>4. QED
    BY <2>1, <2>2, <2>3
<1>2. ASSUME NEW q \in Seq(Write), q # <<>>
      PROVE  Range(Tail(q)) \subseteq Range(q) /\ Head(q) \in Range(q)
  <2>1. ASSUME NEW w \in Range(Tail(q)) PROVE w \in Range(q)
    <3>1. PICK n \in 1 .. Len(q) - 1 : w = Tail(q)[n]
      BY <1>2, <2>1 DEF Range
    <3>2. n + 1 \in 1 .. Len(q) /\ w = q[n + 1]
      BY <1>2, <3>1
    <3>3. QED
      BY <3>2 DEF Range
  <2>2. 1 \in DOMAIN q /\ Head(q) = q[1]
    BY <1>2
  <2>3. QED
    BY <2>1, <2>2 DEF Range
<1>3. ASSUME NEW w \in Write PROVE Range(<<w>>) \subseteq {w}
  BY DEF Range
<1>4. Range(<<>>) = {}
  BY DEF Range
<1>5. QED
  BY <1>1, <1>2, <1>3, <1>4

\* What each of the shared parts adds to a queue.
LEMMA QueueWrites ==
  ASSUME TypeOK, NEW i \in Server
  PROVE  /\ WritesOf(posted[i]) = Outgoing(i)
         /\ \A q, out \in Queues : WritesOf(Then(q, out)) \subseteq WritesOf(q) \cup WritesOf(out)
         /\ \A S : WritesOf(HbTo(i, S)) \subseteq {HbWrite(sid[i])}
         /\ \A s \in Sid : WritesOf(RequestsOf(i, s)) \subseteq {ReqWrite(RequestOf(s, log[i]))}
         /\ \A s \in Sid : WritesOf(AckTo(i, s)) \subseteq {AckWrite}
<1>1. WritesOf(posted[i]) = Outgoing(i)
  BY DEF WritesOf, Outgoing
<1>2. ASSUME NEW q \in Queues, NEW out \in Queues
      PROVE  WritesOf(Then(q, out)) \subseteq WritesOf(q) \cup WritesOf(out)
  <2>1. ASSUME NEW j \in Server
        PROVE  Range(Then(q, out)[j]) \subseteq Range(q[j]) \cup Range(out[j])
    <3>1. q[j] \in Seq(Write) /\ out[j] \in Seq(Write) /\ Then(q, out)[j] = q[j] \o out[j]
      BY DEF Queues, Then
    <3>2. QED
      BY <3>1, RangeFacts
  <2>2. QED
    BY <2>1 DEF WritesOf
<1>3. ASSUME NEW S PROVE WritesOf(HbTo(i, S)) \subseteq {HbWrite(sid[i])}
  <2>1. HbWrite(sid[i]) \in Write
    BY WriteTypes DEF TypeOK
  <2>2. QED
    BY <2>1, RangeFacts DEF WritesOf, HbTo
<1>4. ASSUME NEW s \in Sid
      PROVE  WritesOf(RequestsOf(i, s)) \subseteq {ReqWrite(RequestOf(s, log[i]))}
  <2>1. ReqWrite(RequestOf(s, log[i])) \in Write
    BY RequestType, WriteTypes DEF TypeOK
  <2>2. QED
    BY <2>1, RangeFacts DEF WritesOf, RequestsOf
<1>5. ASSUME NEW s \in Sid PROVE WritesOf(AckTo(i, s)) \subseteq {AckWrite}
  BY WriteTypes, RangeFacts DEF WritesOf, AckTo
<1>6. QED
  BY <1>1, <1>2, <1>3, <1>4, <1>5

\* Posting changes the queues of the poster only.
LEMMA Posting ==
  ASSUME TypeOK, NEW i \in Server, NEW queue \in Queues,
         posted' = [posted EXCEPT ![i] = queue]
  PROVE  /\ Outgoing(i)' = WritesOf(queue)
         /\ \A a \in Server \ {i} : Outgoing(a)' = Outgoing(a)
  BY DEF Outgoing, WritesOf, TypeOK

-----------------------------------------------------------------------------
(***************************************************************************)
(* How SIDs flow.  A step may change the SID of a server in three ways and *)
(* copies SIDs between memories and queues; it invents none elsewhere.     *)
(***************************************************************************)
\* Unchanged, an own candidacy in a later term, an election won, or a SID
\* found in the memory of the server.
Move(p) ==
    \/ sid'[p] = sid[p]
    \/ sid'[p].idx = p /\ sid'[p].L = 0 /\ sid'[p].term > sid[p].term
    \/ sid'[p] = SetL(sid[p]) /\ sid[p].idx = p
    \/ /\ sid'[p] \in Kept /\ SidLeq(sid[p], sid'[p])
       /\ sid'[p].L = 1 \/ sid'[p].term > sid[p].term

\* A write posted by a: an ack, an HB or a request.
Postable(a, w) ==
    \/ w = AckWrite
    \/ w = HbWrite(sid[a])
    \/ w.slot = "vote_req" /\ w.req.sid = sid'[a] /\ sid'[a].L = 0

SidFlow == \A p \in Server : Move(p)

PostedFlow ==
    \A a \in Server : \A w \in Outgoing(a)' : w \in Outgoing(a) \/ Postable(a, w)

HbFlow ==
    \A a, b \in Server :
        \/ hb'[a][b] \in {hb[a][b], ZeroSid}
        \/ \E w \in Outgoing(b) : w.slot = "hb" /\ hb'[a][b] = w.req.sid

RequestFlow ==
    \A a, b \in Server :
        \/ vote_req'[a][b] \in {vote_req[a][b], NoRequest}
        \/ \E w \in Outgoing(b) : w.slot = "vote_req" /\ vote_req'[a][b] = w.req

LatestFlow ==
    \A a \in Server :
        \/ latest_hb_received'[a] \in {latest_hb_received[a], ZeroSid}
        \/ \E b \in Server : latest_hb_received'[a] = hb[a][b]

VoteFlow ==
    \A a, b \in Server :
        \/ prv_data'[b][a] = prv_data[b][a]
        \/ prv_data'[b][a] = sid'[a] /\ sid'[a].term > sid[a].term

AccessFlow ==
    \A f \in Server :
        \/ sid'[f] = sid[f] /\ log_access'[f] = log_access[f]
        \/ sid'[f].L = 1
        \/ /\ log_access'[f] \subseteq {sid'[f].idx} \ {f}
           /\ sid'[f].term = 0 => log_access'[f] = {}

Flow ==
    /\ SidFlow /\ PostedFlow /\ HbFlow /\ RequestFlow
    /\ LatestFlow /\ VoteFlow /\ AccessFlow

\* What is in Shown and Kept.
LEMMA ShownIff ==
  ASSUME NEW p \in Server, NEW w
  PROVE  w \in Shown(p) <=>
            \/ w = sid[p]
            \/ \E i \in Server : w = hb[i][p]
            \/ \E v \in Outgoing(p) : v.slot = "hb" /\ w = v.req.sid
  BY DEF Shown

\* The places where a SID may be kept.
LEMMA KeptIff ==
  ASSUME NEW s
  PROVE  s \in Kept <=>
            \E i \in Server :
                \/ s = sid[i] \/ s = latest_hb_received[i]
                \/ \E j \in Server : s = hb[i][j] \/ s = vote_req[i][j].sid
                \/ \E v \in Outgoing(i) : s = v.req.sid
  BY DEF Kept

\* The fields of the writes and of the empty slots.
LEMMA WriteFields ==
  /\ AckWrite.slot = "vote_ack" /\ AckWrite.req.sid = ZeroSid
  /\ NoRequest.sid = ZeroSid /\ ZeroSid.term = 0 /\ ZeroSid.L = 0
  /\ \A s : HbWrite(s).slot = "hb" /\ HbWrite(s).req.sid = s
  /\ \A r : ReqWrite(r).slot = "vote_req" /\ ReqWrite(r).req = r
  /\ \A s, l : RequestOf(s, l).sid = s
  BY DEF AckWrite, NoRequest, ZeroSid, MkSid, HbWrite, ReqWrite, RequestOf

\* A step shows no SID but the old and the new one of the server.
LEMMA ShownStep ==
  ASSUME TypeOK, Flow, NEW p \in Server, NEW w \in Shown(p)'
  PROVE  w \in Shown(p) \cup {sid'[p], ZeroSid}
<1>1. \/ w = sid'[p]
      \/ \E i \in Server : w = hb'[i][p]
      \/ \E v \in Outgoing(p)' : v.slot = "hb" /\ w = v.req.sid
  BY DEF Shown
<1>2. CASE \E i \in Server : w = hb'[i][p]
  BY <1>2, ShownIff DEF Flow, HbFlow
<1>3. CASE \E v \in Outgoing(p)' : v.slot = "hb" /\ w = v.req.sid
  <2>1. PICK v \in Outgoing(p)' : v.slot = "hb" /\ w = v.req.sid
    BY <1>3
  <2>2. v \in Outgoing(p) \/ Postable(p, v)
    BY DEF Flow, PostedFlow
  <2>3. QED
    BY <2>1, <2>2, ShownIff, WriteFields DEF Postable
<1>4. QED
  BY <1>1, <1>2, <1>3

\* A step keeps no SID that was not kept or has not become a server's own.
LEMMA KeptStep ==
  ASSUME TypeOK, Flow, NEW s \in Kept'
  PROVE  s \in Kept \/ s = ZeroSid \/ \E p \in Server : s = sid'[p]
<1>1. PICK i \in Server :
         \/ s = sid'[i] \/ s = latest_hb_received'[i]
         \/ \E j \in Server : s = hb'[i][j] \/ s = vote_req'[i][j].sid
         \/ \E v \in Outgoing(i)' : s = v.req.sid
  BY DEF Kept
<1>2. CASE s = latest_hb_received'[i]
  BY <1>2, KeptIff DEF Flow, LatestFlow
<1>3. CASE \E j \in Server : s = hb'[i][j]
  BY <1>3, KeptIff DEF Flow, HbFlow
<1>4. CASE \E j \in Server : s = vote_req'[i][j].sid
  BY <1>4, KeptIff, WriteFields DEF Flow, RequestFlow
<1>5. CASE \E v \in Outgoing(i)' : s = v.req.sid
  <2>1. PICK v \in Outgoing(i)' : s = v.req.sid
    BY <1>5
  <2>2. v \in Outgoing(i) \/ Postable(i, v)
    BY DEF Flow, PostedFlow
  <2>3. QED
    BY <2>1, <2>2, KeptIff, WriteFields DEF Postable
<1>6. QED
  BY <1>1, <1>2, <1>3, <1>4, <1>5

\* The fields of a SID.
LEMMA SidParts ==
  ASSUME NEW s \in Sid
  PROVE  s.term \in Nat /\ s.L \in {0, 1} /\ s.idx \in 0 .. 255
  BY DEF Sid

\* SID_SET_L changes the flag alone, upwards.
LEMMA SetLFields ==
  ASSUME NEW s \in Sid
  PROVE  /\ SetL(s).term = s.term /\ SetL(s).L = 1 /\ SetL(s).idx = s.idx
         /\ SidLeq(s, SetL(s))
  BY DEF SetL, Sid, SidLeq, SidLess

\* A SID of a later term is larger.
LEMMA LaterTerm ==
  ASSUME NEW s \in Sid, NEW t \in Sid, t.term > s.term
  PROVE  SidLeq(s, t)
  BY SidParts DEF SidLeq, SidLess

\* No move lowers a SID.
LEMMA MoveUp ==
  ASSUME TypeOK, TypeOK', NEW p \in Server, Move(p)
  PROVE  SidLeq(sid[p], sid'[p]) /\ sid[p].term <= sid'[p].term
<1>1. sid[p] \in Sid /\ sid'[p] \in Sid
  BY DEF TypeOK
<1>2. SidLeq(sid[p], sid'[p])
  BY <1>1, SidOrder, LaterTerm, SetLFields DEF Move
<1>3. QED
  BY <1>1, <1>2, SidOrder

\* Only an own candidacy or a vote in a later term gives a SID without L flag.
LEMMA UnledMove ==
  ASSUME TypeOK, TypeOK', NEW p \in Server, Move(p), sid'[p].L = 0
  PROVE  sid'[p] = sid[p] \/ sid'[p].term > sid[p].term
  BY SetLFields DEF Move, TypeOK

\* All kept SIDs are SIDs.
LEMMA KeptType ==
  ASSUME TypeOK
  PROVE  Kept \subseteq Sid
<1>1. ASSUME NEW i \in Server, NEW w \in Outgoing(i) PROVE w.req.sid \in Sid
  <2>1. w \in Write
    BY DEF Outgoing, Range, TypeOK
  <2>2. QED
    BY <2>1 DEF Write, Request
<1>2. ASSUME NEW i \in Server, NEW j \in Server PROVE vote_req[i][j].sid \in Sid
  <2>1. vote_req[i][j] \in Request
    BY DEF TypeOK
  <2>2. QED
    BY <2>1 DEF Request
<1>3. ASSUME NEW i \in Server
      PROVE  /\ sid[i] \in Sid /\ latest_hb_received[i] \in Sid
             /\ \A j \in Server : hb[i][j] \in Sid
  BY DEF TypeOK
<1>4. QED
  BY <1>1, <1>2, <1>3, KeptIff

\* What a server has shown is kept somewhere.
LEMMA ShownKept ==
  ASSUME TypeOK, NEW p \in Server
  PROVE  Shown(p) \subseteq Kept
  BY ShownIff, KeptIff

\* A claim is never withdrawn.
LEMMA ClaimStays ==
  ASSUME TypeOK, TypeOK', Flow, NEW s \in Sid, Claimed(s)
  PROVE  Claimed(s)'
<1>1. SUFFICES ASSUME s.term > 0
               PROVE  /\ s.idx \in Server
                      /\ SidLeq(s, sid'[s.idx])
                      /\ \A w \in Shown(s.idx)' :
                            w.term = s.term /\ w.L = 0 => w.idx = s.idx
  BY DEF Claimed
<1> DEFINE p == s.idx
<1>2. /\ p \in Server /\ SidLeq(s, sid[p])
      /\ \A w \in Shown(p) : w.term = s.term /\ w.L = 0 => w.idx = p
  BY <1>1 DEF Claimed
<1>3. sid[p] \in Sid /\ sid'[p] \in Sid
  BY <1>2 DEF TypeOK
<1>4. Move(p)
  BY <1>2 DEF Flow, SidFlow
<1>5. SidLeq(s, sid'[p])
  BY <1>2, <1>3, <1>4, MoveUp, SidLeqTrans
<1>6. ASSUME NEW w \in Shown(p)', w.term = s.term, w.L = 0
      PROVE  w.idx = p
  <2>1. w \in Shown(p) \/ w = sid'[p] \/ w = ZeroSid
    BY <1>2, ShownStep
  <2>2. CASE w \in Shown(p)
    BY <1>2, <1>6, <2>2
  <2>3. CASE w = ZeroSid
    BY <1>1, <1>6, <2>3, WriteFields
  <2>4. CASE w = sid'[p]
    <3>1. s.term <= sid[p].term
      BY <1>2, <1>3, SidOrder
    <3>2. sid'[p] = sid[p] \/ sid'[p].term > sid[p].term
      BY <1>2, <1>4, <1>6, <2>4, UnledMove
    <3>3. sid'[p] = sid[p]
      BY <1>3, <1>6, <2>4, <3>1, <3>2, SidParts
    <3>4. QED
      BY <1>2, <1>6, <2>4, <3>3, ShownIff
  <2>5. QED
    BY <2>1, <2>2, <2>3, <2>4
<1>7. QED
  BY <1>2, <1>5, <1>6

\* A new SID of a server is claimed.
LEMMA NewSidClaimed ==
  ASSUME TypeOK, TypeOK', ElectionInv, Flow, NEW q \in Server,
         NEW s, s = sid'[q]
  PROVE  Claimed(s)'
<1>1. sid[q] \in Sid /\ s \in Sid
  BY DEF TypeOK
<1>2. sid[q] \in Kept
  BY KeptIff
<1>3. Move(q)
  BY DEF Flow, SidFlow
<1>4. CASE s \in Kept
  <2>1. Claimed(s)
    BY <1>4 DEF ElectionInv
  <2>2. QED
    BY <1>1, <2>1, ClaimStays
<1>5. CASE s.idx = q /\ s.L = 0 /\ s.term > sid[q].term
  <2>1. ASSUME NEW w \in Shown(q)', w.term = s.term PROVE w.idx = q
    <3>1. w \in Shown(q) \/ w = s \/ w = ZeroSid
      BY ShownStep
    <3>2. w \in Shown(q) => w.term <= sid[q].term /\ w \in Sid
      BY ShownKept, KeptType DEF ElectionInv
    <3>3. ~(w \in Shown(q))
      BY <1>1, <1>5, <2>1, <3>2, SidParts
    <3>4. w # ZeroSid
      BY <1>1, <1>5, <2>1, WriteFields, SidParts
    <3>5. QED
      BY <1>5, <3>1, <3>3, <3>4
  <2>2. SidLeq(s, s)
    BY <1>1, SidOrder
  <2>3. QED
    BY <1>5, <2>1, <2>2 DEF Claimed
<1>6. CASE s = SetL(sid[q]) /\ sid[q].idx = q
  <2>1. s.term = sid[q].term /\ s.idx = q
    BY <1>1, <1>6, SetLFields
  <2>2. PICK t \in Sid : t = sid[q]
    BY <1>1
  <2>3. Claimed(t)
    BY <1>2, <2>2 DEF ElectionInv
  <2>4. Claimed(t)'
    BY <2>3, ClaimStays
  <2>5. SidLeq(s, s)
    BY <1>1, SidOrder
  <2>6. QED
    BY <1>6, <2>1, <2>2, <2>4, <2>5 DEF Claimed
<1>7. QED
  BY <1>2, <1>3, <1>4, <1>5, <1>6 DEF Move

\* A step that moves SIDs as Flow says keeps the invariant.
LEMMA FlowStep ==
  ASSUME TypeOK, TypeOK', ElectionInv, Flow
  PROVE  ElectionInv'
<1>1. ASSUME NEW s \in Kept' PROVE Claimed(s)'
  <2>1. s \in Kept \/ s = ZeroSid \/ \E p \in Server : s = sid'[p]
    BY KeptStep
  <2>2. CASE s \in Kept
    BY <2>2, KeptType, ClaimStays DEF ElectionInv
  <2>3. CASE s = ZeroSid
    BY <2>3, WriteFields DEF Claimed
  <2>4. CASE \E p \in Server : s = sid'[p]
    BY <2>4, NewSidClaimed
  <2>5. QED
    BY <2>1, <2>2, <2>3, <2>4
<1>2. ASSUME NEW p \in Server, NEW w \in Shown(p)' PROVE w.term <= sid'[p].term
  <2>1. w \in Shown(p) \/ w = sid'[p] \/ w = ZeroSid
    BY ShownStep
  <2>2. sid[p] \in Sid /\ sid'[p] \in Sid
    BY DEF TypeOK
  <2>3. sid[p].term <= sid'[p].term
    BY MoveUp DEF Flow, SidFlow
  <2>4. CASE w \in Shown(p)
    <3>1. w \in Sid /\ w.term <= sid[p].term
      BY <2>4, ShownKept, KeptType DEF ElectionInv
    <3>2. QED
      BY <2>2, <2>3, <3>1, SidParts
  <2>5. CASE w = sid'[p] \/ w = ZeroSid
    BY <2>2, <2>5, SidParts, WriteFields
  <2>6. QED
    BY <2>1, <2>4, <2>5
<1>3. ASSUME NEW i \in Server, NEW j \in Server
      PROVE  prv_data'[j][i].term <= sid'[i].term
  <2>1. sid[i] \in Sid /\ sid'[i] \in Sid /\ prv_data[j][i] \in Sid
    BY DEF TypeOK
  <2>2. sid[i].term <= sid'[i].term
    BY MoveUp DEF Flow, SidFlow
  <2>3. prv_data[j][i].term <= sid[i].term
    BY DEF ElectionInv
  <2>4. prv_data'[j][i] = prv_data[j][i] \/ prv_data'[j][i] = sid'[i]
    BY DEF Flow, VoteFlow
  <2>5. QED
    BY <2>1, <2>2, <2>3, <2>4, SidParts
<1>4. ASSUME NEW i \in Server, NEW j \in Server PROVE vote_req'[i][j].sid.L = 0
  <2>1. \/ vote_req'[i][j] \in {vote_req[i][j], NoRequest}
        \/ \E w \in Outgoing(j) : w.slot = "vote_req" /\ vote_req'[i][j] = w.req
    BY DEF Flow, RequestFlow
  <2>2. QED
    BY <2>1, WriteFields DEF ElectionInv
<1>5. ASSUME NEW i \in Server, NEW w \in Outgoing(i)', w.slot = "vote_req"
      PROVE  w.req.sid.L = 0
  <2>1. w \in Outgoing(i) \/ Postable(i, w)
    BY DEF Flow, PostedFlow
  <2>2. QED
    BY <1>5, <2>1, WriteFields DEF ElectionInv, Postable
<1>6. ASSUME NEW f \in Server, sid'[f].L = 0
      PROVE  /\ log_access'[f] \subseteq {sid'[f].idx} \ {f}
             /\ sid'[f].term = 0 => log_access'[f] = {}
  BY <1>6 DEF Flow, AccessFlow, ElectionInv
<1>7. QED
  BY <1>1, <1>2, <1>3, <1>4, <1>5, <1>6 DEF ElectionInv

-----------------------------------------------------------------------------
(***************************************************************************)
(* Every step moves SIDs as Flow says.  First the shared parts.            *)
(***************************************************************************)
\* What a handler of i may have put in its queues before it changes its SID.
Replies(i, queue) ==
    \A w \in WritesOf(queue) : w \in Outgoing(i) \/ w = HbWrite(sid[i])

\* The replies of hb_receive_cb carry the SID before the step.
LEMMA WithRepliesWrites ==
  ASSUME TypeOK, NEW i \in Server
  PROVE  Replies(i, WithReplies(i)) /\ Replies(i, posted[i])
  BY QueueTypes, QueueWrites DEF Replies, WithReplies

\* A handler moves the SID of its own server only.
LEMMA OwnMove ==
  ASSUME TypeOK, NEW i \in Server, NEW n, sid' = [sid EXCEPT ![i] = n], Move(i)
  PROVE  SidFlow
  BY DEF SidFlow, Move, TypeOK

\* A handler posts from its own server only.
LEMMA PostFlow ==
  ASSUME TypeOK, NEW i \in Server, NEW queue \in Queues,
         posted' = [posted EXCEPT ![i] = queue],
         \A w \in WritesOf(queue) : w \in Outgoing(i) \/ Postable(i, w)
  PROVE  PostedFlow
  BY Posting DEF PostedFlow

\* start_election: an own candidacy, its requests, a closed log.
LEMMA StartElectionFlow ==
  ASSUME TypeOK, NEW i \in Server, NEW queue \in Queues, Replies(i, queue),
         StartElection(i, sid[i], queue)
  PROVE  SidFlow /\ PostedFlow /\ AccessFlow
<1> DEFINE n == MkSid(sid[i].term + 1, 0, i)
           all == Then(queue, RequestsOf(i, n))
<1>1. sid[i] \in Sid /\ sid[i].term \in Nat
  BY SidParts DEF TypeOK
<1>2. n \in Sid /\ n.term = sid[i].term + 1 /\ n.L = 0 /\ n.idx = i
  <2>1. sid[i].term + 1 \in Nat
    BY <1>1
  <2>2. n \in Sid
    BY <2>1, SidTypes
  <2>3. QED
    BY <2>2 DEF MkSid
<1>3. sid' = [sid EXCEPT ![i] = n] /\ sid'[i] = n
  BY DEF StartElection, TypeOK
<1> HIDE DEF n
<1>4. Move(i)
  BY <1>1, <1>2, <1>3 DEF Move
<1>5. SidFlow
  BY <1>3, <1>4, OwnMove
<1>6. all \in Queues
  BY <1>2, QueueTypes
<1>7. ASSUME NEW w \in WritesOf(all) PROVE w \in Outgoing(i) \/ Postable(i, w)
  <2>1. RequestsOf(i, n) \in Queues
    BY <1>2, QueueTypes
  <2>2. w \in WritesOf(queue) \/ w = ReqWrite(RequestOf(n, log[i]))
    BY <1>2, <1>7, <2>1, QueueWrites
  <2>3. QED
    BY <1>2, <1>3, <2>2, WriteFields DEF Replies, Postable
<1>8. posted' = [posted EXCEPT ![i] = all]
  BY DEF StartElection, Post, n
<1>9. PostedFlow
  BY <1>6, <1>7, <1>8, PostFlow
<1>10. AccessFlow
  BY <1>3 DEF StartElection, AccessFlow, TypeOK
<1>11. QED
  BY <1>5, <1>9, <1>10

\* server_to_follower: an ack, and access for the server followed.
LEMMA FollowerFlow ==
  ASSUME TypeOK, NEW i \in Server, NEW s \in Sid, NEW queue \in Queues,
         Replies(i, queue), sid' = [sid EXCEPT ![i] = s], s.term > 0,
         ServerToFollower(i, s, queue)
  PROVE  PostedFlow /\ AccessFlow
<1>1. AckTo(i, s) \in Queues /\ Then(queue, AckTo(i, s)) \in Queues
  BY QueueTypes
<1>2. WritesOf(Then(queue, AckTo(i, s))) \subseteq WritesOf(queue) \cup {AckWrite}
  BY <1>1, QueueWrites
<1>3. PICK q \in Queues : /\ posted' = [posted EXCEPT ![i] = q]
                          /\ WritesOf(q) \subseteq WritesOf(queue) \cup {AckWrite}
  BY <1>1, <1>2 DEF ServerToFollower, Post
<1>4. PostedFlow
  BY <1>3, PostFlow DEF Replies, Postable
<1>5. log_access' = [log_access EXCEPT ![i] = RestoredAccess(i, s)] /\ sid'[i] = s
  BY DEF ServerToFollower, TypeOK
<1>6. s.L = 1 \/ RestoredAccess(i, s) \subseteq {s.idx} \ {i}
  BY SidParts DEF RestoredAccess
<1>7. AccessFlow
  BY <1>5, <1>6 DEF AccessFlow, TypeOK
<1>8. QED
  BY <1>4, <1>7

\* The HB loop clears slots and moves no SID into them.
LEMMA FetchFlow ==
  ASSUME TypeOK, NEW i \in Server, FetchHbs(i)
  PROVE  HbFlow /\ LatestFlow
  BY DEF TypeOK, FetchHbs, HbFlow, LatestFlow

\* A request that beats the own SID with its L flag set is of a later term.
LEMMA BetterTerm ==
  ASSUME TypeOK, ElectionInv, NEW i \in Server, NEW c \in BetterSid(i)
  PROVE  /\ c \in Server /\ vote_req[i][c].sid \in Sid /\ vote_req[i][c].sid \in Kept
         /\ vote_req[i][c].sid.L = 0
         /\ vote_req[i][c].sid.term > sid[i].term
<1>1. c \in Server /\ SidLess(SetL(sid[i]), vote_req[i][c].sid)
  BY DEF BetterSid, Others
<1>2. vote_req[i][c].sid \in Kept /\ sid[i] \in Sid
  BY <1>1, KeptIff DEF TypeOK
<1>3. vote_req[i][c].sid \in Sid /\ vote_req[i][c].sid.L = 0
  BY <1>1, <1>2, KeptType DEF ElectionInv
<1>4. SetL(sid[i]).term = sid[i].term /\ SetL(sid[i]).L = 1
  BY <1>2, SetLFields
<1>5. vote_req[i][c].sid.term > sid[i].term
  BY <1>1, <1>2, <1>3, <1>4, SidParts DEF SidLess
<1>6. QED
  BY <1>1, <1>2, <1>3, <1>5

\* The slots that are left alone.
LEMMA Frames ==
  /\ UNCHANGED sid => SidFlow
  /\ UNCHANGED posted => PostedFlow
  /\ UNCHANGED hb => HbFlow
  /\ UNCHANGED vote_req => RequestFlow
  /\ UNCHANGED latest_hb_received => LatestFlow
  /\ UNCHANGED prv_data => VoteFlow
  /\ UNCHANGED <<sid, log_access>> => AccessFlow
  BY DEF SidFlow, Move, PostedFlow, Outgoing, HbFlow, RequestFlow, LatestFlow,
         VoteFlow, AccessFlow

\* No handler, landing or failure does anything else with SIDs.
LEMMA NextFlow ==
  ASSUME TypeOK, TypeOK', ElectionInv, [Next]_vars
  PROVE  Flow
<1> USE Frames
<1>1. ASSUME NEW i \in Server, Start(i) PROVE Flow
  <2>1. posted[i] \in Queues /\ Replies(i, posted[i])
    BY QueueTypes, WithRepliesWrites
  <2>2. QED
    BY <1>1, <2>1, StartElectionFlow DEF Start, Flow
<1>2. ASSUME NEW i \in Server, HbTimeout(i) PROVE Flow
  <2>1. WithReplies(i) \in Queues /\ Replies(i, WithReplies(i))
    BY WithRepliesType, WithRepliesWrites
  <2>2. QED
    BY <1>2, <2>1, StartElectionFlow, FetchFlow DEF HbTimeout, Flow
<1>3. ASSUME NEW i \in Server, HbRearm(i) PROVE Flow
  <2>1. WithReplies(i) \in Queues /\ Replies(i, WithReplies(i))
    BY WithRepliesType, WithRepliesWrites
  <2>2. PostedFlow
    BY <1>3, <2>1, PostFlow DEF HbRearm, Post, Replies, Postable
  <2>3. QED
    BY <1>3, <2>2, FetchFlow DEF HbRearm, Flow
<1>4. ASSUME NEW i \in Server, HbFollow(i) PROVE Flow
  <2>1. WithReplies(i) \in Queues /\ Replies(i, WithReplies(i))
    BY WithRepliesType, WithRepliesWrites
  <2>2. PICK new_sid \in LeaderSids(i, N) :
           /\ new_sid # sid[i]
           /\ \A s \in LeaderSids(i, N) : SidLeq(s, new_sid)
           /\ sid' = [sid EXCEPT ![i] = new_sid]
           /\ IF new_sid.term # sid[i].term
              THEN ServerToFollower(i, new_sid, WithReplies(i))
              ELSE /\ Post(i, WithReplies(i))
                   /\ UNCHANGED <<hb_event, to_adjust, log_access>>
    BY <1>4 DEF HbFollow
  <2>3. /\ new_sid \in Kept /\ new_sid \in Sid /\ new_sid.L = 1
        /\ SidLeq(sid[i], new_sid) /\ new_sid.term > 0
    <3>1. PICK k \in Others(i) : new_sid = Received(i, k) /\ Received(i, k).L = 1
      BY <2>2 DEF LeaderSids
    <3>2. new_sid \in Kept
      BY <3>1, KeptIff DEF Received, Others
    <3>3. SidLeq(sid[i], new_sid)
      BY <2>2 DEF LeaderSids
    <3>4. new_sid \in Sid /\ sid[i] \in Sid /\ sid[i].term > 0
      BY <1>4, <3>2, KeptType DEF HbFollow, Running, TypeOK
    <3>5. new_sid.term > 0
      BY <3>3, <3>4, SidOrder, SidParts
    <3>6. QED
      BY <3>1, <3>2, <3>3, <3>4, <3>5
  <2>4. sid'[i] = new_sid
    BY <2>2 DEF TypeOK
  <2>5. SidFlow
    BY <2>2, <2>3, <2>4, OwnMove DEF Move
  <2>6. PostedFlow
    <3>1. CASE new_sid.term # sid[i].term
      BY <2>1, <2>2, <2>3, <3>1, FollowerFlow
    <3>2. CASE new_sid.term = sid[i].term
      BY <2>1, <2>2, <3>2, PostFlow DEF Post, Replies, Postable
    <3>3. QED
      BY <3>1, <3>2
  <2>7. AccessFlow
    <3>1. log_access' = [log_access EXCEPT ![i] = log_access'[i]]
      BY <2>2 DEF ServerToFollower, TypeOK
    <3>2. QED
      BY <2>2, <2>3, <2>4, <3>1 DEF AccessFlow, TypeOK
  <2>8. QED
    BY <1>4, <2>5, <2>6, <2>7, FetchFlow DEF HbFollow, Flow
<1>5. ASSUME NEW i \in Server, AdjustTimeout(i) PROVE Flow
  <2>1. HbFlow /\ LatestFlow
    BY <1>5 DEF AdjustTimeout, HbFlow, LatestFlow, TypeOK
  <2>2. QED
    BY <1>5, <2>1 DEF AdjustTimeout, Flow
<1>6. ASSUME NEW i \in Server, HbSend(i) PROVE Flow
  <2>1. HbTo(i, Others(i)) \in Queues /\ posted[i] \in Queues
    BY QueueTypes
  <2>2. Then(posted[i], HbTo(i, Others(i))) \in Queues
    BY <2>1, QueueTypes
  <2>3. \A w \in WritesOf(Then(posted[i], HbTo(i, Others(i)))) :
           w \in Outgoing(i) \/ Postable(i, w)
    BY <2>1, QueueWrites DEF Postable
  <2>4. PostedFlow
    BY <1>6, <2>2, <2>3, PostFlow DEF HbSend, Post
  <2>5. HbFlow
    BY <1>6 DEF HbSend, HbFlow, TypeOK
  <2>6. QED
    BY <1>6, <2>4, <2>5 DEF HbSend, Flow, timerVars
<1>7. ASSUME NEW i \in Server, HbSendOutranked(i) PROVE Flow
  <2>1. /\ posted[i] \in Queues /\ Replies(i, posted[i])
        /\ sid[i] \in Sid /\ sid' = [sid EXCEPT ![i] = sid[i]] /\ sid[i].term > 0
    BY <1>7, QueueTypes, WithRepliesWrites DEF HbSendOutranked, Running, TypeOK
  <2>2. PostedFlow /\ AccessFlow
    BY <1>7, <2>1, FollowerFlow DEF HbSendOutranked
  <2>3. HbFlow
    BY <1>7 DEF HbSendOutranked, HbFlow, TypeOK
  <2>4. QED
    BY <1>7, <2>2, <2>3 DEF HbSendOutranked, Flow
<1>8. ASSUME NEW i \in Server, AdoptSupported(i) PROVE Flow
  <2> DEFINE p == sid[i].idx
             h == hb[i][p]
  <2>1. /\ p \in Server /\ h.term = sid[i].term /\ h # sid[i]
        /\ sid' = [sid EXCEPT ![i] = h] /\ sid[i].L = 0 /\ sid[i].term > 0
    BY <1>8 DEF AdoptSupported, KnownLeaderHb, CanPollRequests, Running
  <2>2. h \in Kept /\ h \in Shown(p) /\ sid[i] \in Kept
    BY <2>1, KeptIff, ShownIff
  <2>3. h \in Sid /\ sid[i] \in Sid
    BY <2>2, KeptType
  <2>4. h.L = 1
    <3>1. h.L = 0 => h.idx = p
      BY <2>1, <2>2 DEF ElectionInv, Claimed
    <3>2. QED
      BY <2>1, <2>3, <3>1, SidFields, SidParts
  <2>5. SidLeq(sid[i], h)
    BY <2>1, <2>3, <2>4, SidParts DEF SidLeq, SidLess
  <2>6. sid'[i] = h
    BY <2>1 DEF TypeOK
  <2>7. SidFlow
    BY <2>1, <2>2, <2>4, <2>5, <2>6, OwnMove DEF Move
  <2>8. AccessFlow
    BY <1>8, <2>1, <2>4, <2>6 DEF AccessFlow, AdoptSupported, TypeOK
  <2>9. QED
    BY <1>8, <2>7, <2>8 DEF AdoptSupported, Flow, ctrlVars, timerVars
<1>9. ASSUME NEW i \in Server, DropRequests(i) PROVE Flow
  <2>1. RequestFlow
    BY <1>9 DEF DropRequests, ClearRequests, RequestFlow, TypeOK
  <2>2. QED
    BY <1>9, <2>1 DEF DropRequests, Flow, timerVars
<1>10. ASSUME NEW i \in Server, RaiseTerm(i) PROVE Flow
  <2>1. PICK b \in BetterSid(i) :
           sid' = [sid EXCEPT ![i] = MkSid(vote_req[i][b].sid.term, sid[i].L, i)]
    BY <1>10 DEF RaiseTerm, RaisedSid
  <2>2. vote_req[i][b].sid.term > sid[i].term /\ sid[i].L = 0
    BY <1>10, BetterTerm DEF RaiseTerm, CanPollRequests
  <2>3. sid'[i] = MkSid(vote_req[i][b].sid.term, 0, i)
    BY <2>1, <2>2 DEF TypeOK
  <2>4. SidFlow
    <3>1. sid'[i].idx = i /\ sid'[i].L = 0 /\ sid'[i].term > sid[i].term
      BY <2>2, <2>3 DEF MkSid
    <3>2. QED
      BY <2>1, <3>1, OwnMove DEF Move
  <2>5. AccessFlow
    BY SMTT(30), <1>10, <2>1 DEF RaiseTerm, AccessFlow, TypeOK
  <2>6. RequestFlow
    BY <1>10 DEF RaiseTerm, ClearRequests, RequestFlow, TypeOK
  <2>7. QED
    BY <1>10, <2>4, <2>5, <2>6 DEF RaiseTerm, Flow, timerVars
<1>11. ASSUME NEW i \in Server, Vote(i) PROVE Flow
  <2>1. PICK c \in BetterLog(i) :
           LET new_sid == vote_req[i][c].sid IN
           /\ sid' = [sid EXCEPT ![i] = new_sid]
           /\ prv_data' = [j \in Server |-> IF j \in up
                                            THEN [prv_data[j] EXCEPT ![i] = new_sid]
                                            ELSE prv_data[j]]
           /\ log_access' = [log_access EXCEPT ![i] = RestoredAccess(i, new_sid)]
           /\ Post(i, Then(posted[i], AckTo(i, new_sid)))
    BY <1>11 DEF Vote
  <2> DEFINE s == vote_req[i][c].sid
  <2>2. s \in Sid /\ s \in Kept /\ s.L = 0 /\ s.term > sid[i].term
    BY BetterTerm DEF BetterLog
  <2>3. sid'[i] = s
    BY <2>1 DEF TypeOK
  <2>4. SidFlow
    <3>1. SidLeq(sid[i], s)
      BY <2>2, LaterTerm DEF TypeOK
    <3>2. QED
      BY <2>1, <2>2, <2>3, <3>1, OwnMove DEF Move
  <2>5. VoteFlow
    <3>1. ASSUME NEW a \in Server, NEW b \in Server
          PROVE  \/ prv_data'[b][a] = prv_data[b][a]
                 \/ a = i /\ prv_data'[b][a] = s
      BY <2>1 DEF TypeOK
    <3>2. QED
      BY <2>2, <2>3, <3>1 DEF VoteFlow
  <2>6. AccessFlow
    <3>1. RestoredAccess(i, s) \subseteq {s.idx} \ {i}
      BY <2>2 DEF RestoredAccess
    <3>2. s.term # 0
      <4>1. sid[i] \in Sid
        BY DEF TypeOK
      <4>2. QED
        BY <2>2, <4>1, SidParts
    <3>3. QED
      BY ZenonT(30), <2>1, <2>3, <3>1, <3>2 DEF AccessFlow, TypeOK
  <2>7. PostedFlow
    <3>1. posted[i] \in Queues /\ AckTo(i, s) \in Queues
      BY <2>2, QueueTypes
    <3>2. Then(posted[i], AckTo(i, s)) \in Queues
      BY <3>1, QueueTypes
    <3>3. \A w \in WritesOf(Then(posted[i], AckTo(i, s))) :
             w \in Outgoing(i) \/ Postable(i, w)
      BY <2>2, <3>1, QueueWrites DEF Postable
    <3>4. QED
      BY <2>1, <3>2, <3>3, PostFlow DEF Post
  <2>8. RequestFlow
    BY <1>11 DEF Vote, ClearRequests, RequestFlow, TypeOK
  <2>9. QED
    BY <1>11, <2>4, <2>5, <2>6, <2>7, <2>8 DEF Vote, Flow
<1>12. ASSUME NEW i \in Server, BecomeLeader(i) PROVE Flow
  <2>1. sid' = [sid EXCEPT ![i] = SetL(sid[i])] /\ sid[i].idx = i /\ sid[i] \in Sid
    BY <1>12 DEF BecomeLeader, IsCandidate, TypeOK
  <2>2. sid'[i] = SetL(sid[i]) /\ sid'[i].L = 1
    BY <2>1, SetLFields DEF TypeOK
  <2>3. SidFlow
    BY <2>1, <2>2, OwnMove DEF Move
  <2>4. AccessFlow
    BY <1>12, <2>1, <2>2 DEF BecomeLeader, AccessFlow, TypeOK
  <2>5. QED
    BY <1>12, <2>3, <2>4 DEF BecomeLeader, Flow, ctrlVars
<1>13. ASSUME NEW i \in Server, AppendEntry(i) \/ Crash(i) PROVE Flow
  BY <1>13 DEF AppendEntry, Crash, Flow, ctrlVars, timerVars
<1>14. ASSUME NEW i \in Server, NEW j \in Server, Land(i, j) PROVE Flow
  <2> DEFINE w == Head(posted[i][j])
  <2>1. /\ w \in Range(posted[i][j]) /\ Range(Tail(posted[i][j])) \subseteq Range(posted[i][j])
        /\ posted[i][j] \in Seq(Write)
    BY <1>14, RangeFacts DEF Land, TypeOK
  <2>2. w \in Outgoing(i)
    BY <2>1 DEF Outgoing
  <2>3. PostedFlow
    <3>1. ASSUME NEW a \in Server, NEW b \in Server
          PROVE  Range(posted'[a][b]) \subseteq Range(posted[a][b])
      BY <1>14, <2>1 DEF Land, TypeOK
    <3>2. QED
      BY <3>1 DEF PostedFlow, Outgoing
  <2>4. HbFlow
    BY <1>14, <2>2 DEF Land, HbFlow, TypeOK
  <2>5. RequestFlow
    BY ZenonT(30), <1>14, <2>2 DEF Land, RequestFlow, TypeOK
  <2>6. QED
    BY <1>14, <2>3, <2>4, <2>5 DEF Land, Flow, timerVars
<1>15. ASSUME NEW i \in Server, NEW j \in Server, AckFails(i, j) PROVE Flow
  <2> DEFINE q == [posted[i] EXCEPT ![j] = Tail(@)]
  <2>1. q \in Queues
    BY <1>15 DEF AckFails, TypeOK, Queues
  <2>2. posted[i][j] \in Seq(Write) /\ posted[i][j] # <<>>
    BY <1>15 DEF AckFails, TypeOK
  <2>3. \A b \in Server : Range(q[b]) \subseteq Range(posted[i][b])
    BY <2>2, RangeFacts DEF TypeOK
  <2>4. Replies(i, q)
    BY <2>3 DEF Replies, WritesOf, Outgoing
  <2>5. QED
    BY <1>15, <2>1, <2>4, StartElectionFlow DEF AckFails, Flow
<1>16. ASSUME NEW i \in Server, NEW f \in Server, WriteRemoteLog(i, f) PROVE Flow
  BY <1>16 DEF WriteRemoteLog, Flow, ctrlVars, timerVars
<1>17. CASE UNCHANGED vars
  BY <1>17 DEF vars, Flow, ctrlVars, timerVars
<1>18. QED
  BY <1>1, <1>2, <1>3, <1>4, <1>5, <1>6, <1>7, <1>8, <1>9, <1>10, <1>11, <1>12,
     <1>13, <1>14, <1>15, <1>16, <1>17 DEF Next

-----------------------------------------------------------------------------
(***************************************************************************)
(* The invariant and what it gives.                                        *)
(***************************************************************************)
LEMMA InvInit == Init => ElectionInv
<1>1. SUFFICES ASSUME Init PROVE ElectionInv
  OBVIOUS
<1>2. \A i \in Server : Outgoing(i) = {}
  BY <1>1, RangeFacts DEF Init, Outgoing
<1>3. NullSid.term = 0 /\ NullSid.L = 0 /\ ZeroSid.term = 0 /\ ZeroSid.L = 0
  BY DEF NullSid, ZeroSid, MkSid
<1>4. \A s \in Kept : s = NullSid \/ s = ZeroSid
  BY <1>1, <1>2, KeptIff, WriteFields DEF Init
<1>5. \A s \in Kept : Claimed(s)
  BY <1>3, <1>4 DEF Claimed
<1>6. \A p \in Server : \A w \in Shown(p) : w.term <= sid[p].term
  <2>1. \A p \in Server : sid[p] = NullSid /\ \A w \in Shown(p) : w = NullSid \/ w = ZeroSid
    BY <1>1, <1>2, ShownIff DEF Init
  <2>2. QED
    BY <1>3, <2>1
<1>7. /\ \A i, j \in Server : prv_data[j][i].term <= sid[i].term
      /\ \A i, j \in Server : vote_req[i][j].sid.L = 0
  <2>1. \A i, j \in Server : /\ prv_data[j][i] = ZeroSid /\ sid[i] = NullSid
                             /\ vote_req[i][j] = NoRequest
    BY <1>1 DEF Init
  <2>2. QED
    BY <1>3, <2>1, WriteFields
<1>8. \A f \in Server : log_access[f] = {}
  BY <1>1 DEF Init
<1>9. QED
  BY <1>2, <1>5, <1>6, <1>7, <1>8 DEF ElectionInv

\* The invariant is inductive.
LEMMA InvStep ==
  ASSUME TypeOK, ElectionInv, [Next]_vars
  PROVE  TypeOK' /\ ElectionInv'
  BY TypeStep, NextFlow, FlowStep

\* The invariant holds in every run: each SID in any memory or queue was
\* claimed by the server it names, which has shown no other vote of its term.
THEOREM InvCorrect == Spec => []ElectionInv
<1>1. Init => TypeOK /\ ElectionInv
  BY TypeInit, InvInit
<1>2. TypeOK /\ ElectionInv /\ [Next]_vars => (TypeOK /\ ElectionInv)'
  BY InvStep
<1>3. QED
  BY <1>1, <1>2, PTL DEF Spec

\* In a group of any size, no server is ahead of the server it supports.
THEOREM LeaderNotOutranked == Spec => []NobodyOutranksItsLeader
<1>1. ElectionInv => NobodyOutranksItsLeader
  <2>1. SUFFICES ASSUME ElectionInv, NEW i \in Server, sid[i].term > 0
                 PROVE  sid[i].idx \in Server /\ SidLeq(sid[i], sid[sid[i].idx])
    BY DEF NobodyOutranksItsLeader
  <2>2. sid[i] \in Kept
    BY KeptIff
  <2>3. QED
    BY <2>1, <2>2 DEF ElectionInv, Claimed
<1>2. QED
  BY <1>1, InvCorrect, PTL

\* A voter's log is open to its candidate alone, until it knows a leader.
THEOREM VoterFenced == Spec => []VoterFencesLog
<1>1. TypeOK /\ ElectionInv => VoterFencesLog
  <2>1. SUFFICES ASSUME TypeOK, ElectionInv, NEW f \in Server, NEW l \in Server,
                        sid[f].L = 0, l \in log_access[f]
                 PROVE  l # f /\ l = sid[f].idx /\ SidLeq(sid[f], sid[l])
    BY DEF VoterFencesLog
  <2>2. l # f /\ l = sid[f].idx
    BY <2>1 DEF ElectionInv
  <2>3. sid[f] \in Kept /\ sid[f] \in Sid /\ sid[l] \in Sid
    BY <2>1, KeptIff DEF TypeOK
  <2>4. SidLeq(sid[f], sid[l])
    <3>1. CASE sid[f].term > 0
      BY <2>1, <2>2, <2>3, <3>1 DEF ElectionInv, Claimed
    <3>2. CASE sid[f].term = 0
      BY <2>1, <3>2 DEF ElectionInv
    <3>3. QED
      BY <2>3, <3>1, <3>2, SidParts
  <2>5. QED
    BY <2>2, <2>4
<1>2. QED
  BY <1>1, InvCorrect, TypeCorrect, PTL

\* No step lowers the SID of a server.
THEOREM SidsGrow == Spec => SidMonotone
<1>1. TypeOK /\ TypeOK' /\ ElectionInv /\ [Next]_vars =>
         [\A i \in Server : SidLeq(sid[i], sid'[i])]_vars
  <2>1. SUFFICES ASSUME TypeOK, TypeOK', ElectionInv, [Next]_vars, NEW i \in Server
                 PROVE  SidLeq(sid[i], sid'[i])
    OBVIOUS
  <2>2. Move(i)
    BY <2>1, NextFlow DEF Flow, SidFlow
  <2>3. QED
    BY <2>1, <2>2, MoveUp
<1>2. QED
  BY <1>1, InvCorrect, TypeCorrect, PTL DEF Spec, SidMonotone

\* A server votes at most once in a term, and never in the term of its own
\* candidacy: the protection the L flag of old_sid is meant to give.
THEOREM VotesOnce == Spec => VoteOncePerTerm
<1>1. TypeOK /\ TypeOK' /\ ElectionInv /\ [Next]_vars =>
         [\A i, j \in Server : prv_data'[j][i] # prv_data[j][i] =>
             /\ prv_data'[j][i].term > sid[i].term
             /\ \A k \in Server : prv_data'[j][i].term > prv_data[k][i].term]_vars
  <2>1. SUFFICES ASSUME TypeOK, TypeOK', ElectionInv, [Next]_vars,
                        NEW i \in Server, NEW j \in Server, NEW k \in Server,
                        prv_data'[j][i] # prv_data[j][i]
                 PROVE  /\ prv_data'[j][i].term > sid[i].term
                        /\ prv_data'[j][i].term > prv_data[k][i].term
    OBVIOUS
  <2>2. prv_data'[j][i].term > sid[i].term
    BY <2>1, NextFlow DEF Flow, VoteFlow
  <2>3. prv_data[k][i].term <= sid[i].term
    BY <2>1 DEF ElectionInv
  <2>4. sid[i] \in Sid /\ prv_data[k][i] \in Sid /\ prv_data'[j][i] \in Sid
    BY <2>1 DEF TypeOK
  <2>5. QED
    BY <2>2, <2>3, <2>4, SidParts
<1>2. QED
  BY <1>1, InvCorrect, TypeCorrect, PTL DEF Spec, VoteOncePerTerm
=============================================================================
