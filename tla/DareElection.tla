---------------------------- MODULE DareElection ----------------------------
(***************************************************************************)
(* Leader election, heartbeats and log-access fencing of an APUS (DARE)    *)
(* group: dare_server.c and the CTRL-QP half of dare_ibv_rc.c.             *)
(*                                                                         *)
(* A server is one libev thread.  Its timer callbacks and the calls of     *)
(* polling() run to completion; between two of them RDMA writes of other   *)
(* servers land in its memory without it taking part.  So every callback   *)
(* and every polled handler is one action, and the landing of an RDMA      *)
(* write is an action of its own.                                          *)
(*                                                                         *)
(* The membership is fixed and fully connected.  A log is the sequence of  *)
(* the terms of its entries: elections only compare the determinant (idx,  *)
(* term) of the last one.  How a leader adjusts and extends a remote log   *)
(* is left open here (WriteRemoteLog).                                     *)
(***************************************************************************)
EXTENDS DareSid, Integers, Sequences, FiniteSets, Functions

CONSTANTS
    N,          \* group size (cid.size[0])
    MaxTerm,    \* bound: the last term in which server i starts an election
    MaxLog,     \* bound: entries of a log
    MaxPosted,  \* bound: RDMA writes posted and not landed, per CTRL QP
    MaxCrash    \* bound: servers that may fail

\* MAX_SERVER_COUNT is 13; a group of one server holds no election.
ASSUME GroupAssumption == N \in 2 .. 13
Server == 0 .. N - 1

ASSUME BoundAssumption == /\ MaxTerm \in [Server -> Nat] /\ MaxLog \in Nat
                          /\ MaxPosted \in Nat /\ MaxCrash \in Nat

VARIABLES
    sid,        \* ctrl_data->sid
    hb,         \* hb[i][j]: ctrl_data->hb[j] of i, written by j
    vote_req,   \* vote_req[i][j]: ctrl_data->vote_req[j] of i, written by j
    vote_ack,   \* vote_ack[i][j]: has j overwritten vote_ack[j] of i (# log->len)?
    prv_data,   \* prv_data[i][j]: prv_data[j].vote_sid of i, written by j
    latest_hb_received,  \* HB fetched by to_adjust_cb, not yet looked at
    log_access, \* log_access[i]: the servers whose LOG QP is open at i
    hb_event,   \* callback of the HB timer: "receive" or "send"
    to_adjust,  \* is the timeout-adjusting timer armed?
    log,        \* terms of the entries of the log
    posted,     \* posted[i][j]: writes in the CTRL QP from i to j, oldest first
    up          \* servers that have not failed

ctrlVars == <<hb, vote_req, vote_ack, prv_data>>
timerVars == <<hb_event, to_adjust, latest_hb_received>>
vars == <<sid, ctrlVars, timerVars, log_access, log, posted, up>>

(***************************************************************************)
(* The data written by RDMA.                                               *)
(***************************************************************************)
\* vote_req_t, its configuration left out: SID and determinant of the last entry.
Request == [sid : Sid, index : Nat, term : Nat]

\* A write posted to a CTRL QP: the slot it is for and what it puts there.
\* A vote ack puts the voter's commit offset, which elections never look at.
Write == [slot : {"hb", "vote_req", "vote_ack"}, req : Request]

NoRequest == [sid |-> ZeroSid, index |-> 0, term |-> 0]

LastTerm(l) == IF l = <<>> THEN 0 ELSE l[Len(l)]

\* The vote request a server with SID s and log l writes.
RequestOf(s, l) == [sid |-> s, index |-> Len(l), term |-> LastTerm(l)]

HbWrite(s)  == [slot |-> "hb", req |-> [NoRequest EXCEPT !.sid = s]]
ReqWrite(r) == [slot |-> "vote_req", req |-> r]
AckWrite    == [slot |-> "vote_ack", req |-> NoRequest]

TypeOK ==
    /\ sid \in [Server -> Sid]
    /\ hb \in [Server -> [Server -> Sid]]
    /\ vote_req \in [Server -> [Server -> Request]]
    /\ vote_ack \in [Server -> [Server -> BOOLEAN]]
    /\ prv_data \in [Server -> [Server -> Sid]]
    /\ latest_hb_received \in [Server -> Sid]
    /\ log_access \in [Server -> SUBSET Server]
    /\ hb_event \in [Server -> {"receive", "send"}]
    /\ to_adjust \in [Server -> BOOLEAN]
    /\ log \in [Server -> Seq(Nat)]
    /\ posted \in [Server -> [Server -> Seq(Write)]]
    /\ up \in SUBSET Server

(***************************************************************************)
(* Roles (IS_LEADER, IS_CANDIDATE).  A server that has not started has     *)
(* term 0 and takes no part (LOG_RECOVERED unset).  A server that has      *)
(* posted a vote ack spins in wait_for_one until the ack has landed.       *)
(***************************************************************************)
IsLeader(i)    == sid[i].term > 0 /\ sid[i].idx = i /\ sid[i].L = 1
IsCandidate(i) == sid[i].term > 0 /\ sid[i].idx = i /\ sid[i].L = 0

\* The writes server i has posted and that have not landed.
Outgoing(i) == UNION {Range(posted[i][j]) : j \in Server}

Waiting(i) == \E w \in Outgoing(i) : w.slot = "vote_ack"
Running(i) == i \in up /\ sid[i].term > 0 /\ ~Waiting(i)

Others(i) == Server \ {i}
Majority(S) == Cardinality(S) >= N \div 2 + 1

-----------------------------------------------------------------------------
(***************************************************************************)
(* Posting and landing of RDMA writes.  A reliable connection delivers in  *)
(* order; post_send blocks while its send queue is full, so no more than   *)
(* MaxPosted writes are outstanding.                                       *)
(***************************************************************************)
\* The CTRL QPs of server i hold the writes of queue from now on.
Post(i, queue) ==
    /\ \A j \in Server : Len(queue[j]) <= MaxPosted
    /\ posted' = [posted EXCEPT ![i] = queue]

\* The writes of queue, then those of out.
Then(queue, out) == [j \in Server |-> queue[j] \o out[j]]

\* Mutant: the loop over the servers stops one short.
HbToAllButLast(i, S) ==
    [j \in Server |-> IF j \in S /\ j # N - 1 THEN <<HbWrite(sid[i])>> ELSE <<>>]

\* The HBs i owes to the servers in S (dare_ib_send_hb, dare_ib_send_hb_reply).
HbTo(i, S) == [j \in Server |-> IF j \in S THEN <<HbWrite(sid[i])>> ELSE <<>>]

\* The vote requests of i with its new SID s (dare_ib_send_vote_request).
RequestsOf(i, s) == [j \in Server |-> IF j = i THEN <<>>
                                      ELSE <<ReqWrite(RequestOf(s, log[i]))>>]

\* The vote ack of i for a server with SID s; none for itself, as a server
\* has no connection to itself (dare_ib_send_vote_ack).
AckTo(i, s) == [j \in Server |-> IF j = s.idx /\ j # i THEN <<AckWrite>> ELSE <<>>]

-----------------------------------------------------------------------------
(***************************************************************************)
(* Parts shared by the handlers.                                           *)
(***************************************************************************)
\* rc_revoke_log_access then rc_restore_log_access under SID s: a follower
\* opens its log to the server it supports, a leader opens all its LOG QPs.
RestoredAccess(i, s) ==
    IF s.idx # i THEN {s.idx} \cap Server
    ELSE IF s.L = 1 THEN Others(i) ELSE {}

\* Mutant: rc_revoke_log_access forgotten.
ElectionNotFenced(i, s, queue) ==
    LET new_sid == MkSid(s.term + 1, 0, i) IN
    /\ s.term < MaxTerm[i]
    /\ sid' = [sid EXCEPT ![i] = new_sid]
    /\ vote_ack' = [vote_ack EXCEPT ![i] = [j \in Server |-> FALSE]]
    /\ hb_event' = [hb_event EXCEPT ![i] = "receive"]
    /\ Post(i, Then(queue, RequestsOf(i, new_sid)))
    /\ UNCHANGED log_access

\* Mutant: SID_SET_IDX forgotten.
ElectionForOldLeader(i, s, queue) ==
    LET new_sid == MkSid(s.term + 1, 0, s.idx) IN
    /\ s.term < MaxTerm[i]
    /\ sid' = [sid EXCEPT ![i] = new_sid]
    /\ log_access' = [log_access EXCEPT ![i] = {}]
    /\ vote_ack' = [vote_ack EXCEPT ![i] = [j \in Server |-> FALSE]]
    /\ hb_event' = [hb_event EXCEPT ![i] = "receive"]
    /\ Post(i, Then(queue, RequestsOf(i, new_sid)))

\* start_election() of server i whose SID is s and whose QPs hold queue.
StartElection(i, s, queue) ==
    LET new_sid == MkSid(s.term + 1, 0, i) IN
    /\ s.term < MaxTerm[i]
    /\ sid' = [sid EXCEPT ![i] = new_sid]
    /\ log_access' = [log_access EXCEPT ![i] = {}]
    /\ vote_ack' = [vote_ack EXCEPT ![i] = [j \in Server |-> FALSE]]
    /\ hb_event' = [hb_event EXCEPT ![i] = "receive"]
    /\ Post(i, Then(queue, RequestsOf(i, new_sid)))

\* Mutant: the HB timer is stopped and never restarted.
FollowerWithoutTimer(i, s, queue) ==
    /\ to_adjust' = [to_adjust EXCEPT ![i] = TRUE]
    /\ log_access' = [log_access EXCEPT ![i] = RestoredAccess(i, s)]
    /\ hb_event' = [hb_event EXCEPT ![i] = "stopped"]
    /\ Post(i, IF s.L = 1 THEN Then(queue, AckTo(i, s)) ELSE queue)

\* server_to_follower() of server i with SID s and QPs that hold queue.
ServerToFollower(i, s, queue) ==
    /\ to_adjust' = [to_adjust EXCEPT ![i] = TRUE]
    /\ log_access' = [log_access EXCEPT ![i] = RestoredAccess(i, s)]
    /\ hb_event' = [hb_event EXCEPT ![i] = "receive"]
    /\ Post(i, IF s.L = 1 THEN Then(queue, AckTo(i, s)) ELSE queue)

-----------------------------------------------------------------------------
(***************************************************************************)
(* Heartbeats, receiving side: hb_receive_cb and to_adjust_cb.             *)
(***************************************************************************)
\* The HB looked at for server j: the slot of the supported server counts
\* only when to_adjust_cb has left nothing to look at.
Received(i, j) ==
    IF j = sid[i].idx /\ latest_hb_received[i] # ZeroSid
    THEN latest_hb_received[i] ELSE hb[i][j]

\* Mutant: new_sid does not start at the own SID.
LeaderSidsOnly(i, n) ==
    {Received(i, k) : k \in {k \in Others(i) : k < n /\ Received(i, k).L = 1}}

\* The values new_sid may have taken when the loop reaches server n: its
\* value there is the largest of them.
LeaderSids(i, n) ==
    {sid[i]} \cup {Received(i, k) : k \in {k \in Others(i) :
                                             k < n /\ Received(i, k).L = 1}}

Outdated(i, j) == /\ Received(i, j) # ZeroSid
                  /\ \E s \in LeaderSids(i, j) : SidLess(Received(i, j), s)
UpToDate(i, j) == /\ Received(i, j) # ZeroSid
                  /\ ~Outdated(i, j)

\* Outdated leaders are answered with the SID of i.
WithReplies(i) ==
    Then(posted[i], HbTo(i, {j \in Others(i) : Outdated(i, j) /\ Received(i, j).L = 1}))

\* The slots the loop has fetched are cleared.
FetchHbs(i) ==
    LET kept(j) == j = i \/ (j = sid[i].idx /\ latest_hb_received[i] # ZeroSid)
    IN /\ hb' = [hb EXCEPT ![i] = [j \in Server |->
                                      IF kept(j) THEN @[j] ELSE ZeroSid]]
       /\ latest_hb_received' = [latest_hb_received EXCEPT ![i] =
                                    IF sid[i].idx \in Others(i) THEN ZeroSid ELSE @]

\* No up-to-date HB from anybody: start an election.
HbTimeout(i) ==
    /\ Running(i) /\ hb_event[i] = "receive"
    /\ \A j \in Others(i) : ~UpToDate(i, j)
    /\ FetchHbs(i)
    /\ StartElection(i, sid[i], WithReplies(i))
    /\ UNCHANGED <<vote_req, prv_data, to_adjust, log, up>>

\* An up-to-date HB, and no better leader than the one in the SID: rearm.
HbRearm(i) ==
    /\ Running(i) /\ hb_event[i] = "receive"
    /\ \E j \in Others(i) : UpToDate(i, j)
    /\ \A s \in LeaderSids(i, N) : SidLeq(s, sid[i])
    /\ FetchHbs(i)
    /\ Post(i, WithReplies(i))
    /\ UNCHANGED <<sid, vote_req, vote_ack, prv_data, hb_event, to_adjust,
                   log_access, log, up>>

\* A better leader: adopt its SID; in a new term become its follower too.
HbFollow(i) ==
    /\ Running(i) /\ hb_event[i] = "receive"
    /\ \E new_sid \in LeaderSids(i, N) :
          /\ new_sid # sid[i]
          /\ \A s \in LeaderSids(i, N) : SidLeq(s, new_sid)
          /\ sid' = [sid EXCEPT ![i] = new_sid]
          /\ IF new_sid.term # sid[i].term
             THEN ServerToFollower(i, new_sid, WithReplies(i))
             ELSE /\ Post(i, WithReplies(i))
                  /\ UNCHANGED <<hb_event, to_adjust, log_access>>
    /\ FetchHbs(i)
    /\ UNCHANGED <<vote_req, vote_ack, prv_data, log, up>>

\* to_adjust_cb: fetch the HB of the supported server ahead of hb_receive_cb.
AdjustTimeout(i) ==
    /\ Running(i) /\ to_adjust[i]
    /\ sid[i].idx \in Server /\ hb[i][sid[i].idx] # ZeroSid
    /\ latest_hb_received' = [latest_hb_received EXCEPT ![i] = hb[i][sid[i].idx]]
    /\ hb' = [hb EXCEPT ![i][sid[i].idx] = ZeroSid]
    /\ UNCHANGED <<sid, vote_req, vote_ack, prv_data, hb_event, to_adjust,
                   log_access, log, posted, up>>

-----------------------------------------------------------------------------
(***************************************************************************)
(* Heartbeats, sending side: hb_send_cb.                                   *)
(***************************************************************************)
\* No slot holds a SID as large as the leader's own: send HBs.
HbSend(i) ==
    /\ Running(i) /\ hb_event[i] = "send"
    /\ \A j \in Others(i) : SidLess(hb[i][j], sid[i])
    /\ hb' = [hb EXCEPT ![i] = [j \in Server |-> IF j = i THEN @[j] ELSE ZeroSid]]
    /\ Post(i, Then(posted[i], HbTo(i, Others(i))))
    /\ UNCHANGED <<sid, vote_req, vote_ack, prv_data, timerVars, log_access, log, up>>

\* The first slot with such a SID ends the loop.  The SID of i is "updated"
\* to itself: the code passes its own SID, not the HB it has found.
HbSendOutranked(i) ==
    /\ Running(i) /\ hb_event[i] = "send"
    /\ \E j \in Others(i) :
          /\ ~SidLess(hb[i][j], sid[i])
          /\ \A k \in Others(i) : k < j => SidLess(hb[i][k], sid[i])
          /\ hb' = [hb EXCEPT ![i] = [k \in Server |-> IF k <= j /\ k # i
                                                       THEN ZeroSid ELSE @[k]]]
    /\ ServerToFollower(i, sid[i], posted[i])
    /\ UNCHANGED <<sid, vote_req, vote_ack, prv_data, latest_hb_received, log, up>>

-----------------------------------------------------------------------------
(***************************************************************************)
(* Votes: poll_vote_requests and poll_vote_count.                          *)
(***************************************************************************)
\* The determinant <<t1, n1>> is not better than <<t2, n2>>.
LogLeq(t1, n1, t2, n2) == t1 < t2 \/ (t1 = t2 /\ n1 <= n2)

\* Mutant: the L flag is not set before the SIDs are compared.
BetterThanOwnSid(i) ==
    {j \in Others(i) :
        /\ SidLess(sid[i], vote_req[i][j].sid)
        /\ \A k \in Others(i) : k < j => SidLess(vote_req[i][k].sid, vote_req[i][j].sid)}

\* Requests left by the first loop: above the own SID, its L flag set, and
\* above all requests of servers with a smaller index.
BetterSid(i) ==
    {j \in Others(i) :
        /\ SidLess(SetL(sid[i]), vote_req[i][j].sid)
        /\ \A k \in Others(i) : k < j => SidLess(vote_req[i][k].sid, vote_req[i][j].sid)}

\* Of these the requests the second loop accepts, one after the other: their
\* log is not worse than the local one and the ones seen before.
BetterLog(i) ==
    {j \in BetterSid(i) :
        LET r == vote_req[i][j] IN
        /\ LogLeq(LastTerm(log[i]), Len(log[i]), r.term, r.index)
        /\ \A k \in BetterSid(i) : k < j =>
              LogLeq(vote_req[i][k].term, vote_req[i][k].index, r.term, r.index)}

\* The HB a server that voted finds from its candidate, now leader.
KnownLeaderHb(i) ==
    IF sid[i].idx \in Server /\ hb[i][sid[i].idx].term = sid[i].term
    THEN hb[i][sid[i].idx] ELSE ZeroSid

CanPollRequests(i) == Running(i) /\ sid[i].L = 0

\* The supported candidate has already sent an HB: take its SID.
AdoptSupported(i) ==
    /\ CanPollRequests(i)
    /\ KnownLeaderHb(i) # ZeroSid
    /\ KnownLeaderHb(i) # sid[i]
    /\ sid' = [sid EXCEPT ![i] = KnownLeaderHb(i)]
    /\ UNCHANGED <<ctrlVars, timerVars, log_access, log, posted, up>>

ClearRequests(i) ==
    vote_req' = [vote_req EXCEPT ![i] = [j \in Server |-> NoRequest]]

\* Only requests that are not good enough: drop them.
DropRequests(i) ==
    /\ CanPollRequests(i) /\ KnownLeaderHb(i) = ZeroSid
    /\ BetterSid(i) = {}
    /\ \E j \in Others(i) : vote_req[i][j] # NoRequest
    /\ ClearRequests(i)
    /\ UNCHANGED <<sid, hb, vote_ack, prv_data, timerVars, log_access, log, posted, up>>

\* The SID of a server that takes over a term without voting in it.
RaisedSid(i, term) == MkSid(term, sid[i].L, i)

\* The local log beats them all: take over the highest term, for nobody.
\* The log stays closed, and the votes collected so far are kept.
RaiseTerm(i) ==
    /\ CanPollRequests(i) /\ KnownLeaderHb(i) = ZeroSid
    /\ BetterLog(i) = {}
    /\ \E b \in BetterSid(i) :
          /\ \A k \in BetterSid(i) : k <= b
          /\ sid' = [sid EXCEPT ![i] = RaisedSid(i, vote_req[i][b].sid.term)]
    /\ log_access' = [log_access EXCEPT ![i] = {}]
    /\ ClearRequests(i)
    /\ UNCHANGED <<hb, vote_ack, prv_data, timerVars, log, posted, up>>

\* Vote for the last accepted request: support its SID, replicate the vote,
\* open the log to the candidate and tell it.  rc_replicate_vote returns when
\* a majority has the vote and the others that run get it a little later: as
\* only a recovering server reads prv_data, here they all have it at once.
Vote(i) ==
    /\ CanPollRequests(i) /\ KnownLeaderHb(i) = ZeroSid
    /\ \E c \in BetterLog(i) :
          LET new_sid == vote_req[i][c].sid IN
          /\ \A k \in BetterLog(i) : k <= c
          /\ sid' = [sid EXCEPT ![i] = new_sid]
          /\ prv_data' = [j \in Server |-> IF j \in up
                                           THEN [prv_data[j] EXCEPT ![i] = new_sid]
                                           ELSE prv_data[j]]
          /\ log_access' = [log_access EXCEPT ![i] = RestoredAccess(i, new_sid)]
          /\ Post(i, Then(posted[i], AckTo(i, new_sid)))
    /\ ClearRequests(i)
    /\ to_adjust' = [to_adjust EXCEPT ![i] = TRUE]
    /\ hb_event' = [hb_event EXCEPT ![i] = "receive"]
    /\ UNCHANGED <<hb, vote_ack, latest_hb_received, log, up>>

\* The servers whose vote i counts: itself and those that wrote an ack.
Votes(i) == {i} \cup {j \in Others(i) : vote_ack[i][j]}

\* Enough votes: set the L flag, append the blank CONFIG entry, open all LOG
\* QPs; hb_send_cb sends the first HBs.
BecomeLeader(i) ==
    /\ Running(i) /\ IsCandidate(i)
    /\ Majority(Votes(i))
    /\ sid' = [sid EXCEPT ![i] = SetL(@)]
    /\ log' = [log EXCEPT ![i] = Append(@, sid[i].term)]
    /\ hb_event' = [hb_event EXCEPT ![i] = "send"]
    /\ to_adjust' = [to_adjust EXCEPT ![i] = FALSE]
    /\ log_access' = [log_access EXCEPT ![i] = Others(i)]
    /\ UNCHANGED <<ctrlVars, latest_hb_received, posted, up>>

-----------------------------------------------------------------------------
(***************************************************************************)
(* Start of a server, landing of writes, failures.                         *)
(***************************************************************************)
\* Connections to a majority are established (poll_ud): first election.
Start(i) ==
    /\ i \in up /\ sid[i].term = 0
    /\ StartElection(i, sid[i], posted[i])
    /\ UNCHANGED <<hb, vote_req, prv_data, latest_hb_received, to_adjust, log, up>>

\* The oldest write from i to j lands in the memory of j, if j still runs.
Land(i, j) ==
    /\ posted[i][j] # <<>>
    /\ j \in up \/ Head(posted[i][j]).slot # "vote_ack"
    /\ LET w == Head(posted[i][j])
           lands(slot) == j \in up /\ w.slot = slot
       IN /\ hb' = [hb EXCEPT ![j][i] = IF lands("hb") THEN w.req.sid ELSE @]
          /\ vote_req' = [vote_req EXCEPT ![j][i] = IF lands("vote_req") THEN w.req ELSE @]
          /\ vote_ack' = [vote_ack EXCEPT ![j][i] = lands("vote_ack") \/ @]
    /\ posted' = [posted EXCEPT ![i][j] = Tail(@)]
    /\ UNCHANGED <<sid, prv_data, timerVars, log_access, log, up>>

\* A vote ack does not reach its failed candidate: the voter, still in
\* poll_vote_requests or server_to_follower, starts an election.
AckFails(i, j) ==
    /\ i \in up /\ j \notin up
    /\ posted[i][j] # <<>> /\ Head(posted[i][j]).slot = "vote_ack"
    /\ StartElection(i, sid[i], [posted[i] EXCEPT ![j] = Tail(@)])
    /\ UNCHANGED <<hb, vote_req, prv_data, to_adjust, latest_hb_received, log, up>>

Crash(i) ==
    /\ i \in up
    /\ Cardinality(Server \ up) < MaxCrash
    /\ up' = up \ {i}
    /\ UNCHANGED <<sid, ctrlVars, timerVars, log_access, log, posted>>

(***************************************************************************)
(* The logs, as far as elections depend on them.                           *)
(***************************************************************************)
AppendEntry(i) ==
    /\ Running(i) /\ IsLeader(i)
    /\ Len(log[i]) < MaxLog
    /\ log' = [log EXCEPT ![i] = Append(@, sid[i].term)]
    /\ UNCHANGED <<sid, ctrlVars, timerVars, log_access, posted, up>>

\* A leader that has the ack of f writes to its log over a LOG QP that is
\* open at both ends; the remote log becomes some prefix of its own.
WriteRemoteLog(i, f) ==
    /\ Running(i) /\ IsLeader(i) /\ f \in up
    /\ vote_ack[i][f] /\ f \in log_access[i] /\ i \in log_access[f]
    /\ \E n \in 0 .. Len(log[i]) :
          /\ SubSeq(log[i], 1, n) # log[f]
          /\ log' = [log EXCEPT ![f] = SubSeq(log[i], 1, n)]
    /\ UNCHANGED <<sid, ctrlVars, timerVars, log_access, posted, up>>

-----------------------------------------------------------------------------
Next ==
    \/ \E i \in Server :
          \/ Start(i) \/ HbTimeout(i) \/ HbRearm(i) \/ HbFollow(i)
          \/ AdjustTimeout(i) \/ HbSend(i) \/ HbSendOutranked(i)
          \/ AdoptSupported(i) \/ DropRequests(i) \/ RaiseTerm(i) \/ Vote(i)
          \/ BecomeLeader(i) \/ AppendEntry(i) \/ Crash(i)
    \/ \E i, j \in Server :
          Land(i, j) \/ AckFails(i, j) \/ WriteRemoteLog(i, j)

-----------------------------------------------------------------------------
Init ==
    /\ sid = [i \in Server |-> NullSid]
    /\ hb = [i \in Server |-> [j \in Server |-> ZeroSid]]
    /\ vote_req = [i \in Server |-> [j \in Server |-> NoRequest]]
    /\ vote_ack = [i \in Server |-> [j \in Server |-> TRUE]]
    /\ prv_data = [i \in Server |-> [j \in Server |-> ZeroSid]]
    /\ latest_hb_received = [i \in Server |-> ZeroSid]
    /\ log_access = [i \in Server |-> {}]
    /\ hb_event = [i \in Server |-> "receive"]
    /\ to_adjust = [i \in Server |-> FALSE]
    /\ log = [i \in Server |-> <<>>]
    /\ posted = [i \in Server |-> [j \in Server |-> <<>>]]
    /\ up = Server

Spec == Init /\ [][Next]_vars

-----------------------------------------------------------------------------
(***************************************************************************)
(* Safety.                                                                 *)
(***************************************************************************)
\* The SID of a server never decreases: every server_update_sid, the one that
\* takes an HB found in poll_vote_requests included, moves to a larger word.
SidMonotone == [][\A i \in Server : SidLeq(sid[i], sid'[i])]_vars

\* A server gives at most one vote per term: the vote it replicates in
\* poll_vote_requests is for a later term than its SID (its own candidacy
\* counts) and than every vote of it that any server remembers.
VoteOncePerTerm ==
    [][\A i, j \in Server : prv_data'[j][i] # prv_data[j][i] =>
          /\ prv_data'[j][i].term > sid[i].term
          /\ \A k \in Server : prv_data'[j][i].term > prv_data[k][i].term]_vars

\* The server named in the SID of i has claimed that SID itself, and has not
\* fallen behind it: nobody outranks the server it supports or follows,
\* however long HBs and requests of old terms stay in slots and QPs.
NobodyOutranksItsLeader ==
    \A i \in Server : sid[i].term > 0 =>
        /\ sid[i].idx \in Server
        /\ SidLeq(sid[i], sid[sid[i].idx])

\* As long as a server knows no leader, its log is open to nobody but the
\* candidate it voted for, and that candidate has not voted for another one
\* in the term: rc_revoke_log_access has shut out every earlier leader.
VoterFencesLog ==
    \A f, l \in Server : sid[f].L = 0 /\ l \in log_access[f] =>
        /\ l # f /\ l = sid[f].idx
        /\ SidLeq(sid[f], sid[l])

(***************************************************************************)
(* The inductive invariant behind them (proved in DareElectionProofs).     *)
(***************************************************************************)
\* The SIDs that p has shown as its own: its SID, and its HBs wherever they are.
Shown(p) ==
    {sid[p]} \cup {hb[i][p] : i \in Server}
        \cup {w.req.sid : w \in {w \in Outgoing(p) : w.slot = "hb"}}

\* The SIDs kept anywhere in the group.
Kept ==
    UNION {{sid[i], latest_hb_received[i]} \cup {hb[i][j] : j \in Server}
             \cup {vote_req[i][j].sid : j \in Server}
             \cup {w.req.sid : w \in Outgoing(i)} : i \in Server}

\* The server that s names has claimed s: it has not fallen behind s, and in
\* the term of s it has shown no vote for another server.
Claimed(s) ==
    s.term > 0 =>
        /\ s.idx \in Server
        /\ SidLeq(s, sid[s.idx])
        /\ \A w \in Shown(s.idx) : w.term = s.term /\ w.L = 0 => w.idx = s.idx

\* Every SID kept was claimed, no server has shown more than its SID, votes
\* are not ahead of it, requests carry no L flag, and voters are fenced.
ElectionInv ==
    /\ \A s \in Kept : Claimed(s)
    /\ \A p \in Server : \A w \in Shown(p) : w.term <= sid[p].term
    /\ \A i, j \in Server : prv_data[j][i].term <= sid[i].term
    /\ \A i, j \in Server : vote_req[i][j].sid.L = 0
    /\ \A i \in Server : \A w \in Outgoing(i) : w.slot = "vote_req" => w.req.sid.L = 0
    /\ \A f \in Server : sid[f].L = 0 => /\ log_access[f] \subseteq {sid[f].idx} \ {f}
                                         /\ sid[f].term = 0 => log_access[f] = {}

-----------------------------------------------------------------------------
(***************************************************************************)
(* Liveness.  Each callback and each polled handler runs again and again   *)
(* while it is enabled, and a reliable connection delivers.  Nothing is    *)
(* assumed of to_adjust_cb, of failures or of clients.                     *)
(***************************************************************************)
HbReceive(i)    == HbTimeout(i) \/ HbRearm(i) \/ HbFollow(i)
HbSendCb(i)     == HbSend(i) \/ HbSendOutranked(i)
PollRequests(i) == AdoptSupported(i) \/ DropRequests(i) \/ RaiseTerm(i) \/ Vote(i)

Fairness ==
    \A i \in Server :
          /\ WF_vars(Start(i)) /\ WF_vars(HbReceive(i)) /\ WF_vars(HbSendCb(i))
          /\ WF_vars(PollRequests(i)) /\ WF_vars(BecomeLeader(i))
          /\ WF_vars(\E j \in Server : AckFails(i, j))
          /\ \A j \in Others(i) : WF_vars(Land(i, j))

\* A leader whose term nobody has passed gets followed: every running server
\* ends up with the leader's SID, unless the leader fails or somebody starts
\* an election in a later term.
LeaderIsFollowed ==
    \A l \in Server : \A t \in 1 .. MaxTerm[l] :
        (l \in up /\ sid[l] = MkSid(t, 1, l) /\ \A j \in up : sid[j].term <= t)
            ~> \/ \A j \in up : sid[j] = MkSid(t, 1, l)
               \/ l \notin up
               \/ \E j \in Server : sid[j].term > t

-----------------------------------------------------------------------------
(***************************************************************************)
(* What comments of the code say and the code does not do.                 *)
(***************************************************************************)
\* start_election: "Clear votes from a previous election".  A vote counted in
\* a term would then come from a server that has given i its vote in that
\* term, or is past it.
VotesOfThisElection ==
    [][\A i \in Server : BecomeLeader(i) =>
          \A j \in Votes(i) : SidLeq(sid[i], sid[j])]_vars

\* poll_vote_requests: "a leader renounces its leadership when it receives an
\* HB reply from a server with a larger term".
LeaderRenounces ==
    [][\A i \in Server : HbSendOutranked(i) => ~IsLeader(i)']_vars

\* hb_receive_cb: "If the HB has the same term, then it is from the recently
\* elected leader", for which the log is open since the vote.  So a follower
\* of a leader would always have its log open to it.
LeaderHasAccess ==
    \A i \in Server : sid[i].L = 1 /\ sid[i].idx # i => sid[i].idx \in log_access[i]
=============================================================================
