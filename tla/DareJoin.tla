------------------------------- MODULE DareJoin -------------------------------
(***************************************************************************)
(* A server joins a running group: the JOIN request and the configuration  *)
(* changes that follow from it (dare_ibv_ud.c, dare_server.c), the RC      *)
(* handshake over unreliable datagrams, and the recovery of the state      *)
(* machine and of the log by RDMA (dare_ibv_rc.c).                         *)
(*                                                                         *)
(* The servers 0 .. Slot - 1 run, server 0 leads, and the joining server   *)
(* ends up in slot Slot.  Either the group is full and grows by one, or    *)
(* the machine was in this slot, has failed, and comes back, maybe before  *)
(* the leader has noticed: a member since the group started, or one that   *)
(* had got in by a JOIN of its own, which the leader remembers.            *)
(*                                                                         *)
(* The leader lasts, and no log wraps or is pruned: offsets are indexes of *)
(* entries, and head is 0.  RDMA is reliable, datagrams are not: one may   *)
(* be lost or overtaken, and what is retransmitted may arrive twice.       *)
(***************************************************************************)
EXTENDS Integers, Sequences, FiniteSets, SequencesExt, FiniteSetsExt

CONSTANTS
    Slot,       \* the slot of the joining server
    Start,      \* how it may begin: <<what the machine was before, requests that are
                \* served by then, requests to come>>
    MaxNet      \* bound on the datagrams under way

Leader == 0
Member == 0 .. Slot - 1
Node == 0 .. Slot
Follower == Node \ {Leader}

ASSUME JoinAssumption ==
    /\ Slot \in Nat \ {0} /\ MaxNet \in Nat
    /\ Start \subseteq {"new", "member", "joined"} \X Nat \X Nat

VARIABLES
    cid,        \* config.cid of every node
    log,        \* the log of the leader; the others have a prefix of it
    end,        \* end offset of every node
    commit,     \* commit offset of every node
    apply,      \* apply offset of the leader
    stored,     \* entries that a follower has stored and acknowledged (old_end)
    polled,     \* cid_offset of every follower; a member has applied as much
    ep,         \* what the leader's endpoint database has about the machine
    ctx,        \* each member's endpoint for Slot: rc_connected, and whom its RC
                \* QP and its datagrams go to
    rc,         \* members that the joining server is connected to
    j,          \* what else the joining server knows
    app,        \* requests that the application of the joining server got
    net,        \* datagrams under way
    sm_req,     \* sm_req[Slot] of every member
    snapshot,   \* the snapshot of each member, once SNAPSHOT is set
    sm_rep,     \* members whose sm_rep has been written at the joining server
    up,         \* members that run
    todo        \* number of requests to come

group == <<cid, log, end, commit, apply, stored, polled, ep, todo>>
vars == <<group, ctx, rc, j, app, net, sm_req, snapshot, sm_rep, up>>

Cid == [epoch : 0 .. 1, size : (1 .. Slot + 1) \X (0 .. Slot + 1),
        state : {"STABLE", "EXTENDED", "TRANSIT"}, on : SUBSET Node]

\* get_extended_group_size, get_group_size
Larger(a, b) == IF a < b THEN b ELSE a
ExtendedSize(c) == IF c.state = "STABLE" THEN c.size[1] ELSE Larger(c.size[1], c.size[2])
GroupSize(c) == IF c.state # "TRANSIT" THEN c.size[1] ELSE Larger(c.size[1], c.size[2])

\* The requests among the first k entries of the log; requests have numbers, in the
\* order in which the leader appends them.
Requests(k) == [n \in 1 .. Cardinality({i \in 1 .. k : log[i].type = "CSM"}) |-> n]

Request == [type |-> "CSM", req |-> FALSE]

\* last_applied_entry.offset, when the first k entries are applied.
LastApplied(k) == Max({0} \cup {i \in 1 .. k : log[i].type = "CSM"})

NoSnapshot == [records |-> <<>>, last |-> -1]

\* ep_insert: a machine that has asked for nothing yet.
NoEndpoint == [last_req_id |-> 0, cid_idx |-> 0, committed |-> FALSE]

\* dump_records: what node i has stored, committed or not, in the order it was stored.
Records(i) == Requests(stored[i])

-----------------------------------------------------------------------------
Config(c, req) == [type |-> "CONFIG", cid |-> c, req |-> req]

\* What is served by then is on a majority, which may have included a machine that was
\* in the group and has nothing any more.  If it had joined, the leader remembers the
\* request and where its entry is.  Members may have no more than this entry, and may
\* still wait for the end of the RC handshake; but the leader counted what the machine
\* acknowledged, and another member sent it the snapshot, only when they had seen it.
Init ==
    /\ \E s \in Start, has \in SUBSET Node, linked \in SUBSET Member :
         LET group0 == IF s[1] = "new" THEN Member ELSE Node
             c == [epoch |-> 0, size |-> <<Cardinality(group0), 0>>, state |-> "STABLE", on |-> group0]
             joined == IF s[1] = "joined" THEN <<Config(c, TRUE)>> ELSE <<>>
         IN  /\ Leader \in has /\ has \subseteq group0
             /\ Cardinality(has) > Cardinality(group0) \div 2
             /\ cid = [i \in Node |-> c]
             /\ CASE s[1] = "new"    -> linked = {}
                  [] s[1] = "member" -> linked = Member
                  [] s[1] = "joined" -> Slot \in has => Leader \in linked /\ linked # {Leader}
             /\ ctx = [i \in Member |->
                         IF s[1] = "new" THEN [on |-> FALSE, qp |-> "none", ud |-> "none"]
                         ELSE [on |-> i \in linked, qp |-> "old", ud |-> "old"]]
             /\ log = joined \o [k \in 1 .. s[2] |-> Request]
             /\ todo = s[3]
             /\ end = [i \in Node |-> IF i = Slot THEN 0
                                      ELSE IF i \in has THEN Len(log) ELSE Len(joined)]
             /\ ep = [NoEndpoint EXCEPT !.last_req_id = Len(joined), !.cid_idx = Len(joined),
                                         !.committed = joined # <<>>]
    /\ commit = end /\ apply = end[Leader]
    /\ stored = [i \in Follower |-> end[i]] /\ polled = stored
    /\ rc = {}
    /\ j = [request_id |-> 1, timer |-> "join", joined |-> FALSE, est |-> FALSE, cid_idx |-> 0,
            sm |-> FALSE, logrec |-> FALSE, apply |-> 0, lost |-> 0]
    /\ app = <<>> /\ net = {}
    /\ sm_req = {} /\ snapshot = [i \in Member |-> NoSnapshot] /\ sm_rep = {}
    /\ up = Member

\* A datagram: from a member to the joining server, or from it to a member.
FromJ(type, i, size) == [type |-> type, from |-> Slot, to |-> i, size |-> size]
ToJ(type, i, size) == [type |-> type, from |-> i, to |-> Slot, size |-> size]
Join == FromJ("JOIN", Leader, 0)
IsReply(m) == m.type = "CFG_REPLY"

\* What the network may be like when the datagrams in s are sent: UD may lose some,
\* and loses what exceeds the receive queues.
Sent(n, s) == {m \in {n \cup t : t \in SUBSET s} : Cardinality(m) <= MaxNet \/ m = n}

-----------------------------------------------------------------------------
(* The leader and the configuration.                                       *)

\* A pass of polling() runs to its end: what it commits it applies before the next one
\* looks at datagrams, requests and failed servers.
Idle == apply = commit[Leader]

\* A request of a client.
Submit ==
    /\ Idle /\ todo > 0
    /\ todo' = todo - 1
    /\ log' = Append(log, Request)
    /\ end' = [end EXCEPT ![Leader] = Len(log')]
    /\ UNCHANGED <<cid, commit, apply, stored, polled, ep, ctx, rc, j, app, net, sm_req, snapshot, sm_rep, up>>

\* ud_send_clt_reply
CfgReply(c) == [type |-> "CFG_REPLY", from |-> Leader, to |-> Slot, cid |-> c,
                cid_idx |-> ep.cid_idx, id |-> 1]

\* The new configuration of handle_server_join_request: an empty slot is taken, or
\* the group has to grow.
WithServer(c) ==
    IF Slot < c.size[1] THEN [c EXCEPT !.on = @ \cup {Slot}]
    ELSE [epoch |-> c.epoch + 1, size |-> <<c.size[1], c.size[1] + 1>>,
          state |-> "EXTENDED", on |-> c.on \cup {Slot}]

\* handle_server_join_request.  (request_id starts with 1 on every machine.)
HandleJoin ==
    LET c == cid[Leader]
        known == Slot \in c.on
    IN  /\ Idle /\ Join \in net
        /\ IF c.state = "STABLE" /\ ~known
           THEN /\ cid' = [cid EXCEPT ![Leader] = WithServer(c)]
                /\ log' = Append(log, Config(WithServer(c), TRUE))
                /\ end' = [end EXCEPT ![Leader] = Len(log')]
                /\ ep' = [last_req_id |-> 1, cid_idx |-> Len(log'), committed |-> FALSE]
                /\ ctx' = [ctx EXCEPT ![Leader].on = FALSE, ![Leader].ud = "J"]
                /\ net' = net \ {Join}
           ELSE /\ net' \in Sent(net \ {Join},
                      IF c.state = "STABLE" /\ ep.last_req_id = 1 /\ ep.committed
                      THEN {CfgReply(c)} ELSE {})
                /\ UNCHANGED <<cid, log, end, ep, ctx>>
        /\ UNCHANGED <<commit, apply, stored, polled, rc, j, app, sm_req, snapshot, sm_rep, up, todo>>

\* check_failure_count: the writes to the failed server have failed too often.
RemoveServer ==
    /\ Idle /\ Slot \in cid[Leader].on /\ cid[Leader].state = "STABLE"
    /\ ctx[Leader].on /\ ctx[Leader].qp = "old"
    /\ LET c == [cid[Leader] EXCEPT !.on = @ \ {Slot}]
       IN  /\ cid' = [cid EXCEPT ![Leader] = c]
           /\ log' = Append(log, Config(c, FALSE))
    /\ end' = [end EXCEPT ![Leader] = Len(log')]
    /\ ctx' = [ctx EXCEPT ![Leader] = [on |-> FALSE, qp |-> "none", ud |-> "none"]]
    /\ UNCHANGED <<commit, apply, stored, polled, ep, rc, j, app, net, sm_req, snapshot, sm_rep, up, todo>>

\* Mutant: one reply less.
HalfReplies(c) ==
    LET size == c.size[IF c.state = "TRANSIT" THEN 2 ELSE 1]
    IN  {q \in SUBSET (0 .. size - 1) : Leader \in q /\ Cardinality(q) >= size \div 2}

\* update_remote_logs: the replies that commit an entry.  The size is the last one
\* that the loop over both sizes looked at, for all entries of a scan.
EnoughReplies(c) ==
    LET size == c.size[IF c.state = "TRANSIT" THEN 2 ELSE 1]
    IN  {q \in SUBSET (0 .. size - 1) : Leader \in q /\ Cardinality(q) >= size \div 2 + 1}

\* The followers whose reply to entry k has come.
Replies(k) == {i \in Follower : k <= stored[i] /\ (i = Slot => j.lost < k)}

Replied(k) == \E q \in EnoughReplies(cid[Leader]) : q \subseteq Replies(k) \cup {Leader}

\* The scan goes up to the first entry that lacks a reply.
CommitEntries ==
    LET scanned == {k \in commit[Leader] + 1 .. Len(log) :
                      \A n \in commit[Leader] + 1 .. k : Replied(n)}
    IN  /\ Idle /\ scanned # {}
        /\ commit' = [commit EXCEPT ![Leader] = Max(scanned)]
        /\ UNCHANGED <<cid, log, end, apply, stored, polled, ep, todo,
                       ctx, rc, j, app, net, sm_req, snapshot, sm_rep, up>>

\* The configuration that follows configuration c when entry e is applied.
NextCid(e, c) ==
    IF e.type # "CONFIG" \/ c.epoch > e.cid.epoch THEN c
    ELSE CASE e.cid.state = "EXTENDED" -> [c EXCEPT !.state = "TRANSIT"]
           [] e.cid.state = "TRANSIT"  -> [c EXCEPT !.state = "STABLE", !.size = <<@[2], 0>>]
           [] OTHER -> c

\* apply_committed_entries of the leader, one entry: a configuration is announced to
\* the server that asked for it, and followed by the next one.
ApplyEntry ==
    LET e == log[apply + 1]
        next == NextCid(e, cid[Leader])
        outdated == e.cid.state # "STABLE" /\ cid[Leader].epoch > e.cid.epoch
        answer == e.req /\ ~outdated
    IN  /\ apply < commit[Leader]
        /\ apply' = apply + 1
        /\ cid' = [cid EXCEPT ![Leader] = next]
        /\ log' = IF next = cid[Leader] THEN log ELSE Append(log, Config(next, FALSE))
        /\ end' = [end EXCEPT ![Leader] = Len(log')]
        /\ ep' = [ep EXCEPT !.committed = @ \/ answer]
        /\ net' \in Sent(net, IF answer THEN {CfgReply(next)} ELSE {})
        /\ UNCHANGED <<commit, stored, polled, ctx, rc, j, app, sm_req, snapshot, sm_rep, up, todo>>

\* The leader writes its entries, or its commit offset, to node i.
Reached(i) == /\ i \in cid[Leader].on
              /\ IF i = Slot THEN j.logrec /\ ctx[Leader].on /\ ctx[Leader].qp = "J"
                 ELSE i \in up

\* update_cid: servers that leave are disconnected.
Disconnected(i, off) ==
    IF off /\ i \in Member /\ ctx[i].on
    THEN [ctx EXCEPT ![i] = [on |-> FALSE, qp |-> "none", ud |-> "none"]] ELSE ctx

Replicate(i) ==
    /\ Idle /\ Reached(i) /\ end[i] < Len(log)
    /\ end' = [end EXCEPT ![i] = Len(log)]
    /\ UNCHANGED <<cid, log, commit, apply, stored, polled, ep, todo,
                   ctx, rc, j, app, net, sm_req, snapshot, sm_rep, up>>

\* Nodes that go past the first lines of polling().
Running(i) == IF i = Slot THEN j.logrec ELSE i \in up

\* A pass of polling(): node i stores what is new and acknowledges it...
PersistNewEntries(i) ==
    /\ Running(i) /\ stored[i] < end[i]
    /\ stored' = [stored EXCEPT ![i] = end[i]]
    /\ j' = IF i = Slot /\ ~Reached(Slot) THEN [j EXCEPT !.lost = end[i]] ELSE j
    /\ UNCHANGED <<cid, log, end, commit, apply, polled, ep, todo,
                   ctx, rc, app, net, sm_req, snapshot, sm_rep, up>>

\* ... looks for CONFIG entries, which count from the moment they are in the log and
\* are looked at again and again until they are committed, and applies what is
\* committed by now, stored or not.  (Datagrams and requests for snapshots come
\* first in a pass; the model lets them come at any time.)
PollAndApply(i) ==
    LET from == IF i = Slot THEN Larger(polled[i], j.cid_idx) ELSE polled[i]
        cfg == {k \in from + 1 .. end[i] : log[k].type = "CONFIG"}
        done == Len(Requests(j.apply))
    IN  /\ Running(i)
        /\ cid' = IF cfg = {} THEN cid ELSE [cid EXCEPT ![i] = log[Max(cfg)].cid]
        /\ ctx' = Disconnected(i, Slot \in cid[i].on /\ \E k \in cfg : Slot \notin log[k].cid.on)
        /\ polled' = [polled EXCEPT ![i] = commit[i]]
        /\ IF i = Slot /\ j.apply < commit[i]
           THEN /\ app' = app \o SubSeq(Requests(commit[i]), done + 1, Len(Requests(commit[i])))
                /\ j' = [j EXCEPT !.apply = commit[i]]
           ELSE UNCHANGED <<app, j>>
        /\ UNCHANGED <<log, end, commit, apply, stored, ep, todo, rc, net, sm_req, snapshot, sm_rep, up>>

\* Mutant: the commit offset of the leader, as it is.
LeaderCommit(i) == commit[Leader]

\* The commit offset that the leader writes to i: no more than i has.
RemoteCommit(i) == IF commit[Leader] < end[i] THEN commit[Leader] ELSE end[i]

UpdateCommit(i) ==
    /\ Reached(i) /\ commit[i] < RemoteCommit(i)
    /\ commit' = [commit EXCEPT ![i] = RemoteCommit(i)]
    /\ UNCHANGED <<cid, log, end, apply, stored, polled, ep, todo,
                   ctx, rc, j, app, net, sm_req, snapshot, sm_rep, up>>

-----------------------------------------------------------------------------
(* The joining server and the handshake.                                   *)

\* join_cluster_cb, exchange_rc_info_cb and, once recovered, update_rc_info_cb: what
\* is sent is sent again after a while.
JoinTimer ==
    /\ \/ j.timer = "join" /\ net' \in Sent(net, {Join})
       \/ /\ \/ j.timer = "exchange"
             \/ j.timer = "update" /\ (cid[Slot].on \cap Member) \ rc # {}
          /\ net' \in Sent(net, {FromJ("RC_SYN", i, ExtendedSize(cid[Slot])) : i \in up})
    /\ UNCHANGED <<group, ctx, rc, j, app, sm_req, snapshot, sm_rep, up>>

\* update_rc_info_cb of a member.
UpdateRcInfo(i) ==
    /\ i \in up
    /\ Slot \in cid[i].on /\ Slot < ExtendedSize(cid[i]) /\ ~ctx[i].on
    /\ net' \in Sent(net, {ToJ("RC_SYN", i, ExtendedSize(cid[i]))})
    /\ UNCHANGED <<group, ctx, rc, j, app, sm_req, snapshot, sm_rep, up>>

\* handle_server_join_reply and poll_ud: an old reply changes nothing, but the timer is
\* set in any case.
HandleJoinReply(m) ==
    /\ m \in net /\ IsReply(m)
    /\ LET known == m.id < j.request_id
       IN  /\ cid' = IF known THEN cid ELSE [cid EXCEPT ![Slot] = m.cid]
           /\ j' = [j EXCEPT !.request_id = IF known THEN @ ELSE @ + 1,
                             !.cid_idx = IF known THEN @ ELSE m.cid_idx,
                             !.joined = TRUE, !.timer = "exchange"]
    /\ net' = net \ {m}
    /\ UNCHANGED <<log, end, commit, apply, stored, polled, ep, todo,
                   ctx, rc, app, sm_req, snapshot, sm_rep, up>>

\* Mutant: the answer goes to whoever has asked.
Answer(i) == {ToJ("RC_SYNACK", i, 1)}

\* ud_send_message to the endpoint of Slot: the machine's UD QP of an earlier life
\* does not exist any more.
SendToSlot(i) == IF ctx'[i].ud = "J" THEN {ToJ("RC_SYNACK", i, 1)} ELSE {}

\* handle_rc_syn of member i
HandleSyn(i) ==
    \E m \in net :
      /\ m.type = "RC_SYN" /\ m.to = i /\ i \in up
      /\ IF Slot \in cid[i].on /\ i < m.size
         THEN /\ ctx' = IF ctx[i].on THEN ctx
                        ELSE [ctx EXCEPT ![i] = [on |-> FALSE, qp |-> "J", ud |-> "J"]]
              /\ net' \in Sent(net \ {m}, SendToSlot(i))
         ELSE net' = net \ {m} /\ UNCHANGED ctx
      /\ UNCHANGED <<group, rc, j, app, sm_req, snapshot, sm_rep, up>>

\* handle_rc_synack and handle_rc_ack of member i
HandleSynackOrAck(i) ==
    \E m \in net :
      /\ m.type \in {"RC_SYNACK", "RC_ACK"} /\ m.to = i /\ i \in up
      /\ IF Slot \in cid[i].on
         THEN /\ ctx' = CASE ctx[i].on -> ctx
                          [] m.type = "RC_SYNACK" ->
                               [ctx EXCEPT ![i] = [on |-> TRUE, qp |-> "J", ud |-> "J"]]
                          [] OTHER -> [ctx EXCEPT ![i].on = TRUE]
              /\ net' \in Sent(net \ {m},
                           IF m.type = "RC_SYNACK" /\ ctx'[i].ud = "J"
                           THEN {ToJ("RC_ACK", i, 0)} ELSE {})
         ELSE net' = net \ {m} /\ UNCHANGED ctx
      /\ UNCHANGED <<group, rc, j, app, sm_req, snapshot, sm_rep, up>>

\* The timer of the joining server, when it is connected to the members c: with half of
\* the group it starts to recover, once.
Established(c) ==
    LET size == GroupSize(cid[Slot])
    IN  Cardinality({i \in c \cap cid[Slot].on : i < size}) >= size \div 2

JTimer(c) ==
    IF c # rc /\ Established(c) /\ ~j.est THEN [j EXCEPT !.est = TRUE, !.timer = "vote"] ELSE j

\* handle_rc_syn, handle_rc_synack and handle_rc_ack of the joining server
HandleAtJ(m) ==
    /\ m \in net /\ m.to = Slot /\ ~IsReply(m)
    /\ LET ok == j.joined /\ m.from \in cid[Slot].on /\ (m.type = "RC_SYN" => Slot < m.size)
           reply == IF m.type = "RC_SYN" THEN "RC_SYNACK" ELSE "RC_ACK"
       IN  /\ net' \in Sent(net \ {m},
                        IF ok /\ m.type # "RC_ACK" THEN {FromJ(reply, m.from, 1)} ELSE {})
           /\ rc' = IF ok /\ m.type # "RC_SYN" THEN rc \cup {m.from} ELSE rc
           /\ j' = JTimer(rc')
    /\ UNCHANGED <<group, ctx, app, sm_req, snapshot, sm_rep, up>>

-----------------------------------------------------------------------------
(* Recovery.                                                               *)

\* Members with which RDMA works: both QPs are connected.
Linked == {i \in rc \cap up : ctx[i].qp = "J"}

\* rc_get_replicated_vote: the reads succeed at a majority, in which the reader itself
\* does not count.  Of two sizes the last one decides (wait_for_majority).
VoteRead ==
    LET c == cid[Slot]
        size == c.size[IF c.state = "STABLE" THEN 1 ELSE 2]
    IN  Cardinality({i \in Linked \cap c.on : i < size}) > size \div 2

\* get_replicated_vote_cb: tried again until the vote is read; not tried with two servers.
GetReplicatedVote ==
    /\ j.timer = "vote"
    /\ cid[Slot].size[1] = 2 \/ VoteRead
    /\ j' = [j EXCEPT !.timer = "sm"]
    /\ UNCHANGED <<group, ctx, rc, app, net, sm_req, snapshot, sm_rep, up>>

\* send_sm_request_cb: sent again until there is a reply.
SendSmRequest ==
    /\ j.timer = "sm" /\ ~j.sm
    /\ sm_req' = sm_req \cup Linked
    /\ UNCHANGED <<group, ctx, rc, j, app, net, snapshot, sm_rep, up>>

\* poll_sm_requests: the first request makes the snapshot, of all records that are
\* stored; the entry it names is the last one applied.  No reply can be written to a
\* server that is not connected yet.
PollSmRequests(i) ==
    /\ i \in (sm_req \cap up) \ {Leader} /\ Slot < GroupSize(cid[i])
    /\ snapshot[i] = NoSnapshot
    /\ sm_req' = sm_req \ {i}
    /\ snapshot' = [snapshot EXCEPT ![i] =
                      [records |-> Records(i), last |-> LastApplied(polled[i])]]
    /\ sm_rep' = IF ctx[i].on /\ i \in Linked THEN sm_rep \cup {i} ELSE sm_rep
    /\ UNCHANGED <<group, ctx, rc, j, app, net, up>>

\* For a later request the pointer to the snapshot is not initialized: it has kept
\* its value since the last call, or it points anywhere.
PollSmRequestsAgain(i) ==
    /\ i \in (sm_req \cap up) \ {Leader} /\ Slot < GroupSize(cid[i])
    /\ snapshot[i] # NoSnapshot
    /\ sm_req' = sm_req \ {i}
    /\ \/ /\ sm_rep' = IF ctx[i].on /\ i \in Linked THEN sm_rep \cup {i} ELSE sm_rep
          /\ UNCHANGED up
       \/ up' = up \ {i} /\ UNCHANGED sm_rep
    /\ UNCHANGED <<group, ctx, rc, j, app, net, snapshot>>

\* poll_sm_reply, until the state machine is recovered
PollSmReply(i) == j.est /\ ~j.sm /\ i \in sm_rep

\* rc_recover_sm: the records go to the application.
RecoverSm(i) ==
    /\ PollSmReply(i) /\ i \in Linked
    /\ app' = snapshot[i].records
    /\ j' = [j EXCEPT !.sm = TRUE, !.apply = snapshot[i].last, !.timer = "log"]
    /\ sm_rep' = {}
    /\ UNCHANGED <<group, ctx, rc, net, sm_req, snapshot, up>>

\* recover_log_cb, at its end: the server takes part from now on.
LogRecovered == [j EXCEPT !.logrec = TRUE, !.timer = "update"]

\* rc_recover_log: the log and its offsets, from any member.
RecoverLog(i) ==
    /\ j.timer = "log" /\ i \in Linked
    /\ end' = [end EXCEPT ![Slot] = end[i]]
    /\ commit' = [commit EXCEPT ![Slot] = commit[i]]
    /\ j' = LogRecovered
    /\ UNCHANGED <<cid, log, apply, stored, polled, ep, todo, ctx, rc, app, net, sm_req, snapshot, sm_rep, up>>

-----------------------------------------------------------------------------
Next ==
    \/ Submit \/ HandleJoin \/ RemoveServer \/ CommitEntries \/ ApplyEntry
    \/ \E i \in Follower : Replicate(i) \/ UpdateCommit(i) \/ PersistNewEntries(i) \/ PollAndApply(i)
    \/ JoinTimer
    \/ \E m \in net : HandleJoinReply(m) \/ HandleAtJ(m)
    \/ \E i \in Member :
         \/ UpdateRcInfo(i) \/ HandleSyn(i) \/ HandleSynackOrAck(i)
         \/ PollSmRequests(i) \/ PollSmRequestsAgain(i) \/ RecoverSm(i) \/ RecoverLog(i)
    \/ GetReplicatedVote \/ SendSmRequest

Spec == Init /\ [][Next]_vars

-----------------------------------------------------------------------------
(* Properties.                                                             *)

\* Every variable has its type; nobody has committed more than it has, and nobody has
\* more than the leader appended.
TypeOK ==
    /\ \A i \in Node : cid[i] \in Cid
    /\ \A i \in Follower : polled[i] \in 0 .. commit[i] /\ stored[i] \in 0 .. end[i]
    /\ \A i \in Node : commit[i] \in 0 .. end[i] /\ end[i] \in 0 .. Len(log)
    /\ apply \in 0 .. commit[Leader]
    /\ ctx \in [Member -> [on : BOOLEAN, qp : {"none", "old", "J"}, ud : {"none", "old", "J"}]]
    /\ rc \subseteq Member /\ up \subseteq Member
    /\ j.timer \in {"join", "exchange", "vote", "sm", "log", "update"}
    /\ Range(app) \subseteq Range(Requests(Len(log))) /\ todo \in Nat

\* Are the votes of q enough in configuration c (poll_vote_count)?
Elects(q, c) ==
    /\ Cardinality(q \cap (0 .. c.size[1] - 1)) >= c.size[1] \div 2 + 1
    /\ c.state # "STABLE" => Cardinality(q \cap (0 .. c.size[2] - 1)) >= c.size[2] \div 2 + 1

\* The servers that lack something committed are too few to elect one of them, in any
\* configuration that a server has seen: every new leader has, or learns of, all
\* requests and configurations that are committed.  A server that lost its memory when
\* it failed votes again only after a CONFIG entry that the others have stored, and with
\* it all that it had helped to commit.  While the group grows, update_remote_logs asks
\* only one of the two majorities of a TRANSIT configuration; that the group grows by
\* one server at a time makes this enough.
VotersHaveCommitted ==
    LET behind == {n \in Node : Running(n) /\ end[n] < commit[Leader]}
    IN  \A i \in up : ~Elects(behind, cid[i])

\* A member never believes that it is connected to a server that came back, and
\* that believes it too, over the QP of the server's earlier life.
NoGhost == \A i \in Member : i \in rc /\ ctx[i].on => ctx[i].qp # "old"

\* "The SM contains the offset of the last applied entry" (rc_recover_sm): the snapshot
\* and that offset belong together, and the application gets every request once.
JoinerExact == j.logrec => app = Requests(j.apply)
=============================================================================
