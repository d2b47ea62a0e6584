--------------------------- MODULE DareJoinProofs ---------------------------
(***************************************************************************)
(* Proofs about DareJoin, for every slot, every way to begin and every     *)
(* bound on the network: the types, that no member talks to the ghost of a *)
(* server that came back, and, unless the server had joined in an earlier  *)
(* life, that the servers which lack something committed cannot elect one  *)
(* of them while the group changes.                                        *)
(***************************************************************************)
EXTENDS DareJoin, FiniteSetTheorems, FunctionTheorems, SequenceTheorems, WellFoundedInduction, TLAPS

-----------------------------------------------------------------------------
(* The inductive invariant.                                                *)

Context == [on : BOOLEAN, qp : {"none", "old", "J"}, ud : {"none", "old", "J"}]

LogEntry == [type : {"CSM"}, req : BOOLEAN] \cup [type : {"CONFIG"}, cid : Cid, req : BOOLEAN]

\* Datagrams go from a member to the joining server, or the other way.
Datagram ==
    {m \in [type : {"JOIN", "RC_SYN", "RC_SYNACK", "RC_ACK"}, from : Node, to : Node, size : Nat]
           \cup [type : {"CFG_REPLY"}, from : Node, to : Node, cid : Cid, cid_idx : Nat, id : Nat] :
       \/ m.from = Slot /\ m.to \in Member
       \/ m.from \in Member /\ m.to = Slot /\ m.type # "JOIN"}

Joiner == [request_id : Nat, timer : {"join", "exchange", "vote", "sm", "log", "update"},
           joined : BOOLEAN, est : BOOLEAN, cid_idx : Nat, sm : BOOLEAN, logrec : BOOLEAN,
           apply : Int, lost : Nat]

Shape ==
    /\ cid \in [Node -> Cid]
    /\ log \in Seq(LogEntry)
    /\ end \in [Node -> Nat] /\ commit \in [Node -> Nat] /\ apply \in Nat
    /\ stored \in [Follower -> Nat] /\ polled \in [Follower -> Nat]
    /\ ep \in [last_req_id : Nat, cid_idx : Nat, committed : BOOLEAN]
    /\ ctx \in [Member -> Context]
    /\ rc \subseteq Member /\ up \subseteq Member
    /\ j \in Joiner
    /\ net \subseteq Datagram
    /\ snapshot \in [Member -> [records : Seq(Nat), last : Int]]
    /\ todo \in Nat

\* Nobody has more than the leader, nobody has stored, committed or polled more than
\* it has.
Offsets ==
    /\ end[Leader] = Len(log) /\ apply <= commit[Leader]
    /\ \A i \in Node : commit[i] <= end[i] /\ end[i] <= Len(log)
    /\ \A i \in Follower : stored[i] <= end[i] /\ polled[i] <= commit[i]

\* The joining server goes through its states in order, and has nothing in its log
\* before it recovers a log.
Progress ==
    /\ j.est => j.joined
    /\ j.sm => j.est
    /\ j.logrec => j.sm
    /\ j.timer = "log" => j.sm /\ ~j.logrec
    /\ ~j.logrec => end[Slot] = 0

\* The requests that have been appended.
Appended == 1 .. Cardinality({i \in 1 .. Len(log) : log[i].type = "CSM"})

\* What the application has, and what it may get from a snapshot.
Delivered ==
    /\ app \in Seq(Appended)
    /\ \A i \in Member : snapshot[i].records \in Seq(Appended)

\* The group has Slot or Slot + 1 servers, and has grown at most once.
SizeOK(c) ==
    /\ c.size[1] \in {Slot, Slot + 1}
    /\ c.state # "STABLE" => c.size[1] = Slot /\ c.size[2] = Slot + 1 /\ c.epoch = 1
    /\ c.state = "STABLE" /\ c.size[1] = Slot => c.epoch = 0

Sizes ==
    /\ \A i \in Member : SizeOK(cid[i])
    /\ \A k \in 1 .. Len(log) : log[k].type = "CONFIG" => SizeOK(log[k].cid)

\* Is the k-th entry a step of a change of size that is not applied?
Growing(k) ==
    /\ k \in apply + 1 .. Len(log)
    /\ log[k].type = "CONFIG" /\ log[k].cid.state # "STABLE"

\* There is one such entry at a time, and the leader's configuration is in its state.
OneChange ==
    \A k \in Nat : Growing(k) =>
        /\ log[k].cid.state = cid[Leader].state
        /\ \A l \in Nat : Growing(l) => l = k

\* The joining server's request may have been answered, or will be by what is committed
\* and not applied: unless it had joined in an earlier life, the leader has committed
\* something since the server lost its memory.
Answered ==
    \/ j.joined \/ ep.committed \/ \E m \in net : IsReply(m)
    \/ \E k \in apply + 1 .. commit[Leader] : log[k].req

\* The leader has answered no machine of this slot before.
NoEarlierJoin == \A s \in Start : s[1] # "joined"

\* The majorities of the old and of the new group.
Majority ==
    {q \in SUBSET Node : \E a \in {Slot, Slot + 1} :
                           q \subseteq 0 .. a - 1 /\ Cardinality(q) >= a \div 2 + 1}

\* A majority of the old or of the new group has everything that is committed; the
\* joining server counts, without what it has lost, until it is answered.
CommittedQuorum ==
    \E q \in Majority : \A n \in q : end[n] >= commit[Leader] \/ (n = Slot /\ ~Answered)

\* A member whose QP goes to the server's earlier life has never answered the server
\* in its new life.
Severed(i) ==
    /\ i \notin rc
    /\ \A m \in net : m.from = i => m.type \notin {"RC_SYNACK", "RC_ACK"}
    /\ \A m \in net : m.to = i => m.type # "RC_ACK"
    /\ ctx[i].on => ctx[i].ud = "old"

Ghosts == \A i \in Member : ctx[i].qp = "old" => Severed(i)

IInv ==
    /\ Shape /\ Offsets /\ Progress /\ Delivered
    /\ Sizes /\ OneChange /\ Ghosts
    /\ NoEarlierJoin => CommittedQuorum

-----------------------------------------------------------------------------
(* Lemmas about the operators.                                             *)

USE DEF Leader, Member, Node, Follower

\* Nothing is in the network that was not there or has just been sent.
LEMMA SentOnly ==
    ASSUME NEW n, NEW s, NEW m \in Sent(n, s)
    PROVE  m \subseteq n \cup s
BY DEF Sent

\* A set of integers of an interval has a maximum.
LEMMA MaxInSet ==
    ASSUME NEW a \in Int, NEW b \in Int, NEW S \in SUBSET (a .. b), S # {}
    PROVE  Max(S) \in S /\ \A x \in S : x <= Max(S)
<1> DEFINE T == {b - x : x \in S}
<1>1. T \subseteq Nat /\ T # {}
  OBVIOUS
<1>2. PICK t \in T : \A u \in T : ~(<<u, t>> \in OpToRel(<, Nat))
  BY <1>1, NatLessThanWellFounded, WFMin, Zenon
<1>3. \A u \in T : t <= u
  <2>1. \A u, v \in Nat : <<u, v>> \in OpToRel(<, Nat) <=> u < v
    BY Zenon DEF OpToRel
  <2>2. \A u \in T : ~(u < t)
    BY <2>1, <1>1, <1>2, Zenon
  <2> QED BY <2>2, <1>1
<1>4. PICK x \in S : t = b - x
  OBVIOUS
<1>5. \A y \in S : y <= x
  <2> TAKE y \in S
  <2>1. b - y \in T
    OBVIOUS
  <2>2. x \in Int /\ y \in Int /\ t \in Int
    BY <1>1
  <2> HIDE DEF T
  <2> QED BY <2>1, <2>2, <1>3, <1>4
<1>6. \E z \in S : \A y \in S : z >= y
  BY <1>5
<1> QED BY <1>6 DEF Max

\* A set that misses a majority of the old or of the new group has no majority of
\* either.
LEMMA NoOtherMajority ==
    ASSUME NEW q \in Majority, NEW s, s \cap q = {}, NEW b \in {Slot, Slot + 1}
    PROVE  ~(Cardinality(s \cap (0 .. b - 1)) >= b \div 2 + 1)
<1> DEFINE x == s \cap (0 .. b - 1)
<1>0. Slot \in Nat /\ Slot >= 1
  BY JoinAssumption
<1>1. PICK a \in {Slot, Slot + 1} : q \subseteq 0 .. a - 1 /\ Cardinality(q) >= a \div 2 + 1
  BY DEF Majority
<1> DEFINE U == IF a = Slot /\ b = Slot THEN 0 .. Slot - 1 ELSE 0 .. Slot
           size == IF a = Slot /\ b = Slot THEN Slot ELSE Slot + 1
<1>2. IsFiniteSet(U) /\ Cardinality(U) = size
  BY <1>0, FS_Interval
<1>3. x \subseteq U /\ q \subseteq U
  BY <1>0, <1>1
<1>4. IsFiniteSet(x) /\ IsFiniteSet(q)
  BY <1>2, <1>3, FS_Subset
<1>5. Cardinality(x) \in Nat /\ Cardinality(q) \in Nat
  BY <1>4, FS_CardinalityType
<1>6. Cardinality(x) + Cardinality(q) <= size
  <2>1. CASE Cardinality(x) + Cardinality(q) > Cardinality(U)
    BY <2>1, <1>2, <1>3, FS_MajoritiesIntersect
  <2> QED BY <2>1, <1>0, <1>2, <1>5
<1> HIDE DEF x
<1>7. ~(Cardinality(x) >= b \div 2 + 1)
  BY <1>0, <1>1, <1>5, <1>6
<1> QED BY <1>7 DEF x

\* Sets of indexes are finite, and a larger one has more elements.
LEMMA IndexSets ==
    ASSUME NEW n \in Int, NEW T \in SUBSET (1 .. n), NEW S \in SUBSET T
    PROVE  /\ IsFiniteSet(S) /\ Cardinality(S) \in Nat /\ Cardinality(T) \in Nat
           /\ Cardinality(S) <= Cardinality(T)
<1>1. IsFiniteSet(1 .. n)
  BY FS_Interval
<1>2. IsFiniteSet(T)
  BY <1>1, FS_Subset
<1>3. IsFiniteSet(S) /\ Cardinality(S) <= Cardinality(T)
  BY <1>2, FS_Subset
<1> QED BY <1>2, <1>3, FS_CardinalityType

\* What is among the first k entries is among all of them.
LEMMA RequestsType ==
    ASSUME Len(log) \in Nat, NEW k \in Int, k <= Len(log)
    PROVE  Requests(k) \in Seq(Appended) /\ Len(Requests(k)) \in Nat
<1> DEFINE C == {i \in 1 .. k : log[i].type = "CSM"}
           D == {i \in 1 .. Len(log) : log[i].type = "CSM"}
<1>1. C \in SUBSET D /\ D \in SUBSET (1 .. Len(log)) /\ Len(log) \in Int
  OBVIOUS
<1> HIDE DEF C, D
<1>2. Cardinality(C) \in Nat /\ Cardinality(D) \in Nat /\ Cardinality(C) <= Cardinality(D)
  BY <1>1, IndexSets, Zenon
<1>3. [n \in 1 .. Cardinality(C) |-> n] \in Seq(1 .. Cardinality(D))
  <2>1. [n \in 1 .. Cardinality(C) |-> n] \in [1 .. Cardinality(C) -> 1 .. Cardinality(D)]
    BY <1>2
  <2> QED BY <2>1, <1>2, IsASeq
<1>4. Requests(k) \in Seq(Appended)
  BY <1>3 DEF Requests, Appended, C, D
<1> QED BY <1>4, LenProperties

\* Requests are appended, and never removed.
LEMMA AppendedGrows ==
    ASSUME Len(log) \in Nat, Len(log') \in Nat, Len(log) <= Len(log'),
           \A i \in 1 .. Len(log) : log'[i] = log[i]
    PROVE  Appended \subseteq Appended'
<1> DEFINE C == {i \in 1 .. Len(log) : log[i].type = "CSM"}
           D == {i \in 1 .. Len(log') : log'[i].type = "CSM"}
<1>1. C \in SUBSET D /\ D \in SUBSET (1 .. Len(log')) /\ Len(log') \in Int
  OBVIOUS
<1>2. 1 .. Cardinality(C) \subseteq 1 .. Cardinality(D)
  <2> HIDE DEF C, D
  <2>1. Cardinality(C) \in Nat /\ Cardinality(D) \in Nat /\ Cardinality(C) <= Cardinality(D)
    BY <1>1, IndexSets, Zenon
  <2> QED BY <2>1
<1> QED BY <1>2 DEF Appended

LEMMA LastAppliedType ==
    ASSUME NEW k \in Nat
    PROVE  LastApplied(k) \in Int
<1> DEFINE S == {0} \cup {i \in 1 .. k : log[i].type = "CSM"}
<1>1. S \in SUBSET (0 .. k) /\ S # {} /\ 0 \in Int /\ k \in Int
  OBVIOUS
<1>2. Max(S) \in S
  BY <1>1, MaxInSet
<1> QED BY <1>2 DEF LastApplied

-----------------------------------------------------------------------------
(* The configurations.                                                     *)

\* handle_server_join_request makes a configuration of the right size.
LEMMA WithServerOK ==
    ASSUME NEW c \in Cid, SizeOK(c), c.state = "STABLE"
    PROVE  WithServer(c) \in Cid /\ SizeOK(WithServer(c))
<1>0. Slot \in Nat /\ Slot >= 1
  BY JoinAssumption
<1>1. CASE Slot < c.size[1]
  <2>1. WithServer(c) = [c EXCEPT !.on = @ \cup {Slot}]
    BY <1>1 DEF WithServer
  <2> QED BY <2>1, <1>0 DEF Cid, SizeOK
<1>2. CASE ~(Slot < c.size[1])
  <2>1. c.size[1] = Slot /\ c.epoch = 0
    BY <1>0, <1>2 DEF SizeOK
  <2>2. WithServer(c) = [epoch |-> 1, size |-> <<Slot, Slot + 1>>,
                         state |-> "EXTENDED", on |-> c.on \cup {Slot}]
    BY <1>2, <2>1 DEF WithServer
  <2> QED BY <2>2, <1>0 DEF Cid, SizeOK
<1> QED BY <1>1, <1>2

\* check_failure_count only takes a server out.
LEMMA WithoutServerOK ==
    ASSUME NEW c \in Cid, SizeOK(c)
    PROVE  [c EXCEPT !.on = @ \ {Slot}] \in Cid /\ SizeOK([c EXCEPT !.on = @ \ {Slot}])
BY DEF Cid, SizeOK

LEMMA NextCidOK ==
    ASSUME NEW c \in Cid, SizeOK(c), NEW e \in LogEntry,
           e.type = "CONFIG" /\ e.cid.state # "STABLE" => c.state = e.cid.state
    PROVE  /\ NextCid(e, c) \in Cid
           /\ SizeOK(NextCid(e, c))
           /\ NextCid(e, c) # c =>
                /\ e.type = "CONFIG" /\ e.cid.state # "STABLE"
                /\ e.cid.state = "EXTENDED" => NextCid(e, c).state = "TRANSIT"
                /\ e.cid.state = "TRANSIT" => NextCid(e, c).state = "STABLE"
<1>0. Slot \in Nat /\ Slot >= 1
  BY JoinAssumption
<1>1. CASE NextCid(e, c) = c
  BY <1>1
<1>2. CASE e.type = "CONFIG" /\ e.cid.state = "EXTENDED" /\ NextCid(e, c) = [c EXCEPT !.state = "TRANSIT"]
  BY <1>0, <1>2 DEF Cid, SizeOK
<1>3. CASE /\ e.type = "CONFIG" /\ e.cid.state = "TRANSIT"
           /\ NextCid(e, c) = [c EXCEPT !.state = "STABLE", !.size = <<@[2], 0>>]
  <2>1. NextCid(e, c) = [epoch |-> 1, size |-> <<Slot + 1, 0>>, state |-> "STABLE", on |-> c.on]
    BY <1>0, <1>3 DEF Cid, SizeOK
  <2> QED BY <1>0, <1>3, <2>1 DEF Cid, SizeOK
<1> QED BY <1>1, <1>2, <1>3 DEF NextCid

-----------------------------------------------------------------------------
(* The log.                                                                *)

\* No offset is beyond the end of the leader's log.
LEMMA OffsetFacts ==
    ASSUME IInv
    PROVE  /\ Len(log) \in Nat /\ apply \in Nat
           /\ end[Leader] = Len(log) /\ commit[Leader] \in Nat /\ commit[Leader] <= Len(log)
           /\ apply <= commit[Leader]
           /\ \A i \in Node : commit[i] \in Nat /\ commit[i] <= Len(log) /\ end[i] \in Nat
           /\ \A i \in Follower : /\ i \in Node /\ i # 0
                                /\ stored[i] \in Nat /\ stored[i] <= Len(log) /\ polled[i] \in Nat
<1>1. /\ end \in [Node -> Nat] /\ commit \in [Node -> Nat] /\ Len(log) \in Nat
      /\ stored \in [Follower -> Nat] /\ polled \in [Follower -> Nat]
  BY DEF IInv, Shape
<1>2. Offsets /\ apply \in Nat
  BY DEF IInv, Shape
<1>3. 0 \in Node /\ \A i \in Follower : i \in Node /\ i # 0
  BY JoinAssumption
<1> HIDE DEF Node, Follower
<1> QED BY <1>1, <1>2, <1>3 DEF Offsets

\* The scan of update_remote_logs ends with an entry that has enough replies.
LEMMA ScanFacts ==
    ASSUME IInv, CommitEntries
    PROVE  /\ commit'[Leader] \in commit[Leader] + 1 .. Len(log)
           /\ commit' = [commit EXCEPT ![Leader] = commit'[Leader]]
           /\ Replied(commit'[Leader])
           /\ UNCHANGED <<cid, log, end, apply, stored, polled, ep, j, net>>
<1> DEFINE scanned == {k \in commit[Leader] + 1 .. Len(log) :
                         \A n \in commit[Leader] + 1 .. k : Replied(n)}
<1>0. 0 \in Node
  BY JoinAssumption
<1>1. /\ scanned # {} /\ commit' = [commit EXCEPT ![Leader] = Max(scanned)]
      /\ UNCHANGED <<cid, log, end, apply, stored, polled, ep, j, net>>
  BY Zenon DEF CommitEntries
<1>2. commit \in [Node -> Nat] /\ Len(log) \in Nat
  BY DEF IInv, Shape
<1>3. Max(scanned) \in scanned
  <2>1. commit[Leader] + 1 \in Int /\ Len(log) \in Int
    BY <1>0, <1>2
  <2>2. scanned \in SUBSET (commit[Leader] + 1 .. Len(log))
    OBVIOUS
  <2> HIDE DEF scanned
  <2> QED BY <2>1, <2>2, <1>1, MaxInSet
<1>4. commit'[Leader] = Max(scanned)
  BY <1>0, <1>1, <1>2
<1>5. commit'[Leader] \in commit[Leader] + 1 .. Len(log)
  BY <1>3, <1>4
<1>6. commit'[Leader] \in commit[Leader] + 1 .. commit'[Leader]
  <2>1. commit[Leader] \in Nat
    BY <1>0, <1>2
  <2> QED BY <2>1, <1>2, <1>5
<1>7. Replied(commit'[Leader])
  <2>1. \A n \in commit[Leader] + 1 .. commit'[Leader] : Replied(n)
    BY Zenon, <1>3, <1>4
  <2> QED BY Zenon, <2>1, <1>6
<1>8. commit' = [commit EXCEPT ![Leader] = commit'[Leader]]
  BY Zenon, <1>1, <1>4
<1> QED BY <1>1, <1>5, <1>7, <1>8

\* What apply_committed_entries does to an entry.
LEMMA ApplyFacts ==
    ASSUME IInv, ApplyEntry
    PROVE  LET k == apply + 1
               next == NextCid(log[k], cid[Leader])
           IN  /\ k \in 1 .. Len(log) /\ k <= commit[Leader] /\ apply' = k
               /\ log[k] \in LogEntry /\ log[k].req \in BOOLEAN
               /\ next \in Cid /\ SizeOK(next)
               /\ next # cid[Leader] =>
                    /\ Growing(k)
                    /\ log[k].cid.state = "EXTENDED" => next.state = "TRANSIT"
                    /\ log[k].cid.state = "TRANSIT" => next.state = "STABLE"
               /\ cid' = [cid EXCEPT ![Leader] = next]
               /\ log' = IF next = cid[Leader] THEN log ELSE Append(log, Config(next, FALSE))
               /\ end' = [end EXCEPT ![Leader] = Len(log')]
               /\ net' \subseteq net \cup {CfgReply(next)}
               /\ log[k].req \/ (net' \subseteq net /\ ep'.committed = ep.committed)
               /\ ep' \in [last_req_id : Nat, cid_idx : Nat, committed : BOOLEAN]
               /\ UNCHANGED <<commit, stored, polled, j>>
<1> DEFINE k == apply + 1
           c == cid[Leader]
           next == NextCid(log[k], c)
           answer == log[k].req /\ ~(log[k].cid.state # "STABLE" /\ c.epoch > log[k].cid.epoch)
<1>0. Slot \in Nat /\ Slot >= 1 /\ 0 \in Node /\ 0 \in Member
  BY JoinAssumption
<1>1. /\ apply < commit[Leader] /\ apply' = k
      /\ cid' = [cid EXCEPT ![Leader] = next]
      /\ log' = IF next = c THEN log ELSE Append(log, Config(next, FALSE))
      /\ end' = [end EXCEPT ![Leader] = Len(log')]
      /\ ep' = [ep EXCEPT !.committed = @ \/ answer]
      /\ net' \in Sent(net, IF answer THEN {CfgReply(next)} ELSE {})
      /\ UNCHANGED <<commit, stored, polled, j>>
  BY Zenon DEF ApplyEntry
<1>2. k \in 1 .. Len(log) /\ log[k] \in LogEntry /\ k \in Nat /\ k <= commit[Leader]
  <2>1. commit[Leader] \in Nat /\ log \in Seq(LogEntry) /\ Len(log) \in Nat /\ apply \in Nat
        /\ commit[Leader] <= Len(log)
    BY OffsetFacts DEF IInv, Shape
  <2>2. k \in 1 .. Len(log)
    BY <2>1, <1>1
  <2> QED BY <2>1, <2>2, <1>1, ElementOfSeq
<1>3. log[k].req \in BOOLEAN
  BY <1>2 DEF LogEntry
<1>4. c \in Cid /\ SizeOK(c)
  BY <1>0 DEF IInv, Shape, Sizes
<1>5. ASSUME log[k].type = "CONFIG", log[k].cid.state # "STABLE"
      PROVE  c.state = log[k].cid.state /\ Growing(k)
  <2>1. apply \in Nat /\ Len(log) \in Nat
    BY DEF IInv, Shape
  <2>2. Growing(k)
    BY <2>1, <1>2, <1>5 DEF Growing
  <2> QED BY <2>2, <1>2 DEF IInv, OneChange
<1> HIDE DEF k, c, next, answer
<1>6. /\ next \in Cid /\ SizeOK(next)
      /\ next # c =>
           /\ log[k].type = "CONFIG" /\ log[k].cid.state # "STABLE"
           /\ log[k].cid.state = "EXTENDED" => next.state = "TRANSIT"
           /\ log[k].cid.state = "TRANSIT" => next.state = "STABLE"
  BY <1>2, <1>4, <1>5, NextCidOK DEF next
<1>7. net' \subseteq net \cup {CfgReply(next)} /\ (answer \/ net' \subseteq net)
  <2>1. net' \subseteq net \cup (IF answer THEN {CfgReply(next)} ELSE {})
    BY <1>1, SentOnly
  <2> QED BY <2>1
<1>8. /\ ep' \in [last_req_id : Nat, cid_idx : Nat, committed : BOOLEAN]
      /\ answer \/ ep'.committed = ep.committed
  <2>1. ep \in [last_req_id : Nat, cid_idx : Nat, committed : BOOLEAN]
    BY DEF IInv, Shape
  <2>2. CASE answer
    <3>1. ep' = [ep EXCEPT !.committed = TRUE]
      BY Zenon, <1>1, <2>2
    <3> QED BY <3>1, <2>1, <2>2
  <2>3. CASE ~answer
    <3>1. ep' = [ep EXCEPT !.committed = ep.committed]
      <4>1. (ep.committed \/ answer) = ep.committed
        <5>1. ep.committed \in BOOLEAN
          BY <2>1
        <5> QED BY Zenon, <2>3, <5>1
      <4>2. ep' = [ep EXCEPT !.committed = ep.committed \/ answer]
        BY Zenon, <1>1
      <4> QED BY Zenon, <4>1, <4>2
    <3> QED BY <3>1, <2>1
  <2> QED BY <2>2, <2>3
<1>9. answer => log[k].req
  BY DEF answer
<1> QED BY <1>1, <1>2, <1>3, <1>5, <1>6, <1>7, <1>8, <1>9 DEF k, c, next

\* The leader's log only grows, by one entry at a time.
LEMMA LogGrows ==
    ASSUME IInv, Next
    PROVE  /\ log' = log \/ \E e \in LogEntry : log' = Append(log, e)
           /\ log' \in Seq(LogEntry)
           /\ Len(log) \in Nat /\ Len(log') \in Nat /\ Len(log) <= Len(log')
           /\ \A i \in 1 .. Len(log) : log'[i] = log[i]
<1>0. 0 \in Node /\ 0 \in Member
  BY JoinAssumption
<1>1. cid[Leader] \in Cid /\ SizeOK(cid[Leader])
  BY <1>0 DEF IInv, Shape, Sizes
<1>2. \A c \in Cid, r \in BOOLEAN : Config(c, r) \in LogEntry
  BY DEF Config, LogEntry
<1>3. log' = log \/ \E e \in LogEntry : log' = Append(log, e)
  <2>1. CASE Submit
    BY <2>1 DEF Submit, Request, LogEntry
  <2>2. CASE HandleJoin
    <3>1. CASE cid[Leader].state = "STABLE" /\ ~(Slot \in cid[Leader].on)
      <4>1. log' = Append(log, Config(WithServer(cid[Leader]), TRUE))
        BY <2>2, <3>1 DEF HandleJoin
      <4> QED BY <4>1, <1>1, <1>2, <3>1, WithServerOK
    <3>2. CASE ~(cid[Leader].state = "STABLE" /\ ~(Slot \in cid[Leader].on))
      BY <2>2, <3>2 DEF HandleJoin
    <3> QED BY <3>1, <3>2
  <2>3. CASE RemoveServer
    <3> DEFINE c == [cid[Leader] EXCEPT !.on = @ \ {Slot}]
    <3>1. c \in Cid
      BY <1>1 DEF Cid
    <3>2. log' = Append(log, Config(c, FALSE))
      BY <2>3 DEF RemoveServer
    <3> QED BY <3>1, <3>2, <1>2
  <2>4. CASE ApplyEntry
    <3> DEFINE next == NextCid(log[apply + 1], cid[Leader])
    <3>1. next \in Cid /\ log' = IF next = cid[Leader] THEN log ELSE Append(log, Config(next, FALSE))
      BY <2>4, ApplyFacts
    <3> HIDE DEF next
    <3> QED BY <3>1, <1>2
  <2>5. CASE UNCHANGED log
    BY <2>5
  <2> QED BY <2>1, <2>2, <2>3, <2>4, <2>5
          DEF Next, CommitEntries, Replicate, UpdateCommit, PersistNewEntries, PollAndApply, JoinTimer, HandleJoinReply,
              HandleAtJ, UpdateRcInfo, HandleSyn, HandleSynackOrAck, PollSmRequests, PollSmRequestsAgain,
              RecoverSm, RecoverLog, GetReplicatedVote, SendSmRequest, group
<1>4. log \in Seq(LogEntry)
  BY DEF IInv, Shape
<1> HIDE DEF Leader
<1>5. CASE log' = log
  BY <1>4, <1>5
<1>6. ASSUME NEW e \in LogEntry, log' = Append(log, e)
      PROVE  /\ log' \in Seq(LogEntry) /\ Len(log') = Len(log) + 1
             /\ \A i \in 1 .. Len(log) : log'[i] = log[i]
  BY <1>4, <1>6
<1> QED BY <1>3, <1>4, <1>5, <1>6

-----------------------------------------------------------------------------
(* Every step keeps the invariant, part by part.                           *)

LEMMA DatagramFacts ==
    /\ \A t \in {"JOIN", "RC_SYN", "RC_SYNACK", "RC_ACK"}, i \in Member, n \in Nat :
         FromJ(t, i, n) \in Datagram /\ (t # "JOIN" => ToJ(t, i, n) \in Datagram)
    /\ Join \in Datagram
    /\ \A c \in Cid : ep.cid_idx \in Nat => CfgReply(c) \in Datagram
<1>0. Slot \in Nat /\ Slot >= 1
  BY JoinAssumption
<1> QED BY <1>0 DEF FromJ, ToJ, Join, CfgReply, Datagram

LEMMA ExtendedSizeType == ASSUME NEW c \in Cid PROVE ExtendedSize(c) \in Nat
<1>0. Slot \in Nat /\ Slot >= 1
  BY JoinAssumption
<1>1. c.size[1] \in Nat /\ c.size[2] \in Nat
  BY <1>0 DEF Cid
<1> QED BY <1>1 DEF ExtendedSize, Larger

\* Only datagrams are in the network.
LEMMA NetNext ==
    ASSUME IInv, Next
    PROVE  net' \subseteq Datagram
<1>0. Slot \in Nat /\ Slot >= 1 /\ 0 \in Node /\ 0 \in Member /\ Slot \in Node
  BY JoinAssumption
<1>1. /\ net \subseteq Datagram /\ cid \in [Node -> Cid] /\ up \subseteq Member /\ ep.cid_idx \in Nat
  BY DEF IInv, Shape
<1>2. \A i \in Node : ExtendedSize(cid[i]) \in Nat
  BY <1>1, ExtendedSizeType
<1>3. CASE HandleJoin
  <2>1. CASE UNCHANGED net \/ net' = net \ {Join}
    BY <2>1, <1>1
  <2>2. ASSUME NEW s, s = {CfgReply(cid[Leader])} \/ s = {}, net' \in Sent(net \ {Join}, s)
        PROVE  net' \subseteq Datagram
    <3>1. net' \subseteq (net \ {Join}) \cup s
      BY <2>2, SentOnly
    <3> QED BY <3>1, <2>2, <1>0, <1>1, DatagramFacts
  <2> QED BY <1>3, <2>1, <2>2 DEF HandleJoin
<1>4. CASE ApplyEntry
  <2> DEFINE next == NextCid(log[apply + 1], cid[Leader])
  <2>1. next \in Cid /\ net' \subseteq net \cup {CfgReply(next)}
    BY <1>4, ApplyFacts
  <2> HIDE DEF next
  <2> QED BY <2>1, <1>1, DatagramFacts
<1>5. CASE JoinTimer
  <2>1. CASE net' \in Sent(net, {Join})
    <3>1. net' \subseteq net \cup {Join}
      BY <2>1, SentOnly
    <3> QED BY <3>1, <1>1, DatagramFacts
  <2> DEFINE syn == {FromJ("RC_SYN", i, ExtendedSize(cid[Slot])) : i \in up}
  <2>2. CASE net' \in Sent(net, syn)
    <3>1. net' \subseteq net \cup syn
      BY <2>2, SentOnly
    <3>2. syn \subseteq Datagram
      BY <1>0, <1>1, <1>2, DatagramFacts
    <3> QED BY <3>1, <3>2, <1>1
  <2> QED BY <1>5, <2>1, <2>2 DEF JoinTimer
<1>6. ASSUME NEW m \in net, HandleJoinReply(m) \/ HandleAtJ(m) PROVE net' \subseteq Datagram
  <2>1. CASE HandleJoinReply(m)
    BY <2>1, <1>1 DEF HandleJoinReply
  <2>2. CASE HandleAtJ(m)
    <3>1. PICK t \in {"RC_SYNACK", "RC_ACK"} : net' \in Sent(net \ {m}, {FromJ(t, m.from, 1)})
                                              \/ net' \in Sent(net \ {m}, {})
      BY <2>2 DEF HandleAtJ
    <3>2. net' \subseteq (net \ {m}) \cup {FromJ(t, m.from, 1)}
      BY <3>1, SentOnly
    <3>3. m.from \in Member
      BY <2>2, <1>1, <1>0 DEF HandleAtJ, Datagram
    <3> QED BY <3>2, <3>3, <1>1, DatagramFacts
  <2> QED BY <1>6, <2>1, <2>2
<1>7. ASSUME NEW i \in Member, UpdateRcInfo(i) \/ HandleSyn(i) \/ HandleSynackOrAck(i)
      PROVE  net' \subseteq Datagram
  <2>1. CASE UpdateRcInfo(i)
    <3>1. net' \subseteq net \cup {ToJ("RC_SYN", i, ExtendedSize(cid[i]))}
      BY <2>1, SentOnly DEF UpdateRcInfo
    <3>2. ExtendedSize(cid[i]) \in Nat
      BY <1>0, <1>2
    <3> QED BY <3>1, <3>2, <1>1, DatagramFacts
  <2>2. CASE HandleSyn(i) \/ HandleSynackOrAck(i)
    <3>1. PICK m \in net, t \in {"RC_SYNACK", "RC_ACK"}, n \in {0, 1} :
               \/ net' \in Sent(net \ {m}, {ToJ(t, i, n)})
               \/ net' \in Sent(net \ {m}, {})
               \/ net' = net \ {m}
      BY <2>2 DEF HandleSyn, HandleSynackOrAck, SendToSlot
    <3>2. net' \subseteq (net \ {m}) \cup {ToJ(t, i, n)}
      BY <3>1, SentOnly
    <3> QED BY <3>2, <1>1, DatagramFacts
  <2> QED BY <1>7, <2>1, <2>2
<1>8. CASE UNCHANGED net
  BY <1>8, <1>1
<1> QED BY <1>3, <1>4, <1>5, <1>6, <1>7, <1>8
        DEF Next, Submit, RemoveServer, CommitEntries, Replicate, UpdateCommit, PersistNewEntries,
            PollAndApply, PollSmRequests, PollSmRequestsAgain, RecoverSm, RecoverLog, GetReplicatedVote,
            SendSmRequest

\* A configuration that a server finds in the log.
LEMMA PolledCid ==
    ASSUME IInv, NEW i \in Follower, PollAndApply(i)
    PROVE  \/ cid' = cid
           \/ \E k \in 1 .. Len(log) : log[k].type = "CONFIG" /\ cid' = [cid EXCEPT ![i] = log[k].cid]
<1> DEFINE from == IF i = Slot THEN Larger(polled[i], j.cid_idx) ELSE polled[i]
           cfg == {k \in from + 1 .. end[i] : log[k].type = "CONFIG"}
<1>1. cid' = IF cfg = {} THEN cid ELSE [cid EXCEPT ![i] = log[Max(cfg)].cid]
  BY DEF PollAndApply
<1>2. polled[i] \in Nat /\ j.cid_idx \in Nat /\ end[i] \in Nat /\ end[i] <= Len(log) /\ Len(log) \in Nat
  BY DEF IInv, Shape, Offsets, Joiner
<1>3. from \in Nat
  BY <1>2 DEF Larger
<1> HIDE DEF from
<1>4. CASE cfg # {}
  <2>1. from + 1 \in Int /\ end[i] \in Int /\ cfg \in SUBSET (from + 1 .. end[i])
    BY <1>2, <1>3
  <2>2. Max(cfg) \in cfg
    BY <2>1, <1>4, MaxInSet
  <2>3. Max(cfg) \in 1 .. Len(log) /\ log[Max(cfg)].type = "CONFIG"
    BY <2>2, <1>2, <1>3
  <2> QED BY <2>3, <1>1, <1>4
<1> QED BY <1>1, <1>4

\* Every configuration is of the right size.
LEMMA CidNext ==
    ASSUME IInv, Next
    PROVE  cid' \in [Node -> Cid] /\ Sizes'
<1>0. Slot \in Nat /\ Slot >= 1 /\ 0 \in Node /\ 0 \in Member /\ Slot \in Node /\ Slot \notin Member
      /\ Member \subseteq Node
  BY JoinAssumption
<1>1. /\ cid \in [Node -> Cid] /\ log \in Seq(LogEntry) /\ Len(log) \in Nat
      /\ \A i \in Member : SizeOK(cid[i])
      /\ \A k \in 1 .. Len(log) : log[k].type = "CONFIG" => log[k].cid \in Cid /\ SizeOK(log[k].cid)
  BY DEF IInv, Shape, Sizes, LogEntry
<1> DEFINE CidOK == cid' \in [Node -> Cid] /\ \A i \in Member : SizeOK(cid'[i])
           LogOK == \A k \in 1 .. Len(log') : log'[k].type = "CONFIG" => SizeOK(log'[k].cid)
<1>2. ASSUME NEW i \in Node, NEW c \in Cid, SizeOK(c) \/ i = Slot, cid' = [cid EXCEPT ![i] = c]
      PROVE  CidOK
  BY <1>0, <1>1, <1>2
<1>3. ASSUME NEW c \in Cid, SizeOK(c), NEW r, log' = Append(log, Config(c, r))
      PROVE  LogOK
  <2> SUFFICES ASSUME NEW k \in 1 .. Len(log'), log'[k].type = "CONFIG"
               PROVE  SizeOK(log'[k].cid)
    OBVIOUS
  <2>1. Len(log') = Len(log) + 1 /\ log'[Len(log) + 1] = Config(c, r)
        /\ \A l \in 1 .. Len(log) : log'[l] = log[l]
    BY <1>1, <1>3, AppendProperties DEF Config
  <2>2. CASE k = Len(log) + 1
    BY <2>1, <2>2, <1>3 DEF Config
  <2>3. CASE k \in 1 .. Len(log)
    BY <2>1, <2>3, <1>1
  <2> QED BY <1>1, <2>1, <2>2, <2>3
<1>4. CASE HandleJoin
  <2> DEFINE c == cid[Leader]
  <2>1. CASE c.state = "STABLE" /\ ~(Slot \in c.on)
    <3>1. WithServer(c) \in Cid /\ SizeOK(WithServer(c))
      BY <2>1, <1>0, <1>1, WithServerOK
    <3>2. cid' = [cid EXCEPT ![Leader] = WithServer(c)] /\ log' = Append(log, Config(WithServer(c), TRUE))
      BY <1>4, <2>1 DEF HandleJoin
    <3> QED BY <3>1, <3>2, <1>0, <1>2, <1>3 DEF Sizes
  <2>2. CASE ~(c.state = "STABLE" /\ ~(Slot \in c.on))
    <3>1. cid' = cid /\ log' = log
      BY <1>4, <2>2 DEF HandleJoin
    <3> QED BY <3>1, <1>1 DEF Sizes
  <2> QED BY <2>1, <2>2
<1>5. CASE RemoveServer
  <2> DEFINE c == [cid[Leader] EXCEPT !.on = @ \ {Slot}]
  <2>1. c \in Cid /\ SizeOK(c)
    BY <1>0, <1>1, WithoutServerOK
  <2>2. cid' = [cid EXCEPT ![Leader] = c] /\ log' = Append(log, Config(c, FALSE))
    BY <1>5 DEF RemoveServer
  <2> HIDE DEF c
  <2> QED BY <2>1, <2>2, <1>0, <1>2, <1>3 DEF Sizes
<1>6. CASE ApplyEntry
  <2> DEFINE next == NextCid(log[apply + 1], cid[Leader])
  <2>1. /\ next \in Cid /\ SizeOK(next)
        /\ cid' = [cid EXCEPT ![Leader] = next]
        /\ log' = IF next = cid[Leader] THEN log ELSE Append(log, Config(next, FALSE))
    BY <1>6, ApplyFacts
  <2> HIDE DEF next
  <2>2. CidOK
    BY <2>1, <1>0, <1>2
  <2>3. LogOK
    <3>1. CASE log' = log
      BY <3>1, <1>1
    <3> QED BY <3>1, <2>1, <1>3
  <2> QED BY <2>2, <2>3 DEF Sizes
<1>7. ASSUME NEW i \in Follower, PollAndApply(i) PROVE cid' \in [Node -> Cid] /\ Sizes'
  <2>1. log' = log
    BY <1>7 DEF PollAndApply
  <2>2. CASE cid' = cid
    BY <2>1, <2>2, <1>1 DEF Sizes
  <2>3. ASSUME NEW k \in 1 .. Len(log), log[k].type = "CONFIG", cid' = [cid EXCEPT ![i] = log[k].cid]
        PROVE  CidOK
    <3>1. log[k].cid \in Cid /\ SizeOK(log[k].cid)
      BY <2>3, <1>1
    <3> QED BY <3>1, <2>3, <1>2
  <2>4. LogOK
    BY <2>1, <1>1
  <2> QED BY <1>7, <2>2, <2>3, <2>4, PolledCid DEF Sizes
<1>8. ASSUME NEW m \in net, HandleJoinReply(m) PROVE cid' \in [Node -> Cid] /\ Sizes'
  <2>1. m.cid \in Cid
    BY <1>8 DEF HandleJoinReply, IsReply, IInv, Shape, Datagram
  <2>2. log' = log /\ (cid' = cid \/ cid' = [cid EXCEPT ![Slot] = m.cid])
    BY <1>8 DEF HandleJoinReply
  <2>3. CASE cid' = cid
    BY <2>2, <2>3, <1>1 DEF Sizes
  <2>4. CASE cid' = [cid EXCEPT ![Slot] = m.cid]
    BY <2>1, <2>2, <2>4, <1>0, <1>1, <1>2 DEF Sizes
  <2> QED BY <2>2, <2>3, <2>4
<1>9. CASE UNCHANGED <<cid, log>>
  BY <1>1, <1>9 DEF Sizes
<1>10. CASE Submit
  <2>1. cid' = cid /\ log' = Append(log, Request)
    BY <1>10 DEF Submit
  <2>2. Request \in LogEntry /\ Request.type # "CONFIG"
    BY DEF Request, LogEntry
  <2>3. LogOK
    BY <2>1, <2>2, <1>1, AppendProperties
  <2> QED BY <2>1, <2>3, <1>1 DEF Sizes
<1> QED BY <1>4, <1>5, <1>6, <1>7, <1>8, <1>9, <1>10
        DEF Next, CommitEntries, Replicate, UpdateCommit, PersistNewEntries, JoinTimer, HandleAtJ,
            UpdateRcInfo, HandleSyn, HandleSynackOrAck, PollSmRequests, PollSmRequestsAgain, RecoverSm,
            RecoverLog, GetReplicatedVote, SendSmRequest, group

\* The leader has every entry; the others have a prefix, and the joining server has
\* none before it recovers a log.
LEMMA OffsetsNext ==
    ASSUME IInv, Next
    PROVE  /\ end' \in [Node -> Nat] /\ commit' \in [Node -> Nat] /\ apply' \in Nat
           /\ stored' \in [Follower -> Nat] /\ polled' \in [Follower -> Nat]
           /\ j' \in Joiner
           /\ Offsets' /\ Progress'
<1> DEFINE Goal == /\ end' \in [Node -> Nat] /\ commit' \in [Node -> Nat] /\ apply' \in Nat
                   /\ stored' \in [Follower -> Nat] /\ polled' \in [Follower -> Nat]
                   /\ j' \in Joiner /\ Offsets' /\ Progress'
<1>0. Slot \in Nat /\ Slot >= 1 /\ 0 \in Node /\ 0 \in Member /\ Slot \in Node /\ Slot \in Follower
      /\ 0 \notin Follower /\ Follower \subseteq Node /\ Member \subseteq Node /\ Slot # 0
  BY JoinAssumption
<1>1. /\ end \in [Node -> Nat] /\ commit \in [Node -> Nat] /\ apply \in Nat
      /\ stored \in [Follower -> Nat] /\ polled \in [Follower -> Nat]
      /\ j \in Joiner
  BY DEF IInv, Shape
<1>2. Offsets /\ Progress
  BY DEF IInv
<1>3. /\ Len(log) \in Nat /\ Len(log') \in Nat /\ Len(log) <= Len(log')
  BY LogGrows
<1> HIDE DEF Member, Follower, Node
<1>4. CASE /\ end' = [end EXCEPT ![Leader] = Len(log')]
           /\ UNCHANGED <<commit, apply, stored, polled, j>>
  BY SMTT(30), <1>0, <1>1, <1>2, <1>3, <1>4 DEF Offsets, Progress
<1>5. CASE Submit \/ HandleJoin \/ RemoveServer
  <2>1. CASE end' = [end EXCEPT ![Leader] = Len(log')] /\ UNCHANGED <<commit, apply, stored, polled, j>>
    BY <2>1, <1>4
  <2>2. CASE UNCHANGED <<log, end, commit, apply, stored, polled, j>>
    BY <2>2, <1>1, <1>2 DEF Offsets, Progress
  <2> QED BY <1>5, <2>1, <2>2 DEF Submit, HandleJoin, RemoveServer
<1>6. CASE CommitEntries
  <2>1. /\ commit'[Leader] \in commit[Leader] + 1 .. Len(log)
        /\ commit' = [commit EXCEPT ![Leader] = commit'[Leader]]
        /\ UNCHANGED <<log, end, apply, stored, polled, j>>
    BY <1>6, ScanFacts
  <2>2. commit'[Leader] \in Nat /\ commit[Leader] \in Nat /\ commit[Leader] <= commit'[Leader]
        /\ commit'[Leader] <= Len(log)
    BY <2>1, <1>0, <1>1, <1>3
  <2>3. commit' \in [Node -> Nat] /\ Progress'
    BY <2>1, <2>2, <1>1, <1>2 DEF Progress
  <2>4. \A n \in Node : n # 0 => commit'[n] = commit[n]
    BY <2>1, <1>1
  <2>5. Offsets'
    BY SMTT(30), <2>1, <2>2, <2>4, <1>0, <1>1, <1>2, <1>3 DEF Offsets
  <2> QED BY <2>1, <2>3, <2>5, <1>1
<1>18. CASE ApplyEntry
  <2>1. /\ apply + 1 <= commit[Leader] /\ apply' = apply + 1
        /\ end' = [end EXCEPT ![Leader] = Len(log')]
        /\ UNCHANGED <<commit, stored, polled, j>>
    BY <1>18, ApplyFacts
  <2>2. end' \in [Node -> Nat] /\ Progress' /\ apply' \in Nat
    BY <2>1, <1>0, <1>1, <1>2, <1>3 DEF Progress
  <2>3. Offsets'
    BY SMTT(30), <2>1, <1>0, <1>1, <1>2, <1>3 DEF Offsets
  <2> QED BY <2>1, <2>2, <2>3, <1>1
<1>7. ASSUME NEW i \in Follower, Replicate(i) PROVE Goal
  <2>1. /\ end' = [end EXCEPT ![i] = Len(log)] /\ log' = log
        /\ UNCHANGED <<commit, apply, stored, polled, j>>
        /\ i = Slot => j.logrec
    BY <1>7 DEF Replicate, Reached
  <2>2. i \in Node /\ i # 0
    BY <1>0
  <2>3. end' \in [Node -> Nat] /\ Progress'
    BY <2>1, <2>2, <1>0, <1>1, <1>2, <1>3 DEF Progress
  <2>4. \A n \in Node : end'[n] \in Nat /\ end[n] <= end'[n] /\ end'[n] <= Len(log)
    BY <2>1, <2>2, <1>1, <1>2, <1>3 DEF Offsets
  <2>5. Offsets'
    BY SMTT(30), <2>1, <2>2, <2>4, <1>0, <1>1, <1>2, <1>3 DEF Offsets
  <2> QED BY <2>1, <2>3, <2>5, <1>1
<1>8. ASSUME NEW i \in Follower, UpdateCommit(i) PROVE Goal
  <2>1. /\ commit' = [commit EXCEPT ![i] = RemoteCommit(i)]
        /\ commit[i] < RemoteCommit(i)
        /\ UNCHANGED <<log, end, apply, stored, polled, j>>
    BY <1>8 DEF UpdateCommit
  <2>2. RemoteCommit(i) \in Nat /\ RemoteCommit(i) <= end[i]
    BY <1>0, <1>1 DEF RemoteCommit
  <2>3. i \in Node /\ i # 0
    BY <1>0
  <2>4. commit' \in [Node -> Nat] /\ Progress'
    BY <2>1, <2>2, <2>3, <1>1, <1>2 DEF Progress
  <2>5. \A n \in Node : commit'[n] \in Nat /\ commit[n] <= commit'[n] /\ commit'[n] <= end[n]
    BY <2>1, <2>2, <2>3, <1>1, <1>2 DEF Offsets
  <2>6. Offsets'
    BY SMTT(30), <2>1, <2>5, <1>0, <1>1, <1>2 DEF Offsets
  <2> QED BY <2>1, <2>4, <2>6, <1>1
<1>9. ASSUME NEW i \in Follower, PersistNewEntries(i) PROVE Goal
  <2>1. /\ stored' = [stored EXCEPT ![i] = end[i]]
        /\ UNCHANGED <<log, end, commit, apply, polled>>
        /\ j' = j \/ j' = [j EXCEPT !.lost = end[i]]
    BY <1>9 DEF PersistNewEntries
  <2>2. j' \in Joiner /\ Progress'
    BY <2>1, <1>0, <1>1, <1>2 DEF Joiner, Progress
  <2> QED BY SMTT(30), <2>1, <2>2, <1>0, <1>1, <1>2, <1>3 DEF Offsets
<1>10. ASSUME NEW i \in Follower, PollAndApply(i) PROVE Goal
  <2>1. /\ polled' = [polled EXCEPT ![i] = commit[i]]
        /\ UNCHANGED <<log, end, commit, apply, stored>>
        /\ j' = j \/ j' = [j EXCEPT !.apply = commit[i]]
    BY <1>10 DEF PollAndApply
  <2>2. j' \in Joiner /\ Progress'
    BY <2>1, <1>0, <1>1, <1>2 DEF Joiner, Progress
  <2> QED BY SMTT(30), <2>1, <2>2, <1>0, <1>1, <1>2, <1>3 DEF Offsets
<1>11. ASSUME NEW i \in Member, RecoverLog(i) PROVE Goal
  <2>1. /\ j.timer = "log"
        /\ end' = [end EXCEPT ![Slot] = end[i]]
        /\ commit' = [commit EXCEPT ![Slot] = commit[i]]
        /\ j' = [j EXCEPT !.logrec = TRUE, !.timer = "update"]
        /\ UNCHANGED <<log, apply, stored, polled>>
    BY <1>11 DEF RecoverLog, LogRecovered
  <2>2. j' \in Joiner /\ Progress'
    BY <2>1, <1>0, <1>1, <1>2 DEF Joiner, Progress
  <2>3. end[Slot] = 0 /\ i \in Node
    BY <2>1, <1>0, <1>2 DEF Progress
  <2> QED BY <2>1, <2>2, <2>3, <1>0, <1>1, <1>2, <1>3 DEF Offsets
<1>12. ASSUME UNCHANGED <<log, end, commit, apply, stored, polled>>, j' \in Joiner, Progress' PROVE Goal
  BY <1>12, <1>1, <1>2 DEF Offsets
<1>13. ASSUME NEW m \in net, HandleJoinReply(m) PROVE Goal
  <2>1. m.cid_idx \in Nat
    BY <1>13 DEF HandleJoinReply, IsReply, IInv, Shape, Datagram
  <2>2. PICK r \in Nat, x \in Nat :
             j' = [j EXCEPT !.request_id = r, !.cid_idx = x, !.joined = TRUE, !.timer = "exchange"]
    <3> DEFINE known == m.id < j.request_id
    <3>1. j' = [j EXCEPT !.request_id = IF known THEN @ ELSE @ + 1,
                         !.cid_idx = IF known THEN @ ELSE m.cid_idx,
                         !.joined = TRUE, !.timer = "exchange"]
      BY <1>13 DEF HandleJoinReply
    <3> HIDE DEF known
    <3>2. (IF known THEN j.request_id ELSE j.request_id + 1) \in Nat
          /\ (IF known THEN j.cid_idx ELSE m.cid_idx) \in Nat
      BY <1>1, <2>1 DEF Joiner
    <3> QED BY <3>1, <3>2
  <2>3. UNCHANGED <<log, end, commit, apply, stored, polled>>
    BY <1>13 DEF HandleJoinReply
  <2>4. j' \in Joiner
    BY <2>2, <1>1 DEF Joiner
  <2>5. /\ j'.joined /\ j'.timer = "exchange" /\ j'.est = j.est /\ j'.sm = j.sm /\ j'.logrec = j.logrec
    BY <2>2, <1>1 DEF Joiner
  <2>6. Progress'
    BY <2>3, <2>5, <1>2 DEF Progress
  <2> QED BY <2>3, <2>4, <2>6, <1>12
<1>14. ASSUME NEW m \in net, HandleAtJ(m) PROVE Goal
  <2>1. j' = JTimer(rc') /\ UNCHANGED <<log, end, commit, apply, stored, polled>> /\ (rc' # rc => j.joined)
    BY <1>14 DEF HandleAtJ, group
  <2>2. j' = j \/ (j.joined /\ ~j.est /\ j' = [j EXCEPT !.est = TRUE, !.timer = "vote"])
    BY <2>1 DEF JTimer
  <2>3. j' \in Joiner /\ Progress'
    BY <2>1, <2>2, <1>1, <1>2 DEF Joiner, Progress
  <2> QED BY <2>1, <2>3, <1>12
<1>15. CASE GetReplicatedVote
  <2>1. j' = [j EXCEPT !.timer = "sm"] /\ UNCHANGED <<log, end, commit, apply, stored, polled>>
    BY <1>15 DEF GetReplicatedVote, group
  <2>2. j' \in Joiner /\ Progress'
    BY <2>1, <1>1, <1>2 DEF Joiner, Progress
  <2> QED BY <2>1, <2>2, <1>12
<1>16. ASSUME NEW i \in Member, RecoverSm(i) PROVE Goal
  <2>1. /\ j' = [j EXCEPT !.sm = TRUE, !.apply = snapshot[i].last, !.timer = "log"]
        /\ j.est /\ ~j.sm /\ UNCHANGED <<log, end, commit, apply, stored, polled>>
    BY <1>16 DEF RecoverSm, PollSmReply, group
  <2>2. snapshot[i].last \in Int
    BY DEF IInv, Shape
  <2>3. j' \in Joiner /\ Progress'
    BY <2>1, <2>2, <1>1, <1>2 DEF Joiner, Progress
  <2> QED BY <2>1, <2>3, <1>12
<1>17. CASE UNCHANGED <<log, end, commit, apply, stored, polled, j>>
  BY <1>17, <1>1, <1>2 DEF Offsets, Progress
<1> QED BY <1>5, <1>6, <1>7, <1>8, <1>9, <1>10, <1>11, <1>13, <1>14, <1>15, <1>16, <1>17, <1>18
        DEF Next, JoinTimer, UpdateRcInfo, HandleSyn, HandleSynackOrAck, PollSmRequests,
            PollSmRequestsAgain, SendSmRequest, group

\* What a step does to the endpoint of the joining server at the members.
LEMMA CtxNext ==
    ASSUME IInv, Next
    PROVE  ctx' \in [Member -> Context]
<1>0. 0 \in Member
  BY JoinAssumption
<1>1. ctx \in [Member -> Context]
  BY DEF IInv, Shape
<1>2. ASSUME NEW i \in Member, NEW x \in Context, ctx' = [ctx EXCEPT ![i] = x]
      PROVE  ctx' \in [Member -> Context]
  BY <1>1, <1>2
<1>3. ASSUME NEW i \in Follower, PollAndApply(i) PROVE ctx' \in [Member -> Context]
  <2>1. ctx' = ctx \/ (i \in Member /\ ctx' = [ctx EXCEPT ![i] = [on |-> FALSE, qp |-> "none", ud |-> "none"]])
    BY <1>3 DEF PollAndApply, Disconnected
  <2> QED BY <2>1, <1>1, <1>2 DEF Context
<1>4. CASE HandleJoin
  <2>1. ctx' = ctx \/ ctx' = [ctx EXCEPT ![Leader].on = FALSE, ![Leader].ud = "J"]
    BY <1>4 DEF HandleJoin
  <2> QED BY ZenonT(30), <2>1, <1>0, <1>1 DEF Context
<1>5. CASE RemoveServer
  BY <1>5, <1>0, <1>2 DEF RemoveServer, Context
<1>6. ASSUME NEW i \in Member, HandleSyn(i) \/ HandleSynackOrAck(i) PROVE ctx' \in [Member -> Context]
  <2>1. \/ ctx' = ctx
        \/ \E b \in BOOLEAN : ctx' = [ctx EXCEPT ![i] = [on |-> b, qp |-> "J", ud |-> "J"]]
        \/ ctx' = [ctx EXCEPT ![i].on = TRUE]
    BY <1>6 DEF HandleSyn, HandleSynackOrAck
  <2>2. ASSUME NEW b \in BOOLEAN, ctx' = [ctx EXCEPT ![i] = [on |-> b, qp |-> "J", ud |-> "J"]]
        PROVE  ctx' \in [Member -> Context]
    BY <2>2, <1>2 DEF Context
  <2>3. CASE ctx' = [ctx EXCEPT ![i].on = TRUE]
    <3>1. [ctx[i] EXCEPT !.on = TRUE] \in Context
      BY <1>1 DEF Context
    <3> QED BY <2>3, <3>1, <1>1
  <2> QED BY <2>1, <2>2, <2>3, <1>1
<1>7. CASE UNCHANGED ctx
  BY <1>1, <1>7
<1> QED BY <1>3, <1>4, <1>5, <1>6, <1>7
        DEF Next, Submit, CommitEntries, ApplyEntry, Replicate, UpdateCommit, PersistNewEntries,
            JoinTimer, HandleJoinReply, HandleAtJ, UpdateRcInfo, PollSmRequests, PollSmRequestsAgain,
            RecoverSm, RecoverLog, GetReplicatedVote, SendSmRequest

\* A snapshot is made of requests that are in the log, and the application gets no
\* others.
LEMMA DeliveredNext ==
    ASSUME IInv, Next
    PROVE  Delivered' /\ snapshot' \in [Member -> [records : Seq(Nat), last : Int]]
<1>1. /\ app \in Seq(Appended) /\ \A i \in Member : snapshot[i].records \in Seq(Appended)
      /\ snapshot \in [Member -> [records : Seq(Nat), last : Int]]
      /\ Len(log) \in Nat
  BY DEF IInv, Shape, Delivered
<1>2. Appended \subseteq Appended'
  BY LogGrows, AppendedGrows
<1>3. Seq(Appended) \subseteq Seq(Appended')
  BY <1>2, SeqMonotonic
<1>4. CASE UNCHANGED <<app, snapshot>>
  BY <1>1, <1>3, <1>4 DEF Delivered
<1>5. ASSUME NEW i \in Member, PollSmRequests(i)
      PROVE  Delivered' /\ snapshot' \in [Member -> [records : Seq(Nat), last : Int]]
  <2> DEFINE new == [records |-> Records(i), last |-> LastApplied(polled[i])]
  <2>1. snapshot' = [snapshot EXCEPT ![i] = new] /\ app' = app /\ i \in Follower
    BY <1>5, JoinAssumption DEF PollSmRequests
  <2>2. stored[i] \in Nat /\ stored[i] <= Len(log) /\ polled[i] \in Nat
    BY <2>1, OffsetFacts
  <2>3. Records(i) \in Seq(Appended)
    BY <2>2, <1>1, RequestsType DEF Records
  <2>4. LastApplied(polled[i]) \in Int
    BY <2>2, LastAppliedType
  <2>5. Seq(Appended) \subseteq Seq(Nat)
    <3>1. Appended \subseteq Nat
      BY DEF Appended
    <3> QED BY <3>1, SeqMonotonic
  <2>6. new \in [records : Seq(Nat), last : Int] /\ new.records \in Seq(Appended)
    BY <2>3, <2>4, <2>5
  <2> HIDE DEF new
  <2> QED BY <2>1, <2>6, <1>1, <1>3 DEF Delivered
<1>6. ASSUME NEW i \in Follower, PollAndApply(i), app' # app
      PROVE  app' \in Seq(Appended)
  <2> DEFINE all == Requests(commit[i])
             done == Len(Requests(j.apply))
  <2>1. i = Slot /\ j.apply < commit[i] /\ app' = app \o SubSeq(all, done + 1, Len(all))
    BY <1>6 DEF PollAndApply
  <2>2. commit[i] \in Nat /\ commit[i] <= Len(log) /\ j.apply \in Int
    BY OffsetFacts DEF IInv, Shape, Joiner
  <2>3. all \in Seq(Appended) /\ Len(all) \in Nat /\ done \in Nat
    BY <2>1, <2>2, <1>1, RequestsType
  <2> HIDE DEF all, done
  <2>4. SubSeq(all, done + 1, Len(all)) \in Seq(Appended)
    BY <2>3, SubSeqProperties
  <2> QED BY <2>1, <2>4, <1>1, ConcatProperties
<1>7. ASSUME NEW i \in Member, RecoverSm(i) PROVE app' \in Seq(Appended) /\ snapshot' = snapshot
  BY <1>7, <1>1 DEF RecoverSm
<1>8. CASE app' \in Seq(Appended) /\ snapshot' = snapshot
  BY <1>1, <1>3, <1>8 DEF Delivered
<1>9. ASSUME NEW i \in Follower, PollAndApply(i) PROVE app' \in Seq(Appended) /\ snapshot' = snapshot
  BY <1>1, <1>6, <1>9 DEF PollAndApply
<1> QED BY <1>4, <1>5, <1>7, <1>8, <1>9
        DEF Next, Submit, HandleJoin, RemoveServer, CommitEntries, ApplyEntry, Replicate, UpdateCommit,
            PersistNewEntries, JoinTimer, HandleJoinReply, HandleAtJ, UpdateRcInfo, HandleSyn,
            HandleSynackOrAck, PollSmRequestsAgain, RecoverLog, GetReplicatedVote, SendSmRequest

LEMMA ShapeNext ==
    ASSUME IInv, Next
    PROVE  Shape'
<1>1. ep' \in [last_req_id : Nat, cid_idx : Nat, committed : BOOLEAN]
  <2>0. ep \in [last_req_id : Nat, cid_idx : Nat, committed : BOOLEAN] /\ Len(log') \in Nat
    BY LogGrows DEF IInv, Shape
  <2>1. CASE HandleJoin
    <3>1. ep' = ep \/ ep' = [last_req_id |-> 1, cid_idx |-> Len(log'), committed |-> FALSE]
      BY <2>1 DEF HandleJoin
    <3>2. [last_req_id |-> 1, cid_idx |-> Len(log'), committed |-> FALSE]
          \in [last_req_id : Nat, cid_idx : Nat, committed : BOOLEAN]
      BY <2>0
    <3> QED BY <3>1, <3>2, <2>0
  <2>2. CASE ApplyEntry
    BY <2>2, ApplyFacts
  <2>3. CASE UNCHANGED ep
    BY <2>0, <2>3
  <2> QED BY <2>1, <2>2, <2>3
          DEF Next, Submit, RemoveServer, CommitEntries, Replicate, UpdateCommit, PersistNewEntries,
              PollAndApply, JoinTimer, HandleJoinReply, HandleAtJ, UpdateRcInfo, HandleSyn, HandleSynackOrAck,
              PollSmRequests, PollSmRequestsAgain, RecoverSm, RecoverLog, GetReplicatedVote,
              SendSmRequest, group
<1>2. rc' \subseteq Member
  <2>0. rc \subseteq Member /\ net \subseteq Datagram
    BY DEF IInv, Shape
  <2>1. ASSUME NEW m \in net, HandleAtJ(m) PROVE rc' \subseteq Member
    <3>1. rc' = rc \/ rc' = rc \cup {m.from}
      BY <2>1 DEF HandleAtJ
    <3>2. m.from \in Member
      BY <2>0, <2>1, JoinAssumption DEF HandleAtJ, Datagram
    <3> QED BY <3>1, <3>2, <2>0
  <2>2. CASE UNCHANGED rc
    BY <2>0, <2>2
  <2> QED BY <2>1, <2>2
          DEF Next, Submit, HandleJoin, RemoveServer, CommitEntries, ApplyEntry, Replicate, UpdateCommit,
              PersistNewEntries, PollAndApply, JoinTimer, HandleJoinReply, UpdateRcInfo, HandleSyn,
              HandleSynackOrAck, PollSmRequests, PollSmRequestsAgain, RecoverSm, RecoverLog,
              GetReplicatedVote, SendSmRequest
<1>3. up' \subseteq Member
  <2>0. up \subseteq Member
    BY DEF IInv, Shape
  <2> QED BY <2>0
          DEF Next, Submit, HandleJoin, RemoveServer, CommitEntries, ApplyEntry, Replicate, UpdateCommit,
              PersistNewEntries, PollAndApply, JoinTimer, HandleJoinReply, HandleAtJ, UpdateRcInfo,
              HandleSyn, HandleSynackOrAck, PollSmRequests, PollSmRequestsAgain, RecoverSm, RecoverLog,
              GetReplicatedVote, SendSmRequest
<1>4. todo' \in Nat
  <2>0. todo \in Nat
    BY DEF IInv, Shape
  <2>1. CASE Submit
    BY <2>0, <2>1 DEF Submit
  <2>2. CASE UNCHANGED todo
    BY <2>0, <2>2
  <2> QED BY <2>1, <2>2
          DEF Next, HandleJoin, RemoveServer, CommitEntries, ApplyEntry, Replicate, UpdateCommit, PersistNewEntries,
              PollAndApply, JoinTimer, HandleJoinReply, HandleAtJ, UpdateRcInfo, HandleSyn,
              HandleSynackOrAck, PollSmRequests, PollSmRequestsAgain, RecoverSm, RecoverLog,
              GetReplicatedVote, SendSmRequest, group
<1> QED BY <1>1, <1>2, <1>3, <1>4, LogGrows, NetNext, CidNext, OffsetsNext, CtxNext, DeliveredNext
        DEF Shape

\* A change of size is one entry at a time.
LEMMA OneChangeNext ==
    ASSUME IInv, Next
    PROVE  OneChange'
<1>0. 0 \in Node /\ 0 \in Member
  BY JoinAssumption
<1>1. /\ apply \in Nat /\ Len(log) \in Nat /\ log \in Seq(LogEntry)
      /\ cid \in [Node -> Cid]
  BY <1>0, OffsetFacts DEF IInv, Shape
<1>2. \A k \in Nat : Growing(k) => /\ log[k].cid.state = cid[Leader].state
                                   /\ \A l \in Nat : Growing(l) => l = k
  BY DEF IInv, OneChange
<1>3. \A k : Growing(k) => k \in Nat /\ log[k].cid.state # "STABLE"
  BY <1>1 DEF Growing
<1>a. ASSUME NEW e \in LogEntry, log' = Append(log, e)
      PROVE  /\ Len(log') = Len(log) + 1 /\ log'[Len(log) + 1] = e
             /\ \A l \in 1 .. Len(log) : log'[l] = log[l]
  BY <1>1, <1>a, AppendProperties
<1>4. CASE UNCHANGED <<log, cid[Leader], apply>>
  <2>1. \A k : Growing(k)' <=> Growing(k)
    BY <1>4 DEF Growing
  <2> QED BY <2>1, <1>2, <1>4 DEF OneChange
<1>5. ASSUME NEW e, e.type = "CONFIG" => e.cid.state = "STABLE", log' = Append(log, e), e \in LogEntry,
             cid'[Leader].state = cid[Leader].state, UNCHANGED apply
      PROVE  OneChange'
  <2>1. Len(log') = Len(log) + 1 /\ log'[Len(log) + 1] = e /\ \A l \in 1 .. Len(log) : log'[l] = log[l]
    BY <1>a, <1>5
  <2>2. \A k : Growing(k)' => Growing(k) /\ log'[k] = log[k]
    BY <2>1, <1>1, <1>5 DEF Growing
  <2> QED BY <2>2, <1>2, <1>5 DEF OneChange
<1>6. CASE Submit
  BY <1>5, <1>6 DEF Submit, Request, LogEntry
<1>7. CASE HandleJoin
  <2> DEFINE c == cid[Leader]
  <2>1. CASE c.state = "STABLE" /\ ~(Slot \in c.on)
    <3>1. /\ log' = Append(log, Config(WithServer(c), TRUE))
          /\ cid' = [cid EXCEPT ![Leader] = WithServer(c)] /\ UNCHANGED apply
      BY <1>7, <2>1 DEF HandleJoin
    <3>2. WithServer(c) \in Cid
      BY <2>1, <1>0, <1>1, WithServerOK DEF IInv, Sizes
    <3>3. Config(WithServer(c), TRUE) \in LogEntry /\ Config(WithServer(c), TRUE).cid = WithServer(c)
      BY <3>2 DEF Config, LogEntry
    <3>4. Len(log') = Len(log) + 1 /\ log'[Len(log) + 1] = Config(WithServer(c), TRUE)
          /\ \A l \in 1 .. Len(log) : log'[l] = log[l]
      BY <3>1, <3>3, <1>a
    <3>5. \A k : ~Growing(k)
      BY <2>1, <1>2, <1>3
    <3>6. ASSUME NEW k, Growing(k)' PROVE k = Len(log) + 1
      <4>1. k \in apply + 1 .. Len(log) + 1
        BY <3>1, <3>4, <3>6 DEF Growing
      <4>2. CASE k \in 1 .. Len(log)
        <5>1. log'[k] = log[k]
          BY <3>4, <4>2
        <5>2. Growing(k)
          BY <3>6, <4>1, <4>2, <5>1, <1>1 DEF Growing
        <5> QED BY <5>2, <3>5
      <4> QED BY <4>1, <4>2, <1>1
    <3>7. cid'[Leader] = WithServer(c)
      BY <3>1, <1>0, <1>1
    <3> QED BY <3>3, <3>4, <3>6, <3>7 DEF OneChange
  <2>2. CASE ~(c.state = "STABLE" /\ ~(Slot \in c.on))
    BY <1>4, <1>7, <2>2 DEF HandleJoin
  <2> QED BY <2>1, <2>2
<1>8. CASE RemoveServer
  <2> DEFINE c == [cid[Leader] EXCEPT !.on = @ \ {Slot}]
  <2>1. c \in Cid /\ c.state = "STABLE" /\ cid[Leader].state = "STABLE"
    BY <1>0, <1>1, <1>8 DEF Cid, RemoveServer
  <2>2. cid' = [cid EXCEPT ![Leader] = c] /\ log' = Append(log, Config(c, FALSE)) /\ UNCHANGED apply
    BY <1>8 DEF RemoveServer
  <2> HIDE DEF c
  <2>3. Config(c, FALSE) \in LogEntry /\ Config(c, FALSE).cid = c
    BY <2>1 DEF Config, LogEntry
  <2>4. cid'[Leader] = c
    BY <2>2, <1>0, <1>1
  <2> QED BY <2>1, <2>2, <2>3, <2>4, <1>5
<1>9. CASE ApplyEntry
  <2> DEFINE k == apply + 1
             next == NextCid(log[k], cid[Leader])
  <2>1. /\ k \in 1 .. Len(log) /\ next \in Cid /\ apply' = k
        /\ next # cid[Leader] =>
             /\ Growing(k)
             /\ log[k].cid.state = "EXTENDED" => next.state = "TRANSIT"
             /\ log[k].cid.state = "TRANSIT" => next.state = "STABLE"
        /\ cid' = [cid EXCEPT ![Leader] = next]
        /\ log' = IF next = cid[Leader] THEN log ELSE Append(log, Config(next, FALSE))
    BY <1>9, ApplyFacts
  <2> HIDE DEF next
  <2>3. apply' = apply + 1 /\ cid'[Leader] = next
    BY <2>1, <1>0, <1>1
  <2>4. CASE next = cid[Leader]
    <3>1. \A l : Growing(l)' => Growing(l)
      BY <2>1, <2>3, <2>4, <1>1 DEF Growing
    <3> QED BY <3>1, <2>1, <2>3, <2>4, <1>2 DEF OneChange
  <2>5. CASE next # cid[Leader]
    <3>1. Config(next, FALSE) \in LogEntry /\ Config(next, FALSE).cid = next
      BY <2>1 DEF Config, LogEntry
    <3>2. Len(log') = Len(log) + 1 /\ log'[Len(log) + 1] = Config(next, FALSE)
          /\ \A l \in 1 .. Len(log) : log'[l] = log[l]
      BY <2>1, <2>5, <3>1, <1>a
    <3>3. \A l : Growing(l) => l = k
      BY <2>1, <2>5, <1>1, <1>2, <1>3
    <3>4. ASSUME NEW l, Growing(l)' PROVE l = Len(log) + 1
      <4>1. l \in Nat /\ l > k /\ l <= Len(log) + 1
        BY <3>2, <3>4, <2>3, <1>1 DEF Growing
      <4>2. CASE l \in 1 .. Len(log)
        BY <4>1, <4>2, <3>2, <3>3, <3>4, <1>1 DEF Growing
      <4> QED BY <4>1, <4>2, <1>1
    <3> QED BY <3>1, <3>2, <3>4, <2>3 DEF OneChange
  <2> QED BY <2>4, <2>5
<1>10. ASSUME NEW i \in Follower, Replicate(i) \/ UpdateCommit(i) \/ PersistNewEntries(i) \/ PollAndApply(i)
       PROVE  OneChange'
  <2>1. i # 0
    BY <1>10
  <2>2. CASE UpdateCommit(i)
    <3>1. log' = log /\ cid' = cid /\ apply' = apply
      BY <2>2 DEF UpdateCommit
    <3> QED BY <3>1, <1>4
  <2>3. CASE PollAndApply(i)
    <3>1. log' = log /\ apply' = apply
      BY <2>3 DEF PollAndApply
    <3>2. cid'[Leader] = cid[Leader]
      BY <2>1, <2>3, <1>0, <1>1, PolledCid
    <3> QED BY <3>1, <3>2, <1>4
  <2>4. CASE UNCHANGED <<log, cid, apply>>
    BY <2>4, <1>4
  <2> QED BY <1>10, <2>2, <2>3, <2>4 DEF Replicate, PersistNewEntries
<1>11. ASSUME NEW m \in net, HandleJoinReply(m) PROVE OneChange'
  <2>1. log' = log /\ apply' = apply /\ (cid' = cid \/ cid' = [cid EXCEPT ![Slot] = m.cid])
    BY <1>11 DEF HandleJoinReply
  <2>2. Slot # 0
    BY JoinAssumption
  <2> QED BY <2>1, <2>2, <1>0, <1>1, <1>4
<1>12. CASE UNCHANGED <<log, cid, apply>>
  BY <1>12, <1>4
<1> QED BY <1>6, <1>7, <1>8, <1>9, <1>10, <1>11, <1>12
        DEF Next, CommitEntries, JoinTimer, HandleAtJ, UpdateRcInfo, HandleSyn, HandleSynackOrAck,
            PollSmRequests, PollSmRequestsAgain, RecoverSm, RecoverLog, GetReplicatedVote, SendSmRequest, group

\* A member never talks to the server over the QP of the server's earlier life, and
\* believes it is heard.
LEMMA GhostsNext ==
    ASSUME IInv, Next
    PROVE  Ghosts'
<1> SUFFICES ASSUME NEW i \in Member, ctx'[i].qp = "old"
             PROVE  Severed(i)'
  BY DEF Ghosts
<1>0. Slot \in Nat /\ Slot >= 1 /\ 0 \in Member /\ Slot \notin Member /\ i # Slot /\ i \in 0 .. Slot
  BY JoinAssumption
<1>1. net \subseteq Datagram /\ ctx \in [Member -> Context]
  BY DEF IInv, Shape
<1>2. ctx[i].qp = "old" => Severed(i)
  BY DEF IInv, Ghosts
<1> HIDE DEF Member
<1> DEFINE Harmless(m) == /\ m.from = i => m.type \notin {"RC_SYNACK", "RC_ACK"}
                          /\ m.to = i => m.type # "RC_ACK"
<1>3. ASSUME ctx[i].qp = "old", i \notin rc', \A m \in net' : m \in net \/ Harmless(m),
             ctx'[i].on => ctx'[i].ud = "old"
      PROVE  Severed(i)'
  BY <1>2, <1>3 DEF Severed
<1>4. ASSUME ctx'[i] = ctx[i], rc' = rc, \A m \in net' : m \in net \/ Harmless(m)
      PROVE  Severed(i)'
  BY <1>2, <1>3, <1>4 DEF Severed
<1>5. /\ Harmless(Join)
      /\ \A c : Harmless(CfgReply(c))
      /\ \A k, n : Harmless(FromJ("RC_SYN", k, n)) /\ Harmless(ToJ("RC_SYN", k, n))
      /\ \A t, k, n : k # i => Harmless(ToJ(t, k, n)) /\ Harmless(FromJ(t, k, n))
      /\ \A n : Harmless(FromJ("RC_SYNACK", i, n))
  BY <1>0 DEF Join, CfgReply, FromJ, ToJ
<1>6. CASE HandleJoin
  <2>1. rc' = rc /\ (ctx' = ctx \/ ctx' = [ctx EXCEPT ![Leader].on = FALSE, ![Leader].ud = "J"])
    BY <1>6 DEF HandleJoin
  <2>2. \A m \in net' : m \in net \/ Harmless(m)
    <3>1. net' \subseteq net \cup {CfgReply(cid[Leader])}
      <4>1. CASE net' = net \ {Join}
        BY <4>1
      <4>2. CASE net' \in Sent(net \ {Join}, {CfgReply(cid[Leader])}) \/ net' \in Sent(net \ {Join}, {})
        BY <4>2, SentOnly
      <4> QED BY <1>6, <4>1, <4>2 DEF HandleJoin
    <3> HIDE DEF Harmless
    <3> QED BY <3>1, <1>5
  <2>3. ctx[i].qp = "old" /\ (ctx'[i] = ctx[i] \/ ctx'[i].on = FALSE)
    BY <2>1, <1>0, <1>1 DEF Context
  <2>4. CASE ctx'[i].on = FALSE
    BY <2>1, <2>2, <2>3, <2>4, <1>2, <1>3 DEF Severed
  <2> QED BY <2>1, <2>2, <2>3, <2>4, <1>4
<1>7. CASE ApplyEntry
  <2>1. ctx' = ctx /\ rc' = rc
    BY <1>7 DEF ApplyEntry
  <2>2. \A m \in net' : m \in net \/ Harmless(m)
    <3> DEFINE next == NextCid(log[apply + 1], cid[Leader])
    <3>1. net' \subseteq net \cup {CfgReply(next)}
      BY <1>7, ApplyFacts
    <3> HIDE DEF next, Harmless
    <3> QED BY <3>1, <1>5
  <2> QED BY <2>1, <2>2, <1>4
<1>8. CASE JoinTimer
  <2>1. ctx' = ctx /\ rc' = rc
    BY <1>8 DEF JoinTimer
  <2>2. \A m \in net' : m \in net \/ Harmless(m)
    <3> DEFINE syn == {FromJ("RC_SYN", k, ExtendedSize(cid[Slot])) : k \in up}
    <3>1. net' \in Sent(net, {Join}) \/ net' \in Sent(net, syn)
      BY <1>8 DEF JoinTimer
    <3>2. net' \subseteq net \cup {Join} \/ net' \subseteq net \cup syn
      BY <3>1, SentOnly
    <3> HIDE DEF Harmless
    <3> QED BY <3>2, <1>5
  <2> QED BY <2>1, <2>2, <1>4
<1>9. ASSUME NEW k \in Member, UpdateRcInfo(k) PROVE Severed(i)'
  <2>1. ctx' = ctx /\ rc' = rc /\ net' \subseteq net \cup {ToJ("RC_SYN", k, ExtendedSize(cid[k]))}
    BY <1>9, SentOnly DEF UpdateRcInfo
  <2>2. \A m \in net' : m \in net \/ Harmless(m)
    <3> HIDE DEF Harmless
    <3> QED BY <2>1, <1>5
  <2> QED BY <2>1, <2>2, <1>4
<1>10. ASSUME NEW k \in Member, HandleSyn(k) \/ HandleSynackOrAck(k) PROVE Severed(i)'
  <2>1. CASE k # i
    <3>1. ctx'[i] = ctx[i] /\ rc' = rc
      <4>1. ctx' = ctx \/ \E x : ctx' = [ctx EXCEPT ![k] = x]
        BY <1>10 DEF HandleSyn, HandleSynackOrAck
      <4> QED BY <1>1, <1>10, <2>1, <4>1 DEF HandleSyn, HandleSynackOrAck
    <3>2. PICK m \in net, t \in {"RC_SYNACK", "RC_ACK"}, n \in {0, 1} :
               \/ net' \in Sent(net \ {m}, {ToJ(t, k, n)})
               \/ net' \in Sent(net \ {m}, {})
               \/ net' = net \ {m}
      BY <1>10 DEF HandleSyn, HandleSynackOrAck, SendToSlot
    <3>3. net' \subseteq (net \ {m}) \cup {ToJ(t, k, n)}
      BY <3>2, SentOnly
    <3>4. \A x \in net' : x \in net \/ Harmless(x)
      <4> HIDE DEF Harmless
      <4> QED BY <2>1, <3>3, <1>5
    <3> QED BY <3>1, <3>4, <1>4
  <2>2. CASE k = i /\ HandleSyn(i)
    <3>1. PICK m \in net :
            \/ ctx' = ctx /\ net' = net \ {m}
            \/ ctx[i].on /\ ctx' = ctx /\ net' \in Sent(net \ {m}, SendToSlot(i))
            \/ ctx' = [ctx EXCEPT ![i] = [on |-> FALSE, qp |-> "J", ud |-> "J"]]
      BY <2>2 DEF HandleSyn
    <3>2. ctx' = ctx /\ rc' = rc /\ (net' = net \ {m} \/ (ctx[i].on /\ net' \in Sent(net \ {m}, SendToSlot(i))))
      BY <3>1, <1>1, <2>2 DEF HandleSyn
    <3>3. net' \subseteq net
      <4>1. CASE net' = net \ {m}
        BY <4>1
      <4>2. CASE ctx[i].on /\ net' \in Sent(net \ {m}, SendToSlot(i))
        <5>1. SendToSlot(i) = {}
          BY <4>2, <3>2, <1>2 DEF SendToSlot, Severed
        <5> QED BY <4>2, <5>1, SentOnly
      <4> QED BY <3>2, <4>1, <4>2
    <3> QED BY <3>2, <3>3, <1>4
  <2>3. CASE k = i /\ HandleSynackOrAck(i)
    <3>1. PICK m \in net :
            /\ m.type \in {"RC_SYNACK", "RC_ACK"} /\ m.to = i
            /\ \/ net' = net \ {m} /\ ctx' = ctx
               \/ /\ ctx' = CASE ctx[i].on -> ctx
                              [] m.type = "RC_SYNACK" ->
                                   [ctx EXCEPT ![i] = [on |-> TRUE, qp |-> "J", ud |-> "J"]]
                              [] OTHER -> [ctx EXCEPT ![i].on = TRUE]
                  /\ net' \in Sent(net \ {m}, IF m.type = "RC_SYNACK" /\ ctx'[i].ud = "J"
                                             THEN {ToJ("RC_ACK", i, 0)} ELSE {})
      BY <2>3, Zenon DEF HandleSynackOrAck
    <3>0. rc' = rc
      BY <2>3 DEF HandleSynackOrAck
    <3>2. ctx[i].qp = "old"
      BY <3>1, <1>1 DEF Context
    <3>3. m.type = "RC_SYNACK"
      BY <3>1, <3>2, <1>2 DEF Severed
    <3>4. ctx' = ctx /\ (net' = net \ {m} \/ ctx[i].on)
      BY <3>1, <3>3, <1>1
    <3>5. net' \subseteq net
      <4>1. CASE net' = net \ {m}
        BY <4>1
      <4>2. CASE ctx[i].on
        <5>1. ctx'[i].ud # "J"
          BY <4>2, <3>2, <3>4, <1>2 DEF Severed
        <5>2. net' = net \ {m} \/ net' \in Sent(net \ {m}, {})
          BY <3>1, <5>1
        <5> QED BY <5>2, SentOnly
      <4> QED BY <3>4, <4>1, <4>2
    <3> QED BY <3>0, <3>4, <3>5, <1>4
  <2> QED BY <1>10, <2>1, <2>2, <2>3
<1>11. ASSUME NEW m \in net, HandleAtJ(m) PROVE Severed(i)'
  <2>1. /\ m.to = Slot /\ ctx' = ctx /\ ~IsReply(m)
        /\ rc' = rc \/ (m.type # "RC_SYN" /\ rc' = rc \cup {m.from})
        /\ \/ net' \in Sent(net \ {m}, {})
           \/ m.type = "RC_SYN" /\ net' \in Sent(net \ {m}, {FromJ("RC_SYNACK", m.from, 1)})
           \/ m.type \notin {"RC_SYN", "RC_ACK"} /\ net' \in Sent(net \ {m}, {FromJ("RC_ACK", m.from, 1)})
    BY <1>11 DEF HandleAtJ
  <2>2. m.from \in Member /\ m.type \in {"RC_SYN", "RC_SYNACK", "RC_ACK"}
    BY <2>1, <1>0, <1>1 DEF Datagram, IsReply
  <2>3. ctx[i].qp = "old" /\ Severed(i)
    BY <2>1, <1>2
  <2>4. m.type # "RC_SYN" => m.from # i
    BY <2>2, <2>3 DEF Severed
  <2>5. i \notin rc'
    BY <2>1, <2>3, <2>4 DEF Severed
  <2>6. \/ net' \subseteq net
        \/ net' \subseteq net \cup {FromJ("RC_SYNACK", m.from, 1)}
        \/ m.from # i /\ net' \subseteq net \cup {FromJ("RC_ACK", m.from, 1)}
    BY <2>1, <2>4, SentOnly
  <2>7. \A x \in net' : x \in net \/ Harmless(x)
    <3> HIDE DEF Harmless
    <3> QED BY <2>6, <1>5
  <2> QED BY <2>1, <2>3, <2>5, <2>7, <1>3 DEF Severed
<1>12. ASSUME NEW k \in Follower, PollAndApply(k) PROVE Severed(i)'
  <2>1. /\ rc' = rc /\ net' = net
        /\ ctx' = ctx \/ (k \in Member /\ ctx' = [ctx EXCEPT ![k] = [on |-> FALSE, qp |-> "none", ud |-> "none"]])
    BY <1>12 DEF PollAndApply, Disconnected
  <2>2. ctx'[i] = ctx[i]
    BY <2>1, <1>1
  <2> QED BY <2>1, <2>2, <1>4
<1>13. CASE RemoveServer
  <2>1. /\ rc' = rc /\ net' = net
        /\ ctx' = [ctx EXCEPT ![Leader] = [on |-> FALSE, qp |-> "none", ud |-> "none"]]
    BY <1>13 DEF RemoveServer
  <2>2. ctx'[i] = ctx[i]
    BY <2>1, <1>0, <1>1
  <2> QED BY <2>1, <2>2, <1>4
<1>14. CASE UNCHANGED <<ctx, rc>> /\ net' \subseteq net
  BY <1>4, <1>14
<1> QED BY <1>6, <1>7, <1>8, <1>9, <1>10, <1>11, <1>12, <1>13, <1>14
        DEF Next, Submit, CommitEntries, Replicate, UpdateCommit, PersistNewEntries, HandleJoinReply,
            PollSmRequests, PollSmRequestsAgain, RecoverSm, RecoverLog, GetReplicatedVote, SendSmRequest

\* No server loses an entry, the leader's apply offset never goes back, and only
\* CommitEntries moves its commit offset.
LEMMA EndGrows ==
    ASSUME IInv, Next
    PROVE  /\ \A n \in Node : end'[n] >= end[n]
           /\ apply <= apply'
           /\ ~CommitEntries => commit'[Leader] = commit[Leader]
<1>0. 0 \in Node /\ Slot \in Node /\ Slot # 0
  BY JoinAssumption
<1>1. /\ end \in [Node -> Nat] /\ commit \in [Node -> Nat] /\ Len(log) \in Nat /\ Len(log') \in Nat
      /\ Len(log) <= Len(log') /\ \A n \in Node : end[n] <= Len(log)
  BY LogGrows DEF IInv, Shape, Offsets
<1>2. \A i \in Follower : i \in Node /\ i # 0
  BY OffsetFacts
<1> HIDE DEF Node, Follower
<1>a. apply \in Nat /\ (apply' = apply \/ apply' = apply + 1)
  BY DEF IInv, Shape, Next, Submit, HandleJoin, RemoveServer, CommitEntries, ApplyEntry, Replicate,
         UpdateCommit, PersistNewEntries, PollAndApply, JoinTimer, HandleJoinReply, HandleAtJ,
         UpdateRcInfo, HandleSyn, HandleSynackOrAck, PollSmRequests, PollSmRequestsAgain, RecoverSm,
         RecoverLog, GetReplicatedVote, SendSmRequest, group
<1> DEFINE Goal == (\A n \in Node : end'[n] >= end[n]) /\ (~CommitEntries => commit'[Leader] = commit[Leader])
<1>3. ASSUME end' = end \/ end' = [end EXCEPT ![Leader] = Len(log')],
             CommitEntries \/ commit' = commit
      PROVE  Goal
  BY <1>0, <1>1, <1>3
<1>4. ASSUME NEW i \in Follower, Replicate(i)
      PROVE  Goal
  BY <1>1, <1>2, <1>4 DEF Replicate
<1>5. ASSUME NEW i \in Follower, UpdateCommit(i)
      PROVE  Goal
  BY <1>0, <1>1, <1>2, <1>5 DEF UpdateCommit
<1>6. ASSUME NEW i \in Member, RecoverLog(i)
      PROVE  Goal
  <2>1. /\ end' = [end EXCEPT ![Slot] = end[i]]
        /\ commit' = [commit EXCEPT ![Slot] = commit[i]]
        /\ j.timer = "log"
    BY <1>6 DEF RecoverLog
  <2>2. end[Slot] = 0
    BY <2>1 DEF IInv, Progress
  <2>3. end[i] \in Nat
    BY <1>1, JoinAssumption DEF Node
  <2> QED BY <2>1, <2>2, <2>3, <1>0, <1>1
<1>7. Goal
  BY <1>3, <1>4, <1>5, <1>6
     DEF Next, Submit, HandleJoin, RemoveServer, CommitEntries, ApplyEntry, PersistNewEntries,
         PollAndApply, JoinTimer, HandleJoinReply, HandleAtJ, UpdateRcInfo, HandleSyn,
         HandleSynackOrAck, PollSmRequests, PollSmRequestsAgain, RecoverSm, GetReplicatedVote,
         SendSmRequest, group
<1> QED BY <1>7, <1>a

LEMMA Between ==
    \A a, b, c, n \in Nat : \A k : a <= b /\ c <= n /\ k \in b + 1 .. c =>
                                   k \in a + 1 .. c /\ k \in 1 .. n
OBVIOUS

\* Whoever is told that the join request is answered is told so by a leader that
\* committed it.
LEMMA AnsweredNext ==
    ASSUME IInv, Next, ~CommitEntries, Answered'
    PROVE  Answered
<1> DEFINE Old == \A m \in net' : IsReply(m) => m \in net
<1>0. ~IsReply(Join) /\ \A t \in {"RC_SYN", "RC_SYNACK", "RC_ACK"} : \A i, n : ~IsReply(FromJ(t, i, n)) /\ ~IsReply(ToJ(t, i, n))
  BY DEF Join, FromJ, ToJ, IsReply
<1>a. j \in Joiner
  BY DEF IInv, Shape
<1>b. ASSUME NEW k, k \in apply' + 1 .. commit'[Leader], log'[k].req PROVE Answered
  <2>1. /\ apply \in Nat /\ apply' \in Nat /\ commit[Leader] \in Nat /\ commit[Leader] <= Len(log)
        /\ Len(log) \in Nat
    BY OffsetFacts, OffsetsNext
  <2>2. apply <= apply' /\ commit'[Leader] = commit[Leader]
    BY EndGrows
  <2>3. k \in apply + 1 .. commit[Leader] /\ k \in 1 .. Len(log)
    <3>1. k \in apply' + 1 .. commit[Leader]
      BY Zenon, <2>2, <1>b
    <3> QED BY Zenon, <3>1, <2>1, <2>2, Between
  <2>4. log'[k] = log[k]
    BY <2>3, LogGrows
  <2> QED BY <1>b, <2>3, <2>4 DEF Answered
<1>1. ASSUME j'.joined = j.joined, ep'.committed => ep.committed, Old PROVE Answered
  BY <1>1, <1>b DEF Answered
<1>2. CASE HandleJoin
  <2>1. j' = j
    BY <1>2 DEF HandleJoin
  <2>2. CASE ep.committed
    BY <2>2 DEF Answered
  <2>3. CASE ~ep.committed
    <3>1. ep' = ep \/ ep'.committed = FALSE
      <4>1. ep' = ep \/ ep' = [last_req_id |-> 1, cid_idx |-> Len(log'), committed |-> FALSE]
        BY <1>2 DEF HandleJoin
      <4> QED BY <4>1
    <3>2. net' = net \ {Join} \/ net' \in Sent(net \ {Join}, {})
      BY <1>2, <2>3 DEF HandleJoin
    <3>3. net' \subseteq net
      BY <3>2, SentOnly
    <3> QED BY <2>1, <3>1, <3>3, <1>1
  <2> QED BY <2>2, <2>3
<1>3. CASE JoinTimer
  <2> DEFINE syn == {FromJ("RC_SYN", i, ExtendedSize(cid[Slot])) : i \in up}
  <2>1. j' = j /\ ep' = ep /\ (net' \in Sent(net, {Join}) \/ net' \in Sent(net, syn))
    BY <1>3 DEF JoinTimer, group
  <2>2. net' \subseteq net \cup {Join} \/ net' \subseteq net \cup syn
    BY <2>1, SentOnly
  <2>3. Old
    BY <2>2, <1>0
  <2> QED BY <2>1, <2>3, <1>1
<1>4. ASSUME NEW m \in net, HandleJoinReply(m) PROVE Answered
  BY <1>4 DEF HandleJoinReply, Answered
<1>5. ASSUME NEW m \in net, HandleAtJ(m) PROVE Answered
  <2>1. PICK t \in {"RC_SYNACK", "RC_ACK"} : net' \in Sent(net \ {m}, {FromJ(t, m.from, 1)})
                                            \/ net' \in Sent(net \ {m}, {})
    BY <1>5 DEF HandleAtJ
  <2>2. net' \subseteq (net \ {m}) \cup {FromJ(t, m.from, 1)}
    BY <2>1, SentOnly
  <2>3. Old
    BY <2>2, <1>0
  <2>4. ep' = ep /\ (j' = j \/ j' = [j EXCEPT !.est = TRUE, !.timer = "vote"])
    BY <1>5 DEF HandleAtJ, JTimer, group
  <2>5. j'.joined = j.joined
    BY <2>4, <1>a DEF Joiner
  <2> QED BY <2>3, <2>4, <2>5, <1>1
<1>6. ASSUME NEW i \in Member, UpdateRcInfo(i) \/ HandleSyn(i) \/ HandleSynackOrAck(i) PROVE Answered
  <2>1. PICK t, n : t \in {"RC_SYN", "RC_SYNACK", "RC_ACK"} /\ net' \subseteq net \cup {ToJ(t, i, n)}
    <3>1. CASE UpdateRcInfo(i)
      BY <3>1, SentOnly DEF UpdateRcInfo
    <3>2. CASE HandleSyn(i) \/ HandleSynackOrAck(i)
      <4>1. PICK m \in net, t \in {"RC_SYNACK", "RC_ACK"}, n \in {0, 1} :
                 \/ net' \in Sent(net \ {m}, {ToJ(t, i, n)})
                 \/ net' \in Sent(net \ {m}, {})
                 \/ net' = net \ {m}
        BY <3>2 DEF HandleSyn, HandleSynackOrAck, SendToSlot
      <4>2. net' \subseteq (net \ {m}) \cup {ToJ(t, i, n)}
        BY <4>1, SentOnly
      <4> QED BY <4>2
    <3> QED BY <1>6, <3>1, <3>2
  <2>3. Old
    BY <2>1, <1>0
  <2>4. j' = j /\ ep' = ep
    BY <1>6 DEF UpdateRcInfo, HandleSyn, HandleSynackOrAck, group
  <2> QED BY <2>3, <2>4, <1>1
<1>7. ASSUME NEW i \in Follower, PersistNewEntries(i) \/ PollAndApply(i) PROVE Answered
  <2>1. /\ net' = net /\ ep' = ep
        /\ j' = j \/ (\E x : j' = [j EXCEPT !.lost = x]) \/ (\E x : j' = [j EXCEPT !.apply = x])
    BY <1>7 DEF PersistNewEntries, PollAndApply
  <2>2. j'.joined = j.joined
    BY <2>1, <1>a DEF Joiner
  <2> QED BY <2>1, <2>2, <1>1
<1>8. ASSUME NEW i \in Member, RecoverSm(i) \/ RecoverLog(i) PROVE Answered
  <2>1. /\ net' = net /\ ep' = ep
        /\ \/ j' = [j EXCEPT !.sm = TRUE, !.apply = snapshot[i].last, !.timer = "log"]
           \/ j' = [j EXCEPT !.logrec = TRUE, !.timer = "update"]
    BY <1>8 DEF RecoverSm, RecoverLog, LogRecovered, group
  <2>2. j'.joined = j.joined
    BY <2>1, <1>a DEF Joiner
  <2> QED BY <2>1, <2>2, <1>1
<1>9. CASE GetReplicatedVote
  <2>1. net' = net /\ ep' = ep /\ j' = [j EXCEPT !.timer = "sm"]
    BY <1>9 DEF GetReplicatedVote, group
  <2>2. j'.joined = j.joined
    BY <2>1, <1>a DEF Joiner
  <2> QED BY <2>1, <2>2, <1>1
<1>10. CASE UNCHANGED <<j, ep, net>>
  BY <1>1, <1>10
<1>11. CASE ApplyEntry
  <2> DEFINE k == apply + 1
  <2>1. /\ k <= commit[Leader] /\ j' = j
        /\ log[k].req \/ (net' \subseteq net /\ ep'.committed = ep.committed)
    BY <1>11, ApplyFacts
  <2>2. CASE log[k].req
    <3>1. apply \in Nat /\ commit[Leader] \in Nat
      BY OffsetFacts
    <3>2. k \in apply + 1 .. commit[Leader]
      BY <2>1, <3>1
    <3> QED BY <2>2, <3>2 DEF Answered
  <2>3. CASE net' \subseteq net /\ ep'.committed = ep.committed
    BY <2>1, <2>3, <1>1
  <2> QED BY <2>1, <2>2, <2>3
<1> QED BY <1>2, <1>3, <1>4, <1>5, <1>6, <1>7, <1>8, <1>9, <1>10, <1>11
        DEF Next, Submit, RemoveServer, Replicate, UpdateCommit, PollSmRequests, PollSmRequestsAgain,
            SendSmRequest, group

\* A majority of the old or of the new group has all that is committed.
LEMMA CommittedQuorumNext ==
    ASSUME IInv, CommittedQuorum, Next
    PROVE  CommittedQuorum'
<1>0. Slot \in Nat /\ Slot >= 1 /\ 0 \in Node
  BY JoinAssumption
<1>1. end \in [Node -> Nat] /\ end' \in [Node -> Nat] /\ commit \in [Node -> Nat]
  BY OffsetsNext DEF IInv, Shape
<1>2. \A q \in Majority : q \subseteq Node
  BY <1>0 DEF Majority
<1>3. CASE ~CommitEntries
  <2>1. PICK q \in Majority : \A n \in q : end[n] >= commit[Leader] \/ (n = Slot /\ ~Answered)
    BY DEF CommittedQuorum
  <2>2. ASSUME NEW n \in q PROVE end'[n] >= commit'[Leader] \/ (n = Slot /\ ~Answered')
    <3>1. n \in Node /\ end'[n] >= end[n] /\ commit'[Leader] = commit[Leader]
      BY <1>2, <1>3, EndGrows
    <3>2. CASE end[n] >= commit[Leader]
      <4>1. end[n] \in Nat /\ end'[n] \in Nat /\ commit[Leader] \in Nat
        BY <3>1, <1>0, <1>1
      <4> QED BY <3>1, <3>2, <4>1
    <3>3. CASE n = Slot /\ ~Answered
      BY <3>3, <1>3, AnsweredNext
    <3> QED BY <2>1, <3>2, <3>3
  <2>3. Majority' = Majority
    BY DEF Majority
  <2> QED BY <2>2, <2>3 DEF CommittedQuorum
<1>4. CASE CommitEntries
  <2> DEFINE k == commit'[Leader]
             c == cid[Leader]
             size == c.size[IF c.state = "TRANSIT" THEN 2 ELSE 1]
  <2>1. /\ k \in commit[Leader] + 1 .. Len(log) /\ end' = end
        /\ \E q \in EnoughReplies(c) : q \subseteq Replies(k) \cup {Leader}
    BY <1>4, ScanFacts DEF Replied
  <2>2. PICK q \in EnoughReplies(c) : q \subseteq Replies(k) \cup {Leader}
    BY <2>1
  <2>3. size \in {Slot, Slot + 1}
    BY <1>0 DEF IInv, Sizes, SizeOK
  <2>4. q \in Majority
    <3>1. q \subseteq 0 .. size - 1 /\ Cardinality(q) >= size \div 2 + 1
      BY Zenon, <2>2 DEF EnoughReplies
    <3> HIDE DEF size, c
    <3>2. 0 .. size - 1 \subseteq Node
      BY <2>3, <1>0
    <3>3. q \in SUBSET Node
      BY <3>1, <3>2
    <3> QED BY Zenon, <3>1, <3>3, <2>3 DEF Majority
  <2>5. k \in Nat /\ k <= Len(log) /\ Len(log) \in Nat /\ end[Leader] = Len(log)
    BY <2>1, OffsetFacts
  <2>6. ASSUME NEW n \in q PROVE end'[n] >= k
    <3>1. CASE n = Leader
      BY <2>1, <2>5, <3>1
    <3>2. CASE n \in Follower /\ k <= stored[n]
      <4>1. stored[n] \in Nat /\ end[n] \in Nat /\ stored[n] <= end[n]
        BY <3>2, <1>1, OffsetFacts DEF IInv, Offsets
      <4> QED BY <3>2, <4>1, <2>1, <2>5
    <3> QED BY <2>2, <3>1, <3>2 DEF Replies
  <2>7. Majority' = Majority
    BY DEF Majority
  <2> HIDE DEF k
  <2> QED BY <2>4, <2>6, <2>7 DEF CommittedQuorum, k
<1> QED BY <1>3, <1>4

-----------------------------------------------------------------------------
(* Theorems.                                                               *)

LEMMA InitInv == ASSUME Init PROVE IInv
<1>0. Slot \in Nat /\ Slot >= 1 /\ 0 \in Node /\ 0 \in Member /\ Slot \in Node /\ Slot \in Follower
      /\ 0 \notin Follower /\ Follower \subseteq Node /\ Member \subseteq Node /\ Slot # 0
      /\ Start \subseteq {"new", "member", "joined"} \X Nat \X Nat
      /\ \A n \in Node : n # Slot => n \in Member
  BY JoinAssumption
<1> DEFINE G(w) == IF w = "new" THEN Member ELSE Node
           C(w) == [epoch |-> 0, size |-> <<Cardinality(G(w)), 0>>, state |-> "STABLE", on |-> G(w)]
           J(w) == IF w = "joined" THEN <<Config(C(w), TRUE)>> ELSE <<>>
<1>1. PICK s \in Start, has \in SUBSET Node, linked \in SUBSET Member :
        /\ Leader \in has /\ has \subseteq G(s[1])
        /\ Cardinality(has) > Cardinality(G(s[1])) \div 2
        /\ cid = [i \in Node |-> C(s[1])]
        /\ ctx = [i \in Member |->
                    IF s[1] = "new" THEN [on |-> FALSE, qp |-> "none", ud |-> "none"]
                    ELSE [on |-> i \in linked, qp |-> "old", ud |-> "old"]]
        /\ log = J(s[1]) \o [k \in 1 .. s[2] |-> Request]
        /\ todo = s[3]
        /\ end = [i \in Node |-> IF i = Slot THEN 0
                                 ELSE IF i \in has THEN Len(log) ELSE Len(J(s[1]))]
        /\ ep = [NoEndpoint EXCEPT !.last_req_id = Len(J(s[1])), !.cid_idx = Len(J(s[1])),
                                    !.committed = J(s[1]) # <<>>]
  BY ZenonT(60) DEF Init
<1>2. s[1] \in {"new", "member", "joined"} /\ s[2] \in Nat /\ s[3] \in Nat
  BY <1>0, <1>1
<1> DEFINE a == IF s[1] = "new" THEN Slot ELSE Slot + 1
<1>3. Cardinality(G(s[1])) = a /\ G(s[1]) = 0 .. a - 1 /\ a \in {Slot, Slot + 1}
  <2>1. Cardinality(0 .. Slot) = Slot + 1
    BY <1>0, FS_Interval
  <2>2. Cardinality(0 .. Slot - 1) = Slot
    BY <1>0, FS_Interval
  <2> QED BY <2>1, <2>2, <1>0, <1>2
<1> DEFINE g == G(s[1])
           c0 == C(s[1])
           joined == J(s[1])
<1>4. cid = [i \in Node |-> c0] /\ has \subseteq 0 .. a - 1 /\ Cardinality(has) > a \div 2
  BY <1>1, <1>3
<1>5. c0 \in Cid /\ SizeOK(c0) /\ c0.state = "STABLE"
  <2>1. g \subseteq Node
    BY <1>0
  <2>2. c0 = [epoch |-> 0, size |-> <<a, 0>>, state |-> "STABLE", on |-> g]
    BY <1>3
  <2> HIDE DEF g, a, c0
  <2> QED BY <2>1, <2>2, <1>0, <1>3 DEF Cid, SizeOK
<1>6. /\ joined \in Seq(LogEntry) /\ Len(joined) \in Nat
      /\ \A k \in 1 .. Len(joined) : joined[k] = Config(c0, TRUE)
      /\ s[1] # "joined" => joined = <<>>
  <2>1. Config(c0, TRUE) \in LogEntry
    BY <1>5 DEF Config, LogEntry
  <2>2. joined = IF s[1] = "joined" THEN <<Config(c0, TRUE)>> ELSE <<>>
    OBVIOUS
  <2> HIDE DEF c0, joined, C, G, J
  <2>3. CASE s[1] = "joined"
    <3>1. joined = <<Config(c0, TRUE)>>
      BY <2>2, <2>3
    <3> DEFINE x == Config(c0, TRUE)
    <3>2. x \in LogEntry
      BY <2>1
    <3> HIDE DEF x
    <3>3. <<x>> \in Seq(LogEntry) /\ Len(<<x>>) = 1 /\ \A k \in 1 .. 1 : <<x>>[k] = x
      BY <3>2
    <3> QED BY <2>3, <3>1, <3>3 DEF x
  <2>4. CASE s[1] # "joined"
    <3>1. joined = <<>>
      BY <2>2, <2>4
    <3> QED BY <2>4, <3>1
  <2> QED BY <2>3, <2>4
<1> HIDE DEF a, g, c0, joined, C, G, J
<1>7. /\ log \in Seq(LogEntry) /\ Len(log) = Len(joined) + s[2]
      /\ \A k \in 1 .. Len(log) : log[k] = Request \/ log[k] = Config(c0, TRUE)
  <2> DEFINE r == [k \in 1 .. s[2] |-> Request]
  <2>1. Request \in LogEntry
    BY DEF Request, LogEntry
  <2>2. r \in Seq(LogEntry)
    BY <2>1, <1>2, IsASeq
  <2>3. Len(r) = s[2] /\ \A k \in 1 .. s[2] : r[k] = Request
    <3>1. DOMAIN r = 1 .. s[2] /\ DOMAIN r = 1 .. Len(r) /\ Len(r) \in Nat
      BY <2>2, LenProperties
    <3> QED BY <3>1, <1>2
  <2>4. log = joined \o r
    BY <1>1 DEF joined
  <2> HIDE DEF r
  <2>5. log \in Seq(LogEntry) /\ Len(log) = Len(joined) + Len(r)
        /\ \A k \in 1 .. Len(joined) + Len(r) :
             log[k] = IF k <= Len(joined) THEN joined[k] ELSE r[k - Len(joined)]
    BY <2>2, <2>4, <1>6, ConcatProperties
  <2>6. ASSUME NEW k \in 1 .. Len(log) PROVE log[k] = Request \/ log[k] = Config(c0, TRUE)
    <3>1. CASE k <= Len(joined)
      <4>1. k \in 1 .. Len(joined)
        BY <3>1, <1>6
      <4>2. log[k] = joined[k]
        BY <2>5, <3>1
      <4> QED BY <4>1, <4>2, <1>6
    <3>2. CASE ~(k <= Len(joined))
      <4>1. k - Len(joined) \in 1 .. s[2]
        BY <2>3, <2>5, <3>2, <1>2, <1>6
      <4> QED BY <2>3, <2>5, <3>2, <4>1
    <3> QED BY <3>1, <3>2
  <2> QED BY <2>3, <2>5, <2>6
<1>8. /\ end \in [Node -> Nat] /\ commit = end /\ end[Leader] = Len(log) /\ end[Slot] = 0
      /\ \A i \in Node : end[i] <= Len(log)
      /\ \A i \in has : i # Slot => end[i] = Len(log)
      /\ apply = end[Leader] /\ apply \in Nat
      /\ stored = [i \in Follower |-> end[i]] /\ polled = stored
  <2>1. end = [i \in Node |-> IF i = Slot THEN 0 ELSE IF i \in has THEN Len(log) ELSE Len(joined)]
    BY <1>1 DEF joined
  <2>2. Len(log) \in Nat /\ Len(joined) \in Nat /\ Len(joined) <= Len(log)
    BY <1>2, <1>6, <1>7
  <2>3. /\ commit = end /\ apply = end[Leader]
        /\ stored = [i \in Follower |-> end[i]] /\ polled = stored
    BY DEF Init
  <2> QED BY <2>1, <2>2, <2>3, <1>0, <1>1
<1>9. /\ rc = {} /\ app = <<>> /\ net = {} /\ up = Member
      /\ j = [request_id |-> 1, timer |-> "join", joined |-> FALSE, est |-> FALSE, cid_idx |-> 0,
              sm |-> FALSE, logrec |-> FALSE, apply |-> 0, lost |-> 0]
      /\ snapshot = [i \in Member |-> NoSnapshot]
  BY DEF Init
<1>10. ctx \in [Member -> Context] /\ \A i \in Member : ctx[i].qp = "old" => ctx[i].ud = "old"
  <2>1. \A i \in Member : ctx[i] = [on |-> FALSE, qp |-> "none", ud |-> "none"]
                          \/ ctx[i] = [on |-> i \in linked, qp |-> "old", ud |-> "old"]
    BY <1>1
  <2>2. \A i \in Member : (i \in linked) \in BOOLEAN
    OBVIOUS
  <2>3. ctx = [i \in Member |-> ctx[i]]
    BY <1>1
  <2>4. \A b \in BOOLEAN : [on |-> b, qp |-> "old", ud |-> "old"] \in Context
                        /\ [on |-> FALSE, qp |-> "none", ud |-> "none"] \in Context
    BY DEF Context
  <2>5. \A i \in Member : ctx[i] \in Context
    BY Zenon, <2>1, <2>2, <2>4
  <2>6. \A i \in Member : ctx[i].qp = "old" => ctx[i].ud = "old"
    <3>1. \A b : /\ [on |-> b, qp |-> "old", ud |-> "old"].ud = "old"
                /\ [on |-> FALSE, qp |-> "none", ud |-> "none"].qp = "none"
      OBVIOUS
    <3> QED BY <3>1, <2>1
  <2> HIDE DEF Member
  <2> QED BY <2>3, <2>5, <2>6
<1>11. Shape
  <2>1. cid \in [Node -> Cid]
    BY <1>4, <1>5
  <2>2. stored \in [Follower -> Nat] /\ polled \in [Follower -> Nat] /\ commit \in [Node -> Nat]
    BY <1>0, <1>8
  <2>3. ep \in [last_req_id : Nat, cid_idx : Nat, committed : BOOLEAN]
    <3>1. ep = [NoEndpoint EXCEPT !.last_req_id = Len(joined), !.cid_idx = Len(joined),
                                  !.committed = joined # <<>>]
      BY <1>1 DEF joined
    <3>2. (joined # <<>>) \in BOOLEAN
      OBVIOUS
    <3> QED BY <3>1, <3>2, <1>6 DEF NoEndpoint
  <2>4. j \in Joiner /\ snapshot \in [Member -> [records : Seq(Nat), last : Int]]
    BY <1>9 DEF Joiner, NoSnapshot
  <2> QED BY <2>1, <2>2, <2>3, <2>4, <1>1, <1>2, <1>7, <1>8, <1>9, <1>10 DEF Shape
<1>12. Offsets
  <2>1. \A i \in Node : end[i] \in Nat
    BY <1>8
  <2> HIDE DEF Node, Follower
  <2> QED BY <2>1, <1>0, <1>8 DEF Offsets
<1>13. Progress
  BY <1>8, <1>9 DEF Progress
<1>14. Delivered
  <2>1. <<>> \in Seq(Appended)
    BY EmptySeq
  <2>2. \A i \in Member : snapshot[i].records = <<>>
    BY <1>9 DEF NoSnapshot
  <2> QED BY <2>1, <2>2, <1>9 DEF Delivered
<1>15. Sizes
  <2>1. Request.type = "CSM" /\ Config(c0, TRUE).cid = c0
    BY DEF Request, Config
  <2>2. \A i \in Member : cid[i] = c0
    BY <1>0, <1>4
  <2> QED BY <2>1, <2>2, <1>5, <1>7 DEF Sizes
<1>16. OneChange
  <2>1. \A k : ~Growing(k)
    BY <1>7, <1>8 DEF Growing
  <2> QED BY <2>1 DEF OneChange
<1>17. NoEarlierJoin => CommittedQuorum
  <2> SUFFICES ASSUME NoEarlierJoin PROVE CommittedQuorum
    OBVIOUS
  <2>0. IsFiniteSet(0 .. Slot)
    BY <1>0, FS_Interval
  <2>1. Cardinality(has) \in Nat
    BY <2>0, <1>1, FS_Subset, FS_CardinalityType
  <2>2. has \in Majority
    <3>1. a \in Nat /\ a \div 2 \in Int
      BY <1>0, <1>3
    <3>2. Cardinality(has) >= a \div 2 + 1
      BY <3>1, <2>1, <1>4
    <3> QED BY <3>2, <1>3, <1>4 DEF Majority
  <2>3. ~Answered
    <3>1. joined = <<>>
      BY <1>1, <1>6 DEF NoEarlierJoin
    <3>2. ep = [NoEndpoint EXCEPT !.last_req_id = Len(joined), !.cid_idx = Len(joined),
                                  !.committed = joined # <<>>]
      BY <1>1 DEF joined
    <3>3. ~ep.committed
      BY <3>1, <3>2 DEF NoEndpoint
    <3>4. apply + 1 .. commit[Leader] = {}
      BY <1>8
    <3> QED BY <3>3, <3>4, <1>9 DEF Answered
  <2>4. \A n \in has : end[n] >= commit[Leader] \/ n = Slot
    <3>1. Len(log) \in Nat /\ commit[Leader] = Len(log)
      BY <1>7, <1>8
    <3> QED BY <3>1, <1>8
  <2> QED BY <2>2, <2>3, <2>4 DEF CommittedQuorum
<1>18. Ghosts
  BY <1>9, <1>10 DEF Ghosts, Severed
<1> QED BY <1>11, <1>12, <1>13, <1>14, <1>15, <1>16, <1>17, <1>18 DEF IInv

LEMMA StutterInv == ASSUME IInv, UNCHANGED vars PROVE IInv'
<1> USE DEF vars, group
<1>1. Shape'
  BY DEF IInv, Shape
<1>2. Offsets' /\ Progress'
  BY DEF IInv, Offsets, Progress
<1>3. Delivered'
  BY DEF IInv, Delivered, Appended
<1>4. Sizes'
  BY DEF IInv, Sizes
<1>5. OneChange'
  BY DEF IInv, OneChange, Growing
<1>6. NoEarlierJoin => CommittedQuorum'
  BY DEF IInv, CommittedQuorum, Majority, Answered
<1>7. Ghosts'
  BY DEF IInv, Ghosts, Severed
<1>8. NoEarlierJoin' <=> NoEarlierJoin
  BY DEF NoEarlierJoin
<1> QED BY <1>1, <1>2, <1>3, <1>4, <1>5, <1>6, <1>7, <1>8 DEF IInv

\* The parts of the invariant hold together in every state.
THEOREM Invariance == Spec => []IInv
<1>1. Init => IInv
  BY InitInv
<1>2. IInv /\ [Next]_vars => IInv'
  <2>1. ASSUME IInv, Next PROVE IInv'
    <3>1. NoEarlierJoin' => CommittedQuorum'
      BY <2>1, CommittedQuorumNext DEF IInv, NoEarlierJoin
    <3> QED BY <2>1, <3>1, ShapeNext, OffsetsNext, DeliveredNext, CidNext, OneChangeNext, GhostsNext
            DEF IInv
  <2> QED BY <2>1, StutterInv
<1> QED BY <1>1, <1>2, PTL DEF Spec

\* Types, for every slot: in particular nobody has committed, stored or polled more than
\* it has, nobody has more than the leader appended, and the application of the joining
\* server gets no request that is not in the log (rc_recover_sm, apply_committed_entries).
THEOREM TypeCorrect == Spec => []TypeOK
<1>1. IInv => TypeOK
  <2> SUFFICES ASSUME IInv PROVE TypeOK
    OBVIOUS
  <2>1. /\ \A i \in Node : cid[i] \in Cid
        /\ ctx \in [Member -> [on : BOOLEAN, qp : {"none", "old", "J"}, ud : {"none", "old", "J"}]]
        /\ rc \subseteq Member /\ up \subseteq Member /\ todo \in Nat
    BY DEF IInv, Shape, Context
  <2>2. j.timer \in {"join", "exchange", "vote", "sm", "log", "update"}
    BY DEF IInv, Shape, Joiner
  <2>3. /\ \A i \in Follower : polled[i] \in 0 .. commit[i] /\ stored[i] \in 0 .. end[i]
        /\ \A i \in Node : commit[i] \in 0 .. end[i] /\ end[i] \in 0 .. Len(log)
        /\ apply \in 0 .. commit[Leader]
    <3>1. Offsets
      BY DEF IInv
    <3>2. /\ \A i \in Node : commit[i] \in Nat /\ end[i] \in Nat
          /\ \A i \in Follower : i \in Node /\ stored[i] \in Nat /\ polled[i] \in Nat
          /\ Len(log) \in Nat /\ apply \in Nat /\ 0 \in Node
      BY JoinAssumption, OffsetFacts
    <3> HIDE DEF Node, Follower
    <3> QED BY <3>1, <3>2 DEF Offsets
  <2>4. Range(app) \subseteq Range(Requests(Len(log)))
    <3> DEFINE n == Cardinality({i \in 1 .. Len(log) : log[i].type = "CSM"})
    <3>1. app \in Seq(1 .. n)
      BY DEF IInv, Delivered, Appended
    <3>2. Requests(Len(log)) = [x \in 1 .. n |-> x]
      BY DEF Requests
    <3> HIDE DEF n
    <3>3. Range(app) \subseteq 1 .. n
      BY <3>1, RangeOfSeq
    <3>4. Range([x \in 1 .. n |-> x]) = 1 .. n
      BY DEF Range
    <3> QED BY <3>2, <3>3, <3>4
  <2> QED BY <2>1, <2>2, <2>3, <2>4 DEF TypeOK
<1> QED BY <1>1, Invariance, PTL

\* A member that believes to be connected to the server, and is believed to be, has
\* the QP of the server's present life, whatever datagrams are lost, delayed or sent
\* twice (handle_rc_syn, handle_rc_synack, handle_rc_ack).
THEOREM NoGhostTheorem == Spec => []NoGhost
<1>1. IInv => NoGhost
  BY DEF IInv, Ghosts, Severed, NoGhost
<1> QED BY <1>1, Invariance, PTL

\* In a group of any size: while a server joins, comes back or recovers, the servers that
\* lack something committed are too few to elect one of them (update_remote_logs,
\* apply_committed_entries, poll_vote_count), unless the machine had joined in an earlier
\* life.  The leader answers such a machine at once if it does not know yet that the
\* machine has failed (handle_server_join_request), and in a large group it can then
\* recover from members that are behind, and vote with them.
THEOREM VotersTheorem ==
    ASSUME NoEarlierJoin
    PROVE  Spec => []VotersHaveCommitted
<1>1. IInv => VotersHaveCommitted
  <2> SUFFICES ASSUME IInv, NEW i \in up
               PROVE  ~Elects({n \in Node : Running(n) /\ end[n] < commit[Leader]}, cid[i])
    BY DEF VotersHaveCommitted
  <2> DEFINE behind == {n \in Node : Running(n) /\ end[n] < commit[Leader]}
  <2>1. PICK q \in Majority : \A n \in q : end[n] >= commit[Leader] \/ (n = Slot /\ ~Answered)
    BY NoEarlierJoin DEF IInv, CommittedQuorum
  <2>2. behind \cap q = {}
    <3> SUFFICES ASSUME NEW n \in q, n \in Node, Running(n), end[n] < commit[Leader]
                 PROVE  FALSE
      OBVIOUS
    <3>1. end[n] \in Nat /\ commit[Leader] \in Nat
      BY JoinAssumption, OffsetFacts
    <3>2. CASE n = Slot /\ ~Answered
      BY <3>2 DEF Running, IInv, Progress, Answered
    <3> QED BY <2>1, <3>1, <3>2
  <2>3. cid[i].size[1] \in {Slot, Slot + 1}
    BY DEF IInv, Shape, Sizes, SizeOK
  <2> HIDE DEF behind
  <2>4. ~(Cardinality(behind \cap (0 .. cid[i].size[1] - 1)) >= cid[i].size[1] \div 2 + 1)
    BY <2>1, <2>2, <2>3, NoOtherMajority
  <2> QED BY <2>4 DEF Elects, behind
<1> QED BY <1>1, Invariance, PTL
=============================================================================
