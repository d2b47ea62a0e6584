---------------------- MODULE DareReplicationSafety ----------------------
(***************************************************************************)
(* The safety of DareReplication for every ring, length of log, bound on   *)
(* terms and on failures, in groups of at most four servers whose failure  *)
(* detector suspects only leaders that have failed.  Both restrictions are *)
(* needed: with premature suspicions the run committed_stable loses a      *)
(* committed entry, and with five servers a log is cut behind old_end,     *)
(* after which persist_new_entries replies for entries it does not have    *)
(* and CommittedOnMajority fails.  Until a second leader is elected, the   *)
(* group may be of any size.                                               *)
(*                                                                         *)
(* In such a group there are at most two leaders.  The second is elected   *)
(* by all the servers but the first one, so what the first one committed   *)
(* is in the log of a voter, and the log of every voter is a prefix of the *)
(* log of the new leader.  From then on no log is ever cut: every remote   *)
(* log that a leader adjusts is found to be a prefix of its own.           *)
(***************************************************************************)
EXTENDS DareReplicationProofs

(***************************************************************************)
(* The inductive invariant: nobody leads yet, or a is the first leader and *)
(* l the one that leads now, the same server or the one elected after a    *)
(* has failed.                                                             *)
(***************************************************************************)
\* The servers whose logs the leader l works on.
Live(a, l) == IF a = l THEN Server ELSE Server \ {a}

\* Server i has what the leader l has, up to position n.
SameTerms(i, l, n) == \A p \in 1 .. n : mem[i][p].term = mem[l][p].term

\* Nobody leads and nothing has happened, but some servers may have failed.
NoLeader ==
    /\ leading = {} /\ replies = {}
    /\ term = [i \in Server |-> 0]
    /\ \A i \in Server :
         /\ end[i] = 0 /\ old_end[i] = 0 /\ commit[i] = 0
         /\ \A p \in Pos : mem[i][p].reply = {}

\* All entries are of the first leader's term, and another server is in this term,
\* or a has failed in a term before the one in which all others are.
Roles(a, l) ==
    /\ leading = {a, l}
    /\ 0 < term[l] /\ \A i \in Server : term[i] <= term[l]
    /\ a = l => /\ \A p \in 1 .. end[l] : mem[l][p].term = term[l]
                /\ \E i \in Server \ {l} : term[i] = term[l]
    /\ a # l => /\ a \notin up /\ term[a] < term[l]
                /\ \A i \in Server \ {a} : term[i] = term[l]

\* No server has committed or persisted more than it has.
Bounds == \A i \in Server : commit[i] <= end[i] /\ old_end[i] <= end[i] /\ end[i] <= MaxLog

\* The logs are prefixes of the leader's.
Prefixes(a, l) ==
    \A i \in Live(a, l) : end[i] <= end[l] /\ commit[i] <= commit[l] /\ SameTerms(i, l, end[i])

\* The leader has what any server has committed.
Complete(l) == \A i \in Server : commit[i] <= end[l] /\ SameTerms(i, l, commit[i])

\* Whoever has replied for a position has persisted it, and the first leader has not.
RepliesTrue(a) ==
    /\ \A i \in Server, p \in Pos : \A j \in mem[i][p].reply : j # a /\ p <= old_end[j]
    /\ \A r \in replies : r.from # a /\ r.pos <= old_end[r.from]

\* What the leader knows of the log of a server that has not acknowledged it.
Unknown(a, l, f) ==
    /\ lr[l][f].step = "get"
    /\ f \in Live(a, l) \ {l} => end[f] = 0

\* And of one that has: the buffer it has published is what it has not committed,
\* the offsets are true, and what has been written after its end is the leader's.
Known(a, l, f) ==
    /\ f \in Live(a, l) \ {l} /\ term[f] = term[l]
    /\ lr[l][f].step = "get" => nc_buf[f][f] = NotCommitted(f) /\ vote_ack[l][f] = commit[f]
    /\ lr[l][f].step = "set_end" => nc_buf[l][f] = NotCommitted(f)
    /\ lr[l][f].step \in {"log", "end"} => lr[l][f].end = end[f]
    /\ lr[l][f].step = "end" => /\ lr[l][f].cached \in end[f] .. end[l]
                                /\ SameTerms(f, l, lr[l][f].cached)

KnowsOf(a, l, f) == IF vote_ack[l][f] = NoAck THEN Unknown(a, l, f) ELSE Known(a, l, f)
Knowledge(a, l) == \A f \in Server : KnowsOf(a, l, f)

Led(a, l) ==
    /\ Roles(a, l) /\ Bounds /\ Prefixes(a, l) /\ Complete(l) /\ CommittedOnMajority
    /\ RepliesTrue(a) /\ Knowledge(a, l)

\* A second leader has been elected; in a larger group nothing more is said of it.
LeaderChanged == \E a, l \in leading : a # l
AfterChange == LeaderChanged /\ \A i, j \in leading \cap up : i = j

IInv == /\ TypeOK
        /\ \/ NoLeader
           \/ \E a, l \in Server : Led(a, l)
           \/ N > 4 /\ AfterChange

\* What no step may take back: the entries of the logs and the commit offsets.
Grows ==
    \A i \in Server : /\ end[i] <= end'[i] /\ commit[i] <= commit'[i]
                      /\ \A p \in 1 .. end[i] : mem'[i][p].term = mem[i][p].term

-----------------------------------------------------------------------------
(***************************************************************************)
(* Majorities of at most four servers.                                     *)
(***************************************************************************)
LEMMA Group == IsFiniteSet(Server) /\ Cardinality(Server) = N /\ N >= 2
<1>1. IsFiniteSet(Server) /\ Cardinality(0 .. N - 1) = N - 1 - 0 + 1
  BY SizeAssumption, FS_Interval DEF Server
<1> QED BY <1>1, SizeAssumption DEF Server

\* A larger set of servers is a majority too.
LEMMA MajorityGrows ==
    ASSUME NEW A, NEW B, A \subseteq B, B \subseteq Server, Majority(A)
    PROVE  Majority(B)
<1>1. IsFiniteSet(B)
  BY Group, FS_Subset
<1>2. IsFiniteSet(A) /\ Cardinality(A) <= Cardinality(B)
  BY <1>1, FS_Subset
<1>3. Cardinality(A) \in Nat /\ Cardinality(B) \in Nat
  BY <1>1, <1>2, FS_CardinalityType
<1>4. PICK m : m = N \div 2 + 1 /\ m \in Int
  BY Sizes
<1> QED BY <1>2, <1>3, <1>4 DEF Majority

\* A majority is more than one server.
LEMMA MajorityOthers ==
    ASSUME NEW A, A \subseteq Server, Majority(A), NEW a
    PROVE  \E j \in A : j # a
<1>1. ASSUME A \subseteq {a} PROVE FALSE
  <2>1. IsFiniteSet({a}) /\ Cardinality({a}) = 1
    BY FS_Singleton
  <2>2. IsFiniteSet(A) /\ Cardinality(A) <= 1
    BY <1>1, <2>1, FS_Subset
  <2>3. Cardinality(A) \in Nat
    BY <2>2, FS_CardinalityType
  <2>4. N \div 2 >= 1
    BY SizeAssumption
  <2> QED BY <2>2, <2>3, <2>4, Sizes DEF Majority
<1> QED BY <1>1

\* Without one of four servers or less, only all the others are a majority.
LEMMA MajorityWithout ==
    ASSUME N <= 4, NEW a \in Server, NEW Q, Q \subseteq Server \ {a}, Majority(Q)
    PROVE  Q = Server \ {a}
<1>1. IsFiniteSet(Server \ {a}) /\ Cardinality(Server \ {a}) = N - 1
  BY Group, FS_RemoveElement
<1>2. IsFiniteSet(Q) /\ Cardinality(Q) <= Cardinality(Server \ {a})
      /\ (Cardinality(Q) = Cardinality(Server \ {a}) => Q = Server \ {a})
  BY <1>1, FS_Subset
<1>3. Cardinality(Q) \in Nat
  BY <1>2, FS_CardinalityType
<1>4. N = 2 \/ N = 3 \/ N = 4
  BY SizeAssumption
<1>5. N \div 2 + 1 >= N - 1
  BY <1>4
<1> QED BY <1>1, <1>2, <1>3, <1>4, <1>5 DEF Majority

\* Without two of them, there is none.
LEMMA NoMajorityWithout ==
    ASSUME N <= 4, NEW a \in Server, NEW l \in Server, a # l,
           NEW Q, Q \subseteq Server \ {a, l}, Majority(Q)
    PROVE  FALSE
<1>1. Q = Server \ {a}
  BY MajorityWithout
<1> QED BY <1>1

(***************************************************************************)
(* Offsets of a log that has never been cut behind its commit offset.      *)
(***************************************************************************)
LEMMA Forward ==
    ASSUME NEW x \in Offset, NEW y \in Offset, x <= y
    PROVE  /\ Walk(x, y) = [k \in 1 .. y - x |-> x + k]
           /\ Len(Walk(x, y)) = y - x /\ Walk(x, y) \in Seq(Pos)
           /\ Walked(x, y) = x + 1 .. y
           /\ Distance(y, x) = y - x
<1>1. x \in Nat /\ y \in Nat /\ y - x \in Nat
  BY Sizes
<1>2. Walk(x, y) = [k \in 1 .. y - x |-> x + k]
  BY DEF Walk
<1>3. Len(Walk(x, y)) = y - x
  BY <1>1, <1>2
<1>4. Walked(x, y) = {x + k : k \in 1 .. y - x}
  BY <1>2 DEF Walked
<1>5. \A z \in x + 1 .. y : z - x \in 1 .. y - x /\ z = x + (z - x)
  BY <1>1
<1>6. \A k \in 1 .. y - x : x + k \in x + 1 .. y
  BY <1>1
<1>7. Walked(x, y) = x + 1 .. y
  BY <1>4, <1>5, <1>6
<1> QED BY <1>1, <1>2, <1>3, <1>7, WalkTypes DEF Distance

\* Among offsets up to the end, log_is_offset_larger is the order of numbers.
LEMMA LargestBelow ==
    ASSUME NEW e \in Offset, NEW S, S \subseteq 0 .. e, S # {}
    PROVE  Largest(e, S) \in S /\ \A y \in S : y <= Largest(e, S)
<1>1. e \in Nat /\ S \subseteq Offset
  BY Sizes DEF Offset
<1>2. \A x, y \in S : Larger(e, y, x) <=> y > x
  BY <1>1 DEF Larger, Distance
<1>3. PICK m \in S : \A y \in S : y <= m
  <2>1. IsFiniteSet(0 .. e)
    BY <1>1, FS_Interval
  <2>2. IsFiniteSet(S)
    BY <2>1, FS_Subset
  <2>3. S \subseteq Nat
    BY <1>1
  <2> QED BY <2>2, <2>3, Greatest
<1>4. \A y \in S : ~Larger(e, y, m)
  BY <1>1, <1>2, <1>3
<1>5. Largest(e, S) \in S /\ \A y \in S : ~Larger(e, y, Largest(e, S))
  BY <1>4 DEF Largest
<1>6. PICK x \in S : x = Largest(e, S) /\ \A y \in S : ~Larger(e, y, x)
  BY <1>5
<1>7. \A y \in S : ~(y > x)
  BY <1>2, <1>6
<1>8. \A y \in S : y \in Nat
  BY <1>1
<1>9. \A y \in S : y <= x
  BY <1>6, <1>7, <1>8
<1> QED BY <1>6, <1>9

LEMMA Facts ==
    ASSUME TypeOK
    PROVE  /\ \A i \in Server : /\ end[i] \in Offset /\ old_end[i] \in Offset
                                /\ commit[i] \in Offset /\ term[i] \in Nat
                                /\ end[i] \in Nat /\ old_end[i] \in Nat /\ commit[i] \in Nat
           /\ \A i \in Server : \A p \in 1 .. end[i] : p \in Pos
           /\ \A i \in Server, p \in Pos : mem[i][p].term \in Nat /\ mem[i][p].reply \subseteq Server
           /\ \A i, j \in Server : lr[i][j].end \in Offset /\ lr[i][j].cached \in Offset
                                   /\ lr[i][j].end \in Nat /\ lr[i][j].cached \in Nat
<1>1. \A i \in Server : /\ end[i] \in Offset /\ old_end[i] \in Offset
                        /\ commit[i] \in Offset /\ term[i] \in Nat
  BY DEF TypeOK
<1>2. \A i \in Server : end[i] \in Nat /\ old_end[i] \in Nat /\ commit[i] \in Nat
  BY <1>1, Sizes
<1>3. \A i \in Server : \A p \in 1 .. end[i] : p \in Pos
  BY <1>1, Sizes DEF Offset, Pos
<1>4. \A i \in Server, p \in Pos : mem[i][p] \in Entry
  BY DEF TypeOK
<1>5. \A i, j \in Server : lr[i][j] \in LrState
  BY DEF TypeOK
<1>6. \A i, j \in Server : lr[i][j].end \in Offset /\ lr[i][j].cached \in Offset
  BY <1>5 DEF LrState
<1>7. \A i, j \in Server : lr[i][j].end \in Nat /\ lr[i][j].cached \in Nat
  BY <1>6, Sizes
<1>8. \A i \in Server, p \in Pos : mem[i][p].term \in Nat /\ mem[i][p].reply \subseteq Server
  BY <1>4 DEF Entry
<1> QED BY <1>1, <1>2, <1>3, <1>6, <1>7, <1>8

\* What log_entries_to_nc_buf writes does not change while the log does not.
LEMMA NotCommittedKept ==
    ASSUME TypeOK, Bounds, NEW f \in Server, commit'[f] = commit[f], end'[f] = end[f],
           \A p \in 1 .. end[f] : mem'[f][p].term = mem[f][p].term
    PROVE  NotCommitted(f)' = NotCommitted(f)
<1>1. PICK w : w = Walk(commit[f], end[f])
  OBVIOUS
<1>2. commit[f] \in Offset /\ end[f] \in Offset /\ commit[f] <= end[f]
  BY Facts DEF Bounds
<1>3. w = [k \in 1 .. end[f] - commit[f] |-> commit[f] + k]
  BY <1>1, <1>2, Forward
<1>4. commit[f] \in Nat /\ end[f] \in Nat
  BY <1>2, Sizes
<1>5. \A k \in DOMAIN w : w[k] \in 1 .. end[f]
  BY <1>2, <1>3, <1>4
<1>6. \A k \in DOMAIN w : mem'[f][w[k]].term = mem[f][w[k]].term
  BY <1>5
<1>7. Walk(commit[f], end[f])' = w
  BY <1>1 DEF Walk
<1>8. NotCommitted(f)' = [from |-> commit[f], terms |-> [k \in DOMAIN w |-> mem'[f][w[k]].term]]
  BY <1>7 DEF NotCommitted
<1>9. NotCommitted(f) = [from |-> commit[f], terms |-> [k \in DOMAIN w |-> mem[f][w[k]].term]]
  BY <1>1 DEF NotCommitted
<1> QED BY <1>6, <1>8, <1>9

\* A log that is a prefix of the leader's is found to be one: it is not cut.
LEMMA RemoteEndTrue ==
    ASSUME TypeOK, Bounds, NEW l \in Server, NEW f \in Server, end[f] <= end[l],
           SameTerms(f, l, end[f]), NEW b, b = NotCommitted(f)
    PROVE  RemoteEnd(l, b) = end[f]
<1>1. commit[f] \in Offset /\ end[f] \in Offset /\ commit[f] <= end[f]
      /\ commit[f] \in Nat /\ end[f] \in Nat /\ end[l] \in Nat
  BY Facts DEF Bounds
<1>2. PICK n \in Nat : n = end[f] - commit[f]
  BY <1>1
<1>3. PICK w : w = Walk(commit[f], end[f])
  OBVIOUS
<1>4. w = [k \in 1 .. n |-> commit[f] + k]
  BY <1>1, <1>2, <1>3, Forward
<1>5. b = [from |-> commit[f], terms |-> [k \in DOMAIN w |-> mem[f][w[k]].term]]
  BY <1>3 DEF NotCommitted
<1>6. b.from = commit[f] /\ DOMAIN b.terms = 1 .. n
      /\ \A k \in 1 .. n : b.terms[k] = mem[f][commit[f] + k].term
  BY <1>4, <1>5
<1> DEFINE v == [k \in DOMAIN b.terms |-> b.from + k]
           same == {b.from + k : k \in {k \in DOMAIN b.terms :
                      /\ b.from + k - 1 # end[l] /\ b.from + k \in Pos
                      /\ mem[l][b.from + k].term = b.terms[k]}}
<1>7. v = [k \in 1 .. n |-> commit[f] + k] /\ v \in Seq(Nat) /\ Len(v) = n
  <2>1. v = [k \in 1 .. n |-> commit[f] + k]
    BY <1>6
  <2>2. \A k \in 1 .. n : commit[f] + k \in Nat
    BY <1>1
  <2>3. [k \in 1 .. n |-> commit[f] + k] \in Seq(Nat)
    BY <2>2, IsASeq
  <2>4. Len([k \in 1 .. n |-> commit[f] + k]) = n
    BY <1>2
  <2> QED BY <2>1, <2>3, <2>4
<1>8. \A k \in 1 .. n : v[k] \in same
  <2> SUFFICES ASSUME NEW k \in 1 .. n PROVE v[k] \in same
    OBVIOUS
  <2>1. commit[f] + k \in 1 .. end[f] /\ commit[f] + k - 1 # end[l]
    BY <1>1, <1>2
  <2>2. commit[f] + k \in Pos
    BY <2>1, Facts
  <2>3. mem[l][commit[f] + k].term = b.terms[k]
    BY <1>6, <2>1 DEF SameTerms
  <2>4. b.from + k \in same
    BY <1>6, <2>1, <2>2, <2>3
  <2> QED BY <1>6, <2>4
<1>9. Matching(l, b) = PrefixIn(v, same)
  BY DEF Matching
<1> HIDE DEF v, same
<1>10. Matching(l, b) = n
  <2> DEFINE P(m) == /\ \A k \in 1 .. m : v[k] \in same
                     /\ m < Len(v) => v[m + 1] \notin same
  <2>1. n \in 0 .. Len(v) /\ P(n)
    BY <1>7, <1>8
  <2>2. \A m \in 0 .. Len(v) : P(m) => m = n
    BY <1>7, <1>8
  <2>3. PrefixIn(v, same) = CHOOSE m \in 0 .. Len(v) : P(m)
    BY DEF PrefixIn
  <2> HIDE DEF P
  <2>4. (CHOOSE m \in 0 .. Len(v) : P(m)) = n
    BY <2>1, <2>2
  <2> QED BY <1>9, <2>3, <2>4
<1> QED BY <1>1, <1>2, <1>6, <1>10 DEF RemoteEnd

(***************************************************************************)
(* What an action keeps of the invariant when it leaves its variables.     *)
(***************************************************************************)
\* What the leader knows of f, when nothing of it changes and the log of l only grows.
LEMMA KnowsOfKept ==
    ASSUME TypeOK, Bounds, NEW a \in Server, NEW l \in Server, NEW f \in Server, KnowsOf(a, l, f),
           end[l] \in Nat, end'[l] \in Nat, end[l] <= end'[l], end'[f] = end[f] \/ f = l,
           end[f] <= end[l] \/ f \notin Live(a, l),
           f # l /\ lr[l][f].step \in {"get", "set_end"} => commit'[f] = commit[f],
           term'[f] = term[f], term'[l] = term[l],
           vote_ack'[l][f] = vote_ack[l][f],
           nc_buf'[l][f] = nc_buf[l][f], nc_buf'[f][f] = nc_buf[f][f],
           lr'[l][f].step = lr[l][f].step, lr'[l][f].end = lr[l][f].end,
           lr'[l][f].cached = lr[l][f].cached,
           \A p \in 1 .. end[l] : mem'[f][p].term = mem[f][p].term /\ mem'[l][p].term = mem[l][p].term
    PROVE  KnowsOf(a, l, f)'
<1>1. CASE vote_ack[l][f] = NoAck
  <2>1. Unknown(a, l, f)
    BY <1>1 DEF KnowsOf
  <2>2. Unknown(a, l, f)'
    BY <2>1 DEF Unknown, Live
  <2> QED BY <1>1, <2>2 DEF KnowsOf
<1>2. CASE vote_ack[l][f] # NoAck
  <2>1. Known(a, l, f)
    BY <1>2 DEF KnowsOf
  <2>2. f # l /\ f \in Live(a, l) /\ end'[f] = end[f] /\ end[f] <= end[l] /\ end[f] \in Nat
    BY <2>1, Facts DEF Known
  <2>3. \A p \in 1 .. end[f] : mem'[f][p].term = mem[f][p].term
    BY <2>2
  <2>4. lr[l][f].step \in {"get", "set_end"} => NotCommitted(f)' = NotCommitted(f)
    BY <2>2, <2>3, NotCommittedKept
  <2>5. /\ (f \in Live(a, l) \ {l})' /\ term'[f] = term'[l]
        /\ lr'[l][f].step = "get" => nc_buf'[f][f] = NotCommitted(f)' /\ vote_ack'[l][f] = commit'[f]
        /\ lr'[l][f].step = "set_end" => nc_buf'[l][f] = NotCommitted(f)'
        /\ lr'[l][f].step \in {"log", "end"} => lr'[l][f].end = end'[f]
    BY <2>1, <2>2, <2>4 DEF Known, Live
  <2>6. ASSUME lr'[l][f].step = "end"
        PROVE  lr'[l][f].cached \in end'[f] .. end'[l] /\ SameTerms(f, l, lr[l][f].cached)'
    <3>1. PICK c : c = lr[l][f].cached
      OBVIOUS
    <3>2. c \in end[f] .. end[l] /\ SameTerms(f, l, c)
      BY <2>1, <2>6, <3>1 DEF Known
    <3>3. c \in end'[f] .. end'[l] /\ \A p \in 1 .. c : p \in 1 .. end[l]
      BY <2>2, <3>2
    <3>4. \A p \in 1 .. c : mem'[f][p].term = mem'[l][p].term
      BY <3>2, <3>3 DEF SameTerms
    <3> QED BY <3>1, <3>3, <3>4 DEF SameTerms
  <2>7. Known(a, l, f)'
    BY <2>5, <2>6 DEF Known, SameTerms
  <2> QED BY <1>2, <2>7 DEF KnowsOf
<1> QED BY <1>1, <1>2

\* The reply bytes, when all of them were there or on their way.
LEMMA RepliesKept ==
    ASSUME TypeOK, TypeOK', NEW a \in Server, RepliesTrue(a), replies' \subseteq replies,
           \A j \in Server : old_end[j] <= old_end'[j],
           \A i \in Server, p \in Pos : \A j \in mem'[i][p].reply :
               \/ \E k \in Server : j \in mem[k][p].reply
               \/ \E r \in replies : r.from = j /\ r.pos = p
    PROVE  RepliesTrue(a)'
<1>1. \A p \in Pos : p \in Nat
  BY Sizes
<1>2. \A j \in Server : old_end[j] \in Nat /\ old_end'[j] \in Nat
  BY Sizes DEF TypeOK
<1>3. \A r \in replies : r.from \in Server /\ r.pos \in Pos
  BY DEF TypeOK, Reply
<1>4. \A i \in Server, p \in Pos : mem[i][p].reply \subseteq Server
  BY Facts
<1>5. ASSUME NEW i \in Server, NEW p \in Pos, NEW j \in mem'[i][p].reply
      PROVE  j # a /\ p <= old_end'[j]
  <2>1. j \in Server /\ j # a /\ p <= old_end[j]
    BY <1>3, <1>4, <1>5 DEF RepliesTrue
  <2> QED BY <1>1, <1>2, <2>1
<1>6. ASSUME NEW r \in replies' PROVE r.from # a /\ r.pos <= old_end'[r.from]
  <2>1. r.from # a /\ r.pos <= old_end[r.from] /\ r.from \in Server /\ r.pos \in Pos
    BY <1>3, <1>6 DEF RepliesTrue
  <2> QED BY <1>1, <1>2, <2>1
<1> QED BY <1>5, <1>6 DEF RepliesTrue

\* Entries of which each was committed by some server, or has a majority now.
LEMMA CommittedKept ==
    ASSUME TypeOK, TypeOK', Bounds, CommittedOnMajority, Grows,
           \A i \in Server : \A p \in 1 .. commit'[i] :
               \/ \E j \in Server : p <= commit[j] /\ mem'[i][p].term = mem[j][p].term
               \/ Majority({k \in Server : p <= end[k] /\ mem[k][p].term = mem'[i][p].term})
    PROVE  CommittedOnMajority'
<1> SUFFICES ASSUME NEW i \in Server, NEW p \in 1 .. commit'[i]
             PROVE  Majority({k \in Server : Holds(k, p, mem[i][p].term)'})
  BY DEF CommittedOnMajority, Majority, Holds
<1> DEFINE A == {k \in Server : p <= end[k] /\ mem[k][p].term = mem'[i][p].term}
           B == {k \in Server : Holds(k, p, mem[i][p].term)'}
<1>1. p \in Nat /\ p >= 1
  OBVIOUS
<1>2. Majority(A)
  <2>1. CASE \E j \in Server : p <= commit[j] /\ mem'[i][p].term = mem[j][p].term
    <3>1. PICK j \in Server : p <= commit[j] /\ mem'[i][p].term = mem[j][p].term
      BY <2>1
    <3>2. p \in 1 .. commit[j]
      BY <1>1, <3>1, Facts
    <3>3. Majority({k \in Server : Holds(k, p, mem[j][p].term)})
      BY <3>2 DEF CommittedOnMajority
    <3>4. {k \in Server : Holds(k, p, mem[j][p].term)} = A
      BY <3>1 DEF Holds
    <3> QED BY <3>3, <3>4
  <2> QED BY <2>1
<1>3. A \subseteq B
  <2>1. ASSUME NEW k \in Server, p <= end[k], mem[k][p].term = mem'[i][p].term
        PROVE  Holds(k, p, mem[i][p].term)'
    <3>0. end'[k] \in Nat /\ end[k] \in Nat
      BY Sizes DEF TypeOK
    <3>1. p \in 1 .. end[k]
      BY <1>1, <2>1, <3>0
    <3>2. end[k] <= end'[k] /\ mem'[k][p].term = mem[k][p].term
      BY <3>1 DEF Grows
    <3> QED BY <1>1, <2>1, <3>0, <3>1, <3>2 DEF Holds
  <2> QED BY <2>1
<1> QED BY <1>2, <1>3, MajorityGrows

\* All that is said about the logs, when no entry and no offset changes.
LEMMA LogsKept ==
    ASSUME TypeOK, TypeOK', Bounds, NEW a \in Server, NEW l \in Server,
           Prefixes(a, l), Complete(l), CommittedOnMajority,
           end' = end, commit' = commit,
           \A i \in Server, p \in Pos : mem'[i][p].term = mem[i][p].term
    PROVE  Grows /\ Prefixes(a, l)' /\ Complete(l)' /\ CommittedOnMajority'
<1>1. \A i \in Server : end[i] \in Nat /\ commit[i] \in Nat /\ commit[i] <= end[i]
  BY Facts DEF Bounds
<1>2. \A i \in Server : \A p \in 1 .. end[i] : p \in Pos
  BY Facts
<1>3. Grows
  BY <1>1, <1>2 DEF Grows
<1>4. ASSUME NEW i \in Server, NEW n \in Nat, n <= end[l], SameTerms(i, l, n)
      PROVE  SameTerms(i, l, n)'
  <2>1. \A p \in 1 .. n : p \in Pos
    BY <1>1, <1>2, <1>4
  <2> QED BY <1>4, <2>1 DEF SameTerms
<1>5. Prefixes(a, l)'
  BY <1>1, <1>4 DEF Prefixes, Live, SameTerms
<1>6. Complete(l)'
  BY <1>1, <1>4 DEF Complete, SameTerms
<1>7. CommittedOnMajority'
  <2>1. ASSUME NEW i \in Server, NEW p \in 1 .. commit'[i]
        PROVE  p <= commit[i] /\ mem'[i][p].term = mem[i][p].term
    <3>1. p \in 1 .. end[i]
      BY <1>1
    <3> QED BY <1>2, <3>1
  <2> QED BY <1>3, <2>1, CommittedKept
<1> QED BY <1>3, <1>5, <1>6, <1>7

\* The roles, when the leader's log gets no entry of another term than its own.
LEMMA RolesKept ==
    ASSUME NEW a \in Server, NEW l \in Server, Roles(a, l),
           leading' = leading, term' = term, up' \subseteq up,
           \A p \in 1 .. end'[l] : \/ p \in 1 .. end[l] /\ mem'[l][p].term = mem[l][p].term
                                   \/ mem'[l][p].term = term[l]
    PROVE  Roles(a, l)'
<1>1. a = l => \A p \in 1 .. end'[l] : mem'[l][p].term = term'[l]
  BY DEF Roles
<1> QED BY <1>1 DEF Roles

\* Only the last leader leads and runs.
LEMMA Leads ==
    ASSUME NEW a, NEW l, Roles(a, l), NEW k \in leading \cap up
    PROVE  k = l
BY DEF Roles

\* Whom the leader can work on has acknowledged it.
LEMMA Accessed ==
    ASSUME NEW a \in Server, NEW l \in Server, Led(a, l),
           NEW k \in Server, NEW f \in Server, Access(k, f)
    PROVE  k = l /\ Known(a, l, f)
<1>1. k = l
  BY Leads DEF Access, Led
<1>2. vote_ack[l][f] # NoAck
  BY <1>1 DEF Access
<1> QED BY <1>1, <1>2 DEF Led, Knowledge, KnowsOf

-----------------------------------------------------------------------------
(***************************************************************************)
(* One lemma for each action: it keeps the invariant and every entry.      *)
(***************************************************************************)
\* What is in the log after log_append_entry.
LEMMA AppendEffect ==
    ASSUME TypeOK, NEW l \in Server, NEW t \in Nat, AppendPersisted(l, t)
    PROVE  /\ end[l] < MaxLog /\ end'[l] = end[l] + 1 /\ old_end'[l] = end[l] + 1
           /\ \A i \in Server \ {l} : end'[i] = end[i] /\ old_end'[i] = old_end[i] /\ mem'[i] = mem[i]
           /\ mem'[l][end[l] + 1].term = t /\ mem'[l][end[l] + 1].reply = {}
           /\ \A p \in Pos \ {end[l] + 1} : /\ mem'[l][p].term = mem[l][p].term
                                            /\ mem'[l][p].reply = mem[l][p].reply
<1> DEFINE q == end[l] + 1
           x == [mem[l][q] EXCEPT !.term = t, !.reply = {}]
           m == [mem[l] EXCEPT ![q] = [@ EXCEPT !.term = t, !.reply = {}]]
           W == Walked(old_end[l], end[l] + 1)
<1>1. end[l] < MaxLog /\ end' = [end EXCEPT ![l] = end[l] + 1]
      /\ old_end' = [old_end EXCEPT ![l] = end[l] + 1]
  BY DEF AppendPersisted
<1>2. q \in Pos
  BY <1>1, Facts, Sizes DEF Pos
<1>3. mem[l] \in [Pos -> Entry]
  BY DEF TypeOK
<1>4. x \in Entry /\ x.term = t /\ x.reply = {}
  <2>1. mem[l][q] \in Entry
    BY <1>2, <1>3
  <2> QED BY <2>1 DEF Entry
<1>5. m = [mem[l] EXCEPT ![q] = x]
  OBVIOUS
<1>6. m \in [Pos -> Entry] /\ m[q] = x /\ \A p \in Pos \ {q} : m[p] = mem[l][p]
  <2> HIDE DEF x, m, q
  <2> QED BY <1>2, <1>3, <1>4, <1>5
<1>7. mem' = [mem EXCEPT ![l] = [p \in Pos |-> IF p \in W THEN [m[p] EXCEPT !.sender = l] ELSE m[p]]]
  BY DEF AppendPersisted, SentBy
<1>8. \A e \in Entry : [e EXCEPT !.sender = l].term = e.term /\ [e EXCEPT !.sender = l].reply = e.reply
  BY DEF Entry
<1>9. \A p \in Pos : mem'[l][p].term = m[p].term /\ mem'[l][p].reply = m[p].reply
  <2> SUFFICES ASSUME NEW p \in Pos
               PROVE  mem'[l][p].term = m[p].term /\ mem'[l][p].reply = m[p].reply
    OBVIOUS
  <2>1. PICK e \in Entry : e = m[p]
    <3> HIDE DEF m
    <3> QED BY <1>6
  <2>2. mem'[l][p] = IF p \in W THEN [m[p] EXCEPT !.sender = l] ELSE m[p]
    <3> HIDE DEF m, W
    <3> QED BY <1>7 DEF TypeOK
  <2>3. mem'[l][p] = IF p \in W THEN [e EXCEPT !.sender = l] ELSE e
    <3> HIDE DEF m, W
    <3> QED BY <2>1, <2>2
  <2> HIDE DEF m, W
  <2> QED BY <1>8, <2>1, <2>3
<1>10. \A i \in Server \ {l} : end'[i] = end[i] /\ old_end'[i] = old_end[i] /\ mem'[i] = mem[i]
  <2> HIDE DEF m, W
  <2> QED BY <1>1, <1>7 DEF TypeOK
<1>11. end'[l] = end[l] + 1 /\ old_end'[l] = end[l] + 1
  BY <1>1 DEF TypeOK
<1> HIDE DEF m, x
<1> QED BY <1>1, <1>2, <1>4, <1>6, <1>9, <1>10, <1>11

\* The leader's log grows; nothing else that the invariant is about changes.
LEMMA AppendEntrySafe ==
    ASSUME TypeOK, TypeOK', NEW a \in Server, NEW l \in Server, Led(a, l),
           NEW k \in Server, AppendEntry(k)
    PROVE  Led(a, l)' /\ Grows
<1>1. k = l
  BY Leads DEF AppendEntry, Led
<1>2. AppendPersisted(l, term[l]) /\ term[l] \in Nat
      /\ UNCHANGED <<roleVars, commit, nc_buf, lr, replies, up>>
  BY <1>1 DEF AppendEntry, TypeOK
<1>3. /\ end[l] < MaxLog /\ end'[l] = end[l] + 1 /\ old_end'[l] = end[l] + 1
      /\ \A i \in Server \ {l} : end'[i] = end[i] /\ old_end'[i] = old_end[i] /\ mem'[i] = mem[i]
      /\ mem'[l][end[l] + 1].term = term[l] /\ mem'[l][end[l] + 1].reply = {}
      /\ \A p \in Pos \ {end[l] + 1} : /\ mem'[l][p].term = mem[l][p].term
                                       /\ mem'[l][p].reply = mem[l][p].reply
  BY <1>2, AppendEffect
<1>4. UNCHANGED <<term, leading, commit, vote_ack, nc_buf, lr, replies, up>>
  BY <1>2 DEF roleVars
<1>5. \A i \in Server : end[i] \in Nat /\ commit[i] \in Nat /\ old_end[i] \in Nat
  BY Facts
<1>6. \A p \in 1 .. end[l] : p \in Pos \ {end[l] + 1}
  BY <1>5, Facts
<1>7. Roles(a, l) /\ Bounds /\ Prefixes(a, l) /\ Complete(l) /\ CommittedOnMajority
      /\ RepliesTrue(a) /\ Knowledge(a, l)
  BY DEF Led
<1>8. ASSUME NEW i \in Server, NEW n \in Nat, n <= end[l], SameTerms(i, l, n)
      PROVE  \A p \in 1 .. n : mem'[i][p].term = mem'[l][p].term
  <2>1. \A p \in 1 .. n : p \in 1 .. end[l]
    BY <1>5, <1>8
  <2>2. \A p \in 1 .. n : mem'[i][p].term = mem[i][p].term /\ mem'[l][p].term = mem[l][p].term
    BY <1>3, <1>6, <2>1
  <2> QED BY <1>8, <2>2 DEF SameTerms
<1>9. Grows
  BY <1>3, <1>4, <1>5, <1>6 DEF Grows
<1>10. Roles(a, l)'
  <2>1. \A p \in 1 .. end'[l] : p \in 1 .. end[l] \/ p = end[l] + 1
    BY <1>3, <1>5
  <2>2. \A p \in 1 .. end'[l] : \/ p \in 1 .. end[l] /\ mem'[l][p].term = mem[l][p].term
                                \/ mem'[l][p].term = term[l]
    BY <1>3, <1>6, <2>1
  <2> QED BY <1>4, <1>7, <2>2, RolesKept
<1>11. Bounds'
  <2>1. MaxLog \in Nat
    BY Sizes
  <2> QED BY <1>3, <1>4, <1>5, <1>7, <2>1 DEF Bounds
<1>12. Prefixes(a, l)'
  <2>1. ASSUME NEW i \in Live(a, l)
        PROVE  /\ end'[i] <= end'[l] /\ commit'[i] <= commit'[l]
               /\ \A p \in 1 .. end'[i] : mem'[i][p].term = mem'[l][p].term
    <3>1. i \in Server /\ end[i] <= end[l] /\ commit[i] <= commit[l] /\ SameTerms(i, l, end[i])
      BY <1>7, <2>1 DEF Prefixes, Live
    <3>2. CASE i = l
      BY <1>3, <1>4, <1>5, <3>1, <3>2
    <3>3. CASE i # l
      <4>1. end'[i] = end[i] /\ end'[i] <= end'[l] /\ commit'[i] <= commit'[l]
        BY <1>3, <1>4, <1>5, <3>1, <3>3
      <4>2. \A p \in 1 .. end[i] : mem'[i][p].term = mem'[l][p].term
        BY <1>5, <1>8, <3>1
      <4> QED BY <4>1, <4>2
    <3> QED BY <3>2, <3>3
  <2> QED BY <2>1 DEF Prefixes, Live, SameTerms
<1>13. Complete(l)'
  <2>1. ASSUME NEW i \in Server
        PROVE  commit'[i] <= end'[l] /\ \A p \in 1 .. commit'[i] : mem'[i][p].term = mem'[l][p].term
    <3>1. commit[i] <= end[l] /\ SameTerms(i, l, commit[i])
      BY <1>7 DEF Complete
    <3>2. \A p \in 1 .. commit[i] : mem'[i][p].term = mem'[l][p].term
      BY <1>5, <1>8, <3>1
    <3> QED BY <1>3, <1>4, <1>5, <3>1, <3>2
  <2> QED BY <2>1 DEF Complete, SameTerms
<1>14. CommittedOnMajority'
  <2>1. ASSUME NEW i \in Server, NEW p \in 1 .. commit'[i]
        PROVE  p <= commit[i] /\ mem'[i][p].term = mem[i][p].term
    <3>1. p \in 1 .. end[i] /\ p <= commit[i]
      BY <1>4, <1>5, <1>7 DEF Bounds
    <3> QED BY <1>3, <1>6, <3>1
  <2> QED BY <1>7, <1>9, <2>1, CommittedKept
<1>15. RepliesTrue(a)'
  <2>1. \A j \in Server : old_end[j] <= old_end'[j]
    BY <1>3, <1>5, <1>7 DEF Bounds
  <2>2. \A i \in Server, p \in Pos : \A j \in mem'[i][p].reply : j \in mem[i][p].reply
    BY <1>3
  <2> QED BY <1>4, <1>7, <2>1, <2>2, RepliesKept
<1>16. Knowledge(a, l)'
  <2>1. ASSUME NEW f \in Server PROVE KnowsOf(a, l, f)'
    <3>1. KnowsOf(a, l, f) /\ (end[f] <= end[l] \/ f \notin Live(a, l))
      BY <1>7 DEF Knowledge, Prefixes
    <3>2. end'[l] \in Nat /\ end[l] <= end'[l] /\ (end'[f] = end[f] \/ f = l)
      BY <1>3, <1>5
    <3>3. \A p \in 1 .. end[l] : mem'[f][p].term = mem[f][p].term /\ mem'[l][p].term = mem[l][p].term
      BY <1>3, <1>6
    <3> QED BY <1>4, <1>5, <1>7, <3>1, <3>2, <3>3, KnowsOfKept
  <2> QED BY <2>1 DEF Knowledge
<1> QED BY <1>9, <1>10, <1>11, <1>12, <1>13, <1>14, <1>15, <1>16 DEF Led

\* When no entry, end or commit offset changes, it is enough to look at the roles, at
\* what has been persisted and at what the leader knows.
LEMMA SameLogs ==
    ASSUME TypeOK, TypeOK', NEW a \in Server, NEW l \in Server, Led(a, l),
           end' = end, commit' = commit,
           \A i \in Server, p \in Pos : mem'[i][p].term = mem[i][p].term,
           \A i \in Server : old_end'[i] \in {old_end[i], end[i]},
           Roles(a, l)', RepliesTrue(a)', Knowledge(a, l)'
    PROVE  Led(a, l)' /\ Grows
<1>1. Bounds /\ Prefixes(a, l) /\ Complete(l) /\ CommittedOnMajority
  BY DEF Led
<1>2. \A i \in Server : end[i] \in Nat
  BY Facts
<1>3. Bounds'
  BY <1>1, <1>2 DEF Bounds
<1>4. Grows /\ Prefixes(a, l)' /\ Complete(l)' /\ CommittedOnMajority'
  BY <1>1, LogsKept
<1> QED BY <1>3, <1>4 DEF Led

\* What the leader knows of a server whose state no step of the leader's has moved.
LEMMA SameKnowsOf ==
    ASSUME TypeOK, NEW a \in Server, NEW l \in Server, NEW f \in Server, Led(a, l),
           end' = end, commit' = commit, term'[f] = term[f], term'[l] = term[l],
           \A i \in Server, p \in Pos : mem'[i][p].term = mem[i][p].term,
           vote_ack'[l][f] = vote_ack[l][f],
           nc_buf'[l][f] = nc_buf[l][f], nc_buf'[f][f] = nc_buf[f][f],
           lr'[l][f].step = lr[l][f].step, lr'[l][f].end = lr[l][f].end,
           lr'[l][f].cached = lr[l][f].cached
    PROVE  KnowsOf(a, l, f)'
<1>1. KnowsOf(a, l, f) /\ Bounds /\ (end[f] <= end[l] \/ f \notin Live(a, l))
  BY DEF Led, Knowledge, Prefixes
<1>2. end[l] \in Nat /\ end'[l] \in Nat /\ end[l] <= end'[l]
  BY Facts
<1>3. \A p \in 1 .. end[l] : mem'[f][p].term = mem[f][p].term /\ mem'[l][p].term = mem[l][p].term
  BY Facts
<1> QED BY <1>1, <1>2, <1>3, KnowsOfKept

\* A server replies for the entries before its end offset, and for them only.
LEMMA PersistSafe ==
    ASSUME TypeOK, TypeOK', NEW a \in Server, NEW l \in Server, Led(a, l),
           NEW f \in Server, Persist(f)
    PROVE  Led(a, l)' /\ Grows
<1> DEFINE new == Walked(old_end[f], end[f])
<1>1. /\ f \notin leading
      /\ mem' = [mem EXCEPT ![f] = [p \in Pos |->
                    IF p \in new THEN [mem[f][p] EXCEPT !.reply = mem[f][p].reply \cup {f}] ELSE mem[f][p]]]
      /\ replies' = replies \cup RepliesTo(f, new)
      /\ old_end' = [old_end EXCEPT ![f] = end[f]]
      /\ UNCHANGED <<term, leading, vote_ack, end, commit, nc_buf, lr, up>>
  BY DEF Persist, roleVars
<1>2. Roles(a, l) /\ Bounds /\ RepliesTrue(a)
  BY DEF Led
<1>3. f # a /\ old_end[f] <= end[f]
  BY <1>1, <1>2 DEF Roles, Bounds
<1>4. \A i \in Server : end[i] \in Nat /\ old_end[i] \in Nat
  BY Facts
<1>5. new = old_end[f] + 1 .. end[f]
  BY <1>3, Facts, Forward
<1>6. \A p \in new : p \in 1 .. end[f] /\ p \in Pos
  BY <1>4, <1>5, Facts
<1> HIDE DEF new
<1>7. old_end'[f] = end[f] /\ \A i \in Server \ {f} : old_end'[i] = old_end[i]
  BY <1>1 DEF TypeOK
<1>8. \A e \in Entry : /\ [e EXCEPT !.reply = e.reply \cup {f}].term = e.term
                       /\ [e EXCEPT !.reply = e.reply \cup {f}].reply = e.reply \cup {f}
  BY DEF Entry
<1>9. ASSUME NEW i \in Server, NEW p \in Pos
      PROVE  /\ mem'[i][p].term = mem[i][p].term
             /\ \A j \in mem'[i][p].reply : j \in mem[i][p].reply \/ (j = f /\ p \in new)
  <2>1. CASE i = f
    <3>1. PICK e \in Entry : e = mem[f][p]
      BY DEF TypeOK
    <3>2. mem'[f][p] = IF p \in new THEN [mem[f][p] EXCEPT !.reply = mem[f][p].reply \cup {f}]
                                    ELSE mem[f][p]
      BY <1>1 DEF TypeOK
    <3>3. mem'[f][p] = IF p \in new THEN [e EXCEPT !.reply = e.reply \cup {f}] ELSE e
      BY <3>1, <3>2
    <3> QED BY <1>8, <2>1, <3>1, <3>3
  <2>2. CASE i # f
    <3>1. mem'[i] = mem[i]
      BY <1>1, <2>2 DEF TypeOK
    <3> QED BY <3>1
  <2> QED BY <2>1, <2>2
<1>10. Roles(a, l)'
  <2>1. \A p \in 1 .. end'[l] : p \in 1 .. end[l] /\ mem'[l][p].term = mem[l][p].term
    BY <1>1, <1>9, Facts
  <2> QED BY <1>1, <1>2, <2>1, RolesKept
<1>11. RepliesTrue(a)'
  <2>1. \A i \in Server : old_end[i] <= old_end'[i] /\ old_end'[i] \in Nat
    BY <1>2, <1>4, <1>7 DEF Bounds
  <2>2. \A p \in Pos : p \in Nat
    BY Sizes
  <2>3. ASSUME NEW i \in Server, NEW p \in Pos, NEW j \in mem'[i][p].reply
        PROVE  j # a /\ p <= old_end'[j]
    <3>1. CASE j \in mem[i][p].reply
      <4>1. j \in Server /\ j # a /\ p <= old_end[j]
        BY <1>2, <3>1, Facts DEF RepliesTrue
      <4> QED BY <1>4, <2>1, <2>2, <4>1
    <3>2. CASE j = f /\ p \in new
      BY <1>3, <1>4, <1>6, <1>7, <3>2
    <3> QED BY <1>9, <2>3, <3>1, <3>2
  <2>4. ASSUME NEW r \in replies' PROVE r.from # a /\ r.pos <= old_end'[r.from]
    <3>1. CASE r \in replies
      <4>1. r.from \in Server /\ r.pos \in Pos /\ r.from # a /\ r.pos <= old_end[r.from]
        BY <1>2, <3>1 DEF RepliesTrue, TypeOK, Reply
      <4> QED BY <1>4, <2>1, <2>2, <4>1
    <3>2. CASE r \in RepliesTo(f, new)
      <4>1. r.from = f /\ r.pos \in new
        BY <3>2 DEF RepliesTo
      <4> QED BY <1>3, <1>4, <1>6, <1>7, <4>1
    <3> QED BY <1>1, <2>4, <3>1, <3>2
  <2> QED BY <2>3, <2>4 DEF RepliesTrue
<1>12. Knowledge(a, l)'
  <2>1. ASSUME NEW g \in Server PROVE KnowsOf(a, l, g)'
    BY <1>1, <1>9, SameKnowsOf
  <2> QED BY <2>1 DEF Knowledge
<1>13. \A i \in Server : old_end'[i] \in {old_end[i], end[i]}
  BY <1>7
<1> QED BY <1>1, <1>9, <1>10, <1>11, <1>12, <1>13, SameLogs

\* A reply byte that lands was true when it was posted, and still is.
LEMMA LandReplySafe ==
    ASSUME TypeOK, TypeOK', NEW a \in Server, NEW l \in Server, Led(a, l),
           NEW r \in replies, LandReply(r)
    PROVE  Led(a, l)' /\ Grows
<1>1. /\ replies' = replies \ {r}
      /\ UNCHANGED <<term, leading, vote_ack, end, old_end, commit, nc_buf, lr, up>>
  BY DEF LandReply, roleVars
<1>2. r.from \in Server /\ r.to \in Server /\ r.pos \in Pos
  BY DEF TypeOK, Reply
<1>3. \A e \in Entry : /\ [e EXCEPT !.reply = e.reply \cup {r.from}].term = e.term
                       /\ [e EXCEPT !.reply = e.reply \cup {r.from}].reply = e.reply \cup {r.from}
  BY DEF Entry
<1>4. \/ mem' = mem
      \/ mem' = [mem EXCEPT ![r.to] = [mem[r.to] EXCEPT ![r.pos] =
                    [mem[r.to][r.pos] EXCEPT !.reply = mem[r.to][r.pos].reply \cup {r.from}]]]
  BY Zenon DEF LandReply
<1>5. ASSUME NEW i \in Server, NEW p \in Pos
      PROVE  /\ mem'[i][p].term = mem[i][p].term
             /\ \A j \in mem'[i][p].reply : j \in mem[i][p].reply \/ (j = r.from /\ p = r.pos)
  <2>1. CASE mem' = mem
    BY <2>1
  <2>2. CASE mem' # mem
    <3>1. PICK e \in Entry : e = mem[r.to][r.pos]
      BY <1>2 DEF TypeOK
    <3>2. PICK x : x = [e EXCEPT !.reply = e.reply \cup {r.from}]
      OBVIOUS
    <3>3. mem' = [mem EXCEPT ![r.to] = [mem[r.to] EXCEPT ![r.pos] = x]]
      BY <1>4, <2>2, <3>1, <3>2
    <3>4. mem'[i][p] = IF i = r.to /\ p = r.pos THEN x ELSE mem[i][p]
      BY <1>2, <3>3 DEF TypeOK
    <3>5. x.term = e.term /\ x.reply = e.reply \cup {r.from}
      BY <1>3, <3>2
    <3> QED BY <3>1, <3>4, <3>5
  <2> QED BY <2>1, <2>2
<1>6. Roles(a, l) /\ RepliesTrue(a)
  BY DEF Led
<1>7. Roles(a, l)'
  <2>1. \A p \in 1 .. end'[l] : p \in 1 .. end[l] /\ mem'[l][p].term = mem[l][p].term
    BY <1>1, <1>5, Facts
  <2> QED BY <1>1, <1>6, <2>1, RolesKept
<1>8. RepliesTrue(a)'
  <2>1. \A j \in Server : old_end[j] <= old_end'[j]
    BY <1>1, Facts
  <2>2. \A i \in Server, p \in Pos : \A j \in mem'[i][p].reply :
            \/ \E k \in Server : j \in mem[k][p].reply
            \/ \E q \in replies : q.from = j /\ q.pos = p
    BY <1>5
  <2> QED BY <1>1, <1>6, <2>1, <2>2, RepliesKept
<1>9. Knowledge(a, l)'
  <2>1. ASSUME NEW g \in Server PROVE KnowsOf(a, l, g)'
    BY <1>1, <1>5, SameKnowsOf
  <2> QED BY <2>1 DEF Knowledge
<1> QED BY <1>1, <1>5, <1>7, <1>8, <1>9, SameLogs

LEMMA CrashSafe ==
    ASSUME TypeOK, TypeOK', NEW a \in Server, NEW l \in Server, Led(a, l),
           NEW i \in Server, Crash(i)
    PROVE  Led(a, l)' /\ Grows
<1>1. /\ UNCHANGED <<term, leading, vote_ack, mem, end, old_end, commit, nc_buf, lr, replies>>
      /\ up' \subseteq up
  BY DEF Crash, roleVars, logVars
<1>2. Roles(a, l) /\ RepliesTrue(a)
  BY DEF Led
<1>3. Roles(a, l)'
  BY <1>1, <1>2, RolesKept
<1>4. RepliesTrue(a)'
  BY <1>1, <1>2 DEF RepliesTrue
<1>5. Knowledge(a, l)'
  <2>1. ASSUME NEW g \in Server PROVE KnowsOf(a, l, g)'
    BY <1>1, SameKnowsOf
  <2> QED BY <2>1 DEF Knowledge
<1> QED BY <1>1, <1>3, <1>4, <1>5, SameLogs

\* Only a server that has not taken part in the first election follows an HB: it has
\* nothing, and acknowledges that.
LEMMA FollowSafe ==
    ASSUME TypeOK, TypeOK', NEW a \in Server, NEW l \in Server, Led(a, l),
           NEW f \in Server, NEW k \in Server, Follow(f, k)
    PROVE  Led(a, l)' /\ Grows
<1>1. Roles(a, l) /\ RepliesTrue(a) /\ Bounds /\ Knowledge(a, l)
  BY DEF Led
<1>2. k = l
  BY <1>1, Leads DEF Follow
<1>3. /\ f \in up /\ term[f] < term[l]
      /\ term' = [term EXCEPT ![f] = term[l]]
      /\ leading' = leading \ {f}
      /\ nc_buf' = [nc_buf EXCEPT ![f][f] = NotCommitted(f)]
      /\ vote_ack' = [vote_ack EXCEPT ![l][f] = commit[f]]
      /\ replies' \subseteq replies
      /\ UNCHANGED <<mem, end, old_end, commit, lr, up>>
  BY <1>2 DEF Follow, logVars, NotReset
<1>4. a = l /\ f # l
  BY <1>1, <1>3, Facts DEF Roles
<1>5. KnowsOf(a, l, f)
  BY <1>1 DEF Knowledge
<1>6. lr[l][f].step = "get"
  <2>1. ~Known(a, l, f)
    BY <1>3, Facts DEF Known
  <2> QED BY <1>5, <2>1 DEF KnowsOf, Unknown
<1>7. term'[f] = term[l] /\ \A i \in Server \ {f} : term'[i] = term[i]
  BY <1>3 DEF TypeOK
<1>8. Roles(a, l)'
  <2>1. leading' = {a, l}
    BY <1>1, <1>3, <1>4 DEF Roles
  <2>2. 0 < term'[l] /\ \A i \in Server : term'[i] <= term'[l]
    BY <1>1, <1>4, <1>7, Facts DEF Roles
  <2>3. f \in Server \ {l} /\ term'[f] = term'[l]
    BY <1>4, <1>7
  <2>4. \A p \in 1 .. end'[l] : mem'[l][p].term = term'[l]
    BY <1>1, <1>3, <1>4, <1>7 DEF Roles
  <2> QED BY <1>4, <2>1, <2>2, <2>3, <2>4 DEF Roles
<1>9. RepliesTrue(a)'
  BY <1>1, <1>3 DEF RepliesTrue
<1>10. Knowledge(a, l)'
  <2>1. ASSUME NEW g \in Server, g # f PROVE KnowsOf(a, l, g)'
    <3>1. /\ vote_ack'[l][g] = vote_ack[l][g]
          /\ nc_buf'[l][g] = nc_buf[l][g] /\ nc_buf'[g][g] = nc_buf[g][g]
      BY <1>3, <1>4, <2>1 DEF TypeOK
    <3> QED BY <1>3, <1>4, <1>7, <2>1, <3>1, SameKnowsOf
  <2>2. KnowsOf(a, l, f)'
    <3>1. NotCommitted(f)' = NotCommitted(f)
      BY <1>1, <1>3, NotCommittedKept
    <3>2. nc_buf'[f][f] = NotCommitted(f)
      BY <1>3 DEF TypeOK
    <3>3. vote_ack'[l][f] = commit[f] /\ commit'[f] = commit[f]
      BY <1>3 DEF TypeOK
    <3>4. lr'[l][f].step = "get" /\ f \in Live(a, l)' \ {l} /\ term'[f] = term'[l]
      BY <1>3, <1>4, <1>6, <1>7 DEF Live
    <3>5. Known(a, l, f)'
      BY <3>1, <3>2, <3>3, <3>4 DEF Known, Live
    <3>6. vote_ack'[l][f] # NoAck
      BY <3>3, Facts DEF NoAck
    <3> QED BY <3>5, <3>6 DEF KnowsOf
  <2> QED BY <2>1, <2>2 DEF Knowledge
<1>11. \A i \in Server : old_end'[i] \in {old_end[i], end[i]}
  BY <1>3
<1> QED BY <1>3, <1>8, <1>9, <1>10, <1>11, SameLogs

\* The buffer that the leader reads is what the server has not committed; when it is
\* empty, the server's log ends at its commit offset.
LEMMA GetEntriesSafe ==
    ASSUME TypeOK, TypeOK', NEW a \in Server, NEW l \in Server, Led(a, l),
           NEW k \in Server, NEW f \in Server, GetEntries(k, f)
    PROVE  Led(a, l)' /\ Grows
<1>1. Roles(a, l) /\ RepliesTrue(a) /\ Bounds /\ Prefixes(a, l)
  BY DEF Led
<1>2. k = l /\ Known(a, l, f)
  BY Accessed DEF GetEntries
<1>3. /\ lr[l][f].step = "get"
      /\ commit' = [commit EXCEPT ![l] = Largest(end[l], {commit[l], vote_ack[l][f]})]
      /\ nc_buf' = [nc_buf EXCEPT ![l][f] = nc_buf[f][f]]
      /\ lr' = [lr EXCEPT ![l][f] =
                   IF nc_buf[f][f].terms = <<>>
                   THEN [lr[l][f] EXCEPT !.step = "log", !.commit = vote_ack[l][f],
                                         !.end = vote_ack[l][f]]
                   ELSE [lr[l][f] EXCEPT !.step = NextStep.get, !.commit = vote_ack[l][f]]]
      /\ UNCHANGED <<term, leading, vote_ack, mem, end, old_end, replies, up>>
  BY <1>2 DEF GetEntries, roleVars
<1>4. /\ f # l /\ f \in Live(a, l) /\ term[f] = term[l]
      /\ nc_buf[f][f] = NotCommitted(f) /\ vote_ack[l][f] = commit[f]
  BY <1>2, <1>3 DEF Known
<1>5. commit[f] \in Nat /\ commit[l] \in Nat /\ end[l] \in Nat /\ end[f] \in Nat
      /\ commit[f] <= commit[l] /\ commit[l] <= end[l] /\ commit[f] <= end[f]
  BY <1>1, <1>4, Facts DEF Prefixes, Bounds
<1>6. commit' = commit
  <2>1. PICK S : S = {commit[l], commit[f]}
    OBVIOUS
  <2>2. S \subseteq 0 .. end[l] /\ S # {}
    BY <1>5, <2>1
  <2>3. PICK c : c = Largest(end[l], S)
    OBVIOUS
  <2>4. c \in S /\ \A y \in S : y <= c
    BY <2>2, <2>3, LargestBelow, Facts
  <2>5. c = commit[l]
    BY <1>5, <2>1, <2>4
  <2>6. commit' = [commit EXCEPT ![l] = c]
    BY <1>3, <1>4, <2>1, <2>3
  <2> QED BY <2>5, <2>6 DEF TypeOK
<1>7. Roles(a, l)'
  <2>1. \A p \in 1 .. end'[l] : p \in 1 .. end[l] /\ mem'[l][p].term = mem[l][p].term
    BY <1>3
  <2> QED BY <1>1, <1>3, <2>1, RolesKept
<1>8. RepliesTrue(a)'
  BY <1>1, <1>3 DEF RepliesTrue
<1>9. nc_buf[f][f].terms = <<>> => end[f] = commit[f]
  <2>1. ASSUME nc_buf[f][f].terms = <<>>, end[f] # commit[f] PROVE FALSE
    <3>1. PICK w : w = Walk(commit[f], end[f])
      OBVIOUS
    <3>2. w = [n \in 1 .. end[f] - commit[f] |-> commit[f] + n]
      BY <1>5, <3>1, Forward, Facts
    <3>3. 1 \in DOMAIN w
      BY <1>5, <2>1, <3>2
    <3>4. nc_buf[f][f].terms = [n \in DOMAIN w |-> mem[f][w[n]].term]
      BY <1>4, <3>1 DEF NotCommitted
    <3>5. 1 \in DOMAIN nc_buf[f][f].terms
      BY <3>3, <3>4
    <3> QED BY <2>1, <3>5
  <2> QED BY <2>1
<1>10. Knowledge(a, l)'
  <2>1. ASSUME NEW g \in Server, g # f PROVE KnowsOf(a, l, g)'
    <3>1. /\ lr'[l][g] = lr[l][g]
          /\ nc_buf'[l][g] = nc_buf[l][g] /\ nc_buf'[g][g] = nc_buf[g][g]
      BY <1>3, <1>4, <2>1 DEF TypeOK
    <3> QED BY <1>3, <1>6, <3>1, SameKnowsOf
  <2>2. KnowsOf(a, l, f)'
    <3>1. NotCommitted(f)' = NotCommitted(f)
      BY <1>1, <1>3, <1>6, NotCommittedKept
    <3>2. nc_buf'[l][f] = nc_buf[f][f]
      BY <1>3 DEF TypeOK
    <3>3. PICK r \in LrState : r = lr[l][f]
      BY DEF TypeOK
    <3>4. PICK c \in Offset : c = commit[f]
      BY Facts
    <3>5. lr'[l][f] = IF nc_buf[f][f].terms = <<>>
                      THEN [r EXCEPT !.step = "log", !.commit = c, !.end = c]
                      ELSE [r EXCEPT !.step = NextStep.get, !.commit = c]
      BY <1>3, <1>4, <3>3, <3>4 DEF TypeOK
    <3>6. /\ [r EXCEPT !.step = "log", !.commit = c, !.end = c].step = "log"
          /\ [r EXCEPT !.step = "log", !.commit = c, !.end = c].end = c
          /\ [r EXCEPT !.step = NextStep.get, !.commit = c].step = "set_end"
      BY DEF LrState, NextStep
    <3>7. \/ nc_buf[f][f].terms = <<>> /\ lr'[l][f].step = "log" /\ lr'[l][f].end = c
          \/ lr'[l][f].step = "set_end"
      BY <3>5, <3>6
    <3>8. f \in Live(a, l)' \ {l} /\ term'[f] = term'[l]
      BY <1>3, <1>4 DEF Live
    <3>9. lr'[l][f].step = "set_end" => nc_buf'[l][f] = NotCommitted(f)'
      BY <1>4, <3>1, <3>2
    <3>10. lr'[l][f].step = "log" => lr'[l][f].end = end'[f]
      BY <1>3, <1>9, <3>4, <3>7
    <3>11. lr'[l][f].step \in {"log", "set_end"}
      BY <3>7
    <3>12. Known(a, l, f)'
      BY <3>8, <3>9, <3>10, <3>11 DEF Known, Live
    <3>13. vote_ack'[l][f] # NoAck
      BY <1>3, <1>4, <1>5 DEF NoAck
    <3> QED BY <3>12, <3>13 DEF KnowsOf
  <2> QED BY <2>1, <2>2 DEF Knowledge
<1>11. \A i \in Server : old_end'[i] \in {old_end[i], end[i]}
  BY <1>3
<1> QED BY <1>3, <1>6, <1>7, <1>8, <1>10, <1>11, SameLogs

\* The adjustment finds the remote log to be a prefix of the leader's: it cuts nothing.
LEMMA SetEndSafe ==
    ASSUME TypeOK, TypeOK', NEW a \in Server, NEW l \in Server, Led(a, l),
           NEW k \in Server, NEW f \in Server, SetEnd(k, f)
    PROVE  Led(a, l)' /\ Grows
<1>1. Roles(a, l) /\ RepliesTrue(a) /\ Bounds /\ Prefixes(a, l)
  BY DEF Led
<1>2. k = l /\ Known(a, l, f)
  BY Accessed DEF SetEnd
<1>3. PICK e : e = RemoteEnd(l, nc_buf[l][f])
  OBVIOUS
<1>4. /\ lr[l][f].step = "set_end"
      /\ end' = [end EXCEPT ![f] = e]
      /\ lr' = [lr EXCEPT ![l][f].end = e, ![l][f].step = NextStep.set_end]
      /\ UNCHANGED <<term, leading, vote_ack, mem, old_end, commit, nc_buf, replies, up>>
  BY <1>2, <1>3 DEF SetEnd, roleVars
<1>5. f # l /\ f \in Live(a, l) /\ term[f] = term[l] /\ nc_buf[l][f] = NotCommitted(f)
      /\ vote_ack[l][f] # NoAck
  BY <1>2, <1>4 DEF Known, SetEnd, Access
<1>6. e = end[f]
  <2>1. end[f] <= end[l] /\ SameTerms(f, l, end[f])
    BY <1>1, <1>5 DEF Prefixes
  <2> QED BY <1>1, <1>3, <1>5, <2>1, RemoteEndTrue
<1>7. end' = end
  BY <1>4, <1>6 DEF TypeOK
<1>8. Roles(a, l)'
  <2>1. \A p \in 1 .. end'[l] : p \in 1 .. end[l] /\ mem'[l][p].term = mem[l][p].term
    BY <1>4, <1>7
  <2> QED BY <1>1, <1>4, <2>1, RolesKept
<1>9. RepliesTrue(a)'
  BY <1>1, <1>4 DEF RepliesTrue
<1>10. Knowledge(a, l)'
  <2>1. ASSUME NEW g \in Server, g # f PROVE KnowsOf(a, l, g)'
    <3>1. lr'[l][g] = lr[l][g]
      BY <1>4, <2>1 DEF TypeOK
    <3> QED BY <1>4, <1>7, <3>1, SameKnowsOf
  <2>2. KnowsOf(a, l, f)'
    <3>1. lr'[l][f].step = "log" /\ lr'[l][f].end = e
      <4>1. PICK r \in LrState : r = lr[l][f]
        BY DEF TypeOK
      <4>2. lr'[l][f] = [[r EXCEPT !.end = e] EXCEPT !.step = "log"]
        BY <1>4, <4>1 DEF TypeOK, NextStep
      <4>3. PICK c \in Offset : c = e
        BY <1>6, Facts
      <4>4. [[r EXCEPT !.end = c] EXCEPT !.step = "log"].step = "log"
            /\ [[r EXCEPT !.end = c] EXCEPT !.step = "log"].end = c
        BY DEF LrState
      <4> QED BY <4>2, <4>3, <4>4
    <3>2. f \in Live(a, l)' \ {l} /\ term'[f] = term'[l]
      BY <1>4, <1>5 DEF Live
    <3>3. Known(a, l, f)'
      BY <1>6, <1>7, <3>1, <3>2 DEF Known, Live
    <3>4. vote_ack'[l][f] # NoAck
      BY <1>4, <1>5
    <3> QED BY <3>3, <3>4 DEF KnowsOf
  <2> QED BY <2>1, <2>2 DEF Knowledge
<1>11. \A i \in Server : old_end'[i] \in {old_end[i], end[i]}
  BY <1>4
<1> QED BY <1>4, <1>7, <1>8, <1>9, <1>10, <1>11, SameLogs

\* When a remote log gets, or shows, more of what the leader's log has.
LEMMA RemoteGrown ==
    ASSUME TypeOK, TypeOK', NEW a \in Server, NEW l \in Server, Led(a, l),
           NEW f \in Server, f \in Live(a, l), f # l,
           UNCHANGED <<term, leading, up, commit, old_end>>,
           \A i \in Server \ {f} : /\ end'[i] = end[i]
                                   /\ \A p \in Pos : mem'[i][p].term = mem[i][p].term,
           end[f] <= end'[f], end'[f] <= end[l],
           \A p \in 1 .. end[f] : mem'[f][p].term = mem[f][p].term,
           \A p \in 1 .. end'[f] : mem'[f][p].term = mem[l][p].term
    PROVE  Grows /\ Roles(a, l)' /\ Bounds' /\ Prefixes(a, l)' /\ Complete(l)' /\ CommittedOnMajority'
<1>1. Roles(a, l) /\ Bounds /\ Prefixes(a, l) /\ Complete(l) /\ CommittedOnMajority
  BY DEF Led
<1>2. \A i \in Server : end[i] \in Nat /\ commit[i] \in Nat /\ commit[i] <= end[i]
  BY <1>1, Facts DEF Bounds
<1>3. \A i \in Server : end'[i] \in Nat
  BY Sizes DEF TypeOK
<1>4. end'[l] = end[l] /\ \A p \in 1 .. end[l] : mem'[l][p].term = mem[l][p].term
  BY Facts
<1>5. \A i \in Server : \A p \in 1 .. end[i] : mem'[i][p].term = mem[i][p].term
  BY Facts
<1>6. Grows
  BY <1>2, <1>5 DEF Grows
<1>7. Roles(a, l)'
  BY <1>1, <1>4, RolesKept
<1>8. Bounds'
  <2>1. end[l] <= MaxLog /\ MaxLog \in Nat
    BY <1>1, Sizes DEF Bounds
  <2>2. \A i \in Server : old_end[i] \in Nat /\ old_end[i] <= end[i]
    BY <1>1, Facts DEF Bounds
  <2> QED BY <1>1, <1>2, <1>3, <2>1, <2>2 DEF Bounds
<1>9. Prefixes(a, l)'
  <2>1. ASSUME NEW i \in Live(a, l)
        PROVE  /\ end'[i] <= end'[l] /\ commit'[i] <= commit'[l]
               /\ \A p \in 1 .. end'[i] : mem'[i][p].term = mem'[l][p].term
    <3>1. i \in Server /\ end[i] <= end[l] /\ commit[i] <= commit[l]
          /\ \A p \in 1 .. end[i] : mem[i][p].term = mem[l][p].term
      BY <1>1, <2>1 DEF Prefixes, Live, SameTerms
    <3>2. CASE i = f
      <4>1. \A p \in 1 .. end'[f] : p \in 1 .. end[l]
        BY <1>2, <1>3
      <4> QED BY <1>4, <3>1, <3>2, <4>1
    <3>3. CASE i # f
      <4>1. end'[i] = end[i] /\ \A p \in 1 .. end[i] : p \in 1 .. end[l]
        BY <1>2, <3>1, <3>3
      <4> QED BY <1>4, <1>5, <3>1, <4>1
    <3> QED BY <3>2, <3>3
  <2> QED BY <2>1 DEF Prefixes, Live, SameTerms
<1>10. Complete(l)'
  <2>1. ASSUME NEW i \in Server
        PROVE  commit'[i] <= end'[l] /\ \A p \in 1 .. commit'[i] : mem'[i][p].term = mem'[l][p].term
    <3>1. commit[i] <= end[l] /\ \A p \in 1 .. commit[i] : mem[i][p].term = mem[l][p].term
      BY <1>1 DEF Complete, SameTerms
    <3>2. \A p \in 1 .. commit[i] : p \in 1 .. end[l] /\ p \in 1 .. end[i]
      BY <1>2, <3>1
    <3> QED BY <1>4, <1>5, <3>1, <3>2
  <2> QED BY <2>1 DEF Complete, SameTerms
<1>11. CommittedOnMajority'
  <2>1. ASSUME NEW i \in Server, NEW p \in 1 .. commit'[i]
        PROVE  p <= commit[i] /\ mem'[i][p].term = mem[i][p].term
    <3>1. p \in 1 .. end[i]
      BY <1>2
    <3> QED BY <1>5, <3>1
  <2> QED BY <1>1, <1>6, <2>1, CommittedKept
<1> QED BY <1>6, <1>7, <1>8, <1>9, <1>10, <1>11

\* The leader writes after the end of the remote log, where it is: no entry is lost.
LEMMA WriteLogSafe ==
    ASSUME TypeOK, TypeOK', NEW a \in Server, NEW l \in Server, Led(a, l),
           NEW k \in Server, NEW f \in Server, WriteLog(k, f)
    PROVE  Led(a, l)' /\ Grows
<1>1. Roles(a, l) /\ RepliesTrue(a) /\ Bounds /\ Prefixes(a, l) /\ Knowledge(a, l)
  BY DEF Led
<1>2. k = l /\ Known(a, l, f)
  BY Accessed DEF WriteLog
<1> DEFINE W == Walked(lr[l][f].end, end[l])
<1>3. /\ lr[l][f].step = "log" /\ vote_ack[l][f] # NoAck
      /\ mem' = [mem EXCEPT ![f] = [p \in Pos |-> IF p \in W THEN mem[l][p] ELSE mem[f][p]]]
      /\ lr' = [lr EXCEPT ![l][f].cached = end[l], ![l][f].step = NextStep.log]
      /\ UNCHANGED <<term, leading, vote_ack, end, old_end, commit, nc_buf, replies, up>>
  BY <1>2 DEF WriteLog, Access, roleVars
<1>4. f # l /\ f \in Live(a, l) /\ term[f] = term[l] /\ lr[l][f].end = end[f]
  BY <1>2, <1>3 DEF Known
<1>5. end[f] <= end[l] /\ SameTerms(f, l, end[f]) /\ end[f] \in Nat /\ end[l] \in Nat
  BY <1>1, <1>4, Facts DEF Prefixes
<1>6. W = end[f] + 1 .. end[l]
  BY <1>4, <1>5, Facts, Forward
<1> HIDE DEF W
<1>7. \A i \in Server \ {f} : mem'[i] = mem[i]
  BY <1>3 DEF TypeOK
<1>8. \A p \in Pos : mem'[f][p] = IF p \in W THEN mem[l][p] ELSE mem[f][p]
  BY <1>3 DEF TypeOK
<1>9. \A p \in 1 .. end[f] : p \notin W /\ p \in Pos
  BY <1>5, <1>6, Facts
<1>10. \A p \in 1 .. end[l] : p \in Pos /\ (p \in W \/ p \in 1 .. end[f])
  BY <1>5, <1>6, Facts
<1>11. \A p \in 1 .. end[l] : mem'[f][p].term = mem[l][p].term
  BY <1>5, <1>8, <1>10 DEF SameTerms
<1>12. \A p \in 1 .. end[f] : mem'[f][p].term = mem[f][p].term
  BY <1>8, <1>9
<1>13. Grows /\ Roles(a, l)' /\ Bounds' /\ Prefixes(a, l)' /\ Complete(l)' /\ CommittedOnMajority'
  <2>1. \A p \in 1 .. end'[f] : mem'[f][p].term = mem[l][p].term
    BY <1>3, <1>5, <1>11
  <2>2. end[f] <= end'[f] /\ end'[f] <= end[l]
    BY <1>3, <1>5
  <2>3. \A i \in Server \ {f} : /\ end'[i] = end[i]
                                /\ \A p \in Pos : mem'[i][p].term = mem[i][p].term
    BY <1>3, <1>7
  <2> QED BY <1>3, <1>4, <1>12, <2>1, <2>2, <2>3, RemoteGrown
<1>14. RepliesTrue(a)'
  <2>1. \A j \in Server : old_end[j] <= old_end'[j]
    BY <1>3, Facts
  <2>2. \A i \in Server, p \in Pos : mem'[i][p] = mem[i][p] \/ mem'[i][p] = mem[l][p]
    BY <1>7, <1>8
  <2>3. \A i \in Server, p \in Pos : \A j \in mem'[i][p].reply : \E n \in Server : j \in mem[n][p].reply
    BY <2>2
  <2> QED BY <1>1, <1>3, <2>1, <2>3, RepliesKept
<1>15. Knowledge(a, l)'
  <2>1. ASSUME NEW g \in Server, g # f PROVE KnowsOf(a, l, g)'
    <3>1. lr'[l][g] = lr[l][g]
      BY <1>3, <2>1 DEF TypeOK
    <3>2. KnowsOf(a, l, g) /\ (end[g] <= end[l] \/ g \notin Live(a, l))
      BY <1>1 DEF Knowledge, Prefixes
    <3>3. \A p \in 1 .. end[l] : mem'[g][p].term = mem[g][p].term /\ mem'[l][p].term = mem[l][p].term
      BY <1>4, <1>7, <2>1
    <3>4. end'[l] \in Nat /\ end[l] \in Nat /\ end[l] <= end'[l]
      BY <1>3, <1>5
    <3> QED BY <1>1, <1>3, <3>1, <3>2, <3>3, <3>4, KnowsOfKept
  <2>2. KnowsOf(a, l, f)'
    <3>1. lr'[l][f].step = "end" /\ lr'[l][f].cached = end[l] /\ lr'[l][f].end = lr[l][f].end
      <4>1. PICK r \in LrState : r = lr[l][f]
        BY DEF TypeOK
      <4>2. PICK c \in Offset : c = end[l]
        BY Facts
      <4>3. lr'[l][f] = [[r EXCEPT !.cached = c] EXCEPT !.step = "end"]
        BY <1>3, <4>1, <4>2 DEF TypeOK, NextStep
      <4>4. /\ [[r EXCEPT !.cached = c] EXCEPT !.step = "end"].step = "end"
            /\ [[r EXCEPT !.cached = c] EXCEPT !.step = "end"].cached = c
            /\ [[r EXCEPT !.cached = c] EXCEPT !.step = "end"].end = r.end
        BY DEF LrState
      <4> QED BY <4>1, <4>2, <4>3, <4>4
    <3>2. f \in Live(a, l)' \ {l} /\ term'[f] = term'[l]
      BY <1>3, <1>4 DEF Live
    <3>3. lr'[l][f].cached \in end'[f] .. end'[l]
      BY <1>3, <1>5, <3>1
    <3>4. \A p \in 1 .. lr'[l][f].cached : mem'[f][p].term = mem'[l][p].term
      BY <1>4, <1>7, <1>11, <3>1
    <3>5. Known(a, l, f)'
      BY <1>3, <1>4, <3>1, <3>2, <3>3, <3>4 DEF Known, Live, SameTerms
    <3> QED BY <1>3, <3>5 DEF KnowsOf
  <2> QED BY <2>1, <2>2 DEF Knowledge
<1> QED BY <1>13, <1>14, <1>15 DEF Led

\* The remote end moves over what the leader has written there.
LEMMA WriteEndSafe ==
    ASSUME TypeOK, TypeOK', NEW a \in Server, NEW l \in Server, Led(a, l),
           NEW k \in Server, NEW f \in Server, WriteEnd(k, f)
    PROVE  Led(a, l)' /\ Grows
<1>1. Roles(a, l) /\ RepliesTrue(a) /\ Bounds /\ Prefixes(a, l) /\ Knowledge(a, l)
  BY DEF Led
<1>2. k = l /\ Known(a, l, f)
  BY Accessed DEF WriteEnd
<1>3. PICK c \in Offset : c = lr[l][f].cached
  BY Facts
<1>4. /\ lr[l][f].step = "end" /\ vote_ack[l][f] # NoAck
      /\ end' = [end EXCEPT ![f] = c]
      /\ lr' = [lr EXCEPT ![l][f].end = c, ![l][f].step = NextStep.end]
      /\ UNCHANGED <<term, leading, vote_ack, mem, old_end, commit, nc_buf, replies, up>>
  BY <1>2, <1>3 DEF WriteEnd, Access, roleVars
<1>5. /\ f # l /\ f \in Live(a, l) /\ term[f] = term[l] /\ c \in end[f] .. end[l]
      /\ \A p \in 1 .. c : mem[f][p].term = mem[l][p].term
  BY <1>2, <1>3, <1>4 DEF Known, SameTerms
<1>6. end[f] \in Nat /\ end[l] \in Nat
  BY Facts
<1>7. end'[f] = c /\ \A i \in Server \ {f} : end'[i] = end[i]
  BY <1>4 DEF TypeOK
<1>8. Grows /\ Roles(a, l)' /\ Bounds' /\ Prefixes(a, l)' /\ Complete(l)' /\ CommittedOnMajority'
  <2>1. end[f] <= end'[f] /\ end'[f] <= end[l]
    BY <1>5, <1>6, <1>7
  <2>2. \A p \in 1 .. end'[f] : mem'[f][p].term = mem[l][p].term
    BY <1>4, <1>5, <1>7
  <2> QED BY <1>4, <1>5, <1>7, <2>1, <2>2, RemoteGrown
<1>9. RepliesTrue(a)'
  BY <1>1, <1>4 DEF RepliesTrue
<1>10. Knowledge(a, l)'
  <2>1. ASSUME NEW g \in Server, g # f PROVE KnowsOf(a, l, g)'
    <3>1. lr'[l][g] = lr[l][g]
      BY <1>4, <2>1 DEF TypeOK
    <3>2. KnowsOf(a, l, g) /\ (end[g] <= end[l] \/ g \notin Live(a, l))
      BY <1>1 DEF Knowledge, Prefixes
    <3>3. end'[g] = end[g] /\ end'[l] = end[l] /\ end[l] <= end'[l]
      BY <1>5, <1>6, <1>7, <2>1
    <3> QED BY <1>1, <1>4, <1>6, <3>1, <3>2, <3>3, KnowsOfKept
  <2>2. KnowsOf(a, l, f)'
    <3>1. lr'[l][f].step = "log" /\ lr'[l][f].end = c
      <4>1. PICK r \in LrState : r = lr[l][f]
        BY DEF TypeOK
      <4>2. lr'[l][f] = [[r EXCEPT !.end = c] EXCEPT !.step = "log"]
        BY <1>4, <4>1 DEF TypeOK, NextStep
      <4>3. [[r EXCEPT !.end = c] EXCEPT !.step = "log"].step = "log"
            /\ [[r EXCEPT !.end = c] EXCEPT !.step = "log"].end = c
        BY DEF LrState
      <4> QED BY <4>2, <4>3
    <3>2. f \in Live(a, l)' \ {l} /\ term'[f] = term'[l]
      BY <1>4, <1>5 DEF Live
    <3>3. Known(a, l, f)'
      BY <1>7, <3>1, <3>2 DEF Known, Live
    <3> QED BY <1>4, <3>3 DEF KnowsOf
  <2> QED BY <2>1, <2>2 DEF Knowledge
<1> QED BY <1>8, <1>9, <1>10 DEF Led

\* The scan of the reply bytes passes entries with a majority of them only.
LEMMA ScannedRange ==
    ASSUME TypeOK, NEW l \in Server, commit[l] <= end[l], NEW c, c = Scanned(l)
    PROVE  c \in commit[l] .. end[l] /\ \A p \in commit[l] + 1 .. c : p \in Replied(l)
<1>1. commit[l] \in Nat /\ end[l] \in Nat /\ commit[l] \in Offset /\ end[l] \in Offset
  BY Facts
<1>2. PICK w : w = Walk(commit[l], end[l])
  OBVIOUS
<1>3. w = [k \in 1 .. end[l] - commit[l] |-> commit[l] + k] /\ w \in Seq(Pos)
      /\ Len(w) = end[l] - commit[l]
  BY <1>1, <1>2, Forward
<1>4. PICK n : n = PrefixIn(w, Replied(l))
  OBVIOUS
<1>5. n \in 0 .. Len(w) /\ \A k \in 1 .. n : w[k] \in Replied(l)
  BY <1>3, <1>4, PrefixInRange
<1>6. c = IF n = 0 THEN commit[l] ELSE w[n]
  BY <1>2, <1>4 DEF Scanned
<1>7. n \in Nat /\ n <= end[l] - commit[l]
  BY <1>1, <1>3, <1>5
<1>8. \A k \in 1 .. n : w[k] = commit[l] + k
  BY <1>1, <1>3, <1>7
<1>9. c = commit[l] + n
  BY <1>1, <1>6, <1>7, <1>8
<1>10. ASSUME NEW p \in commit[l] + 1 .. c PROVE p \in Replied(l)
  <2>1. p - commit[l] \in 1 .. n /\ p = commit[l] + (p - commit[l])
    BY <1>1, <1>7, <1>9
  <2> QED BY <1>5, <1>8, <2>1
<1> QED BY <1>1, <1>7, <1>9, <1>10

\* Reply bytes of a majority are entries in a majority of the logs; a commit offset is
\* written to a log no further than it reaches.
LEMMA CommitSafe ==
    ASSUME TypeOK, TypeOK', NEW a \in Server, NEW l \in Server, Led(a, l),
           NEW k \in Server, Commit(k)
    PROVE  Led(a, l)' /\ Grows
<1>1. Roles(a, l) /\ Bounds /\ Prefixes(a, l) /\ Complete(l) /\ CommittedOnMajority
      /\ RepliesTrue(a) /\ Knowledge(a, l)
  BY DEF Led
<1>2. k = l
  BY <1>1, Leads DEF Commit
<1>3. PICK c : c = Scanned(l)
  OBVIOUS
<1> DEFINE B == {f \in Others(l) : /\ lr[l][f].step = "log"
                                   /\ lr[l][f].commit \notin {lr[l][f].end, c}}
           new(f) == IF Larger(end[l], c, lr[l][f].end) THEN lr[l][f].end ELSE c
           R == {f \in B \cap up : Connected(l, f)}
<1>4. /\ commit' = [i \in Server |-> IF i = l THEN c
                                     ELSE IF i \in R THEN new(i) ELSE commit[i]]
      /\ lr' = [lr EXCEPT ![l] = [f \in Server |->
                   IF f \in B THEN [lr[l][f] EXCEPT !.commit = new(f)] ELSE lr[l][f]]]
      /\ UNCHANGED <<term, leading, vote_ack, mem, end, old_end, nc_buf, replies, up>>
  BY <1>2, <1>3 DEF Commit, roleVars
<1>5. \A i \in Server : end[i] \in Nat /\ commit[i] \in Nat /\ old_end[i] \in Nat
                        /\ commit[i] <= end[i] /\ old_end[i] <= end[i]
  BY <1>1, Facts DEF Bounds
<1>6. c \in commit[l] .. end[l] /\ \A p \in commit[l] + 1 .. c : p \in Replied(l)
  BY <1>3, <1>5, ScannedRange
<1>7. ASSUME NEW f \in B
      PROVE  /\ f \in Server /\ f # l /\ f \in Live(a, l) /\ lr[l][f].step = "log"
             /\ commit[f] <= new(f) /\ new(f) <= c /\ new(f) <= end[f] /\ new(f) \in Nat
  <2>1. f \in Server /\ f # l /\ lr[l][f].step = "log"
    BY DEF Others
  <2>2. KnowsOf(a, l, f) /\ lr[l][f].step # "get"
    BY <1>1, <2>1 DEF Knowledge
  <2>3. Known(a, l, f)
    BY <2>2 DEF KnowsOf, Unknown
  <2>4. f \in Live(a, l) /\ lr[l][f].end = end[f]
    BY <2>1, <2>3 DEF Known
  <2>5. end[f] <= end[l] /\ commit[f] <= commit[l]
    BY <1>1, <2>4 DEF Prefixes
  <2>6. new(f) = IF Larger(end[l], c, end[f]) THEN end[f] ELSE c
    BY <2>4
  <2>7. Larger(end[l], c, end[f]) <=> c > end[f]
    BY <1>5, <1>6, <2>1, <2>5 DEF Larger, Distance
  <2> HIDE DEF B, new
  <2> QED BY <1>5, <1>6, <2>1, <2>4, <2>5, <2>6, <2>7
<1>8. R \subseteq B /\ l \notin R
  BY DEF Others
<1>9. \A i \in Server : /\ i = l => commit'[i] = c
                        /\ i # l /\ i \in R => commit'[i] = new(i)
                        /\ i # l /\ i \notin R => commit'[i] = commit[i]
  <2> HIDE DEF B, new, R
  <2> QED BY <1>4
<1>10. ASSUME NEW i \in Server
       PROVE  /\ commit[i] <= commit'[i] /\ commit'[i] <= end[i] /\ commit'[i] \in Nat
              /\ i = l => commit'[i] = c
              /\ i # l /\ commit'[i] # commit[i] => i \in Live(a, l) /\ commit'[i] <= c
  <2> HIDE DEF B, new, R
  <2>1. CASE i = l
    BY <1>5, <1>6, <1>9, <2>1
  <2>2. CASE i # l /\ i \in R
    BY <1>7, <1>8, <1>9, <2>2
  <2>3. CASE i # l /\ i \notin R
    BY <1>5, <1>9, <2>3
  <2> QED BY <2>1, <2>2, <2>3
<1>11. \A f \in Server : /\ lr'[l][f].step = lr[l][f].step /\ lr'[l][f].end = lr[l][f].end
                         /\ lr'[l][f].cached = lr[l][f].cached
  <2> SUFFICES ASSUME NEW f \in Server
               PROVE  /\ lr'[l][f].step = lr[l][f].step /\ lr'[l][f].end = lr[l][f].end
                      /\ lr'[l][f].cached = lr[l][f].cached
    OBVIOUS
  <2>1. PICK r \in LrState : r = lr[l][f]
    BY DEF TypeOK
  <2>2. PICK x : x = new(f)
    OBVIOUS
  <2>3. lr'[l][f] = r \/ lr'[l][f] = [r EXCEPT !.commit = x]
    <3>1. lr'[l][f] = IF f \in B THEN [lr[l][f] EXCEPT !.commit = new(f)] ELSE lr[l][f]
      <4> HIDE DEF B, new, R
      <4> QED BY <1>4 DEF TypeOK
    <3> HIDE DEF B, new, R
    <3> QED BY <2>1, <2>2, <3>1
  <2>4. /\ [r EXCEPT !.commit = x].step = r.step /\ [r EXCEPT !.commit = x].end = r.end
        /\ [r EXCEPT !.commit = x].cached = r.cached
    BY DEF LrState
  <2> HIDE DEF B, new, R
  <2> QED BY <2>1, <2>3, <2>4
<1>12. \A f \in Server \ {l} : lr[l][f].step # "log" => commit'[f] = commit[f]
  <2>1. \A f \in Server \ {l} : lr[l][f].step # "log" => f \notin R
    OBVIOUS
  <2> HIDE DEF B, new, R
  <2> QED BY <1>9, <2>1
<1> HIDE DEF B, new, R
<1>13. Grows
  BY <1>4, <1>5, <1>10 DEF Grows
<1>14. Roles(a, l)'
  <2>1. \A p \in 1 .. end'[l] : p \in 1 .. end[l] /\ mem'[l][p].term = mem[l][p].term
    BY <1>4
  <2> QED BY <1>1, <1>4, <2>1, RolesKept
<1>15. Bounds'
  BY <1>1, <1>4, <1>10 DEF Bounds
<1>16. Prefixes(a, l)'
  <2>1. ASSUME NEW i \in Live(a, l) PROVE commit'[i] <= commit'[l]
    <3>1. i \in Server /\ commit[i] <= commit[l]
      BY <1>1, <2>1 DEF Prefixes, Live
    <3> QED BY <1>5, <1>6, <1>10, <3>1
  <2> QED BY <1>1, <1>4, <2>1 DEF Prefixes, Live, SameTerms
<1>17. Complete(l)'
  <2>1. ASSUME NEW i \in Server
        PROVE  commit'[i] <= end'[l] /\ \A p \in 1 .. commit'[i] : mem'[i][p].term = mem'[l][p].term
    <3>1. commit[i] <= end[l] /\ \A p \in 1 .. commit[i] : mem[i][p].term = mem[l][p].term
      BY <1>1 DEF Complete, SameTerms
    <3>2. CASE i = l
      BY <1>4, <1>10, <3>2
    <3>3. CASE i # l /\ commit'[i] = commit[i]
      BY <1>4, <3>1, <3>3
    <3>4. CASE i # l /\ commit'[i] # commit[i]
      <4>1. i \in Live(a, l) /\ commit'[i] <= c /\ commit'[i] <= end[i] /\ commit'[i] \in Nat
        BY <1>10, <3>4
      <4>2. commit'[i] <= end[l]
        BY <1>5, <1>6, <4>1
      <4>3. \A p \in 1 .. commit'[i] : p \in 1 .. end[i]
        BY <1>5, <4>1
      <4>4. \A p \in 1 .. end[i] : mem[i][p].term = mem[l][p].term
        BY <1>1, <4>1 DEF Prefixes, SameTerms
      <4> QED BY <1>4, <4>2, <4>3, <4>4
    <3> QED BY <3>2, <3>3, <3>4
  <2> QED BY <2>1 DEF Complete, SameTerms
<1>18. CommittedOnMajority'
  <2>1. ASSUME NEW i \in Server, NEW p \in 1 .. commit'[i]
        PROVE  \/ \E j \in Server : p <= commit[j] /\ mem'[i][p].term = mem[j][p].term
               \/ Majority({j \in Server : p <= end[j] /\ mem[j][p].term = mem'[i][p].term})
    <3>1. CASE p <= commit[i]
      BY <1>4, <3>1
    <3>2. CASE ~(p <= commit[i])
      <4>1. commit'[i] # commit[i] /\ p \in Nat /\ p >= 1 /\ p <= c /\ p <= end[i]
        BY <1>5, <1>6, <1>10, <3>2
      <4>2. mem[i][p].term = mem[l][p].term
        <5>1. CASE i = l
          BY <5>1
        <5>2. CASE i # l
          <6>1. i \in Live(a, l)
            BY <1>10, <4>1, <5>2
          <6>2. p \in 1 .. end[i]
            BY <1>5, <4>1
          <6> QED BY <1>1, <6>1, <6>2 DEF Prefixes, SameTerms
        <5> QED BY <5>1, <5>2
      <4>3. CASE p <= commit[l]
        BY <1>4, <4>2, <4>3
      <4>4. CASE ~(p <= commit[l])
        <5>1. p \in commit[l] + 1 .. c
          BY <1>5, <1>6, <4>1, <4>4
        <5>2. p \in Pos /\ Majority(mem[l][p].reply \cup {l})
          BY <1>6, <5>1 DEF Replied
        <5> DEFINE H == {j \in Server : p <= end[j] /\ mem[j][p].term = mem'[i][p].term}
        <5>3. ASSUME NEW j \in mem[l][p].reply \cup {l} PROVE j \in H
          <6>1. CASE j = l
            BY <1>4, <1>5, <1>6, <4>1, <4>2, <6>1
          <6>2. CASE j # l
            <7>1. j \in Server /\ j # a /\ p <= old_end[j]
              BY <1>1, <5>2, <6>2, Facts DEF RepliesTrue
            <7>2. p <= end[j] /\ p \in 1 .. end[j]
              BY <1>5, <4>1, <7>1
            <7>3. j \in Live(a, l)
              BY <7>1 DEF Live
            <7>4. mem[j][p].term = mem[l][p].term
              BY <1>1, <7>2, <7>3 DEF Prefixes, SameTerms
            <7> QED BY <1>4, <4>2, <7>1, <7>2, <7>4
          <6> QED BY <6>1, <6>2
        <5>4. H \subseteq Server
          OBVIOUS
        <5> HIDE DEF H
        <5>5. Majority(H)
          BY <5>2, <5>3, <5>4, MajorityGrows
        <5> QED BY <5>5 DEF H
      <4> QED BY <4>3, <4>4
    <3> QED BY <3>1, <3>2
  <2> QED BY <1>1, <1>13, <2>1, CommittedKept
<1>19. RepliesTrue(a)'
  BY <1>1, <1>4 DEF RepliesTrue
<1>20. Knowledge(a, l)'
  <2>1. ASSUME NEW f \in Server PROVE KnowsOf(a, l, f)'
    <3>1. KnowsOf(a, l, f) /\ (end[f] <= end[l] \/ f \notin Live(a, l))
      BY <1>1 DEF Knowledge, Prefixes
    <3>2. f # l /\ lr[l][f].step \in {"get", "set_end"} => commit'[f] = commit[f]
      BY <1>12
    <3>3. end'[l] \in Nat /\ end[l] \in Nat /\ end[l] <= end'[l]
      BY <1>4, <1>5
    <3> QED BY <1>1, <1>4, <1>11, <3>1, <3>2, <3>3, KnowsOfKept
  <2> QED BY <2>1 DEF Knowledge
<1> QED BY <1>13, <1>14, <1>15, <1>16, <1>17, <1>18, <1>19, <1>20 DEF Led

\* What an election leaves: the voters Q and the candidate l, ...
Elected(l, Q) ==
    /\ l \in Q /\ Q \subseteq up /\ Majority(Q) /\ (Accurate => leading \cap up = {})
    /\ \A v \in Q \ {l} : LogLeq(v, l)
    /\ leading' = (leading \ Q) \cup {l}
    /\ replies' \subseteq replies /\ up' = up

\* ... the new term, ...
TermBegun(l, Q, t) ==
    /\ 0 < t /\ \A i \in Q : term[i] < t
    /\ \A i \in Server : term'[i] = IF i \in Q THEN t ELSE term[i]
    /\ AppendPersisted(l, t)

\* ... and what the leader has of the voters.
AcksTaken(l, Q) ==
    /\ \A j \in Server : vote_ack'[l][j] = IF j \in Q \ {l} THEN commit[j] ELSE NoAck
    /\ \A j \in Server : lr'[l][j].step = "get"
    /\ \A j \in Q \ {l} : nc_buf'[j][j] = NotCommitted(j)
    /\ commit' = [commit EXCEPT ![l] = Largest(end[l], {commit[j] : j \in Q})]

LEMMA ElectEffect ==
    ASSUME TypeOK, NEW l \in Server, NEW Q \in SUBSET Server, Elect(l, Q)
    PROVE  Elected(l, Q) /\ AcksTaken(l, Q) /\ \E t \in Nat : TermBegun(l, Q, t)
<1>1. PICK t : t = 1 + (CHOOSE x \in {term[i] : i \in Q} : \A i \in Q : term[i] <= x)
  OBVIOUS
<1>2. l \in Q /\ Q \subseteq up /\ Majority(Q) /\ (Accurate => leading \cap up = {})
      /\ \A v \in Q \ {l} : LogLeq(v, l)
  BY DEF Elect
<1>3. /\ term' = [i \in Server |-> IF i \in Q THEN t ELSE term[i]]
      /\ AppendPersisted(l, t)
  <2> DEFINE u == 1 + (CHOOSE x \in {term[i] : i \in Q} : \A i \in Q : term[i] <= x)
  <2>1. /\ term' = [i \in Server |-> IF i \in Q THEN u ELSE term[i]]
        /\ AppendPersisted(l, u)
    BY Zenon DEF Elect
  <2>2. t = u
    BY <1>1
  <2> HIDE DEF u
  <2> QED BY <2>1, <2>2, Zenon
<1>4. t \in Nat /\ \A i \in Q : term[i] < t
  BY <1>1, <1>2, NewTerm
<1>5. 0 < t
  BY <1>2, <1>4, Facts
<1>6. \A i \in Server : term'[i] = IF i \in Q THEN t ELSE term[i]
  BY <1>3
<1>7. /\ leading' = (leading \ Q) \cup {l}
      /\ nc_buf' = [i \in Server |-> IF i \in Q \ {l}
                       THEN [nc_buf[i] EXCEPT ![i] = NotCommitted(i)] ELSE nc_buf[i]]
      /\ vote_ack' = [vote_ack EXCEPT ![l] = [j \in Server |->
                           IF j \in Q \ {l} THEN commit[j] ELSE NoAck]]
      /\ commit' = [commit EXCEPT ![l] = Largest(end[l], {commit[j] : j \in Q})]
      /\ lr' = [lr EXCEPT ![l] = [j \in Server |-> [lr[l][j] EXCEPT !.step = "get"]]]
      /\ replies' = NotReset(Q) /\ up' = up
  BY Zenon DEF Elect
<1>8. \A j \in Server : vote_ack'[l][j] = IF j \in Q \ {l} THEN commit[j] ELSE NoAck
  BY <1>7 DEF TypeOK
<1>9. \A j \in Server : lr'[l][j].step = "get"
  <2> SUFFICES ASSUME NEW j \in Server PROVE lr'[l][j].step = "get"
    OBVIOUS
  <2>1. PICK r \in LrState : r = lr[l][j]
    BY DEF TypeOK
  <2>2. lr'[l][j] = [lr[l][j] EXCEPT !.step = "get"]
    BY <1>7 DEF TypeOK
  <2>3. lr'[l][j] = [r EXCEPT !.step = "get"]
    BY <2>1, <2>2
  <2>4. [r EXCEPT !.step = "get"].step = "get"
    BY DEF LrState
  <2> QED BY <2>3, <2>4
<1>10. \A j \in Q \ {l} : nc_buf'[j][j] = NotCommitted(j)
  <2> SUFFICES ASSUME NEW j \in Q \ {l} PROVE nc_buf'[j][j] = NotCommitted(j)
    OBVIOUS
  <2>1. PICK b : b = NotCommitted(j)
    OBVIOUS
  <2>2. nc_buf'[j] = [nc_buf[j] EXCEPT ![j] = b]
    BY <1>7, <2>1
  <2>3. nc_buf[j] \in [Server -> NcBuf]
    BY DEF TypeOK
  <2> QED BY <2>1, <2>2, <2>3
<1>11. replies' \subseteq replies
  BY <1>7 DEF NotReset
<1>12. TermBegun(l, Q, t)
  BY <1>3, <1>4, <1>5, <1>6 DEF TermBegun
<1>13. Elected(l, Q)
  BY <1>2, <1>7, <1>11 DEF Elected
<1>14. AcksTaken(l, Q)
  BY <1>7, <1>8, <1>9, <1>10 DEF AcksTaken
<1> QED BY <1>4, <1>12, <1>13, <1>14

\* The voters have published what they have not committed; of the others whose logs the
\* new leader may come to work on, nothing is needed if they have nothing.
LEMMA ElectKnowledge ==
    ASSUME TypeOK, Bounds, NEW a \in Server, NEW l \in Server, NEW Q \in SUBSET Server, l \in Q,
           \A i \in Server \ {l} : end'[i] = end[i] /\ mem'[i] = mem[i] /\ commit'[i] = commit[i],
           \A i \in Q : term'[i] = term'[l],
           \A j \in Server : vote_ack'[l][j] = IF j \in Q \ {l} THEN commit[j] ELSE NoAck,
           \A j \in Server : lr'[l][j].step = "get",
           \A j \in Q \ {l} : nc_buf'[j][j] = NotCommitted(j),
           \A j \in Q \ {l} : j \in Live(a, l),
           \A j \in Live(a, l) \ {l} : j \notin Q => end[j] = 0
    PROVE  Knowledge(a, l)'
<1>1. ASSUME NEW f \in Server, f \in Q \ {l} PROVE KnowsOf(a, l, f)'
  <2>1. NotCommitted(f)' = NotCommitted(f)
    BY <1>1, NotCommittedKept
  <2>2. lr'[l][f].step = "get" /\ vote_ack'[l][f] = commit'[f] /\ nc_buf'[f][f] = NotCommitted(f)
    BY <1>1
  <2>3. Known(a, l, f)'
    BY <1>1, <2>1, <2>2 DEF Known, Live
  <2>4. vote_ack'[l][f] # NoAck
    BY <1>1, Facts DEF NoAck
  <2> QED BY <2>3, <2>4 DEF KnowsOf
<1>2. ASSUME NEW f \in Server, f \notin Q \ {l} PROVE KnowsOf(a, l, f)'
  <2>1. vote_ack'[l][f] = NoAck /\ lr'[l][f].step = "get"
    BY <1>2
  <2>2. f \in Live(a, l)' \ {l} => end'[f] = 0
    BY <1>2 DEF Live
  <2>3. Unknown(a, l, f)'
    BY <2>1, <2>2 DEF Unknown, Live
  <2> QED BY <2>1, <2>3 DEF KnowsOf
<1> QED BY <1>1, <1>2 DEF Knowledge

\* The first election: the leader has its blank entry, the others have nothing.
LEMMA ElectFirstSafe ==
    ASSUME TypeOK, TypeOK', NoLeader, NEW l \in Server, NEW Q \in SUBSET Server, Elect(l, Q)
    PROVE  Led(l, l)' /\ Grows
<1>0. Elected(l, Q) /\ AcksTaken(l, Q) /\ \E t \in Nat : TermBegun(l, Q, t)
  BY ElectEffect
<1>1. PICK t \in Nat : /\ 0 < t /\ \A i \in Q : term[i] < t
                       /\ \A i \in Server : term'[i] = IF i \in Q THEN t ELSE term[i]
                       /\ AppendPersisted(l, t)
  BY <1>0 DEF TermBegun
<1>2. /\ l \in Q /\ Majority(Q) /\ leading' = (leading \ Q) \cup {l}
      /\ \A j \in Server : vote_ack'[l][j] = IF j \in Q \ {l} THEN commit[j] ELSE NoAck
      /\ \A j \in Server : lr'[l][j].step = "get"
      /\ \A j \in Q \ {l} : nc_buf'[j][j] = NotCommitted(j)
      /\ commit' = [commit EXCEPT ![l] = Largest(end[l], {commit[j] : j \in Q})]
      /\ replies' \subseteq replies
  BY <1>0 DEF Elected, AcksTaken
<1>3. \A i \in Server : /\ term[i] = 0 /\ end[i] = 0 /\ old_end[i] = 0 /\ commit[i] = 0
                        /\ \A p \in Pos : mem[i][p].reply = {}
  BY DEF NoLeader
<1>4. /\ end[l] < MaxLog /\ end'[l] = end[l] + 1 /\ old_end'[l] = end[l] + 1
      /\ \A i \in Server \ {l} : end'[i] = end[i] /\ old_end'[i] = old_end[i] /\ mem'[i] = mem[i]
      /\ mem'[l][end[l] + 1].term = t /\ mem'[l][end[l] + 1].reply = {}
      /\ \A p \in Pos \ {end[l] + 1} : /\ mem'[l][p].term = mem[l][p].term
                                       /\ mem'[l][p].reply = mem[l][p].reply
  BY <1>1, AppendEffect
<1>5. MaxLog \in Nat
  BY Sizes
<1>6. end'[l] = 1 /\ old_end'[l] = 1 /\ \A i \in Server \ {l} : end'[i] = 0 /\ old_end'[i] = 0
  BY <1>3, <1>4
<1>7. \A i \in Server : commit'[i] = 0
  <2>1. PICK S : S = {commit[j] : j \in Q}
    OBVIOUS
  <2>2. S = {0}
    BY <1>2, <1>3, <2>1
  <2>3. PICK c : c = Largest(end[l], S)
    OBVIOUS
  <2>4. c \in S
    <3>1. end[l] \in Offset /\ S \subseteq Offset /\ S # {}
      BY <2>2, Facts, Sizes
    <3> QED BY <2>3, <3>1, LargestIn
  <2>5. commit' = [commit EXCEPT ![l] = c]
    BY <1>2, <2>1, <2>3
  <2> QED BY <1>3, <2>2, <2>4, <2>5 DEF TypeOK
<1>8. Grows
  BY <1>3, <1>6, <1>7 DEF Grows
<1>9. Roles(l, l)'
  <2>1. leading' = {l}
    BY <1>2 DEF NoLeader
  <2>2. term'[l] = t /\ \A i \in Server : term'[i] <= t
    BY <1>1, <1>2, <1>3
  <2>3. \A p \in 1 .. end'[l] : mem'[l][p].term = t
    BY <1>3, <1>4, <1>6
  <2>4. \E i \in Server \ {l} : term'[i] = t
    BY <1>1, <1>2, MajorityOthers
  <2> QED BY <1>1, <2>1, <2>2, <2>3, <2>4 DEF Roles
<1>10. Bounds'
  <2>1. 1 <= MaxLog
    BY <1>3, <1>4, <1>5
  <2> QED BY <1>5, <1>6, <1>7, <2>1 DEF Bounds
<1>11. Prefixes(l, l)' /\ Complete(l)'
  <2>1. \A i \in Server : end'[i] <= end'[l] /\ commit'[i] <= commit'[l] /\ commit'[i] <= end'[l]
    BY <1>6, <1>7
  <2>2. \A i \in Server : \A p \in 1 .. end'[i] : mem'[i][p].term = mem'[l][p].term
    BY <1>6
  <2>3. \A i \in Server : \A p \in 1 .. commit'[i] : mem'[i][p].term = mem'[l][p].term
    BY <1>7
  <2> QED BY <2>1, <2>2, <2>3 DEF Prefixes, Complete, Live, SameTerms
<1>12. CommittedOnMajority'
  BY <1>7 DEF CommittedOnMajority
<1>13. RepliesTrue(l)'
  <2>1. \A i \in Server, p \in Pos : mem'[i][p].reply = {}
    BY <1>3, <1>4
  <2>2. replies' = {}
    BY <1>2 DEF NoLeader
  <2> QED BY <2>1, <2>2 DEF RepliesTrue
<1>14. Knowledge(l, l)'
  <2>1. Bounds
    BY <1>3, <1>5 DEF Bounds
  <2>2. \A i \in Server \ {l} : end'[i] = end[i] /\ mem'[i] = mem[i] /\ commit'[i] = commit[i]
    BY <1>3, <1>4, <1>7
  <2>3. \A i \in Q : term'[i] = term'[l]
    BY <1>1, <1>2
  <2>4. \A j \in Q \ {l} : j \in Live(l, l)
    BY DEF Live
  <2>5. \A j \in Live(l, l) \ {l} : j \notin Q => end[j] = 0
    BY <1>3 DEF Live
  <2> QED BY <1>2, <2>1, <2>2, <2>3, <2>4, <2>5, ElectKnowledge
<1> QED BY <1>8, <1>9, <1>10, <1>11, <1>12, <1>13, <1>14 DEF Led

\* The log of the new leader is the longest of the voters', who all have prefixes of the
\* log of the leader a that has failed, with entries of one term.
LEMMA Longest ==
    ASSUME TypeOK, NEW a \in Server, Led(a, a), NEW l \in Server, NEW v \in Server, LogLeq(v, l)
    PROVE  end[v] <= end[l]
<1>1. \A i \in Server : end[i] \in Nat /\ end[i] <= end[a]
                        /\ \A p \in 1 .. end[i] : mem[i][p].term = mem[a][p].term
  BY Facts DEF Led, Prefixes, Live, SameTerms
<1>2. 0 < term[a] /\ term[a] \in Nat /\ \A p \in 1 .. end[a] : mem[a][p].term = term[a]
  BY Facts DEF Led, Roles
<1>3. ASSUME NEW i \in Server PROVE LastTerm(i) = IF end[i] = 0 THEN 0 ELSE term[a]
  <2>1. CASE end[i] = 0
    BY <2>1 DEF LastTerm
  <2>2. CASE end[i] # 0
    <3>1. end[i] \in 1 .. end[i] /\ end[i] \in 1 .. end[a]
      BY <1>1, <2>2
    <3>2. mem[i][end[i]].term = term[a]
      BY <1>1, <1>2, <3>1
    <3> QED BY <2>2, <3>2 DEF LastTerm
  <2> QED BY <2>1, <2>2
<1>4. LastTerm(v) < LastTerm(l) \/ end[v] <= end[l]
  BY DEF LogLeq
<1>5. CASE LastTerm(v) < LastTerm(l)
  <2>1. end[v] = 0
    BY <1>2, <1>3, <1>5
  <2> QED BY <1>1, <2>1
<1> QED BY <1>4, <1>5

\* The second election: all but the failed leader a take part.  What a has committed is in
\* the log of one of them, so in that of l; a's log is longer, maybe, but nobody reads it.
LEMMA ElectNextSafe ==
    ASSUME Accurate, N <= 4, TypeOK, TypeOK', NEW a \in Server, NEW k \in Server, Led(a, k),
           NEW l \in Server, NEW Q \in SUBSET Server, Elect(l, Q)
    PROVE  Led(a, l)' /\ Grows
<1>0. Elected(l, Q) /\ AcksTaken(l, Q) /\ \E t \in Nat : TermBegun(l, Q, t)
  BY ElectEffect
<1>1. PICK t \in Nat : /\ 0 < t /\ \A i \in Q : term[i] < t
                       /\ \A i \in Server : term'[i] = IF i \in Q THEN t ELSE term[i]
                       /\ AppendPersisted(l, t)
  BY <1>0 DEF TermBegun
<1>2. /\ l \in Q /\ Q \subseteq up /\ Majority(Q) /\ leading \cap up = {}
      /\ \A v \in Q \ {l} : LogLeq(v, l)
      /\ leading' = (leading \ Q) \cup {l}
      /\ \A j \in Server : vote_ack'[l][j] = IF j \in Q \ {l} THEN commit[j] ELSE NoAck
      /\ \A j \in Server : lr'[l][j].step = "get"
      /\ \A j \in Q \ {l} : nc_buf'[j][j] = NotCommitted(j)
      /\ commit' = [commit EXCEPT ![l] = Largest(end[l], {commit[j] : j \in Q})]
      /\ replies' \subseteq replies /\ up' = up
  BY <1>0 DEF Elected, AcksTaken
<1>3. a = k
  <2>1. ASSUME a # k PROVE FALSE
    <3>1. leading = {a, k}
      BY DEF Led, Roles
    <3>2. Q \subseteq Server \ {a, k}
      BY <1>2, <3>1
    <3> QED BY <1>2, <2>1, <3>2, NoMajorityWithout
  <2> QED BY <2>1
<1>4. Led(a, a)
  BY <1>3
<1>5. Roles(a, a) /\ Bounds /\ Prefixes(a, a) /\ CommittedOnMajority /\ RepliesTrue(a)
  BY <1>4 DEF Led
<1>6. leading = {a} /\ a \notin up
  BY <1>2, <1>5 DEF Roles
<1>7. Q = Server \ {a} /\ l # a
  <2>1. Q \subseteq Server \ {a}
    BY <1>2, <1>6
  <2> QED BY <1>2, <2>1, MajorityWithout
<1>8. \A i \in Server : /\ end[i] \in Nat /\ commit[i] \in Nat /\ old_end[i] \in Nat
                        /\ commit[i] <= end[i] /\ old_end[i] <= end[i] /\ end[i] <= MaxLog
                        /\ term[i] \in Nat
  BY <1>5, Facts DEF Bounds
<1>9. \A v \in Q : end[v] <= end[l]
  <2>1. \A v \in Q \ {l} : end[v] <= end[l]
    BY <1>2, <1>4, Longest
  <2> QED BY <1>8, <2>1
<1>10. \A i \in Server : end[i] <= end[a] /\ \A p \in 1 .. end[i] : mem[i][p].term = mem[a][p].term
  BY <1>5 DEF Prefixes, Live, SameTerms
<1>11. ASSUME NEW i \in Server, NEW p \in 1 .. end[i], p <= end[l]
       PROVE  mem[i][p].term = mem[l][p].term
  <2>1. p \in 1 .. end[l]
    BY <1>8, <1>11
  <2> QED BY <1>10, <2>1
<1>12. /\ end[l] < MaxLog /\ end'[l] = end[l] + 1 /\ old_end'[l] = end[l] + 1
       /\ \A i \in Server \ {l} : end'[i] = end[i] /\ old_end'[i] = old_end[i] /\ mem'[i] = mem[i]
       /\ mem'[l][end[l] + 1].term = t /\ mem'[l][end[l] + 1].reply = {}
       /\ \A p \in Pos \ {end[l] + 1} : /\ mem'[l][p].term = mem[l][p].term
                                        /\ mem'[l][p].reply = mem[l][p].reply
  BY <1>1, AppendEffect
<1>13. MaxLog \in Nat
  BY Sizes
<1>14. \A i \in Server : \A p \in 1 .. end[i] : mem'[i][p].term = mem[i][p].term
  <2>1. \A p \in 1 .. end[l] : p \in Pos \ {end[l] + 1}
    BY <1>8, Facts
  <2> QED BY <1>12, <2>1
<1>15. \A p \in 1 .. end[l] : mem'[l][p].term = mem[l][p].term
  BY <1>14
<1>16. /\ \A i \in Server \ {l} : commit'[i] = commit[i]
       /\ \A j \in Q : commit[j] <= commit'[l]
       /\ \E j \in Q : commit'[l] = commit[j]
  <2>1. PICK S : S = {commit[j] : j \in Q}
    OBVIOUS
  <2>2. S \subseteq 0 .. end[l] /\ S # {}
    <3>1. \A j \in Q : commit[j] \in 0 .. end[l]
      BY <1>8, <1>9
    <3> QED BY <1>2, <2>1, <3>1
  <2>3. PICK c : c = Largest(end[l], S)
    OBVIOUS
  <2>4. c \in S /\ \A y \in S : y <= c
    BY <2>2, <2>3, LargestBelow, Facts
  <2>5. commit' = [commit EXCEPT ![l] = c]
    BY <1>2, <2>1, <2>3
  <2>6. commit'[l] = c /\ \A i \in Server \ {l} : commit'[i] = commit[i]
    BY <2>5 DEF TypeOK
  <2> QED BY <2>1, <2>4, <2>6
<1>17. commit'[l] \in Nat /\ commit'[l] <= end[l] /\ commit[l] <= commit'[l]
  <2>1. PICK j \in Q : commit'[l] = commit[j]
    BY <1>16
  <2>2. commit[j] \in Nat /\ end[j] \in Nat /\ end[l] \in Nat /\ commit[j] <= end[j] /\ end[j] <= end[l]
    BY <1>8, <1>9
  <2> QED BY <1>2, <1>16, <2>1, <2>2
<1>18. Grows
  BY <1>8, <1>12, <1>14, <1>16, <1>17 DEF Grows
<1>19. Roles(a, l)'
  <2>1. leading' = {a, l}
    BY <1>2, <1>6, <1>7
  <2>2. \E i \in Server \ {a} : term[i] = term[a]
    BY <1>5 DEF Roles
  <2>3. term[a] < t /\ term'[a] = term[a]
    BY <1>1, <1>7, <2>2
  <2>4. \A i \in Server \ {a} : term'[i] = t
    BY <1>1, <1>7
  <2>5. \A i \in Server : term'[i] <= t
    BY <1>8, <2>3, <2>4
  <2> QED BY <1>1, <1>2, <1>6, <1>7, <2>1, <2>3, <2>4, <2>5 DEF Roles
<1>20. Bounds'
  BY <1>8, <1>12, <1>13, <1>16, <1>17 DEF Bounds
<1>21. commit[a] <= end[l]
  <2>1. CASE commit[a] = 0
    BY <1>8, <2>1
  <2>2. CASE commit[a] # 0
    <3>1. PICK c \in Nat : c = commit[a]
      BY <1>8
    <3>2. c \in 1 .. commit[a]
      BY <2>2, <3>1
    <3>3. Majority({j \in Server : Holds(j, c, mem[a][c].term)})
      BY <1>5, <3>2 DEF CommittedOnMajority
    <3>4. PICK j \in Server : j # a /\ Holds(j, c, mem[a][c].term)
      BY <3>3, MajorityOthers
    <3>5. c <= end[j] /\ end[j] <= end[l] /\ end[j] \in Nat /\ end[l] \in Nat
      BY <1>7, <1>8, <1>9, <3>4 DEF Holds
    <3> QED BY <3>1, <3>5
  <2> QED BY <2>1, <2>2
<1>22. Prefixes(a, l)'
  <2>1. ASSUME NEW i \in Server, i # a
        PROVE  /\ end'[i] <= end'[l] /\ commit'[i] <= commit'[l]
               /\ \A p \in 1 .. end'[i] : mem'[i][p].term = mem'[l][p].term
    <3>1. CASE i = l
      BY <1>8, <1>12, <1>17, <3>1
    <3>2. CASE i # l
      <4>1. i \in Q /\ end'[i] = end[i] /\ end[i] <= end[l] /\ commit'[i] <= commit'[l]
        BY <1>7, <1>9, <1>12, <1>16, <2>1, <3>2
      <4>2. \A p \in 1 .. end[i] : p <= end[l] /\ p \in 1 .. end[l]
        BY <1>8, <4>1
      <4>3. \A p \in 1 .. end[i] : mem'[i][p].term = mem'[l][p].term
        BY <1>11, <1>14, <1>15, <4>2
      <4> QED BY <1>8, <1>12, <4>1, <4>3
    <3> QED BY <3>1, <3>2
  <2> QED BY <1>7, <2>1 DEF Prefixes, Live, SameTerms
<1>23. Complete(l)'
  <2>1. ASSUME NEW i \in Server
        PROVE  commit'[i] <= end'[l] /\ \A p \in 1 .. commit'[i] : mem'[i][p].term = mem'[l][p].term
    <3>1. CASE i = l
      BY <1>8, <1>12, <1>17, <3>1
    <3>2. CASE i # l
      <4>1. commit'[i] = commit[i] /\ commit[i] <= end[i]
        BY <1>8, <1>16, <3>2
      <4>2. commit[i] <= end[l]
        <5>1. CASE i = a
          BY <1>21, <5>1
        <5>2. CASE i # a
          <6>1. end[i] <= end[l]
            BY <1>7, <1>9, <5>2
          <6> QED BY <1>8, <4>1, <6>1
        <5> QED BY <5>1, <5>2
      <4>3. \A p \in 1 .. commit[i] : p \in 1 .. end[i] /\ p <= end[l] /\ p \in 1 .. end[l]
        BY <1>8, <4>1, <4>2
      <4>4. \A p \in 1 .. commit[i] : mem'[i][p].term = mem'[l][p].term
        BY <1>11, <1>14, <1>15, <4>3
      <4> QED BY <1>8, <1>12, <4>1, <4>2, <4>4
    <3> QED BY <3>1, <3>2
  <2> QED BY <2>1 DEF Complete, SameTerms
<1>24. CommittedOnMajority'
  <2>1. ASSUME NEW i \in Server, NEW p \in 1 .. commit'[i]
        PROVE  \E j \in Server : p <= commit[j] /\ mem'[i][p].term = mem[j][p].term
    <3>1. CASE i = l
      <4>1. PICK j \in Q : commit'[l] = commit[j]
        BY <1>16
      <4>2. j \in Server /\ p \in 1 .. commit[j] /\ commit[j] <= end[j] /\ end[j] <= end[l]
        BY <1>8, <1>9, <3>1, <4>1
      <4>3. p \in 1 .. end[j] /\ p \in 1 .. end[l] /\ p <= end[l] /\ p <= commit[j]
        BY <1>8, <4>2
      <4>4. mem'[l][p].term = mem[j][p].term
        BY <1>11, <1>15, <4>2, <4>3
      <4> QED BY <3>1, <4>2, <4>3, <4>4
    <3>2. CASE i # l
      <4>1. p <= commit[i] /\ p \in 1 .. end[i]
        BY <1>8, <1>16, <3>2
      <4> QED BY <1>14, <4>1
    <3> QED BY <3>1, <3>2
  <2> QED BY <1>5, <1>18, <2>1, CommittedKept
<1>25. RepliesTrue(a)'
  <2>1. \A j \in Server : old_end[j] <= old_end'[j]
    BY <1>8, <1>12
  <2>2. \A i \in Server, p \in Pos : \A j \in mem'[i][p].reply : j \in mem[i][p].reply
    BY <1>12
  <2> QED BY <1>2, <1>5, <2>1, <2>2, RepliesKept
<1>26. Knowledge(a, l)'
  <2>1. \A i \in Server \ {l} : end'[i] = end[i] /\ mem'[i] = mem[i] /\ commit'[i] = commit[i]
    BY <1>12, <1>16
  <2>2. \A i \in Q : term'[i] = term'[l]
    BY <1>1, <1>2
  <2>3. \A j \in Q \ {l} : j \in Live(a, l)
    BY <1>7 DEF Live
  <2>4. \A j \in Live(a, l) \ {l} : j \notin Q => end[j] = 0
    BY <1>7 DEF Live
  <2> QED BY <1>2, <1>5, <2>1, <2>2, <2>3, <2>4, ElectKnowledge
<1> QED BY <1>18, <1>19, <1>20, <1>22, <1>23, <1>24, <1>25, <1>26 DEF Led

-----------------------------------------------------------------------------
(***************************************************************************)
(* The invariant holds at first and is kept by every step.                 *)
(***************************************************************************)
LEMMA InitNoLeader == Init => NoLeader
<1> SUFFICES ASSUME Init PROVE NoLeader
  OBVIOUS
<1>1. NoEntry.reply = {}
  BY DEF NoEntry
<1>2. \A i \in Server, p \in Pos : mem[i][p].reply = {}
  BY <1>1 DEF Init
<1> QED BY <1>2 DEF Init, NoLeader

\* Without a leader, the only steps are failures and the first election.
LEMMA NoLeaderNext ==
    ASSUME TypeOK, TypeOK', NoLeader, [Next]_vars
    PROVE  (NoLeader' \/ \E a, l \in Server : Led(a, l)') /\ Grows
<1>1. ASSUME UNCHANGED <<term, leading, mem, end, old_end, commit, replies>>
      PROVE  NoLeader' /\ Grows
  <2>1. \A i \in Server : end[i] = 0 /\ commit[i] = 0
    BY DEF NoLeader
  <2> QED BY <1>1, <2>1 DEF NoLeader, Grows
<1>2. CASE UNCHANGED vars
  BY <1>1, <1>2 DEF vars, roleVars, logVars
<1>3. ASSUME NEW i \in Server, AppendEntry(i) \/ Persist(i) \/ Commit(i) \/ Crash(i)
      PROVE  NoLeader' /\ Grows
  <2>1. ~AppendEntry(i) /\ ~Commit(i)
    BY DEF NoLeader, AppendEntry, Commit
  <2>2. ~Persist(i)
    <3>1. end[i] = 0 /\ old_end[i] = 0
      BY DEF NoLeader
    <3>2. Distance(end[i], old_end[i]) = 0
      BY <3>1 DEF Distance
    <3> QED BY <3>2 DEF Persist
  <2>3. Crash(i)
    BY <1>3, <2>1, <2>2
  <2> QED BY <1>1, <2>3 DEF Crash, roleVars, logVars
<1>4. ASSUME NEW l \in Server, NEW f \in Server,
             GetEntries(l, f) \/ SetEnd(l, f) \/ WriteLog(l, f) \/ WriteEnd(l, f) \/ Follow(f, l)
      PROVE  FALSE
  BY <1>4 DEF NoLeader, GetEntries, SetEnd, WriteLog, WriteEnd, Access, Follow
<1>5. ASSUME NEW r \in replies, LandReply(r) PROVE FALSE
  BY <1>5 DEF NoLeader
<1>6. ASSUME NEW l \in Server, NEW Q \in SUBSET Server, Elect(l, Q) PROVE Led(l, l)' /\ Grows
  BY <1>6, ElectFirstSafe
<1> QED BY <1>2, <1>3, <1>4, <1>5, <1>6, Zenon DEF Next

\* In a larger group, the second election is where this argument ends.
LEMMA ElectChange ==
    ASSUME TypeOK, Accurate, leading # {}, NEW l \in Server, NEW Q \in SUBSET Server, Elect(l, Q)
    PROVE  AfterChange'
<1>1. l \in Q /\ Q \subseteq up /\ leading \cap up = {} /\ leading' = (leading \ Q) \cup {l} /\ up' = up
  BY ElectEffect DEF Elected
<1>2. leading' = leading \cup {l} /\ l \notin leading /\ leading' \cap up' = {l}
  BY <1>1
<1> QED BY <1>2 DEF AfterChange, LeaderChanged

LEMMA LedNext ==
    ASSUME Accurate, TypeOK, TypeOK', NEW a \in Server, NEW k \in Server, Led(a, k), [Next]_vars
    PROVE  \/ (\E x, y \in Server : Led(x, y)') /\ Grows
           \/ N > 4 /\ AfterChange'
<1>1. CASE UNCHANGED vars
  <2>1. UNCHANGED <<term, leading, vote_ack, mem, end, old_end, commit, nc_buf, lr, replies, up>>
    BY <1>1 DEF vars, roleVars, logVars
  <2>2. Roles(a, k) /\ RepliesTrue(a) /\ Knowledge(a, k)
    BY DEF Led
  <2>3. Roles(a, k)' /\ RepliesTrue(a)'
    BY <2>1, <2>2 DEF Roles, RepliesTrue
  <2>4. Knowledge(a, k)'
    <3>1. ASSUME NEW g \in Server PROVE KnowsOf(a, k, g)'
      BY <2>1, SameKnowsOf
    <3> QED BY <3>1 DEF Knowledge
  <2> QED BY <2>1, <2>3, <2>4, SameLogs
<1>2. ASSUME NEW i \in Server, AppendEntry(i) \/ Persist(i) \/ Commit(i) \/ Crash(i)
      PROVE  Led(a, k)' /\ Grows
  BY <1>2, AppendEntrySafe, PersistSafe, CommitSafe, CrashSafe
<1>3. ASSUME NEW l \in Server, NEW f \in Server,
             GetEntries(l, f) \/ SetEnd(l, f) \/ WriteLog(l, f) \/ WriteEnd(l, f) \/ Follow(f, l)
      PROVE  Led(a, k)' /\ Grows
  BY <1>3, GetEntriesSafe, SetEndSafe, WriteLogSafe, WriteEndSafe, FollowSafe
<1>4. ASSUME NEW r \in replies, LandReply(r) PROVE Led(a, k)' /\ Grows
  BY <1>4, LandReplySafe
<1>5. ASSUME NEW l \in Server, NEW Q \in SUBSET Server, Elect(l, Q)
      PROVE  (Led(a, l)' /\ Grows) \/ (N > 4 /\ AfterChange')
  <2>1. CASE N <= 4
    BY <1>5, <2>1, ElectNextSafe
  <2>2. CASE ~(N <= 4)
    <3>1. leading # {}
      BY DEF Led, Roles
    <3>2. AfterChange'
      BY <1>5, <3>1, ElectChange
    <3>3. N > 4
      BY <2>2, Sizes
    <3> QED BY <3>2, <3>3
  <2> QED BY <2>1, <2>2
<1> QED BY <1>1, <1>2, <1>3, <1>4, <1>5, Zenon DEF Next

LEMMA AfterChangeNext ==
    ASSUME Accurate, TypeOK, AfterChange, [Next]_vars
    PROVE  AfterChange'
<1>1. ASSUME leading' = leading, up' \subseteq up PROVE AfterChange'
  BY <1>1 DEF AfterChange, LeaderChanged
<1>2. CASE UNCHANGED vars
  BY <1>1, <1>2 DEF vars, roleVars
<1>3. ASSUME NEW i \in Server, AppendEntry(i) \/ Persist(i) \/ Commit(i) \/ Crash(i)
      PROVE  AfterChange'
  BY <1>1, <1>3 DEF AppendEntry, Persist, Commit, Crash, roleVars
<1>4. ASSUME NEW l \in Server, NEW f \in Server,
             GetEntries(l, f) \/ SetEnd(l, f) \/ WriteLog(l, f) \/ WriteEnd(l, f)
      PROVE  AfterChange'
  BY <1>1, <1>4 DEF GetEntries, SetEnd, WriteLog, WriteEnd, roleVars
<1>5. ASSUME NEW l \in Server, NEW f \in Server, Follow(f, l) PROVE AfterChange'
  <2>1. f \in up /\ l \in up \cap leading /\ term[f] < term[l] /\ leading' = leading \ {f} /\ up' = up
    BY <1>5 DEF Follow
  <2>2. f # l
    BY <2>1, Facts
  <2>3. f \notin leading
    BY <2>1, <2>2 DEF AfterChange
  <2> QED BY <1>1, <2>1, <2>3
<1>6. ASSUME NEW r \in replies, LandReply(r) PROVE AfterChange'
  BY <1>1, <1>6 DEF LandReply, roleVars
<1>7. ASSUME NEW l \in Server, NEW Q \in SUBSET Server, Elect(l, Q) PROVE AfterChange'
  BY <1>7, ElectChange DEF AfterChange, LeaderChanged
<1> QED BY <1>2, <1>3, <1>4, <1>5, <1>6, <1>7, Zenon DEF Next

LEMMA IInvNext ==
    ASSUME Accurate, IInv, [Next]_vars
    PROVE  IInv' /\ (Grows \/ (N > 4 /\ LeaderChanged'))
<1>1. TypeOK /\ TypeOK'
  BY NextType DEF IInv
<1>2. CASE NoLeader
  BY <1>1, <1>2, NoLeaderNext DEF IInv
<1>3. CASE \E a, l \in Server : Led(a, l)
  BY <1>1, <1>3, LedNext DEF IInv, AfterChange
<1>4. CASE N > 4 /\ AfterChange
  BY <1>1, <1>4, AfterChangeNext DEF IInv, AfterChange
<1> QED BY <1>2, <1>3, <1>4 DEF IInv

THEOREM Invariance == ASSUME Accurate PROVE Spec => []IInv
<1>1. Init => IInv
  BY InitType, InitNoLeader DEF IInv
<1>2. IInv /\ [Next]_vars => IInv'
  BY IInvNext
<1> QED BY <1>1, <1>2, PTL DEF Spec

-----------------------------------------------------------------------------
(***************************************************************************)
(* What follows from it.                                                   *)
(***************************************************************************)
LEMMA Consequences ==
    ASSUME IInv, N <= 4 \/ ~LeaderChanged
    PROVE  CommittedOnMajority /\ LeaderHasCommitted /\ AdjustedLogs
<1>1. ~(N > 4 /\ AfterChange)
  BY Sizes DEF AfterChange
<1>2. CASE NoLeader
  BY <1>2 DEF NoLeader, CommittedOnMajority, LeaderHasCommitted, AdjustedLogs
<1>3. ASSUME NEW a \in Server, NEW l \in Server, Led(a, l)
      PROVE  CommittedOnMajority /\ LeaderHasCommitted /\ AdjustedLogs
  <2>1. TypeOK /\ Roles(a, l) /\ Bounds /\ Prefixes(a, l) /\ Complete(l) /\ Knowledge(a, l)
        /\ CommittedOnMajority
    BY <1>3 DEF IInv, Led
  <2>2. ASSUME NEW k \in leading, \A i \in Server : term[i] <= term[k],
               NEW i \in Server, NEW p \in 1 .. commit[i]
        PROVE  Holds(k, p, mem[i][p].term)
    <3>1. k = l
      BY <2>1, <2>2, Facts DEF Roles
    <3>2. commit[i] <= end[l] /\ mem[i][p].term = mem[l][p].term
      BY <2>1 DEF Complete, SameTerms
    <3>3. commit[i] \in Nat /\ end[l] \in Nat
      BY <2>1, Facts
    <3> QED BY <3>1, <3>2, <3>3 DEF Holds
  <2>3. ASSUME NEW k \in leading \cap up, NEW f \in Others(k), vote_ack[k][f] # NoAck,
               lr[k][f].step \in {"log", "end"}
        PROVE  /\ end[f] = lr[k][f].end
               /\ \A p \in 1 .. end[f] : Holds(k, p, mem[f][p].term)
    <3>1. k = l /\ f \in Server
      BY <2>1, <2>3, Leads DEF Others
    <3>2. Known(a, l, f)
      BY <2>1, <2>3, <3>1 DEF Knowledge, KnowsOf
    <3>3. f \in Live(a, l) /\ end[f] = lr[l][f].end
      BY <2>3, <3>1, <3>2 DEF Known
    <3>4. end[f] <= end[l] /\ SameTerms(f, l, end[f]) /\ end[f] \in Nat /\ end[l] \in Nat
      BY <2>1, <3>1, <3>3, Facts DEF Prefixes
    <3>5. \A p \in 1 .. end[f] : p <= end[l] /\ mem[l][p].term = mem[f][p].term
      BY <3>4 DEF SameTerms
    <3> QED BY <3>1, <3>3, <3>5 DEF Holds
  <2> QED BY <2>1, <2>2, <2>3 DEF LeaderHasCommitted, AdjustedLogs
<1> QED BY <1>1, <1>2, <1>3 DEF IInv

\* "Find minimum offset that exists on a majority": what a server has committed is in a
\* majority of the logs, also after the leader that committed it has failed.
THEOREM CommittedByMajority ==
    ASSUME Accurate, N <= 4
    PROVE  Spec => []CommittedOnMajority
<1>1. IInv => CommittedOnMajority
  BY Consequences
<1> QED BY <1>1, Invariance, PTL

\* The up-to-date test of the votes: a leader is elected with all that was committed.
THEOREM LeaderComplete ==
    ASSUME Accurate, N <= 4
    PROVE  Spec => []LeaderHasCommitted
<1>1. IInv => LeaderHasCommitted
  BY Consequences
<1> QED BY <1>1, Invariance, PTL

\* Both in a group of any size until a second leader is elected, and with them that
\* update_remote_logs extends only logs that are prefixes of the leader's, where they end.
THEOREM FirstLeaderSafe ==
    ASSUME Accurate
    PROVE  Spec => [](LeaderChanged \/ (CommittedOnMajority /\ LeaderHasCommitted /\ AdjustedLogs))
<1>1. IInv => LeaderChanged \/ (CommittedOnMajority /\ LeaderHasCommitted /\ AdjustedLogs)
  BY Consequences
<1> QED BY <1>1, Invariance, PTL

\* No entry is ever removed from a log or replaced in it, committed or not: in a group of
\* at most four servers log_adjustment finds nothing to cut, nor does it in a larger group
\* before the second leader.
THEOREM NothingCut ==
    ASSUME Accurate
    PROVE  Spec => [][Grows \/ (N > 4 /\ LeaderChanged')]_vars
<1>1. IInv /\ [Next]_vars => [Grows \/ (N > 4 /\ LeaderChanged')]_vars
  BY IInvNext
<1> QED BY <1>1, Invariance, PTL DEF Spec

\* A committed entry stays, and no commit offset goes back.
THEOREM CommittedStays ==
    ASSUME Accurate, N <= 4
    PROVE  Spec => CommittedStable
<1>1. IInv /\ IInv' /\ [Next]_vars =>
         [\A i \in Server : /\ commit'[i] >= commit[i]
                            /\ \A p \in 1 .. commit[i] : Holds(i, p, mem[i][p].term)'
                                   /\ mem'[i][p].term = mem[i][p].term]_vars
  <2> SUFFICES ASSUME IInv, IInv', [Next]_vars, NEW i \in Server
               PROVE  /\ commit'[i] >= commit[i]
                      /\ \A p \in 1 .. commit[i] : Holds(i, p, mem[i][p].term)'
                             /\ mem'[i][p].term = mem[i][p].term
    OBVIOUS
  <2>1. Grows
    BY IInvNext, Sizes
  <2>2. TypeOK /\ TypeOK'
    BY DEF IInv
  <2>3. commit[i] \in Nat /\ end[i] \in Nat
    BY <2>2, Facts
  <2>4. commit'[i] \in Nat /\ end'[i] \in Nat
    BY <2>2, Sizes DEF TypeOK
  <2>5. commit[i] <= end[i]
    <3>1. ~(N > 4)
      BY Sizes
    <3>2. NoLeader \/ Bounds
      BY <3>1 DEF IInv, Led
    <3> QED BY <3>2 DEF NoLeader, Bounds
  <2>6. ASSUME NEW p \in 1 .. commit[i]
        PROVE  p <= end'[i] /\ mem'[i][p].term = mem[i][p].term
    <3>1. p \in 1 .. end[i] /\ end[i] <= end'[i]
      BY <2>1, <2>3, <2>5 DEF Grows
    <3> QED BY <2>1, <2>3, <2>4, <3>1 DEF Grows
  <2> QED BY <2>1, <2>3, <2>4, <2>6 DEF Grows, Holds
<1> QED BY <1>1, Invariance, PTL DEF Spec, CommittedStable

=============================================================================
