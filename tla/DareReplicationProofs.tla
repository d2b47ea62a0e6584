----------------------- MODULE DareReplicationProofs -----------------------
(***************************************************************************)
(* Type correctness of DareReplication for every group, ring and bound:    *)
(* whatever leaders cut, write and commit, no offset leaves the ring and   *)
(* next_lr_step is always a step.  The lemmas show that what the scans of  *)
(* dare_log.h look for exists.                                             *)
(***************************************************************************)
EXTENDS DareReplication, FiniteSetTheorems, SequenceTheorems, WellFoundedInduction, TLAPS

\* A set of numbers has a smallest one.
LEMMA Smallest ==
    ASSUME NEW S, S \subseteq Nat, S # {}
    PROVE  \E x \in S : \A y \in S : x <= y
<1>1. PICK x \in S : \A y \in S : ~(<<y, x>> \in OpToRel(<, Nat))
  BY NatLessThanWellFounded, WFMin, Zenon
<1>2. \A u, v \in Nat : <<u, v>> \in OpToRel(<, Nat) <=> u < v
  BY Zenon DEF OpToRel
<1>3. \A y \in S : ~(y < x)
  BY <1>1, <1>2, Zenon
<1>4. \A y \in S : x <= y
  BY <1>3
<1> QED BY <1>4

\* A finite set of numbers has a largest one: a smallest counterexample would have one
\* element that is not the largest of the others.
LEMMA Greatest ==
    ASSUME NEW S, S \subseteq Nat, S # {}, IsFiniteSet(S)
    PROVE  \E x \in S : \A y \in S : y <= x
<1> DEFINE Bad(T) == /\ T \in SUBSET Nat /\ T # {} /\ IsFiniteSet(T)
                     /\ ~(\E x \in T : \A y \in T : y <= x)
           C == {n \in Nat : \E T : Bad(T) /\ Cardinality(T) = n}
<1>1. ASSUME NEW T, Bad(T) PROVE FALSE
  <2>1. Cardinality(T) \in Nat
    BY <1>1, FS_CardinalityType
  <2>2. C \subseteq Nat /\ Cardinality(T) \in C
    BY <1>1, <2>1
  <2>3. PICK n \in C : \A m \in C : n <= m
    <3> HIDE DEF C
    <3>1. C # {}
      BY <2>2
    <3> QED BY <2>2, <3>1, Smallest
  <2>4. PICK U : Bad(U) /\ Cardinality(U) = n
    BY <2>3
  <2>5. PICK u \in U : TRUE
    BY <2>4
  <2> DEFINE V == U \ {u}
  <2>6. IsFiniteSet(V) /\ Cardinality(V) = n - 1 /\ n \in Nat
    BY <2>3, <2>4, FS_RemoveElement
  <2>7. Cardinality(V) \in Nat
    BY <2>6, FS_CardinalityType
  <2>8. V # {}
    <3>1. CASE V = {}
      <4>1. U = {u} /\ u \in Nat
        BY <2>4, <2>5, <3>1
      <4> QED BY <2>4, <4>1
    <3> QED BY <3>1
  <2>9. ~Bad(V)
    <3>1. ASSUME Bad(V) PROVE FALSE
      <4>1. n - 1 \in C
        BY <2>6, <2>7, <3>1
      <4> HIDE DEF C, V
      <4> QED BY <2>3, <2>6, <4>1
    <3> QED BY <3>1
  <2>10. PICK x \in V : \A y \in V : y <= x
    BY <2>4, <2>6, <2>8, <2>9
  <2>11. x \in Nat /\ u \in Nat /\ V \subseteq Nat /\ \A y \in U : y \in V \/ y = u
    BY <2>4, <2>5, <2>10
  <2>12. CASE u <= x
    <3>1. x \in U /\ \A y \in U : y <= x
      BY <2>10, <2>11, <2>12
    <3> QED BY <2>4, <3>1
  <2>13. CASE x <= u
    <3>1. \A y \in U : y <= u
      <4>1. \A y \in V : y <= x /\ y \in Nat
        BY <2>10, <2>11
      <4> HIDE DEF V
      <4> QED BY <2>11, <2>13, <4>1
    <3> QED BY <2>4, <3>1
  <2> QED BY <2>11, <2>12, <2>13
<1> QED BY <1>1

\* Offsets are numbers, and a position is an offset.
LEMMA Sizes == N \in Nat /\ Ring \in Nat /\ MaxLog \in Nat /\ MaxLog < Ring
               /\ Offset \subseteq Nat /\ Pos \subseteq Offset /\ 0 \in Offset /\ 0 \in Server
BY SizeAssumption DEF Offset, Pos, Server

\* A loop over log_get_entry meets positions of the ring, once around at most.
LEMMA WalkTypes ==
    ASSUME NEW x \in Offset, NEW y \in Offset
    PROVE  Walk(x, y) \in Seq(Pos) /\ Walked(x, y) \subseteq Pos /\ Len(Walk(x, y)) \in Nat
           /\ DOMAIN Walk(x, y) = 1 .. Len(Walk(x, y))
<1>1. Walk(x, y) \in Seq(Pos)
  <2>1. CASE x <= y
    <3>1. y - x \in Nat /\ \A k \in 1 .. y - x : x + k \in Pos
      BY <2>1, Sizes DEF Offset, Pos
    <3> QED BY <2>1, <3>1, IsASeq DEF Walk
  <2>2. CASE ~(x <= y)
    <3> DEFINE n == Ring - x + y
               v(k) == IF k <= Ring - x THEN x + k ELSE k - (Ring - x)
    <3>1. n \in Nat /\ \A k \in 1 .. n : v(k) \in Pos
      BY <2>2, Sizes DEF Offset, Pos
    <3>2. [k \in 1 .. n |-> v(k)] \in Seq(Pos)
      <4> HIDE DEF n, v
      <4> QED BY <3>1, IsASeq
    <3> QED BY <2>2, <3>2 DEF Walk
  <2> QED BY <2>1, <2>2
<1>2. Len(Walk(x, y)) \in Nat /\ DOMAIN Walk(x, y) = 1 .. Len(Walk(x, y))
  BY <1>1, LenProperties
<1>3. \A k \in DOMAIN Walk(x, y) : Walk(x, y)[k] \in Pos
  BY <1>1, <1>2, ElementOfSeq
<1> QED BY <1>1, <1>2, <1>3 DEF Walked

\* A scan that stops at the first position outside S stops somewhere.
LEMMA PrefixInRange ==
    ASSUME NEW A, NEW w \in Seq(A), NEW S
    PROVE  /\ PrefixIn(w, S) \in 0 .. Len(w)
           /\ \A k \in 1 .. PrefixIn(w, S) : w[k] \in S
<1> DEFINE B == {k \in 1 .. Len(w) : w[k] \notin S}
           P(n) == /\ \A k \in 1 .. n : w[k] \in S
                   /\ n < Len(w) => w[n + 1] \notin S
<1>0. Len(w) \in Nat
  BY LenProperties
<1>1. \E n \in 0 .. Len(w) : P(n)
  <2>1. CASE B = {}
    <3>1. Len(w) \in 0 .. Len(w) /\ P(Len(w))
      BY <1>0, <2>1
    <3> QED BY <3>1
  <2>2. CASE B # {}
    <3>1. PICK b \in B : \A k \in B : b <= k
      <4>1. B \subseteq Nat
        OBVIOUS
      <4> HIDE DEF B
      <4> QED BY <2>2, <4>1, Smallest
    <3>2. b - 1 \in 0 .. Len(w) /\ P(b - 1)
      BY <1>0, <3>1
    <3> QED BY <3>2
  <2> QED BY <2>1, <2>2
<1>2. PrefixIn(w, S) = CHOOSE n \in 0 .. Len(w) : P(n)
  BY DEF PrefixIn
<1>3. PrefixIn(w, S) \in 0 .. Len(w) /\ P(PrefixIn(w, S))
  <2> HIDE DEF P
  <2> QED BY <1>1, <1>2
<1> QED BY <1>3

\* log_is_offset_larger has a largest offset in every set: the one nearest to the end.
LEMMA LargestIn ==
    ASSUME NEW e \in Offset, NEW S, S \subseteq Offset, S # {}
    PROVE  Largest(e, S) \in S
<1> DEFINE D == {Distance(e, x) : x \in S}
<1>1. \A x \in S : Distance(e, x) \in Nat
  BY Sizes DEF Distance, Offset
<1>2. PICK d \in D : \A c \in D : d <= c
  <2>1. D \subseteq Nat /\ D # {}
    BY <1>1
  <2> HIDE DEF D
  <2> QED BY <2>1, Smallest
<1>3. PICK x \in S : d = Distance(e, x)
  BY <1>2
<1>4. \A y \in S : ~Larger(e, y, x)
  BY <1>1, <1>2, <1>3 DEF Larger
<1> QED BY <1>4 DEF Largest

\* log_find_remote_end_offset finds an offset of the ring.
LEMMA RemoteEndIn ==
    ASSUME NEW l, NEW b \in NcBuf
    PROVE  RemoteEnd(l, b) \in Offset
<1> DEFINE w == [k \in DOMAIN b.terms |-> b.from + k]
           same == {b.from + k : k \in {k \in DOMAIN b.terms :
                      /\ b.from + k - 1 # end[l] /\ b.from + k \in Pos
                      /\ mem[l][b.from + k].term = b.terms[k]}}
           n == PrefixIn(w, same)
<1>1. b.from \in Offset /\ b.from \in Nat /\ b.terms \in Seq(Nat)
  BY Sizes DEF NcBuf
<1>2. DOMAIN b.terms = 1 .. Len(b.terms) /\ Len(b.terms) \in Nat
  BY <1>1, LenProperties
<1>3. w \in Seq(Nat) /\ Len(w) = Len(b.terms)
  <2>1. \A k \in 1 .. Len(b.terms) : b.from + k \in Nat
    BY <1>1
  <2>2. w = [k \in 1 .. Len(b.terms) |-> b.from + k]
    BY <1>2
  <2>3. [k \in 1 .. Len(b.terms) |-> b.from + k] \in Seq(Nat)
    BY <1>2, <2>1, IsASeq
  <2>4. Len([k \in 1 .. Len(b.terms) |-> b.from + k]) = Len(b.terms)
    BY <1>2
  <2> QED BY <2>2, <2>3, <2>4
<1>4. same \subseteq Pos
  OBVIOUS
<1>5. RemoteEnd(l, b) = b.from + n
  BY DEF RemoteEnd, Matching
<1>6. n \in 0 .. Len(w) /\ \A k \in 1 .. n : w[k] \in same
  <2> HIDE DEF w, same
  <2> QED BY <1>3, PrefixInRange
<1>7. CASE n = 0
  BY <1>1, <1>5, <1>7
<1>8. CASE n # 0
  <2> HIDE DEF n
  <2>1. n \in 1 .. n /\ n \in 1 .. Len(b.terms)
    BY <1>2, <1>3, <1>6, <1>8
  <2>2. w[n] \in Pos
    BY <1>4, <1>6, <2>1
  <2>3. w[n] = b.from + n
    BY <1>2, <2>1
  <2> QED BY <1>5, <2>2, <2>3, Sizes
<1> QED BY <1>7, <1>8

\* What log_entries_to_nc_buf writes.
LEMMA NotCommittedType ==
    ASSUME TypeOK, NEW i \in Server
    PROVE  NotCommitted(i) \in NcBuf
<1> DEFINE w == Walk(commit[i], end[i])
<1>1. commit[i] \in Offset /\ end[i] \in Offset /\ mem[i] \in [Pos -> Entry]
  BY DEF TypeOK
<1>2. w \in Seq(Pos) /\ Len(w) \in Nat /\ DOMAIN w = 1 .. Len(w)
  BY <1>1, WalkTypes
<1> HIDE DEF w
<1>3. \A k \in 1 .. Len(w) : w[k] \in Pos
  BY <1>2, ElementOfSeq
<1>4. \A k \in 1 .. Len(w) : mem[i][w[k]].term \in Nat
  BY <1>1, <1>3 DEF Entry
<1>5. [k \in 1 .. Len(w) |-> mem[i][w[k]].term] \in Seq(Nat)
  BY <1>2, <1>4, IsASeq
<1>6. NotCommitted(i) = [from |-> commit[i], terms |-> [k \in 1 .. Len(w) |-> mem[i][w[k]].term]]
  BY <1>2 DEF NotCommitted, w
<1> QED BY <1>1, <1>5, <1>6 DEF NcBuf

\* log_append_entry and the persisting after it.
LEMMA AppendType ==
    ASSUME TypeOK, NEW l \in Server, NEW t \in Nat, AppendPersisted(l, t)
    PROVE  /\ end' \in [Server -> Offset] /\ old_end' \in [Server -> Offset]
           /\ mem' \in [Server -> [Pos -> Entry]]
<1>1. end[l] + 1 \in Pos /\ end[l] + 1 \in Offset
  BY Sizes DEF AppendPersisted, TypeOK, Offset, Pos
<1>2. end' \in [Server -> Offset] /\ old_end' \in [Server -> Offset]
  BY <1>1 DEF AppendPersisted, TypeOK
<1> DEFINE q == end[l] + 1
           x == [mem[l][q] EXCEPT !.term = t, !.reply = {}]
           m == [mem[l] EXCEPT ![q] = [@ EXCEPT !.term = t, !.reply = {}]]
<1>3. mem[l] \in [Pos -> Entry] /\ q \in Pos
  BY <1>1 DEF TypeOK
<1>4. m \in [Pos -> Entry]
  <2>1. x \in Entry
    <3>1. mem[l][q] \in Entry
      BY <1>3
    <3> QED BY <3>1 DEF Entry
  <2>2. m = [mem[l] EXCEPT ![q] = x]
    OBVIOUS
  <2> HIDE DEF x, q, m
  <2> QED BY <1>3, <2>1, <2>2
<1> HIDE DEF m
<1>5. SentBy(l, m, old_end[l], end[l] + 1) \in [Pos -> Entry]
  <2>1. ASSUME NEW e \in Entry PROVE [e EXCEPT !.sender = l] \in Entry
    BY DEF Entry
  <2> QED BY <1>4, <2>1 DEF SentBy
<1>6. mem' = [mem EXCEPT ![l] = SentBy(l, m, old_end[l], end[l] + 1)]
  BY DEF AppendPersisted, m
<1>7. mem' \in [Server -> [Pos -> Entry]]
  BY <1>5, <1>6 DEF TypeOK
<1> QED BY <1>2, <1>7

\* The new term of an election is larger than the terms of all who take part.
LEMMA NewTerm ==
    ASSUME TypeOK, NEW Q, Q \subseteq Server, Q # {},
           NEW t, t = 1 + (CHOOSE x \in {term[i] : i \in Q} : \A i \in Q : term[i] <= x)
    PROVE  t \in Nat /\ \A i \in Q : term[i] < t
<1> DEFINE T == {term[i] : i \in Q}
           F == [i \in Q |-> term[i]]
<1>1. IsFiniteSet(Q)
  <2>1. IsFiniteSet(Server)
    BY Sizes, FS_Interval DEF Server
  <2> QED BY <2>1, FS_Subset
<1>2. T \subseteq Nat /\ T # {}
  BY DEF TypeOK
<1>3. IsFiniteSet(T)
  <2>1. F \in [Q -> T] /\ \A y \in T : \E i \in Q : F[i] = y
    OBVIOUS
  <2> HIDE DEF F, T
  <2>2. F \in Surjection(Q, T)
    BY <2>1, Zenon DEF Surjection
  <2> QED BY <1>1, <2>2, FS_Surjection
<1>4. PICK x \in T : \A y \in T : y <= x
  <2> HIDE DEF T
  <2> QED BY <1>2, <1>3, Greatest
<1>5. \A i \in Q : term[i] <= x
  BY <1>4
<1>6. PICK y \in T : t = 1 + y /\ \A i \in Q : term[i] <= y
  <2>1. PICK y : y = CHOOSE z \in T : \A i \in Q : term[i] <= z
    OBVIOUS
  <2>2. t = 1 + y
    BY <2>1
  <2> HIDE DEF T
  <2>3. y \in T /\ \A i \in Q : term[i] <= y
    BY <1>4, <1>5, <2>1
  <2> QED BY <2>2, <2>3
<1>7. \A i \in Q : term[i] \in Nat
  BY DEF TypeOK
<1> QED BY <1>2, <1>6, <1>7

LrTable == [Server -> [Server -> LrState]]
LrStep == {"get", "set_end", "log", "end"}

\* Changing one field keeps an entry an entry, and the state of a remote log one.
LEMMA EntryFields ==
    ASSUME NEW e \in Entry, NEW s \in Server, NEW S \in SUBSET Server
    PROVE  [e EXCEPT !.sender = s] \in Entry /\ [e EXCEPT !.reply = S] \in Entry
           /\ e.reply \in SUBSET Server
BY Zenon DEF Entry

LEMMA LrFields ==
    ASSUME NEW r \in LrState, NEW s \in LrStep, NEW x \in Offset
    PROVE  /\ [r EXCEPT !.step = s] \in LrState /\ [r EXCEPT !.commit = x] \in LrState
           /\ [r EXCEPT !.end = x] \in LrState /\ [r EXCEPT !.cached = x] \in LrState
BY Zenon DEF LrState, LrStep

\* The same in the table of a server.
LEMMA LrTableFields ==
    ASSUME NEW g \in LrTable, NEW l \in Server, NEW f \in Server,
           NEW s \in LrStep, NEW x \in Offset
    PROVE  /\ [g EXCEPT ![l][f].step = s] \in LrTable
           /\ [g EXCEPT ![l][f].end = x] \in LrTable
           /\ [g EXCEPT ![l][f].cached = x] \in LrTable
<1>1. g[l] \in [Server -> LrState] /\ g[l][f] \in LrState
  BY DEF LrTable
<1>2. ASSUME NEW r \in LrState
      PROVE  [g EXCEPT ![l] = [g[l] EXCEPT ![f] = r]] \in LrTable
  BY <1>1 DEF LrTable
<1>3. [g EXCEPT ![l][f].step = s] = [g EXCEPT ![l] = [g[l] EXCEPT ![f] = [g[l][f] EXCEPT !.step = s]]]
  BY Zenon
<1>4. [g EXCEPT ![l][f].end = x] = [g EXCEPT ![l] = [g[l] EXCEPT ![f] = [g[l][f] EXCEPT !.end = x]]]
  BY Zenon
<1>5. [g EXCEPT ![l][f].cached = x] = [g EXCEPT ![l] = [g[l] EXCEPT ![f] = [g[l][f] EXCEPT !.cached = x]]]
  BY Zenon
<1>6. /\ [g[l][f] EXCEPT !.step = s] \in LrState
      /\ [g[l][f] EXCEPT !.end = x] \in LrState /\ [g[l][f] EXCEPT !.cached = x] \in LrState
  BY <1>1, LrFields, Zenon
<1> QED BY <1>2, <1>3, <1>4, <1>5, <1>6, Zenon

LEMMA Steps == NextStep.get \in LrStep /\ NextStep.set_end \in LrStep
               /\ NextStep.log \in LrStep /\ NextStep.end \in LrStep
BY DEF NextStep, LrStep

-----------------------------------------------------------------------------
\* One lemma for each action.
LEMMA InitType == Init => TypeOK
<1> SUFFICES ASSUME Init PROVE TypeOK
  OBVIOUS
<1>1. NoEntry \in Entry
  BY Sizes DEF NoEntry, Entry
<1>2. [from |-> 0, terms |-> <<>>] \in NcBuf
  BY Sizes DEF NcBuf
<1>3. LrStart \in LrState
  BY Sizes DEF LrStart, LrState
<1>4. mem \in [Server -> [Pos -> Entry]] /\ nc_buf \in [Server -> [Server -> NcBuf]]
      /\ lr \in [Server -> [Server -> LrState]]
  BY <1>1, <1>2, <1>3 DEF Init
<1> QED BY <1>4, Sizes DEF Init, TypeOK

LEMMA AppendEntryType ==
    ASSUME TypeOK, NEW l \in Server, AppendEntry(l)
    PROVE  TypeOK'
<1>1. term[l] \in Nat /\ AppendPersisted(l, term[l])
  BY DEF TypeOK, AppendEntry
<1>2. /\ end' \in [Server -> Offset] /\ old_end' \in [Server -> Offset]
      /\ mem' \in [Server -> [Pos -> Entry]]
  BY <1>1, AppendType
<1> QED BY <1>2 DEF TypeOK, AppendEntry, roleVars

\* A byte goes to the sender of an entry at a position of the ring.
LEMMA PersistType ==
    ASSUME TypeOK, NEW f \in Server, Persist(f)
    PROVE  TypeOK'
<1> DEFINE new == Walked(old_end[f], end[f])
           m == [p \in Pos |-> IF p \in new THEN [mem[f][p] EXCEPT !.reply = @ \cup {f}] ELSE mem[f][p]]
<1>1. new \subseteq Pos
  BY WalkTypes DEF TypeOK
<1>2. mem[f] \in [Pos -> Entry]
  BY DEF TypeOK
<1>3. \A p \in Pos : [mem[f][p] EXCEPT !.reply = mem[f][p].reply \cup {f}] \in Entry
  <2> SUFFICES ASSUME NEW p \in Pos
               PROVE [mem[f][p] EXCEPT !.reply = mem[f][p].reply \cup {f}] \in Entry
    OBVIOUS
  <2>1. mem[f][p] \in Entry
    BY <1>2
  <2>2. mem[f][p].reply \cup {f} \in SUBSET Server
    BY <2>1 DEF Entry
  <2> QED BY <2>1, <2>2, EntryFields, Zenon
<1>4. m \in [Pos -> Entry]
  <2> HIDE DEF new
  <2> QED BY <1>2, <1>3
<1>5. mem' = [mem EXCEPT ![f] = m]
  BY DEF Persist
<1>6. mem' \in [Server -> [Pos -> Entry]]
  <2> HIDE DEF m
  <2> QED BY <1>4, <1>5 DEF TypeOK
<1>7. RepliesTo(f, new) \subseteq Reply
  <2> HIDE DEF new
  <2>1. \A p \in Pos : mem[f][p].sender \in Server
    BY <1>2 DEF Entry
  <2> QED BY <1>1, <2>1 DEF RepliesTo, Reply
<1>8. replies' \in SUBSET Reply
  BY <1>7 DEF TypeOK, Persist
<1>9. old_end' \in [Server -> Offset]
  BY DEF TypeOK, Persist
<1>10. UNCHANGED <<roleVars, end, commit, nc_buf, lr, up>>
  BY DEF Persist
<1> QED BY <1>6, <1>8, <1>9, <1>10 DEF TypeOK, roleVars

LEMMA LandReplyType ==
    ASSUME TypeOK, NEW r \in replies, LandReply(r)
    PROVE  TypeOK'
<1>1. r.from \in Server /\ r.to \in Server /\ r.pos \in Pos
  BY DEF TypeOK, Reply
<1> DEFINE m == mem[r.to]
           R == m[r.pos].reply \cup {r.from}
           x == [m[r.pos] EXCEPT !.reply = R]
<1>2. m \in [Pos -> Entry]
  BY <1>1 DEF TypeOK
<1>3. m[r.pos] \in Entry
  BY <1>1, <1>2
<1>4. R \in SUBSET Server
  BY <1>1, <1>3 DEF Entry
<1>5. x \in Entry
  BY <1>1, <1>3, <1>4, EntryFields, Zenon
<1>6. [mem EXCEPT ![r.to][r.pos].reply = @ \cup {r.from}] = [mem EXCEPT ![r.to] = [m EXCEPT ![r.pos] = x]]
  BY Zenon
<1>7. [m EXCEPT ![r.pos] = x] \in [Pos -> Entry]
  <2> HIDE DEF m, x
  <2> QED BY <1>1, <1>2, <1>5
<1>8. [mem EXCEPT ![r.to] = [m EXCEPT ![r.pos] = x]] \in [Server -> [Pos -> Entry]]
  <2>1. PICK q : q = [m EXCEPT ![r.pos] = x]
    OBVIOUS
  <2> HIDE DEF m, x
  <2>2. [mem EXCEPT ![r.to] = q] \in [Server -> [Pos -> Entry]]
    BY <1>7, <2>1 DEF TypeOK
  <2> QED BY <2>1, <2>2, Zenon
<1>9. mem' = [mem EXCEPT ![r.to][r.pos].reply = @ \cup {r.from}] \/ mem' = mem
  BY Zenon DEF LandReply
<1>10. mem' \in [Server -> [Pos -> Entry]]
  <2>1. mem \in [Server -> [Pos -> Entry]]
    BY DEF TypeOK
  <2> HIDE DEF m, x
  <2> QED BY <1>6, <1>8, <1>9, <2>1, Zenon
<1>11. replies' \in SUBSET Reply /\ UNCHANGED <<roleVars, end, old_end, commit, nc_buf, lr, up>>
  BY DEF TypeOK, LandReply
<1> QED BY <1>10, <1>11 DEF TypeOK, roleVars

\* The commit offset of a vote ack is an offset once it is there.
LEMMA GetEntriesType ==
    ASSUME TypeOK, NEW l \in Server, NEW f \in Server, GetEntries(l, f)
    PROVE  TypeOK'
<1>1. PICK v : v = vote_ack[l][f]
  OBVIOUS
<1>2. v \in Offset
  BY <1>1 DEF TypeOK, GetEntries, Access
<1>3. commit' \in [Server -> Offset]
  <2>1. PICK c : c = Largest(end[l], {commit[l], v})
    OBVIOUS
  <2>2. c \in Offset
    <3>0. PICK S : S = {commit[l], v}
      OBVIOUS
    <3>1. end[l] \in Offset /\ S \subseteq Offset /\ S # {}
      BY <1>2, <3>0 DEF TypeOK
    <3>2. c \in S
      BY <2>1, <3>0, <3>1, LargestIn
    <3> QED BY <3>1, <3>2
  <2>3. commit' = [commit EXCEPT ![l] = c]
    BY <1>1, <2>1 DEF GetEntries
  <2> QED BY <2>2, <2>3 DEF TypeOK
<1>4. nc_buf' \in [Server -> [Server -> NcBuf]]
  <2>1. nc_buf' = [nc_buf EXCEPT ![l][f] = nc_buf[f][f]]
    BY DEF GetEntries
  <2> QED BY <2>1 DEF TypeOK
<1>5. lr' \in [Server -> [Server -> LrState]]
  <2>1. lr[l][f] \in LrState
    BY DEF TypeOK
  <2>2. "log" \in LrStep /\ NextStep.get \in LrStep
    BY Steps DEF LrStep
  <2> DEFINE a == [[[lr[l][f] EXCEPT !.step = "log"] EXCEPT !.commit = v] EXCEPT !.end = v]
             b == [[lr[l][f] EXCEPT !.step = NextStep.get] EXCEPT !.commit = v]
  <2>3. a \in LrState
    <3>1. [lr[l][f] EXCEPT !.step = "log"] \in LrState
      BY <1>2, <2>1, <2>2, LrFields, Zenon
    <3>2. [[lr[l][f] EXCEPT !.step = "log"] EXCEPT !.commit = v] \in LrState
      BY <1>2, <2>2, <3>1, LrFields, Zenon
    <3> QED BY <1>2, <2>2, <3>2, LrFields, Zenon
  <2>4. b \in LrState
    <3>1. [lr[l][f] EXCEPT !.step = NextStep.get] \in LrState
      BY <1>2, <2>1, <2>2, LrFields, Zenon
    <3> QED BY <1>2, <2>2, <3>1, LrFields, Zenon
  <2>5. lr' = [lr EXCEPT ![l][f] = IF nc_buf[f][f].terms = <<>> THEN a ELSE b]
    BY <1>1, Zenon DEF GetEntries
  <2>6. PICK r : r = IF nc_buf[f][f].terms = <<>> THEN a ELSE b
    OBVIOUS
  <2> HIDE DEF a, b
  <2>7. r \in LrState /\ lr' = [lr EXCEPT ![l][f] = r]
    BY <2>3, <2>4, <2>5, <2>6, Zenon
  <2> QED BY <2>7 DEF TypeOK
<1>6. UNCHANGED <<roleVars, mem, end, old_end, replies, up>>
  BY DEF GetEntries
<1> QED BY <1>3, <1>4, <1>5, <1>6 DEF TypeOK, roleVars

\* The offset at which a log is cut is one of the ring.
LEMMA SetEndType ==
    ASSUME TypeOK, NEW l \in Server, NEW f \in Server, SetEnd(l, f)
    PROVE  TypeOK'
<1>1. PICK e : e = RemoteEnd(l, nc_buf[l][f])
  OBVIOUS
<1>2. e \in Offset
  <2>1. nc_buf[l][f] \in NcBuf
    BY DEF TypeOK
  <2> QED BY <1>1, <2>1, RemoteEndIn
<1>3. end' = [end EXCEPT ![f] = e]
      /\ lr' = [[lr EXCEPT ![l][f].end = e] EXCEPT ![l][f].step = NextStep.set_end]
  BY <1>1, Zenon DEF SetEnd
<1>4. lr \in LrTable
  BY DEF TypeOK, LrTable
<1>5. [lr EXCEPT ![l][f].end = e] \in LrTable
  BY <1>2, <1>4, Steps, LrTableFields, Zenon
<1>6. lr' \in [Server -> [Server -> LrState]]
  BY <1>2, <1>3, <1>5, Steps, LrTableFields, Zenon DEF LrTable
<1>7. UNCHANGED <<roleVars, mem, old_end, commit, nc_buf, replies, up>>
  BY DEF SetEnd
<1>8. end' \in [Server -> Offset]
  BY <1>2, <1>3 DEF TypeOK
<1> QED BY <1>6, <1>7, <1>8 DEF TypeOK, roleVars

LEMMA WriteLogType ==
    ASSUME TypeOK, NEW l \in Server, NEW f \in Server, WriteLog(l, f)
    PROVE  TypeOK'
<1>1. PICK e : e = end[l]
  OBVIOUS
<1>2. e \in Offset
  BY <1>1 DEF TypeOK
<1>3. mem' \in [Server -> [Pos -> Entry]]
  <2>1. PICK W : W = Walked(lr[l][f].end, end[l])
    OBVIOUS
  <2>2. mem' = [mem EXCEPT ![f] = [p \in Pos |-> IF p \in W THEN mem[l][p] ELSE mem[f][p]]]
    BY <2>1 DEF WriteLog
  <2>3. [p \in Pos |-> IF p \in W THEN mem[l][p] ELSE mem[f][p]] \in [Pos -> Entry]
    BY DEF TypeOK
  <2> QED BY <2>2, <2>3 DEF TypeOK
<1>4. lr' = [[lr EXCEPT ![l][f].cached = e] EXCEPT ![l][f].step = NextStep.log]
  BY <1>1, Zenon DEF WriteLog
<1>5. lr \in LrTable
  BY DEF TypeOK, LrTable
<1>6. [lr EXCEPT ![l][f].cached = e] \in LrTable
  BY <1>2, <1>5, Steps, LrTableFields, Zenon
<1>7. lr' \in [Server -> [Server -> LrState]]
  BY <1>2, <1>4, <1>6, Steps, LrTableFields, Zenon DEF LrTable
<1>8. UNCHANGED <<roleVars, end, old_end, commit, nc_buf, replies, up>>
  BY DEF WriteLog
<1> QED BY <1>3, <1>7, <1>8 DEF TypeOK, roleVars

LEMMA WriteEndType ==
    ASSUME TypeOK, NEW l \in Server, NEW f \in Server, WriteEnd(l, f)
    PROVE  TypeOK'
<1>1. PICK e : e = lr[l][f].cached
  OBVIOUS
<1>2. e \in Offset
  BY <1>1 DEF TypeOK, LrState
<1>3. end' = [end EXCEPT ![f] = e]
      /\ lr' = [[lr EXCEPT ![l][f].end = e] EXCEPT ![l][f].step = NextStep.end]
  BY <1>1, Zenon DEF WriteEnd
<1>4. lr \in LrTable
  BY DEF TypeOK, LrTable
<1>5. [lr EXCEPT ![l][f].end = e] \in LrTable
  BY <1>2, <1>4, Steps, LrTableFields, Zenon
<1>6. lr' \in [Server -> [Server -> LrState]]
  BY <1>2, <1>3, <1>5, Steps, LrTableFields, Zenon DEF LrTable
<1>7. UNCHANGED <<roleVars, mem, old_end, commit, nc_buf, replies, up>>
  BY DEF WriteEnd
<1>8. end' \in [Server -> Offset]
  BY <1>2, <1>3 DEF TypeOK
<1> QED BY <1>6, <1>7, <1>8 DEF TypeOK, roleVars

\* The scan of the reply bytes ends at an offset of the ring.
LEMMA CommitType ==
    ASSUME TypeOK, NEW l \in Server, Commit(l)
    PROVE  TypeOK'
<1>1. PICK c : c = Scanned(l)
  OBVIOUS
<1>2. c \in Offset
  <2> DEFINE w == Walk(commit[l], end[l])
             n == PrefixIn(w, Replied(l))
  <2>1. commit[l] \in Offset /\ end[l] \in Offset
    BY DEF TypeOK
  <2>2. w \in Seq(Pos) /\ Len(w) \in Nat
    BY <2>1, WalkTypes
  <2>3. n \in 0 .. Len(w)
    <3> HIDE DEF w
    <3> QED BY <2>2, PrefixInRange
  <2>4. c = IF n = 0 THEN commit[l] ELSE w[n]
    BY <1>1 DEF Scanned
  <2>5. n # 0 => w[n] \in Pos
    <3> HIDE DEF w, n
    <3>1. ASSUME n # 0 PROVE n \in 1 .. Len(w)
      BY <2>2, <2>3, <3>1
    <3> QED BY <2>2, <3>1, ElementOfSeq
  <2> QED BY <2>1, <2>4, <2>5, Sizes
<1> DEFINE B == {f \in Others(l) : /\ lr[l][f].step = "log"
                                   /\ lr[l][f].commit \notin {lr[l][f].end, c}}
           new(f) == IF Larger(end[l], c, lr[l][f].end) THEN lr[l][f].end ELSE c
           R == {f \in B \cap up : Connected(l, f)}
<1>3. /\ commit' = [i \in Server |-> IF i = l THEN c
                                     ELSE IF i \in R THEN new(i) ELSE commit[i]]
      /\ lr' = [lr EXCEPT ![l] = [f \in Server |->
                   IF f \in B THEN [lr[l][f] EXCEPT !.commit = new(f)] ELSE lr[l][f]]]
      /\ UNCHANGED <<roleVars, mem, end, old_end, nc_buf, replies, up>>
  BY <1>1 DEF Commit
<1>4. \A f \in Server : new(f) \in Offset
  <2>1. \A f \in Server : lr[l][f].end \in Offset
    BY DEF TypeOK, LrState
  <2> QED BY <1>2, <2>1
<1>5. commit' \in [Server -> Offset]
  <2> HIDE DEF B, R, new
  <2> QED BY <1>2, <1>3, <1>4 DEF TypeOK
<1>6. \A f \in Server : [lr[l][f] EXCEPT !.commit = new(f)] \in LrState
  <2> SUFFICES ASSUME NEW f \in Server PROVE [lr[l][f] EXCEPT !.commit = new(f)] \in LrState
    OBVIOUS
  <2>1. PICK x : x = new(f)
    OBVIOUS
  <2>2. lr[l][f] \in LrState /\ x \in Offset
    BY <1>4, <2>1 DEF TypeOK
  <2>3. [lr[l][f] EXCEPT !.commit = x] \in LrState
    BY <2>2, Steps, LrFields, Zenon
  <2> QED BY <2>1, <2>3, Zenon
<1>7. lr' \in [Server -> [Server -> LrState]]
  <2> DEFINE q == [f \in Server |->
                      IF f \in B THEN [lr[l][f] EXCEPT !.commit = new(f)] ELSE lr[l][f]]
  <2>1. q \in [Server -> LrState]
    <3>1. \A f \in Server : lr[l][f] \in LrState
      BY DEF TypeOK
    <3> HIDE DEF B, new
    <3> QED BY <1>6, <3>1, Zenon
  <2>2. lr' = [lr EXCEPT ![l] = q]
    BY <1>3
  <2> HIDE DEF q
  <2> QED BY <2>1, <2>2 DEF TypeOK
<1> QED BY <1>3, <1>5, <1>7 DEF TypeOK, roleVars

\* A voter's table of buffers with its own one renewed.
LEMMA PublishType ==
    ASSUME TypeOK, NEW i \in Server
    PROVE  [nc_buf[i] EXCEPT ![i] = NotCommitted(i)] \in [Server -> NcBuf]
<1>1. PICK b : b = NotCommitted(i)
  OBVIOUS
<1>2. b \in NcBuf
  BY <1>1, NotCommittedType
<1>3. [nc_buf[i] EXCEPT ![i] = b] \in [Server -> NcBuf]
  BY <1>2 DEF TypeOK
<1> QED BY <1>1, <1>3, Zenon

\* An election: the largest term and the largest commit offset of the voters exist.
LEMMA ElectType ==
    ASSUME TypeOK, NEW l \in Server, NEW Q \in SUBSET Server, Elect(l, Q)
    PROVE  TypeOK'
<1>1. PICK t : t = 1 + (CHOOSE x \in {term[i] : i \in Q} : \A i \in Q : term[i] <= x)
  OBVIOUS
<1>2. l \in Q
  BY DEF Elect
<1>3. t \in Nat
  BY <1>1, <1>2, NewTerm
<1>4. term' \in [Server -> Nat] /\ leading' \in SUBSET Server
  <2> DEFINE u == 1 + (CHOOSE x \in {term[i] : i \in Q} : \A i \in Q : term[i] <= x)
  <2>1. term' = [i \in Server |-> IF i \in Q THEN u ELSE term[i]]
        /\ leading' = (leading \ Q) \cup {l}
    BY Zenon DEF Elect
  <2>2. u \in Nat
    BY <1>1, <1>3
  <2> HIDE DEF u
  <2> QED BY <2>1, <2>2 DEF TypeOK
<1>5. nc_buf' \in [Server -> [Server -> NcBuf]]
  <2>1. nc_buf' = [i \in Server |-> IF i \in Q \ {l}
                      THEN [nc_buf[i] EXCEPT ![i] = NotCommitted(i)] ELSE nc_buf[i]]
    BY Zenon DEF Elect
  <2>2. \A i \in Server : [nc_buf[i] EXCEPT ![i] = NotCommitted(i)] \in [Server -> NcBuf]
    BY PublishType
  <2>3. \A i \in Server : nc_buf[i] \in [Server -> NcBuf]
    BY DEF TypeOK
  <2> QED BY <2>1, <2>2, <2>3, Zenon
<1>6. log_access' \in [Server -> SUBSET Server]
  BY DEF TypeOK, Elect, Others
<1>7. vote_ack' \in [Server -> [Server -> Offset \cup {NoAck}]]
  <2> DEFINE q == [j \in Server |-> IF j \in Q \ {l} THEN commit[j] ELSE NoAck]
  <2>1. q \in [Server -> Offset \cup {NoAck}]
    BY DEF TypeOK
  <2>2. vote_ack' = [vote_ack EXCEPT ![l] = q]
    BY Zenon DEF Elect
  <2> HIDE DEF q
  <2> QED BY <2>1, <2>2 DEF TypeOK
<1>8. commit' \in [Server -> Offset]
  <2>1. PICK S : S = {commit[j] : j \in Q}
    OBVIOUS
  <2>2. end[l] \in Offset /\ S \subseteq Offset /\ S # {}
    BY <1>2, <2>1 DEF TypeOK
  <2>3. PICK c : c = Largest(end[l], S)
    OBVIOUS
  <2>4. c \in Offset
    <3>1. c \in S
      BY <2>2, <2>3, LargestIn
    <3> QED BY <2>2, <3>1
  <2>5. commit' = [commit EXCEPT ![l] = c]
    BY <2>1, <2>3, Zenon DEF Elect
  <2> QED BY <2>4, <2>5 DEF TypeOK
<1>9. lr' \in [Server -> [Server -> LrState]]
  <2> DEFINE q == [j \in Server |-> [lr[l][j] EXCEPT !.step = "get"]]
  <2>1. \A j \in Server : lr[l][j] \in LrState
    BY DEF TypeOK
  <2>2. "get" \in LrStep /\ 0 \in Offset
    BY Sizes DEF LrStep
  <2>3. \A j \in Server : [lr[l][j] EXCEPT !.step = "get"] \in LrState
    BY <2>1, <2>2, LrFields, Zenon
  <2>4. q \in [Server -> LrState]
    BY <2>3, Zenon
  <2>5. lr' = [lr EXCEPT ![l] = q]
    BY Zenon DEF Elect
  <2> HIDE DEF q
  <2> QED BY <2>4, <2>5 DEF TypeOK
<1>10. /\ end' \in [Server -> Offset] /\ old_end' \in [Server -> Offset]
       /\ mem' \in [Server -> [Pos -> Entry]]
  <2>1. AppendPersisted(l, t)
    BY <1>1, Zenon DEF Elect
  <2> QED BY <1>3, <2>1, AppendType
<1>11. replies' \in SUBSET Reply /\ up' = up
  BY DEF TypeOK, Elect, NotReset
<1> QED BY <1>4, <1>5, <1>6, <1>7, <1>8, <1>9, <1>10, <1>11 DEF TypeOK

LEMMA FollowType ==
    ASSUME TypeOK, NEW f \in Server, NEW l \in Server, Follow(f, l)
    PROVE  TypeOK'
<1>1. nc_buf' \in [Server -> [Server -> NcBuf]]
  <2>1. PICK b : b = NotCommitted(f)
    OBVIOUS
  <2>2. b \in NcBuf
    BY <2>1, NotCommittedType
  <2>3. nc_buf' = [nc_buf EXCEPT ![f][f] = b]
    BY <2>1, Zenon DEF Follow
  <2> QED BY <2>2, <2>3 DEF TypeOK
<1>2. /\ term' \in [Server -> Nat] /\ leading' \in SUBSET Server
      /\ log_access' \in [Server -> SUBSET Server]
  BY DEF TypeOK, Follow
<1>3. vote_ack' \in [Server -> [Server -> Offset \cup {NoAck}]]
  <2>1. PICK c : c = commit[f]
    OBVIOUS
  <2>2. c \in Offset \cup {NoAck}
    BY <2>1 DEF TypeOK
  <2>3. vote_ack' = [vote_ack EXCEPT ![l][f] = c]
    BY <2>1, Zenon DEF Follow
  <2> QED BY <2>2, <2>3 DEF TypeOK
<1>4. replies' \in SUBSET Reply /\ UNCHANGED <<logVars, lr, up>>
  BY DEF TypeOK, Follow, NotReset
<1> QED BY <1>1, <1>2, <1>3, <1>4 DEF TypeOK, logVars

LEMMA CrashType ==
    ASSUME TypeOK, NEW i \in Server, Crash(i)
    PROVE  TypeOK'
BY DEF TypeOK, Crash, roleVars, logVars

LEMMA NextType == TypeOK /\ [Next]_vars => TypeOK'
<1> SUFFICES ASSUME TypeOK, [Next]_vars PROVE TypeOK'
  OBVIOUS
<1>1. CASE UNCHANGED vars
  BY <1>1 DEF TypeOK, vars, roleVars, logVars
<1>2. ASSUME NEW i \in Server, AppendEntry(i) \/ Persist(i) \/ Commit(i) \/ Crash(i)
      PROVE  TypeOK'
  BY <1>2, AppendEntryType, PersistType, CommitType, CrashType
<1>3. ASSUME NEW l \in Server, NEW f \in Server,
             GetEntries(l, f) \/ SetEnd(l, f) \/ WriteLog(l, f) \/ WriteEnd(l, f) \/ Follow(f, l)
      PROVE  TypeOK'
  BY <1>3, GetEntriesType, SetEndType, WriteLogType, WriteEndType, FollowType
<1>4. ASSUME NEW r \in replies, LandReply(r) PROVE TypeOK'
  BY <1>4, LandReplyType
<1>5. ASSUME NEW l \in Server, NEW Q \in SUBSET Server, Elect(l, Q) PROVE TypeOK'
  BY <1>5, ElectType
<1> QED BY <1>1, <1>2, <1>3, <1>4, <1>5, Zenon DEF Next

\* No step of replication takes an offset out of the ring, writes an entry that is
\* not one, or leaves next_lr_step without a step: the offsets that
\* log_find_remote_end_offset, the scan of the reply bytes and the vote acks produce
\* are offsets of the log, in every group and for every length of the ring.
THEOREM TypeCorrect == Spec => []TypeOK
BY InitType, NextType, PTL DEF Spec
=============================================================================
