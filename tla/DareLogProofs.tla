--------------------------- MODULE DareLogProofs ---------------------------
(***************************************************************************)
(* Theorems about DareLog, for every group and all lengths of commands:    *)
(* the types, on every ring; and on a ring that is long enough for the     *)
(* group (EnoughRing), that nothing is pruned that somebody needs, and     *)
(* that the ring implements ReplicatedLog.                                 *)
(*                                                                         *)
(* In order: what a walk over entries returns; types; the history of all   *)
(* entries, which gives an offset the round of the ring it belongs to; what*)
(* appending, reading and pruning do to it; how many entries, and how many *)
(* bytes, somebody may still need; each step of the program; theorems.     *)
(***************************************************************************)
EXTENDS DareLog, WellFoundedInduction, SequenceTheorems, FiniteSetTheorems, TLAPS

\* A set of numbers has a smallest one.
LEMMA Smallest ==
    ASSUME NEW S, S \subseteq Nat, S # {}
    PROVE  \E x \in S : \A y \in S : x <= y
<1>1. PICK x \in S : \A y \in S : ~(<<y, x>> \in OpToRel(<, Nat))
  BY NatLessThanWellFounded, WFMin, Zenon
<1>2. \A u, v \in Nat : <<u, v>> \in OpToRel(<, Nat) <=> u < v
  BY Zenon DEF OpToRel
<1>3. \A y \in S : ~(y < x)
  BY <1>1, <1>2, Zenon
<1>4. \A y \in S : x <= y
  BY <1>3
<1> QED BY <1>4

\* What holds of 0, and of k + 1 whenever it holds of k, holds of every number.
LEMMA Induction ==
    ASSUME NEW S, 0 \in S, \A k \in Nat : k \in S => k + 1 \in S
    PROVE  Nat \subseteq S
<1> SUFFICES ASSUME Nat \ S # {} PROVE FALSE
  OBVIOUS
<1>1. PICK x \in Nat \ S : \A y \in Nat \ S : x <= y
  BY Smallest
<1>2. x # 0 /\ x - 1 \in Nat
  BY <1>1
<1>3. x - 1 \in S
  BY <1>1, <1>2
<1> QED BY <1>1, <1>2, <1>3

\* A function applied again and again: the values after 0, 1, 2, ... times.
Repeats(f, b, F, n) == f[0] = b /\ \A k \in 0 .. n - 1 : f[k + 1] = F[f[k]]

LEMMA Iteration ==
    ASSUME NEW X, NEW b \in X, NEW F \in [X -> X]
    PROVE  \E f \in [Nat -> X] : f[0] = b /\ \A k \in Nat : f[k + 1] = F[f[k]]
<1> DEFINE T == {n \in Nat : \E g \in [0 .. n -> X] : Repeats(g, b, F, n)}
<1>1. \A n \in Nat : \E g \in [0 .. n -> X] : Repeats(g, b, F, n)
  <2>1. 0 \in T
    <3>1. [k \in 0 .. 0 |-> b] \in [0 .. 0 -> X] /\ Repeats([k \in 0 .. 0 |-> b], b, F, 0)
      BY DEF Repeats
    <3> QED BY <3>1
  <2>2. ASSUME NEW n \in Nat, n \in T PROVE n + 1 \in T
    <3>1. PICK g \in [0 .. n -> X] : Repeats(g, b, F, n)
      BY <2>2
    <3>2. PICK y \in X : y = F[g[n]]
      OBVIOUS
    <3>3. PICK h : h = [k \in 0 .. n + 1 |-> IF k = n + 1 THEN y ELSE g[k]]
      OBVIOUS
    <3>4. h \in [0 .. n + 1 -> X]
      BY <3>3
    <3>5. h[0] = b
      BY <3>1, <3>3 DEF Repeats
    <3>6. ASSUME NEW k \in 0 .. n PROVE h[k + 1] = F[h[k]]
      <4>1. CASE k = n
        <5>1. h[k + 1] = y /\ h[k] = g[n]
          BY <3>3, <4>1
        <5> QED BY <3>2, <5>1
      <4>2. CASE k # n
        <5>1. h[k + 1] = g[k + 1] /\ h[k] = g[k] /\ k \in 0 .. n - 1
          BY <3>3, <4>2
        <5> QED BY <3>1, <5>1 DEF Repeats
      <4> QED BY <4>1, <4>2
    <3>7. Repeats(h, b, F, n + 1)
      BY <3>5, <3>6 DEF Repeats
    <3> QED BY <3>4, <3>7
  <2>3. Nat \subseteq T
    <3> HIDE DEF T
    <3> QED BY <2>1, <2>2, Induction
  <2> QED BY <2>3
<1>2. PICK G : G = [n \in Nat |-> CHOOSE g \in [0 .. n -> X] : Repeats(g, b, F, n)]
  OBVIOUS
<1>3. \A n \in Nat : G[n] \in [0 .. n -> X] /\ Repeats(G[n], b, F, n)
  BY <1>1, <1>2
<1>4. ASSUME NEW n \in Nat PROVE \A k \in Nat : k <= n => G[n][k] = G[n + 1][k]
  <2> DEFINE E == {k \in Nat : k <= n => G[n][k] = G[n + 1][k]}
  <2>1. 0 \in E
    <3>1. G[n][0] = b /\ G[n + 1][0] = b
      BY <1>3 DEF Repeats
    <3> QED BY <3>1
  <2>2. ASSUME NEW k \in Nat, k \in E PROVE k + 1 \in E
    <3> SUFFICES ASSUME k + 1 <= n PROVE G[n][k + 1] = G[n + 1][k + 1]
      OBVIOUS
    <3>1. k \in 0 .. n - 1 /\ k \in 0 .. (n + 1) - 1 /\ k <= n
      OBVIOUS
    <3>2. G[n][k] = G[n + 1][k]
      BY <2>2, <3>1
    <3>3. G[n][k + 1] = F[G[n][k]] /\ G[n + 1][k + 1] = F[G[n + 1][k]]
      BY <1>3, <3>1 DEF Repeats
    <3> QED BY <3>2, <3>3
  <2>3. Nat \subseteq E
    <3> HIDE DEF E
    <3> QED BY <2>1, <2>2, Induction
  <2> QED BY <2>3
<1>5. PICK f : f = [n \in Nat |-> G[n][n]]
  OBVIOUS
<1>6. f \in [Nat -> X]
  BY <1>3, <1>5
<1>7. f[0] = b
  BY <1>3, <1>5 DEF Repeats
<1>8. ASSUME NEW k \in Nat PROVE f[k + 1] = F[f[k]]
  <2>1. f[k + 1] = G[k + 1][k + 1] /\ f[k] = G[k][k]
    BY <1>5
  <2>2. G[k + 1][k + 1] = F[G[k + 1][k]]
    <3>1. Repeats(G[k + 1], b, F, k + 1) /\ k \in 0 .. (k + 1) - 1
      BY <1>3
    <3> QED BY <3>1 DEF Repeats
  <2>3. G[k][k] = G[k + 1][k]
    BY <1>4
  <2> QED BY <2>1, <2>2, <2>3
<1> QED BY <1>6, <1>7, <1>8

-----------------------------------------------------------------------------
(* Reading a log.                                                          *)

\* Numbers that the leaves need.
LEMMA Sizes == Ring \in Nat /\ Hdr \in Nat /\ 0 < Hdr /\ 4 * Hdr <= Ring /\ N \in Nat /\ 0 < N
  BY LogAssumption

Memory(m) == DOMAIN m \subseteq 0 .. Ring - 1 /\ \A a \in DOMAIN m : m[a] \in Entry

LEMMA EntryFields ==
    ASSUME NEW e \in Entry
    PROVE  /\ e.len \in 0 .. Ring - Hdr /\ e.type \in {"CSM", "CONFIG", "HEAD"}
           /\ e.type = "HEAD" => e.val \in Offset
           /\ e.val \in Nat
  BY Sizes DEF Entry, Offset

LEMMA HeaderLength ==
    ASSUME NEW m, Memory(m), NEW a
    PROVE  /\ Header(m, a).len \in 0 .. Ring - Hdr
           /\ Header(m, a).type = "HEAD" => a \in DOMAIN m /\ m[a].val \in Offset
           /\ Header(m, a).val \in Nat
<1>1. CASE a \in DOMAIN m
  BY <1>1, EntryFields DEF Header, Memory
<1>2. CASE a \notin DOMAIN m
  BY <1>2, Sizes DEF Header, Void
<1> QED BY <1>1, <1>2

\* Whatever is in memory, an entry is met where all of it is in the buffer.
LEMMA Place ==
    ASSUME NEW m, Memory(m), NEW o \in Nat
    PROVE  /\ At(m, o) \in 0 .. Ring - Hdr
           /\ EntryLen(Header(m, At(m, o))) \in Hdr .. Ring
           /\ At(m, o) + EntryLen(Header(m, At(m, o))) \in Hdr .. Ring
<1> DEFINE p == IF FitsHeader(o) THEN o ELSE 0
<1>1. p \in 0 .. Ring - Hdr
  BY Sizes DEF FitsHeader
<1>2. At(m, o) = IF Fits(p, Header(m, p)) THEN p ELSE 0
  BY DEF At
<1> HIDE DEF p
<1>3. Header(m, p).len \in 0 .. Ring - Hdr /\ Header(m, 0).len \in 0 .. Ring - Hdr
  BY HeaderLength
<1>4. CASE Fits(p, Header(m, p))
  BY <1>1, <1>2, <1>3, <1>4, Sizes DEF Fits, EntryLen
<1>5. CASE ~Fits(p, Header(m, p))
  BY <1>2, <1>3, <1>5, Sizes DEF EntryLen
<1> QED BY <1>4, <1>5

\* What a reader at offset a has read who stops there, and who goes on to what w says.
Stopped(a) == [off |-> a, met |-> <<>>, csm |-> <<>>]
GoneOn(p, e, w) == [off |-> w.off, met |-> <<p>> \o w.met,
                    csm |-> (IF e.type = "CSM" THEN <<e.val>> ELSE <<>>) \o w.csm]
Stops(l, Go, a) == Distance(l.end, a) = 0 \/ ~Go[a]
After(m, a) == At(m, a) + EntryLen(Header(m, At(m, a)))

Reads == [off : Nat, met : Seq(Nat), csm : Seq(Nat)]

LEMMA ReadsTypes ==
    ASSUME NEW a \in Nat, NEW p \in Nat, NEW w \in Reads, NEW e, e.val \in Nat
    PROVE  Stopped(a) \in Reads /\ GoneOn(p, e, w) \in Reads
<1>1. PICK c : c = IF e.type = "CSM" THEN <<e.val>> ELSE <<>>
  OBVIOUS
<1>2. c \in Seq(Nat) /\ w.csm \in Seq(Nat)
  BY <1>1 DEF Reads
<1>3. c \o w.csm \in Seq(Nat)
  BY <1>2
<1>4. <<>> \in Seq(Nat) /\ <<p>> \o w.met \in Seq(Nat) /\ w.off \in Nat
  BY DEF Reads
<1>5. GoneOn(p, e, w) = [off |-> w.off, met |-> <<p>> \o w.met, csm |-> c \o w.csm]
  BY <1>1 DEF GoneOn
<1> QED BY <1>3, <1>4, <1>5 DEF Reads, Stopped

\* One more entry, for all offsets at once.
Longer(l, Go, g) == [a \in Nat |-> IF Stops(l, Go, a) THEN Stopped(a)
                                   ELSE GoneOn(At(l.mem, a), Header(l.mem, At(l.mem, a)),
                                               g[After(l.mem, a)])]

LEMMA AfterNat ==
    ASSUME NEW m, Memory(m), NEW a \in Nat
    PROVE  At(m, a) \in Nat /\ After(m, a) \in Nat /\ After(m, a) \in Offset
  BY Place, Sizes DEF After, Offset

LEMMA LongerType ==
    ASSUME NEW l, Memory(l.mem), NEW Go, NEW g \in [Nat -> Reads]
    PROVE  Longer(l, Go, g) \in [Nat -> Reads]
<1>1. ASSUME NEW a \in Nat
      PROVE  (IF Stops(l, Go, a) THEN Stopped(a)
              ELSE GoneOn(At(l.mem, a), Header(l.mem, At(l.mem, a)), g[After(l.mem, a)])) \in Reads
  <2>1. At(l.mem, a) \in Nat /\ After(l.mem, a) \in Nat
    BY AfterNat
  <2>2. Header(l.mem, At(l.mem, a)).val \in Nat
    BY HeaderLength
  <2> QED BY <2>1, <2>2, ReadsTypes
<1> QED BY <1>1 DEF Longer

\* The recursive function of a walk has a value for every number of entries.
LEMMA ReadingsTotal ==
    ASSUME NEW l, Memory(l.mem), NEW Go
    PROVE  /\ Readings(l, Go) \in [Nat -> [Nat -> Reads]]
           /\ \A a \in Nat : Readings(l, Go)[0][a] = Stopped(a)
           /\ \A k \in Nat : Readings(l, Go)[k + 1] = Longer(l, Go, Readings(l, Go)[k])
<1> DEFINE X == [Nat -> Reads]
           b == [a \in Nat |-> Stopped(a)]
           F == [g \in X |-> Longer(l, Go, g)]
           Body(W) == [k \in Nat |-> [a \in Nat |->
                        IF k = 0 \/ Distance(l.end, a) = 0 \/ ~Go[a]
                        THEN [off |-> a, met |-> <<>>, csm |-> <<>>]
                        ELSE LET p == At(l.mem, a)
                                 e == Header(l.mem, p)
                                 w == W[k - 1][p + EntryLen(e)]
                             IN  [off |-> w.off, met |-> <<p>> \o w.met,
                                  csm |-> (IF e.type = "CSM" THEN <<e.val>> ELSE <<>>) \o w.csm]]]
<1>1. b \in X
  <2>1. \A a \in Nat : Stopped(a) \in Reads
    BY DEF Stopped, Reads
  <2> QED BY <2>1
<1>2. F \in [X -> X]
  BY LongerType
<1>3. PICK f \in [Nat -> X] : f[0] = b /\ \A k \in Nat : f[k + 1] = F[f[k]]
  <2> HIDE DEF X, b, F
  <2> QED BY <1>1, <1>2, Iteration
<1>4. \A k \in Nat : f[k + 1] = Longer(l, Go, f[k])
  BY <1>3
<1>5. ASSUME NEW W, \A k \in Nat : W[k + 1] = Longer(l, Go, W[k]), W[0] = b, DOMAIN W = Nat, W = [k \in Nat |-> W[k]]
      PROVE  W = Body(W)
  <2>1. ASSUME NEW k \in Nat PROVE W[k] = Body(W)[k]
    <3>1. CASE k = 0
      BY <1>5, <3>1 DEF Stopped
    <3>2. CASE k # 0
      <4>1. k - 1 \in Nat /\ (k - 1) + 1 = k
        BY <3>2
      <4>2. W[k] = Longer(l, Go, W[k - 1])
        BY <1>5, <4>1
      <4>3. Longer(l, Go, W[k - 1]) = Body(W)[k]
        BY <3>2 DEF Longer, Stops, Stopped, GoneOn, After
      <4> QED BY <4>2, <4>3
    <3> QED BY <3>1, <3>2
  <2> QED BY <1>5, <2>1
<1>6. f = Body(f)
  <2> HIDE DEF Body
  <2> QED BY <1>3, <1>4, <1>5
<1>7. Readings(l, Go) = Body(Readings(l, Go))
  <2>1. Readings(l, Go) = CHOOSE W : W = Body(W)
    BY DEF Readings
  <2> HIDE DEF Body
  <2> QED BY <1>6, <2>1
<1> DEFINE R == Readings(l, Go)
<1>8. R[0] = b
  BY <1>7 DEF Stopped
<1>9. ASSUME NEW k \in Nat PROVE R[k + 1] = Longer(l, Go, R[k])
  <2>1. k + 1 # 0 /\ (k + 1) - 1 = k /\ k + 1 \in Nat
    OBVIOUS
  <2>2. R[k + 1] = Body(R)[k + 1]
    BY <1>7
  <2>3. Body(R)[k + 1] = Longer(l, Go, R[k])
    BY <2>1 DEF Longer, Stops, Stopped, GoneOn, After
  <2> QED BY <2>2, <2>3
<1>10. \A k \in Nat : R[k] \in X
  <2> DEFINE T == {k \in Nat : R[k] \in X}
  <2>1. 0 \in T
    BY <1>1, <1>8
  <2>2. ASSUME NEW k \in Nat, k \in T PROVE k + 1 \in T
    <3> HIDE DEF R
    <3> QED BY <1>9, <2>2, LongerType
  <2>3. Nat \subseteq T
    <3> HIDE DEF T
    <3> QED BY <2>1, <2>2, Induction
  <2> QED BY <2>3
<1>11. R \in [Nat -> X]
  <2>1. R = [k \in Nat |-> R[k]]
    BY <1>7
  <2> QED BY <1>10, <2>1
<1> QED BY <1>8, <1>9, <1>11

\* A reader stays in the buffer, and meets entries only where a header has place.
LEMMA ReadingsPlaces ==
    ASSUME NEW l, Memory(l.mem), NEW Go, NEW k \in Nat, NEW a \in Offset
    PROVE  /\ Readings(l, Go)[k][a].off \in Offset
           /\ \A i \in DOMAIN Readings(l, Go)[k][a].met :
                Readings(l, Go)[k][a].met[i] \in 0 .. Ring - Hdr
           /\ Readings(l, Go)[k][a].met \in Seq(Nat)
<1> DEFINE InBuffer(w) == /\ w \in Reads /\ w.off \in Offset
                          /\ \A i \in DOMAIN w.met : w.met[i] \in 0 .. Ring - Hdr
<1>1. Offset \subseteq Nat
  BY Sizes DEF Offset
<1>2. ASSUME NEW c \in Offset PROVE InBuffer(Stopped(c))
  BY <1>1, <1>2 DEF Stopped, Reads
<1>3. ASSUME NEW p \in 0 .. Ring - Hdr, NEW e, e.val \in Nat, NEW w, InBuffer(w)
      PROVE  InBuffer(GoneOn(p, e, w))
  <2>1. PICK s : s = w.met
    OBVIOUS
  <2>2. s \in Seq(Nat) /\ p \in Nat /\ \A i \in 1 .. Len(s) : s[i] \in 0 .. Ring - Hdr
    BY <1>3, <2>1, Sizes DEF Reads
  <2>3. \A i \in 1 .. Len(s) + 1 : (<<p>> \o s)[i] = IF i = 1 THEN p ELSE s[i - 1]
    BY <2>2
  <2>4. <<p>> \o s \in Seq(Nat) /\ Len(<<p>> \o s) = Len(s) + 1 /\ Len(s) \in Nat
    BY <2>2
  <2>5. \A i \in DOMAIN (<<p>> \o s) : (<<p>> \o s)[i] \in 0 .. Ring - Hdr
    <3>1. PICK u : u = <<p>> \o s
      OBVIOUS
    <3>2. u \in Seq(Nat) /\ Len(u) = Len(s) + 1 /\ DOMAIN u = 1 .. Len(s) + 1
      BY <2>4, <3>1
    <3>3. ASSUME NEW i \in DOMAIN u PROVE u[i] \in 0 .. Ring - Hdr
      <4>1. i \in 1 .. Len(s) + 1 /\ (i # 1 => i - 1 \in 1 .. Len(s))
        BY <2>4, <3>2, <3>3
      <4>2. u[i] = IF i = 1 THEN p ELSE s[i - 1]
        BY <2>3, <3>1, <4>1
      <4> QED BY <1>3, <2>2, <4>1, <4>2
    <3> QED BY <3>1, <3>3
  <2>6. GoneOn(p, e, w).off = w.off /\ GoneOn(p, e, w).met = <<p>> \o s
    BY <2>1 DEF GoneOn
  <2>7. GoneOn(p, e, w) \in Reads
    BY <1>3, <2>2, ReadsTypes
  <2> QED BY <1>3, <2>5, <2>6, <2>7
<1>4. PICK R : R = Readings(l, Go)
  OBVIOUS
<1> DEFINE T == {n \in Nat : \A c \in Offset : InBuffer(R[n][c])}
<1>5. 0 \in T
  BY <1>1, <1>2, <1>4, ReadingsTotal
<1>6. ASSUME NEW n \in Nat, n \in T PROVE n + 1 \in T
  <2> SUFFICES ASSUME NEW c \in Offset PROVE InBuffer(R[n + 1][c])
    OBVIOUS
  <2>1. R[n + 1] = Longer(l, Go, R[n]) /\ c \in Nat
    BY <1>1, <1>4, ReadingsTotal
  <2>2. R[n + 1][c] = IF Stops(l, Go, c) THEN Stopped(c)
                      ELSE GoneOn(At(l.mem, c), Header(l.mem, At(l.mem, c)), R[n][After(l.mem, c)])
    BY <2>1 DEF Longer
  <2>3. After(l.mem, c) \in Offset /\ At(l.mem, c) \in 0 .. Ring - Hdr
    BY <2>1, AfterNat, Place
  <2>6. Header(l.mem, At(l.mem, c)).val \in Nat
    BY HeaderLength
  <2>4. InBuffer(R[n][After(l.mem, c)])
    BY <1>6, <2>3
  <2>5. /\ InBuffer(GoneOn(At(l.mem, c), Header(l.mem, At(l.mem, c)), R[n][After(l.mem, c)]))
        /\ InBuffer(Stopped(c))
    BY <1>2, <1>3, <2>3, <2>4, <2>6
  <2> HIDE DEF InBuffer
  <2> QED BY <2>2, <2>5
<1>7. Nat \subseteq T
  <2> HIDE DEF T
  <2> QED BY <1>5, <1>6, Induction
<1>8. InBuffer(R[k][a])
  <2> HIDE DEF InBuffer
  <2> QED BY <1>7
<1> QED BY <1>4, <1>8 DEF Reads

LEMMA WalkPlaces ==
    ASSUME NEW l, Memory(l.mem), NEW Go, NEW o \in Offset
    PROVE  /\ Walk(l, o, Go).off \in Offset
           /\ Walk(l, o, Go).met \in Seq(Nat)
           /\ \A i \in DOMAIN Walk(l, o, Go).met : Walk(l, o, Go).met[i] \in 0 .. Ring - Hdr
<1>1. Ring \in Nat
  BY Sizes
<1> QED BY <1>1, ReadingsPlaces DEF Walk

-----------------------------------------------------------------------------
(* Types.                                                                  *)

Memories == UNION {[D -> Entry] : D \in SUBSET (0 .. Ring - 1)}

Log == [mem : Memories, reply : SUBSET ((0 .. Ring - 1) \X Server), head : Offset,
        apply : Offset, commit : Offset, end : Offset, tail : Offset, old_end : Offset]

\* The invariant: TypeOK, with the domains of the functions and records.
Types ==
    /\ log \in [Server -> Log]
    /\ cid_offset \in [Server -> Offset]
    /\ rmt \in [Follower -> [end : Offset, commit : Offset]]
    /\ apply_offsets \in [0 .. N -> Offset]
    /\ prev_head \in BOOLEAN
    /\ Leader \in on /\ on \subseteq Server
    /\ prunes \in 0 .. MaxPrunes /\ submitted \in 0 .. MaxReq

LEMMA MemoryIn == ASSUME NEW m \in Memories PROVE Memory(m) /\ m = [a \in DOMAIN m |-> m[a]]
  BY DEF Memories, Memory

LEMMA InMemories ==
    ASSUME NEW D \in SUBSET (0 .. Ring - 1), NEW m \in [D -> Entry]
    PROVE  m \in Memories
  BY DEF Memories

LEMMA Roles == Leader \in Server /\ Follower \subseteq Server /\ Server \subseteq 0 .. N /\ N \in 0 .. N
  BY Sizes DEF Leader, Server, Follower

LEMMA OffsetNat == Offset \subseteq Nat /\ 0 \in Offset /\ Ring \in Offset
  BY Sizes DEF Offset

LEMMA EntryTypes ==
    ASSUME NEW v \in Offset
    PROVE  /\ [type |-> "HEAD", len |-> 0, val |-> v] \in Entry
           /\ [type |-> "CONFIG", len |-> 0, val |-> 0] \in Entry
  BY DEF Entry

LEMMA CommandType ==
    ASSUME NEW k \in 1 .. MaxReq
    PROVE  [type |-> "CSM", len |-> DataLen[k], val |-> k] \in Entry
<1>1. DataLen[k] \in 0 .. Ring - Hdr
  BY LogAssumption DEF MaxReq
<1> QED BY <1>1 DEF Entry

LEMMA PutType ==
    ASSUME NEW m \in Memories, NEW o \in 0 .. Ring - 1, NEW e \in Entry
    PROVE  Put(m, o, e) \in Memories
<1> DEFINE D == (DOMAIN m \ (o .. o + EntryLen(e) - 1)) \cup {o}
<1>1. Memory(m)
  BY MemoryIn
<1>2. D \in SUBSET (0 .. Ring - 1)
  BY <1>1 DEF Memory
<1>3. \A a \in D : (IF a = o THEN e ELSE m[a]) \in Entry
  BY <1>1 DEF Memory
<1>4. Put(m, o, e) = [a \in D |-> IF a = o THEN e ELSE m[a]]
  BY DEF Put
<1> HIDE DEF D
<1>5. Put(m, o, e) \in [D -> Entry]
  BY <1>3, <1>4
<1> QED BY <1>2, <1>5, InMemories

LEMMA LogFields ==
    ASSUME NEW l \in Log
    PROVE  /\ l.mem \in Memories /\ Memory(l.mem) /\ l.reply \subseteq (0 .. Ring - 1) \X Server
           /\ l.head \in Offset /\ l.apply \in Offset /\ l.commit \in Offset /\ l.end \in Offset
           /\ l.tail \in Offset /\ l.old_end \in Offset
  BY MemoryIn DEF Log

\* log_append_entry leaves a log.
LEMMA AppendedType ==
    ASSUME NEW l \in Log, NEW type, NEW len, NEW val,
           [type |-> type, len |-> len, val |-> val] \in Entry
    PROVE  Appended(l, type, len, val) \in Log
<1>1. PICK e \in Entry : e = [type |-> type, len |-> len, val |-> val]
  OBVIOUS
<1>2. PICK at : at = IF FitsHeader(l.end) THEN l.end ELSE 0
  OBVIOUS
<1>3. PICK mark : mark = [l EXCEPT !.mem = Put(l.mem, at, e), !.end = 0]
  OBVIOUS
<1> DEFINE To(k, o) == [k EXCEPT !.mem = Put(@, o, e), !.reply = {r \in @ : r[1] # o},
                                 !.tail = o, !.end = o + EntryLen(e)]
<1>4. e.len \in 0 .. Ring - Hdr
  BY EntryFields
<1>5. at \in 0 .. Ring - Hdr /\ 0 \in 0 .. Ring - Hdr
  BY <1>2, Sizes, LogFields DEF FitsHeader, Offset
<1>6. mark \in Log
  <2>1. PICK m \in Memories : m = Put(l.mem, at, e)
    BY <1>5, LogFields, PutType, Sizes
  <2>2. mark = [l EXCEPT !.mem = m, !.end = 0]
    BY <1>3, <2>1
  <2> QED BY <2>2, OffsetNat DEF Log
<1>7. ASSUME NEW k \in Log, NEW o \in 0 .. Ring - Hdr, Fits(o, e) PROVE To(k, o) \in Log
  <2>1. o \in 0 .. Ring - 1 /\ o \in Offset
    BY Sizes DEF Offset
  <2>2. PICK m \in Memories : m = Put(k.mem, o, e)
    BY <2>1, LogFields, PutType
  <2>3. o + EntryLen(e) \in Offset
    BY <1>4, <1>7, Sizes DEF Fits, EntryLen, Offset
  <2>4. PICK n \in Offset : n = o + EntryLen(e)
    BY <2>3
  <2>5. PICK R : R = {r \in k.reply : r[1] # o} /\ R \subseteq (0 .. Ring - 1) \X Server
    BY LogFields
  <2>6. To(k, o) = [k EXCEPT !.mem = m, !.reply = R, !.tail = o, !.end = n]
    BY <2>2, <2>4, <2>5
  <2> HIDE DEF To
  <2>7. PICK Q \in SUBSET ((0 .. Ring - 1) \X Server) : Q = R
    BY <2>5
  <2>8. PICK j \in Log : j = [k EXCEPT !.mem = m, !.tail = o]
    BY <2>1 DEF Log
  <2>9. [j EXCEPT !.reply = Q, !.end = n] \in Log
    BY DEF Log
  <2>10. To(k, o) = [j EXCEPT !.reply = Q, !.end = n]
    BY <2>6, <2>7, <2>8 DEF Log
  <2> QED BY <2>9, <2>10
<1>8. Appended(l, type, len, val) =
        IF l.end = l.head THEN l
        ELSE IF Fits(at, e) THEN To(l, at)
        ELSE IF l.head = 0 THEN mark ELSE To(mark, 0)
  BY <1>1, <1>2, <1>3 DEF Appended
<1>9. Fits(0, e)
  BY <1>4, Sizes DEF Fits, EntryLen
<1> HIDE DEF To
<1> QED BY <1>5, <1>6, <1>7, <1>8, <1>9

\* A set of numbers below a bound has a largest one.
LEMMA Largest ==
    ASSUME NEW n \in Nat, NEW S, S \subseteq 0 .. n, S # {}
    PROVE  Max(S) \in S
<1> DEFINE T == {n - x : x \in S}
<1>1. T \subseteq Nat /\ T # {}
  OBVIOUS
<1>2. PICK y \in T : \A z \in T : y <= z
  <2> HIDE DEF T
  <2> QED BY <1>1, Smallest
<1>3. PICK x \in S : y = n - x
  BY <1>2
<1>4. ASSUME NEW z \in S PROVE x >= z
  <2>1. y <= n - z /\ x \in Int /\ z \in Int
    BY <1>2
  <2> HIDE DEF T
  <2> QED BY <1>3, <2>1
<1>5. \E c \in S : \A z \in S : c >= z
  BY <1>4
<1> QED BY <1>5 DEF Max

\* The head that a follower finds is one that a HEAD entry brought.
LEMMA PolledHeadType ==
    ASSUME NEW l \in Log, NEW met \in Seq(Nat)
    PROVE  PolledHead(l, met) \in Offset
<1> DEFINE heads == {k \in DOMAIN met : /\ Header(l.mem, met[k]).type = "HEAD"
                                        /\ ~Larger(l.end, met[k], l.commit)}
           new == IF heads = {} THEN l.head ELSE l.mem[met[Max(heads)]].val
<1>1. heads \subseteq 0 .. Len(met) /\ Len(met) \in Nat
  OBVIOUS
<1>2. heads # {} => l.mem[met[Max(heads)]].val \in Offset
  <2>1. heads # {} => Max(heads) \in heads
    <3> HIDE DEF heads
    <3> QED BY <1>1, Largest
  <2>2. ASSUME NEW k \in heads PROVE l.mem[met[k]].val \in Offset
    BY HeaderLength, LogFields DEF Header
  <2> HIDE DEF heads
  <2> QED BY <2>1, <2>2
<1>3. new \in Offset
  BY <1>2, LogFields
<1>4. PolledHead(l, met) = IF Larger(l.end, new, l.head) THEN new ELSE l.head
  BY DEF PolledHead
<1> HIDE DEF new
<1> QED BY <1>3, <1>4, LogFields

\* A log may go anywhere in the ring that the offsets allow.
LEMMA LogMoved ==
    ASSUME NEW l \in Log, NEW o \in Offset
    PROVE  /\ [l EXCEPT !.old_end = o] \in Log
           /\ [l EXCEPT !.commit = o] \in Log
           /\ [l EXCEPT !.apply = o] \in Log
           /\ [l EXCEPT !.head = o] \in Log
  BY DEF Log

LEMMA DistanceRange ==
    ASSUME NEW e \in Offset, NEW o \in Offset
    PROVE  Distance(e, o) \in 0 .. Ring
  BY Sizes DEF Distance, Offset

LEMMA SlowestType ==
    ASSUME NEW l \in Log, NEW ao \in [0 .. N -> Offset]
    PROVE  /\ Slowest(l, ao) \in Server
           /\ \A j \in Server : ~Larger(l.end, ao[Slowest(l, ao)], ao[j])
<1> DEFINE D(i) == Distance(l.end, ao[i])
           T == {Ring - D(i) : i \in Server}
           far == {i \in Server : \A j \in Server : ~Larger(l.end, ao[i], ao[j])}
<1>1. \A i \in Server : D(i) \in 0 .. Ring
  BY Roles, LogFields, DistanceRange
<1>2. T \subseteq Nat /\ T # {}
  <2> HIDE DEF D
  <2> QED BY <1>1, Sizes, Roles
<1>3. PICK y \in T : \A z \in T : y <= z
  <2> HIDE DEF T
  <2> QED BY <1>2, Smallest
<1>4. PICK i \in Server : y = Ring - D(i)
  BY <1>3
<1>5. ASSUME NEW j \in Server PROVE ~(D(i) < D(j))
  <2>1. y <= Ring - D(j) /\ D(i) \in 0 .. Ring /\ D(j) \in 0 .. Ring
    BY <1>1, <1>3
  <2> HIDE DEF T, D
  <2> QED BY <1>4, <2>1, Sizes
<1>6. i \in far
  BY <1>5 DEF Larger
<1>7. far \subseteq Server /\ far \subseteq Nat /\ far # {}
  BY <1>6 DEF Server
<1>8. \E x \in far : \A j \in far : x <= j
  <2> HIDE DEF far
  <2> QED BY <1>7, Smallest
<1>9. Slowest(l, ao) = CHOOSE x \in far : \A j \in far : x <= j
  BY DEF Slowest
<1>10. Slowest(l, ao) \in far
  <2> HIDE DEF far
  <2> QED BY <1>8, <1>9
<1> QED BY <1>10

LEMMA MinApplyType ==
    ASSUME NEW l \in Log, NEW ao \in [0 .. N -> Offset]
    PROVE  MinApply(l, ao) \in Offset
  BY SlowestType, LogFields, Roles DEF MinApply

\* log_pruning leaves the types as they are.
LEMMA PruningTypes ==
    ASSUME Types, NEW l \in Log, NEW ao \in [0 .. N -> Offset], NEW alive \in SUBSET Server,
           NEW prev \in BOOLEAN, LogPruning(l, ao, alive, prev)
    PROVE  /\ log' \in [Server -> Log]
           /\ apply_offsets' \in [0 .. N -> Offset]
           /\ prev_head' \in BOOLEAN
<1> DEFINE known == [i \in DOMAIN ao |-> IF i \in Server \ alive THEN l.apply ELSE ao[i]]
           a     == MinApply(l, known)
           min   == IF Distance(l.end, a) = 0 THEN l.tail ELSE a
           prune == Larger(l.end, min, l.head) /\ ~prev
<1>1. known \in [0 .. N -> Offset]
  BY LogFields
<1>2. a \in Offset
  <2> HIDE DEF known
  <2> QED BY <1>1, MinApplyType
<1>3. min \in Offset
  <2> HIDE DEF a
  <2> QED BY <1>2, LogFields
<1>4. /\ log' = [log EXCEPT ![Leader] =
                   IF prune THEN Appended([l EXCEPT !.head = min], "HEAD", 0, min) ELSE l]
      /\ prev_head' = (prev \/ prune)
      /\ apply_offsets' = [i \in DOMAIN ao |->
           IF i = Leader \/ i \in Server \ alive THEN l.apply
           ELSE IF i \in alive THEN log[i].apply ELSE ao[i]]
  BY Zenon DEF LogPruning
<1> HIDE DEF known, a, min, prune
<1>5. [l EXCEPT !.head = min] \in Log
  BY <1>3, LogMoved
<1>6. Appended([l EXCEPT !.head = min], "HEAD", 0, min) \in Log
  BY <1>3, <1>5, EntryTypes, AppendedType
<1>7. log' \in [Server -> Log]
  BY <1>4, <1>6 DEF Types
<1>8. apply_offsets' \in [0 .. N -> Offset]
  <2>1. \A i \in Server : log[i].apply \in Offset
    BY LogFields DEF Types
  <2> QED BY <1>4, <2>1, LogFields
<1>9. prev_head' \in BOOLEAN
  BY <1>4
<1> QED BY <1>7, <1>8, <1>9

\* force_log_pruning, too; it never removes the leader.
LEMMA ForcePruningTypes ==
    ASSUME Types, NEW l \in Log, NEW prev \in BOOLEAN, ForceLogPruning(l, prev)
    PROVE  /\ log' \in [Server -> Log]
           /\ apply_offsets' \in [0 .. N -> Offset]
           /\ prev_head' \in BOOLEAN
           /\ Leader \in on' /\ on' \subseteq Server
<1> DEFINE t == Slowest(l, apply_offsets)
           remove == t \in on \ {Leader} /\ Larger(l.end, l.apply, apply_offsets[t])
           left == IF remove THEN on \ {t} ELSE on
           new == IF remove THEN Appended(l, "CONFIG", 0, 0) ELSE l
           ao == IF remove THEN [apply_offsets EXCEPT ![N] = l.apply] ELSE apply_offsets
<1>1. LogPruning(new, ao, left, prev /\ ~remove) /\ on' = left
  BY Zenon DEF ForceLogPruning
<1>2. Leader \in left /\ left \in SUBSET Server
  BY DEF Types
<1>3. new \in Log
  <2>1. Appended(l, "CONFIG", 0, 0) \in Log
    BY EntryTypes, OffsetNat, AppendedType
  <2> HIDE DEF remove
  <2> QED BY <2>1
<1>4. ao \in [0 .. N -> Offset]
  <2> HIDE DEF remove
  <2> QED BY LogFields DEF Types
<1>5. (prev /\ ~remove) \in BOOLEAN
  <2> HIDE DEF remove
  <2> QED OBVIOUS
<1>6. PICK q \in BOOLEAN : q = (prev /\ ~remove)
  BY <1>5
<1> HIDE DEF left, new, ao, remove
<1>7. LogPruning(new, ao, left, q)
  BY <1>1, <1>6
<1> QED BY <1>1, <1>2, <1>3, <1>4, <1>7, PruningTypes

\* A follower's pass of polling().
LEMMA FollowerTypes ==
    ASSUME Types, NEW s \in Follower, NEW l \in Log, FollowerPass(s, l)
    PROVE  log' \in [Server -> Log] /\ cid_offset' \in [Server -> Offset]
<1> DEFINE stored == NewEntries(l)
           todo == ToApply(l)
           polled == Unpolled(l, cid_offset[s])
           new == [l EXCEPT !.old_end = stored.off, !.head = PolledHead(l, polled.met),
                            !.apply = todo.off]
           R == {<<stored.met[k], s>> : k \in DOMAIN stored.met}
<1>1. /\ log' = [log EXCEPT ![s] = new, ![Leader].reply = @ \cup R]
      /\ cid_offset' = [cid_offset EXCEPT ![s] = PolledOffset(l, polled.off)]
  BY Zenon DEF FollowerPass
<1>2. stored.off \in Offset /\ todo.off \in Offset /\ polled.off \in Offset /\ polled.met \in Seq(Nat)
  BY Roles, LogFields, WalkPlaces DEF Types, NewEntries, ToApply, Unpolled
<1>3. R \subseteq (0 .. Ring - 1) \X Server
  <2>1. \A k \in DOMAIN stored.met : stored.met[k] \in 0 .. Ring - Hdr
    BY LogFields, WalkPlaces DEF NewEntries
  <2> HIDE DEF stored
  <2> QED BY <2>1, Roles, Sizes
<1>4. new \in Log
  <2>1. PICK h \in Offset : h = PolledHead(l, polled.met)
    BY <1>2, PolledHeadType
  <2>2. PICK o \in Offset, a \in Offset : o = stored.off /\ a = todo.off
    BY <1>2
  <2>3. new = [l EXCEPT !.old_end = o, !.head = h, !.apply = a]
    BY <2>1, <2>2
  <2> HIDE DEF new
  <2> QED BY <2>3 DEF Log
<1>5. PolledOffset(l, polled.off) \in Offset
  BY <1>2, LogFields DEF PolledOffset
<1> HIDE DEF new, stored, todo, polled
<1>6. cid_offset' \in [Server -> Offset]
  BY <1>1, <1>5 DEF Types
<1>7. log' \in [Server -> Log]
  <2>1. s # Leader /\ s \in Server
    BY DEF Follower
  <2>2. PICK k \in Log : k = log[Leader]
    BY Roles DEF Types
  <2>3. PICK Q : Q = k.reply \cup R /\ Q \subseteq (0 .. Ring - 1) \X Server
    BY <1>3, LogFields
  <2>4. [k EXCEPT !.reply = Q] \in Log
    BY <2>3 DEF Log
  <2>5. log' = [[log EXCEPT ![s] = new] EXCEPT ![Leader] = [k EXCEPT !.reply = Q]]
    BY <1>1, <2>1, <2>2, <2>3, Roles DEF Types
  <2> QED BY <1>4, <2>4, <2>5 DEF Types
<1> QED BY <1>6, <1>7

\* A pass of follower s with what it meets, which is a log.
Passes(s) == \E l \in Log : FollowerPass(s, l)

LEMMA RemoteLogPasses ==
    ASSUME Types, NEW s \in Follower, UpdateRemoteLog(s)
    PROVE  Passes(s)
<1> DEFINE written == Written(rmt[s].end, L.end)
           new == [log[s] EXCEPT
                    !.mem = [a \in (DOMAIN @ \ written) \cup (DOMAIN L.mem \cap written) |->
                               IF a \in written THEN L.mem[a] ELSE @[a]],
                    !.end = L.end]
<1>1. FollowerPass(s, new)
  BY Zenon DEF UpdateRemoteLog
<1>2. L \in Log /\ log[s] \in Log
  BY Roles DEF Types, L
<1>3. new \in Log
  <2>1. PICK W : W = written
    OBVIOUS
  <2>2. PICK k \in Log, l \in Log : k = log[s] /\ l = L
    BY <1>2
  <2>3. Memory(k.mem) /\ Memory(l.mem) /\ l.end \in Offset
    BY LogFields
  <2>4. PICK D \in SUBSET (0 .. Ring - 1) : D = (DOMAIN k.mem \ W) \cup (DOMAIN l.mem \cap W)
    BY <2>3 DEF Memory
  <2>5. PICK m : m = [a \in D |-> IF a \in W THEN l.mem[a] ELSE k.mem[a]]
    OBVIOUS
  <2>6. m \in [D -> Entry]
    BY <2>3, <2>4, <2>5 DEF Memory
  <2>7. m \in Memories
    BY <2>6, InMemories
  <2>8. new = [k EXCEPT !.mem = m, !.end = l.end]
    BY <2>1, <2>2, <2>4, <2>5
  <2> HIDE DEF new
  <2> QED BY <2>3, <2>7, <2>8 DEF Log
<1> HIDE DEF new
<1> QED BY <1>1, <1>3 DEF Passes

LEMMA RemoteLogTypes ==
    ASSUME Types, NEW s \in Follower, UpdateRemoteLog(s)
    PROVE  Types'
<1>1. rmt' = [rmt EXCEPT ![s].end = L.end]
      /\ UNCHANGED <<apply_offsets, prev_head, on, prunes, submitted, committed>>
  BY Zenon DEF UpdateRemoteLog
<1>2. L \in Log
  BY Roles DEF Types, L
<1>3. PICK l \in Log : FollowerPass(s, l)
  BY RemoteLogPasses DEF Passes
<1>4. log' \in [Server -> Log] /\ cid_offset' \in [Server -> Offset]
  BY <1>3, FollowerTypes
<1>5. rmt' \in [Follower -> [end : Offset, commit : Offset]]
  BY <1>1, <1>2, LogFields DEF Types
<1> QED BY <1>1, <1>4, <1>5 DEF Types

LEMMA RemoteCommitPasses ==
    ASSUME Types, NEW s \in Follower, UpdateRemoteCommit(s)
    PROVE  /\ Passes(s)
           /\ \E c \in Offset : rmt' = [rmt EXCEPT ![s].commit = c]
<1> DEFINE c == IF Larger(L.end, L.commit, rmt[s].end) THEN rmt[s].end ELSE L.commit
<1>1. rmt' = [rmt EXCEPT ![s].commit = c] /\ FollowerPass(s, [log[s] EXCEPT !.commit = c])
  BY Zenon DEF UpdateRemoteCommit
<1>2. L \in Log /\ log[s] \in Log
  BY Roles DEF Types, L
<1>3. c \in Offset
  BY <1>2, LogFields DEF Types
<1> HIDE DEF c
<1>4. [log[s] EXCEPT !.commit = c] \in Log
  BY <1>2, <1>3, LogMoved
<1> QED BY <1>1, <1>3, <1>4 DEF Passes

LEMMA RemoteCommitTypes ==
    ASSUME Types, NEW s \in Follower, UpdateRemoteCommit(s)
    PROVE  Types'
<1>1. UNCHANGED <<apply_offsets, prev_head, on, prunes, submitted, committed>>
  BY Zenon DEF UpdateRemoteCommit
<1>2. PICK l \in Log : FollowerPass(s, l)
  BY RemoteCommitPasses DEF Passes
<1>3. log' \in [Server -> Log] /\ cid_offset' \in [Server -> Offset]
  BY <1>2, FollowerTypes
<1>4. rmt' \in [Follower -> [end : Offset, commit : Offset]]
  BY RemoteCommitPasses DEF Types
<1> QED BY <1>1, <1>3, <1>4 DEF Types

LEMMA PruneTypes == ASSUME Types, Prune PROVE Types'
<1>1. /\ prunes < MaxPrunes /\ prunes' = prunes + 1
      /\ LogPruning(L, apply_offsets, on, prev_head)
      /\ UNCHANGED <<cid_offset, rmt, on, submitted, committed, applied>>
  BY Zenon DEF Prune
<1>2. /\ log' \in [Server -> Log]
      /\ apply_offsets' \in [0 .. N -> Offset]
      /\ prev_head' \in BOOLEAN
  <2>1. L \in Log
    BY Roles DEF Types, L
  <2>2. /\ on \in SUBSET Server /\ prev_head \in BOOLEAN
        /\ apply_offsets \in [0 .. N -> Offset]
    BY DEF Types
  <2> QED BY <1>1, <2>1, <2>2, PruningTypes
<1>3. prunes' \in 0 .. MaxPrunes
  BY <1>1, LogAssumption DEF Types
<1> QED BY <1>1, <1>2, <1>3 DEF Types

LEMMA LeaderTypes == ASSUME Types, LeaderPass PROVE Types'
<1>1. L \in Log
  BY Roles DEF Types, L
<1> DEFINE A(k) == IF k = 1 THEN Appended(L, "CSM", DataLen[submitted + 1], submitted + 1) ELSE L
           P(a) == [a EXCEPT !.old_end = NewEntries(a).off]
           C(p) == [p EXCEPT !.commit = Committed(p).off]
           E(c) == [c EXCEPT !.apply = ToApply(c).off]
<1>2. PICK k \in 0 .. 1 :
        LET done == Committed(P(A(k)))
            l == E(C(P(A(k))))
        IN  /\ k = 1 => submitted < MaxReq
            /\ submitted' = submitted + k
            /\ cid_offset' = [cid_offset EXCEPT ![Leader] = IF done.met = <<>> THEN @ ELSE done.off]
            /\ IF Crowded(l) THEN ForceLogPruning(l, prev_head /\ k = 0)
               ELSE /\ log' = [log EXCEPT ![Leader] = l]
                    /\ prev_head' = (prev_head /\ k = 0)
                    /\ UNCHANGED <<apply_offsets, on>>
            /\ UNCHANGED <<rmt, prunes>>
  BY Zenon DEF LeaderPass
<1>3. A(k) \in Log
  <2>1. CASE k = 1
    <3>1. submitted \in 0 .. MaxReq /\ MaxReq \in Nat
      BY LogAssumption DEF Types, MaxReq
    <3>2. submitted + 1 \in 1 .. MaxReq
      BY <1>2, <2>1, <3>1
    <3>3. Appended(L, "CSM", DataLen[submitted + 1], submitted + 1) \in Log
      BY <1>1, <3>2, CommandType, AppendedType
    <3> QED BY <2>1, <3>3
  <2>2. CASE k # 1
    BY <1>1, <2>2
  <2> QED BY <2>1, <2>2
<1>4. ASSUME NEW x \in Log
      PROVE  P(x) \in Log /\ C(x) \in Log /\ E(x) \in Log /\ Committed(x).off \in Offset
  <2>1. NewEntries(x).off \in Offset /\ Committed(x).off \in Offset /\ ToApply(x).off \in Offset
    BY LogFields, WalkPlaces DEF NewEntries, Committed, ToApply
  <2> QED BY <2>1, LogMoved
<1>5. P(A(k)) \in Log
  <2> HIDE DEF A, P
  <2> QED BY <1>3, <1>4
<1>6. C(P(A(k))) \in Log /\ Committed(P(A(k))).off \in Offset
  <2> HIDE DEF A, P, C
  <2> QED BY <1>4, <1>5
<1>7. PICK l \in Log : l = E(C(P(A(k))))
  <2> HIDE DEF A, P, C, E
  <2> QED BY <1>4, <1>6
<1>8. PICK d \in Offset : d = Committed(P(A(k))).off
  BY <1>6
<1>9. PICK q \in BOOLEAN : q = (prev_head /\ k = 0)
  OBVIOUS
<1>10. cid_offset' \in [Server -> Offset]
  <2> HIDE DEF A, P, C, E
  <2> QED BY <1>2, <1>8 DEF Types
<1>11. submitted' \in 0 .. MaxReq
  <2>1. submitted \in 0 .. MaxReq /\ MaxReq \in Nat
    BY LogAssumption DEF Types, MaxReq
  <2>2. (k = 1 => submitted < MaxReq) /\ submitted' = submitted + k
    BY <1>2
  <2> QED BY <2>1, <2>2
<1>12. /\ IF Crowded(l) THEN ForceLogPruning(l, q)
          ELSE /\ log' = [log EXCEPT ![Leader] = l]
               /\ prev_head' = q
               /\ UNCHANGED <<apply_offsets, on>>
       /\ UNCHANGED <<rmt, prunes>>
  <2> HIDE DEF A, P, C, E
  <2> QED BY <1>2, <1>7, <1>9, Zenon
<1> HIDE DEF A, P, C, E
<1>13. /\ log' \in [Server -> Log]
       /\ apply_offsets' \in [0 .. N -> Offset]
       /\ prev_head' \in BOOLEAN
       /\ Leader \in on' /\ on' \subseteq Server
  <2>1. CASE Crowded(l)
    BY <1>12, <2>1, ForcePruningTypes
  <2>2. CASE ~Crowded(l)
    BY <1>12, <2>2 DEF Types
  <2> QED BY <2>1, <2>2
<1> QED BY <1>10, <1>11, <1>12, <1>13 DEF Types

LEMMA InitTypes == ASSUME Init PROVE Types
<1>1. PICK o \in Start :
      LET end == o + Hdr
          old == [mem |-> [a \in {o} |-> [type |-> "CONFIG", len |-> 0, val |-> 0]], reply |-> {},
                  head |-> o, apply |-> end, commit |-> end, end |-> end, tail |-> o,
                  old_end |-> end]
          new == [old EXCEPT !.apply = 0, !.commit = 0, !.old_end = Ring]
      IN  /\ log = [s \in Server |->
                      IF o > 0 THEN old ELSE IF s = Leader THEN new
                      ELSE [new EXCEPT !.mem = <<>>, !.end = 0, !.tail = Ring]]
          /\ cid_offset = [s \in Server |-> log[s].commit]
          /\ rmt = [s \in Follower |-> [end |-> log[s].end, commit |-> log[s].commit]]
          /\ apply_offsets = [i \in 0 .. N |-> o]
          /\ prev_head = FALSE
          /\ on = Server
          /\ prunes = 0
          /\ submitted = 0
  BY Zenon DEF Init
<1>2. o \in Offset /\ o + Hdr \in Offset /\ o \in 0 .. Ring - 1
  BY LogAssumption DEF Offset
<1>3. PICK e \in Offset : e = o + Hdr
  BY <1>2
<1>4. PICK m \in Memories : m = [a \in {o} |-> [type |-> "CONFIG", len |-> 0, val |-> 0]]
  <2>1. [a \in {o} |-> [type |-> "CONFIG", len |-> 0, val |-> 0]] \in [{o} -> Entry]
    BY EntryTypes, OffsetNat
  <2> QED BY <1>2, <2>1, InMemories
<1>5. <<>> \in Memories
  <2>1. <<>> \in [{} -> Entry]
    OBVIOUS
  <2> QED BY <2>1, InMemories
<1> DEFINE old == [mem |-> m, reply |-> {}, head |-> o, apply |-> e, commit |-> e, end |-> e,
                   tail |-> o, old_end |-> e]
           new == [old EXCEPT !.apply = 0, !.commit = 0, !.old_end = Ring]
           none == [new EXCEPT !.mem = <<>>, !.end = 0, !.tail = Ring]
<1>6. old \in Log /\ new \in Log /\ none \in Log
  <2>1. old \in Log
    BY <1>2 DEF Log
  <2> HIDE DEF old
  <2>2. new \in Log
    BY <2>1, OffsetNat DEF Log
  <2> HIDE DEF new
  <2>3. none \in Log
    BY <1>5, <2>2, OffsetNat DEF Log
  <2> QED BY <2>1, <2>2, <2>3
<1>7. log = [s \in Server |-> IF o > 0 THEN old ELSE IF s = Leader THEN new ELSE none]
  BY <1>1, <1>3, <1>4
<1> HIDE DEF old, new, none
<1>8. log \in [Server -> Log]
  BY <1>6, <1>7
<1>9. \A s \in Server : log[s].commit \in Offset /\ log[s].end \in Offset
  BY <1>8, LogFields
<1>10. /\ cid_offset = [s \in Server |-> log[s].commit]
       /\ rmt = [s \in Follower |-> [end |-> log[s].end, commit |-> log[s].commit]]
       /\ apply_offsets = [i \in 0 .. N |-> o]
       /\ prev_head = FALSE /\ on = Server /\ prunes = 0 /\ submitted = 0
  BY <1>1, Zenon
<1>11. cid_offset \in [Server -> Offset]
  BY <1>9, <1>10
<1>12. rmt \in [Follower -> [end : Offset, commit : Offset]]
  BY <1>9, <1>10, Roles
<1>13. MaxReq \in Nat /\ MaxPrunes \in Nat
  BY LogAssumption DEF MaxReq
<1>14. apply_offsets \in [0 .. N -> Offset]
  BY <1>2, <1>10
<1>15. /\ prev_head \in BOOLEAN /\ Leader \in on /\ on \subseteq Server
       /\ prunes \in 0 .. MaxPrunes /\ submitted \in 0 .. MaxReq
  <2>1. prev_head = FALSE /\ on = Server /\ prunes = 0 /\ submitted = 0
    BY <1>10
  <2>2. Leader \in on /\ on \subseteq Server
    BY <2>1, Roles
  <2>3. prev_head \in BOOLEAN
    BY <2>1
  <2>4. prunes \in 0 .. MaxPrunes /\ submitted \in 0 .. MaxReq
    BY <1>13, <2>1
  <2> QED BY <2>2, <2>3, <2>4
<1> QED BY <1>8, <1>11, <1>12, <1>14, <1>15 DEF Types

LEMMA NextTypes == ASSUME Types, [Next]_vars PROVE Types'
<1>1. CASE LeaderPass
  BY <1>1, LeaderTypes
<1>2. CASE Prune
  BY <1>2, PruneTypes
<1>3. ASSUME NEW s \in Follower, UpdateRemoteLog(s) PROVE Types'
  BY <1>3, RemoteLogTypes
<1>4. ASSUME NEW s \in Follower, UpdateRemoteCommit(s) PROVE Types'
  BY <1>4, RemoteCommitTypes
<1>5. CASE UNCHANGED vars
  BY <1>5 DEF Types, vars
<1> QED BY <1>1, <1>2, <1>3, <1>4, <1>5 DEF Next

LEMMA TypesGiveTypeOK == ASSUME Types PROVE TypeOK
<1>1. ASSUME NEW s \in Server
      PROVE  /\ DOMAIN log[s].mem \subseteq 0 .. Ring - 1
             /\ \A a \in DOMAIN log[s].mem : log[s].mem[a] \in Entry
             /\ log[s].reply \subseteq (0 .. Ring - 1) \X Server
             /\ {log[s].head, log[s].apply, log[s].commit, log[s].end, log[s].tail,
                 log[s].old_end, cid_offset[s]} \subseteq Offset
  <2>1. log[s] \in Log /\ cid_offset[s] \in Offset
    BY DEF Types
  <2> QED BY <2>1, LogFields DEF Memory
<1>2. \A s \in Follower : {rmt[s].end, rmt[s].commit} \subseteq Offset
  BY DEF Types
<1> QED BY <1>1, <1>2 DEF Types, TypeOK

\* TypeOK, for every ring: an entry that would end after the buffer is written at its
\* beginning by the leader, and looked for there by every reader (log_fit_entry_header,
\* log_fit_entry), so that no offset leaves the buffer, whatever is pruned or delayed.
THEOREM TypeCorrect == Spec => []TypeOK
<1>1. Init => Types
  BY InitTypes
<1>2. Types /\ [Next]_vars => Types'
  BY NextTypes
<1>3. Types => TypeOK
  BY TypesGiveTypeOK
<1> QED BY <1>1, <1>2, <1>3, PTL DEF Spec

-----------------------------------------------------------------------------
(* What the log has held.  Offsets repeat with every round of the ring, and the log   *)
(* does not say which round they belong to, so the invariant says that there is a     *)
(* history of all entries from which the offsets and the memory of every server come. *)

\* g.ent[1 .. g.n] are the entries that the leader has appended.  A reader looks for
\* entry i at offset g.off[i] in round g.lap[i] of the ring; g.req[i] requests and
\* g.oth[i] entries of a type other than HEAD were appended before.
Histories == [n : Nat \ {0}, lap : [Nat -> Nat], off : [Nat -> Offset], ent : [Nat -> Entry],
              req : [Nat -> Nat], oth : [Nat -> Nat]]

Size(g, i) == EntryLen(g.ent[i])
InPlace(g, i) == Size(g, i) <= Ring - g.off[i]
PlaceOf(g, i) == IF InPlace(g, i) THEN g.off[i] ELSE 0

Follows(g, i) ==
    /\ g.off[i + 1] = PlaceOf(g, i) + Size(g, i)
    /\ g.lap[i + 1] = IF InPlace(g, i) THEN g.lap[i] ELSE g.lap[i] + 1
    /\ g.req[i + 1] = g.req[i] + (IF g.ent[i].type = "CSM" THEN 1 ELSE 0)
    /\ g.ent[i].type = "CSM" => g.ent[i].val = g.req[i + 1]
    /\ g.oth[i + 1] = g.oth[i] + (IF g.ent[i].type = "HEAD" THEN 0 ELSE 1)

Before(g, i, j) ==
    /\ g.lap[i] < g.lap[j] \/ (g.lap[i] = g.lap[j] /\ g.off[i] < g.off[j])
    /\ g.req[i] <= g.req[j] /\ g.oth[i] + g.req[j] <= g.oth[j] + g.req[i]

History(g) ==
    /\ g \in Histories /\ g.req[1] = 0
    /\ \A i \in 1 .. g.n : Follows(g, i)
    /\ \A i, j \in 1 .. g.n + 1 : i < j => Before(g, i, j)

\* The bytes from where entry i is looked for to where entry j is, i <= j, if that is
\* less than a round.
Gap(g, i, j) == IF g.lap[i] = g.lap[j] THEN g.off[j] - g.off[i] ELSE Ring - g.off[i] + g.off[j]

Near(g, i, j) ==
    /\ g.lap[j] = g.lap[i] \/ g.lap[j] = g.lap[i] + 1
    /\ Gap(g, i, j) < Ring

LEMMA HistoryTypes ==
    ASSUME NEW g, History(g), NEW i \in Nat
    PROVE  /\ g.n \in Nat /\ g.n # 0 /\ g.lap[i] \in Nat /\ g.off[i] \in 0 .. Ring /\ g.off[i] \in Offset
           /\ g.ent[i] \in Entry /\ g.req[i] \in Nat /\ g.oth[i] \in Nat
  BY DEF History, Histories, Offset

LEMMA SizeRange ==
    ASSUME NEW e \in Entry
    PROVE  EntryLen(e) \in Hdr .. Ring /\ EntryLen(e) \in Nat
  BY EntryFields, Sizes DEF EntryLen

LEMMA PlaceRange ==
    ASSUME NEW g, History(g), NEW i \in Nat
    PROVE  /\ Size(g, i) \in Hdr .. Ring /\ PlaceOf(g, i) \in 0 .. Ring - Hdr
           /\ PlaceOf(g, i) + Size(g, i) \in Hdr .. Ring
<1>1. Size(g, i) \in Hdr .. Ring /\ g.off[i] \in 0 .. Ring
  BY HistoryTypes, SizeRange DEF Size
<1> QED BY <1>1, Sizes DEF PlaceOf, InPlace

\* No entry but the first is looked for at offset 0.
LEMMA LooksLater ==
    ASSUME NEW g, History(g), NEW i \in 1 .. g.n
    PROVE  g.off[i + 1] \in Hdr .. Ring
<1>1. i \in Nat
  BY HistoryTypes
<1> QED BY <1>1, PlaceRange DEF History, Follows

LEMMA Between ==
    ASSUME NEW g, History(g), NEW i \in 1 .. g.n + 1, NEW j \in 1 .. g.n + 1, NEW k \in 1 .. g.n + 1,
           i <= j, j <= k, Near(g, i, k)
    PROVE  /\ Near(g, i, j) /\ Near(g, j, k)
           /\ Gap(g, i, k) = Gap(g, i, j) + Gap(g, j, k)
           /\ Gap(g, i, j) \in 0 .. Ring - 1 /\ Gap(g, j, k) \in 0 .. Ring - 1
           /\ Gap(g, i, k) \in 0 .. Ring - 1
           /\ Gap(g, i, j) = 0 <=> i = j
           /\ Gap(g, j, k) = 0 <=> j = k
<1>1. i \in Nat /\ j \in Nat /\ k \in Nat /\ g.n \in Nat
  BY HistoryTypes
<1>2. /\ g.lap[i] \in Nat /\ g.lap[j] \in Nat /\ g.lap[k] \in Nat
      /\ g.off[i] \in 0 .. Ring /\ g.off[j] \in 0 .. Ring /\ g.off[k] \in 0 .. Ring
  BY <1>1, HistoryTypes
<1>3. i < j => g.lap[i] < g.lap[j] \/ (g.lap[i] = g.lap[j] /\ g.off[i] < g.off[j])
  BY DEF History, Before
<1>4. j < k => g.lap[j] < g.lap[k] \/ (g.lap[j] = g.lap[k] /\ g.off[j] < g.off[k])
  BY DEF History, Before
<1>5. ASSUME NEW x \in 1 .. g.n + 1, x # 1 PROVE 0 < g.off[x]
  <2>1. x - 1 \in 1 .. g.n /\ (x - 1) + 1 = x
    BY <1>1, <1>5
  <2>2. g.off[(x - 1) + 1] \in Hdr .. Ring
    BY <2>1, LooksLater
  <2> QED BY <2>1, <2>2, Sizes
<1>6. (i < j => 0 < g.off[j]) /\ (j < k => 0 < g.off[k])
  BY <1>1, <1>5
<1> QED BY <1>1, <1>2, <1>3, <1>4, <1>6, Sizes DEF Near, Gap

\* What log_offset_end_distance returns for the end e of a log.
LEMMA Distances ==
    ASSUME NEW g, History(g), NEW i \in 1 .. g.n + 1, NEW e \in 1 .. g.n + 1, NEW k \in 1 .. g.n + 1,
           NEW x \in 1 .. g.n + 1, i <= e, e <= k, i <= x, x <= k, Near(g, i, k), g.off[e] # Ring
    PROVE  /\ x <= e => Distance(g.off[e], g.off[x]) = Gap(g, x, e)
           /\ e < x => Distance(g.off[e], g.off[x]) = Ring - Gap(g, e, x)
<1>1. e \in Nat /\ x \in Nat
  BY HistoryTypes
<1>2. /\ g.lap[e] \in Nat /\ g.lap[x] \in Nat /\ g.off[e] \in 0 .. Ring /\ g.off[x] \in 0 .. Ring
  BY <1>1, HistoryTypes
<1>3. x < e => g.lap[x] < g.lap[e] \/ (g.lap[x] = g.lap[e] /\ g.off[x] < g.off[e])
  BY DEF History, Before
<1>4. e < x => g.lap[e] < g.lap[x] \/ (g.lap[e] = g.lap[x] /\ g.off[e] < g.off[x])
  BY DEF History, Before
<1>5. x <= e => Near(g, x, e)
  <2>1. Near(g, i, e)
    BY Between
  <2> QED BY <2>1, Between
<1>6. e <= x => Near(g, e, x)
  <2>1. Near(g, i, x)
    BY Between
  <2> QED BY <2>1, Between
<1> QED BY <1>1, <1>2, <1>3, <1>4, <1>5, <1>6, Sizes DEF Near, Gap, Distance

-----------------------------------------------------------------------------
(* One more entry.                                                         *)

Extend(g, e) ==
    LET last == g.n + 1
        fits == EntryLen(e) <= Ring - g.off[last]
    IN  [n   |-> last,
         lap |-> [g.lap EXCEPT ![last + 1] = IF fits THEN g.lap[last] ELSE g.lap[last] + 1],
         off |-> [g.off EXCEPT ![last + 1] = (IF fits THEN g.off[last] ELSE 0) + EntryLen(e)],
         ent |-> [g.ent EXCEPT ![last] = e],
         req |-> [g.req EXCEPT ![last + 1] = g.req[last] + (IF e.type = "CSM" THEN 1 ELSE 0)],
         oth |-> [g.oth EXCEPT ![last + 1] = g.oth[last] + (IF e.type = "HEAD" THEN 0 ELSE 1)]]

Extends(g, k, e) ==
    /\ k.n = g.n + 1 /\ k.ent[g.n + 1] = e
    /\ \A i \in 1 .. g.n + 1 : /\ k.lap[i] = g.lap[i] /\ k.off[i] = g.off[i]
                               /\ k.req[i] = g.req[i] /\ k.oth[i] = g.oth[i]
    /\ \A i \in 1 .. g.n : k.ent[i] = g.ent[i]

LEMMA Extension ==
    ASSUME NEW g, History(g), NEW e \in Entry, e.type = "CSM" => e.val = g.req[g.n + 1] + 1,
           NEW k, k = Extend(g, e)
    PROVE  History(k) /\ Extends(g, k, e)
<1>1. PICK last \in Nat : last = g.n + 1
  BY HistoryTypes
<1>2. g.n \in Nat /\ g.n # 0 /\ last + 1 \in Nat /\ last # 1
  <2>1. g.n \in Nat \ {0}
    BY HistoryTypes
  <2> QED BY <1>1, <2>1
<1>3. PICK lp \in Nat : lp = IF EntryLen(e) <= Ring - g.off[last] THEN g.lap[last] ELSE g.lap[last] + 1
  BY <1>1, HistoryTypes
<1>4. EntryLen(e) \in Hdr .. Ring /\ g.off[last] \in 0 .. Ring
  BY <1>1, HistoryTypes, SizeRange
<1>5. PICK of \in Offset :
        of = (IF EntryLen(e) <= Ring - g.off[last] THEN g.off[last] ELSE 0) + EntryLen(e)
  BY <1>4, Sizes DEF Offset
<1>6. PICK rq \in Nat : rq = g.req[last] + (IF e.type = "CSM" THEN 1 ELSE 0)
  BY <1>1, HistoryTypes
<1>7. PICK ot \in Nat : ot = g.oth[last] + (IF e.type = "HEAD" THEN 0 ELSE 1)
  BY <1>1, HistoryTypes
<1>8. k = [n |-> last, lap |-> [g.lap EXCEPT ![last + 1] = lp], off |-> [g.off EXCEPT ![last + 1] = of],
           ent |-> [g.ent EXCEPT ![last] = e], req |-> [g.req EXCEPT ![last + 1] = rq],
           oth |-> [g.oth EXCEPT ![last + 1] = ot]]
  BY <1>1, <1>3, <1>5, <1>6, <1>7 DEF Extend
<1>9. k \in Histories
  <2>1. g \in Histories
    BY DEF History
  <2>2. /\ [g.lap EXCEPT ![last + 1] = lp] \in [Nat -> Nat]
        /\ [g.off EXCEPT ![last + 1] = of] \in [Nat -> Offset]
        /\ [g.ent EXCEPT ![last] = e] \in [Nat -> Entry]
        /\ [g.req EXCEPT ![last + 1] = rq] \in [Nat -> Nat]
        /\ [g.oth EXCEPT ![last + 1] = ot] \in [Nat -> Nat]
    BY <2>1 DEF Histories
  <2>3. last \in Nat \ {0}
    BY <1>1, <1>2
  <2> QED BY <1>8, <2>2, <2>3 DEF Histories
<1>10. g \in Histories
  BY DEF History
<1>11. /\ k.n = last /\ k.lap[last + 1] = lp /\ k.off[last + 1] = of /\ k.ent[last] = e
       /\ k.req[last + 1] = rq /\ k.oth[last + 1] = ot
       /\ \A i \in Nat : i # last + 1 => /\ k.lap[i] = g.lap[i] /\ k.off[i] = g.off[i]
                                         /\ k.req[i] = g.req[i] /\ k.oth[i] = g.oth[i]
       /\ \A i \in Nat : i # last => k.ent[i] = g.ent[i]
  BY <1>2, <1>8, <1>10 DEF Histories
<1>12. Extends(g, k, e)
  BY <1>1, <1>2, <1>11 DEF Extends
<1>13. ASSUME NEW i \in 1 .. g.n PROVE Follows(k, i)
  <2>1. i \in Nat /\ i + 1 \in Nat /\ i # last + 1 /\ i + 1 # last + 1 /\ i # last
    BY <1>1, <1>2
  <2>2. Follows(g, i)
    BY DEF History
  <2> QED BY <1>11, <2>1, <2>2 DEF Follows, PlaceOf, InPlace, Size
<1>14. Follows(k, last)
  <2>1. k.lap[last] = g.lap[last] /\ k.off[last] = g.off[last] /\ k.req[last] = g.req[last]
        /\ k.oth[last] = g.oth[last]
    BY <1>1, <1>11
  <2>2. Size(k, last) = EntryLen(e) /\ (InPlace(k, last) <=> EntryLen(e) <= Ring - g.off[last])
    BY <1>11, <2>1 DEF Size, InPlace
  <2>3. k.off[last + 1] = PlaceOf(k, last) + Size(k, last)
    BY <1>5, <1>11, <2>1, <2>2 DEF PlaceOf
  <2>4. k.lap[last + 1] = IF InPlace(k, last) THEN k.lap[last] ELSE k.lap[last] + 1
    BY <1>3, <1>11, <2>1, <2>2
  <2>5. k.req[last + 1] = k.req[last] + (IF k.ent[last].type = "CSM" THEN 1 ELSE 0)
    BY <1>6, <1>11, <2>1
  <2>6. k.ent[last].type = "CSM" => k.ent[last].val = k.req[last + 1]
    BY <1>1, <1>6, <1>11
  <2>7. k.oth[last + 1] = k.oth[last] + (IF k.ent[last].type = "HEAD" THEN 0 ELSE 1)
    BY <1>7, <1>11, <2>1
  <2> QED BY <2>3, <2>4, <2>5, <2>6, <2>7 DEF Follows
<1>15. \A i \in 1 .. k.n : Follows(k, i)
  BY <1>1, <1>2, <1>11, <1>13, <1>14
<1>16. Before(k, last, last + 1)
  <2>1. k.lap[last] = g.lap[last] /\ k.off[last] = g.off[last] /\ k.req[last] = g.req[last]
        /\ k.oth[last] = g.oth[last] /\ g.lap[last] \in Nat /\ g.req[last] \in Nat /\ g.oth[last] \in Nat
    BY <1>1, <1>11, HistoryTypes
  <2>2. rq >= g.req[last] /\ g.oth[last] + rq <= ot + g.req[last]
    BY <1>6, <1>7, <2>1
  <2>3. g.lap[last] < lp \/ (g.lap[last] = lp /\ g.off[last] < of)
    BY <1>3, <1>4, <1>5, <2>1, Sizes
  <2> QED BY <1>11, <2>1, <2>2, <2>3 DEF Before
<1>17. ASSUME NEW i \in 1 .. k.n + 1, NEW j \in 1 .. k.n + 1, i < j PROVE Before(k, i, j)
  <2>1. i \in Nat /\ j \in Nat /\ i # last + 1
    BY <1>1, <1>11, <1>17
  <2>2. CASE j # last + 1
    <3>1. i \in 1 .. g.n + 1 /\ j \in 1 .. g.n + 1
      BY <1>1, <1>2, <1>11, <2>1, <2>2
    <3>2. Before(g, i, j)
      BY <1>17, <3>1 DEF History
    <3> QED BY <1>11, <2>1, <2>2, <3>2 DEF Before
  <2>3. CASE j = last + 1 /\ i = last
    BY <1>16, <2>3
  <2>4. CASE j = last + 1 /\ i # last
    <3>1. i \in 1 .. g.n + 1 /\ last \in 1 .. g.n + 1 /\ i < last
      BY <1>1, <1>2, <1>11, <2>1, <2>4, <1>17
    <3>2. Before(g, i, last)
      BY <3>1 DEF History
    <3>3. Before(k, i, last)
      BY <1>1, <1>11, <2>1, <3>2 DEF Before
    <3>4. /\ k.lap[i] \in Nat /\ k.lap[last] \in Nat /\ k.lap[last + 1] \in Nat
          /\ k.off[i] \in 0 .. Ring /\ k.off[last] \in 0 .. Ring /\ k.off[last + 1] \in 0 .. Ring
          /\ k.req[i] \in Nat /\ k.req[last] \in Nat /\ k.req[last + 1] \in Nat
          /\ k.oth[i] \in Nat /\ k.oth[last] \in Nat /\ k.oth[last + 1] \in Nat
      BY <1>2, <1>9, <2>1 DEF Histories, Offset
    <3> QED BY <1>16, <2>4, <3>3, <3>4, Sizes DEF Before
  <2> QED BY <2>2, <2>3, <2>4
<1>18. k.req[1] = 0
  BY <1>1, <1>2, <1>11 DEF History
<1> QED BY <1>9, <1>12, <1>15, <1>17, <1>18 DEF History

\* The bytes that entry e takes, with what stays free before it.
Footprint(g, e) ==
    IF EntryLen(e) <= Ring - g.off[g.n + 1] THEN EntryLen(e)
    ELSE Ring - g.off[g.n + 1] + EntryLen(e)

\* Positions that are near to each other stay so, and an entry for which there is room
\* leaves the end near to the head.
LEMMA SamePositions ==
    ASSUME NEW g, History(g), NEW k, NEW e, Extends(g, k, e), NEW i \in 1 .. g.n + 1, NEW j \in 1 .. g.n + 1
    PROVE  Gap(k, i, j) = Gap(g, i, j) /\ (Near(k, i, j) <=> Near(g, i, j))
  BY DEF Extends, Gap, Near

LEMMA Room ==
    ASSUME NEW g, History(g), NEW e \in Entry, e.type = "CSM" => e.val = g.req[g.n + 1] + 1,
           NEW k, k = Extend(g, e), NEW h \in 1 .. g.n + 1, Near(g, h, g.n + 1),
           Gap(g, h, g.n + 1) + Footprint(g, e) < Ring
    PROVE  Near(k, h, k.n + 1) /\ Gap(k, h, k.n + 1) = Gap(g, h, g.n + 1) + Footprint(g, e)
<1>1. History(k) /\ Extends(g, k, e)
  BY Extension
<1>2. g.n \in Nat /\ h \in Nat /\ k.n = g.n + 1 /\ k.ent[g.n + 1] = e
  BY <1>1, HistoryTypes DEF Extends
<1>3. PICK last \in Nat : last = g.n + 1
  BY <1>2
<1>4. /\ k.lap[h] = g.lap[h] /\ k.off[h] = g.off[h]
      /\ k.lap[last] = g.lap[last] /\ k.off[last] = g.off[last] /\ k.n = last
  BY <1>1, <1>2, <1>3 DEF Extends
<1>5. Follows(k, last)
  BY <1>1, <1>2, <1>3 DEF History
<1>6. /\ k.off[last + 1] = (IF EntryLen(e) <= Ring - g.off[last] THEN g.off[last] ELSE 0) + EntryLen(e)
      /\ k.lap[last + 1] = IF EntryLen(e) <= Ring - g.off[last] THEN g.lap[last] ELSE g.lap[last] + 1
  BY <1>2, <1>3, <1>4, <1>5 DEF Follows, PlaceOf, InPlace, Size
<1>7. EntryLen(e) \in Hdr .. Ring
  BY SizeRange
<1>8. g.lap[h] \in Nat /\ g.lap[last] \in Nat /\ g.off[h] \in 0 .. Ring /\ g.off[last] \in 0 .. Ring
  BY <1>2, <1>3, HistoryTypes
<1>9. Footprint(g, e) = IF EntryLen(e) <= Ring - g.off[last] THEN EntryLen(e)
                        ELSE Ring - g.off[last] + EntryLen(e)
  BY <1>3 DEF Footprint
<1>10. Near(g, h, last) /\ Gap(g, h, last) + Footprint(g, e) < Ring
  BY <1>3
<1>11. Near(k, h, last + 1) /\ Gap(k, h, last + 1) = Gap(g, h, last) + Footprint(g, e)
  BY <1>4, <1>6, <1>7, <1>8, <1>9, <1>10, Sizes DEF Near, Gap
<1> QED BY <1>3, <1>4, <1>11

-----------------------------------------------------------------------------
(* The memory of a log.                                                    *)

\* Where the header of entry i is: at its place, and at the marker it has left.
Heads(g, i) == {PlaceOf(g, i)} \cup {o \in {g.off[i]} : FitsHeader(o)}

Holds(m, g, i) == \A p \in Heads(g, i) : p \in DOMAIN m /\ m[p] = g.ent[i]

\* What a reader meets who looks for entry i, or who knows where it is.
LEMMA Meets ==
    ASSUME NEW g, History(g), NEW i \in 1 .. g.n, NEW m, Memory(m), Holds(m, g, i)
    PROVE  /\ At(m, g.off[i]) = PlaceOf(g, i) /\ At(m, PlaceOf(g, i)) = PlaceOf(g, i)
           /\ Header(m, PlaceOf(g, i)) = g.ent[i]
           /\ After(m, g.off[i]) = g.off[i + 1] /\ After(m, PlaceOf(g, i)) = g.off[i + 1]
<1>1. i \in Nat
  BY HistoryTypes
<1>2. g.off[i] \in 0 .. Ring /\ g.ent[i] \in Entry
  BY <1>1, HistoryTypes
<1>3. PICK o \in 0 .. Ring : o = g.off[i]
  BY <1>2
<1>4. PICK e \in Entry : e = g.ent[i]
  BY <1>2
<1>5. EntryLen(e) \in Hdr .. Ring
  BY SizeRange
<1>6. PlaceOf(g, i) = IF EntryLen(e) <= Ring - o THEN o ELSE 0
  BY <1>3, <1>4 DEF PlaceOf, InPlace, Size
<1>7. PICK p : p = PlaceOf(g, i)
  OBVIOUS
<1>8. Header(m, p) = e /\ (FitsHeader(o) => Header(m, o) = e)
  BY <1>3, <1>4, <1>7 DEF Holds, Heads, Header
<1>9. p \in 0 .. Ring - Hdr /\ EntryLen(e) <= Ring - p
  BY <1>3, <1>5, <1>6, <1>7, Sizes
<1>10. At(m, p) = p
  <2>1. FitsHeader(p) /\ Fits(p, e)
    BY <1>5, <1>9, Sizes DEF FitsHeader, Fits
  <2> QED BY <1>8, <2>1 DEF At
<1>11. At(m, o) = p
  <2>1. CASE FitsHeader(o)
    <3>1. At(m, o) = IF Fits(o, e) THEN o ELSE 0
      BY <1>8, <2>1 DEF At
    <3>2. Fits(o, e) <=> EntryLen(e) <= Ring - o
      BY <1>5, <1>3, Sizes DEF Fits
    <3> QED BY <1>6, <1>7, <3>1, <3>2
  <2>2. CASE ~FitsHeader(o)
    <3>1. At(m, o) = 0
      BY <2>2 DEF At
    <3>2. p = 0
      BY <1>3, <1>5, <1>6, <1>7, <2>2, Sizes DEF FitsHeader
    <3> QED BY <3>1, <3>2
  <2> QED BY <2>1, <2>2
<1>12. g.off[i + 1] = p + EntryLen(e)
  BY <1>4, <1>7 DEF History, Follows, Size
<1> QED BY <1>3, <1>4, <1>7, <1>8, <1>10, <1>11, <1>12 DEF After

\* The bytes that are written to bring a log from the end of entry i - 1 to that of
\* entry j - 1 hold the headers of the entries i .. j - 1, and no other ones.
LEMMA Inside ==
    ASSUME NEW g, History(g), NEW i \in 1 .. g.n + 1, NEW j \in 1 .. g.n + 1, Near(g, i, j),
           NEW x \in Nat, i <= x, x < j, NEW p \in Heads(g, x)
    PROVE  p \in Written(g.off[i], g.off[j])
<1>1. i \in Nat /\ j \in Nat /\ g.n \in Nat
  BY HistoryTypes
<1>2. PICK y \in Nat : y = x + 1
  OBVIOUS
<1>3. x \in 1 .. g.n /\ x \in 1 .. g.n + 1 /\ y \in 1 .. g.n + 1 /\ i < j
  BY <1>1, <1>2
<1>4. /\ g.lap[i] \in Nat /\ g.lap[j] \in Nat /\ g.lap[x] \in Nat /\ g.lap[y] \in Nat
      /\ g.off[i] \in 0 .. Ring /\ g.off[j] \in 0 .. Ring /\ g.off[x] \in 0 .. Ring /\ g.off[y] \in 0 .. Ring
  BY <1>1, HistoryTypes
<1>5. i < x => g.lap[i] < g.lap[x] \/ (g.lap[i] = g.lap[x] /\ g.off[i] < g.off[x])
  BY <1>3 DEF History, Before
<1>6. y < j => g.lap[y] < g.lap[j] \/ (g.lap[y] = g.lap[j] /\ g.off[y] < g.off[j])
  BY <1>3 DEF History, Before
<1>7. g.lap[i] < g.lap[j] \/ (g.lap[i] = g.lap[j] /\ g.off[i] < g.off[j])
  BY <1>3 DEF History, Before
<1>8. g.off[y] \in Hdr .. Ring
  BY <1>2, <1>3, LooksLater
<1>9. g.lap[y] = IF InPlace(g, x) THEN g.lap[x] ELSE g.lap[x] + 1
  BY <1>2, <1>3 DEF History, Follows
<1>10. g.off[y] = PlaceOf(g, x) + Size(g, x)
  BY <1>2, <1>3 DEF History, Follows
<1>11. PlaceOf(g, x) = IF InPlace(g, x) THEN g.off[x] ELSE 0
  BY DEF PlaceOf
<1>12. Size(g, x) \in Hdr .. Ring /\ PlaceOf(g, x) \in 0 .. Ring - Hdr
  BY PlaceRange
<1>13. \/ p = g.off[x] /\ p <= Ring - Hdr
       \/ p = 0 /\ ~InPlace(g, x)
  BY <1>4, <1>11, <1>12, Sizes DEF Heads, FitsHeader
<1>14. g.lap[x] <= g.lap[y] /\ (g.lap[x] = g.lap[y] => g.off[x] < g.off[y])
  BY <1>4, <1>9, <1>10, <1>11, <1>12, Sizes
<1>15. /\ g.lap[i] <= g.lap[x] /\ g.lap[y] <= g.lap[j]
       /\ g.lap[i] = g.lap[x] => g.off[i] <= g.off[x]
       /\ g.lap[y] = g.lap[j] => g.off[y] <= g.off[j]
  BY <1>1, <1>2, <1>4, <1>5, <1>6
<1>16. g.lap[j] = g.lap[i] \/ (g.lap[j] = g.lap[i] + 1 /\ g.off[j] < g.off[i])
  BY <1>4, Sizes DEF Near, Gap
<1>17. Written(g.off[i], g.off[j]) =
         IF g.lap[j] = g.lap[i] THEN g.off[i] .. g.off[j] - 1
         ELSE (g.off[i] .. Ring - 1) \cup (0 .. g.off[j] - 1)
  BY <1>4, <1>7, <1>16, SMTT(30) DEF Written
<1>18. CASE p = g.off[x] /\ p <= Ring - Hdr
  <2>1. CASE g.lap[j] = g.lap[i]
    <3>1. g.lap[x] = g.lap[i] /\ g.lap[y] = g.lap[j]
      BY <1>4, <1>14, <1>15, <2>1
    <3>2. g.off[i] <= g.off[x] /\ g.off[x] < g.off[y] /\ g.off[y] <= g.off[j]
      BY <1>14, <1>15, <2>1, <3>1
    <3>3. g.off[x] \in g.off[i] .. g.off[j] - 1
      BY <1>4, <3>2
    <3> QED BY <1>17, <1>18, <2>1, <3>3
  <2>2. CASE g.lap[j] # g.lap[i] /\ g.lap[x] = g.lap[i]
    <3>1. g.off[i] <= g.off[x] /\ g.off[x] <= Ring - Hdr
      BY <1>15, <1>18, <2>2
    <3>2. g.off[x] \in g.off[i] .. Ring - 1
      BY <1>4, <3>1, Sizes
    <3> QED BY <1>17, <1>18, <2>2, <3>2
  <2>3. CASE g.lap[j] # g.lap[i] /\ g.lap[x] # g.lap[i]
    <3>1. g.lap[x] = g.lap[j] /\ g.lap[y] = g.lap[j]
      BY <1>4, <1>14, <1>15, <1>16, <2>3
    <3>2. g.off[x] < g.off[y] /\ g.off[y] <= g.off[j]
      BY <1>14, <1>15, <3>1
    <3>3. g.off[x] \in 0 .. g.off[j] - 1
      BY <1>4, <3>2
    <3> QED BY <1>17, <1>18, <2>3, <3>3
  <2> QED BY <2>1, <2>2, <2>3
<1>19. CASE p = 0 /\ ~InPlace(g, x)
  <2>1. g.lap[y] = g.lap[x] + 1
    BY <1>9, <1>19
  <2>2. g.lap[j] # g.lap[i] /\ g.lap[y] = g.lap[j]
    BY <1>4, <1>15, <1>16, <2>1
  <2>3. 0 < g.off[y] /\ g.off[y] <= g.off[j]
    BY <1>8, <1>15, <2>2, Sizes
  <2>4. 0 \in 0 .. g.off[j] - 1
    BY <1>4, <2>3
  <2> QED BY <1>17, <1>19, <2>2, <2>4
<1> QED BY <1>13, <1>18, <1>19

LEMMA Outside ==
    ASSUME NEW g, History(g), NEW h \in 1 .. g.n + 1, NEW i \in 1 .. g.n + 1, NEW j \in 1 .. g.n + 1,
           Near(g, h, j), i < j, NEW x \in Nat, h <= x, x < i, NEW p \in Heads(g, x)
    PROVE  p \notin Written(g.off[i], g.off[j])
<1>1. i \in Nat /\ j \in Nat /\ h \in Nat /\ g.n \in Nat
  BY HistoryTypes
<1>2. PICK y \in Nat : y = x + 1
  OBVIOUS
<1>3. x \in 1 .. g.n /\ x \in 1 .. g.n + 1 /\ y \in 1 .. g.n + 1 /\ y <= i /\ i # 1
  BY <1>1, <1>2
<1>4. /\ g.lap[i] \in Nat /\ g.lap[j] \in Nat /\ g.lap[x] \in Nat /\ g.lap[y] \in Nat /\ g.lap[h] \in Nat
      /\ g.off[i] \in 0 .. Ring /\ g.off[j] \in 0 .. Ring /\ g.off[x] \in 0 .. Ring /\ g.off[y] \in 0 .. Ring
      /\ g.off[h] \in 0 .. Ring
  BY <1>1, HistoryTypes
<1>5. h < x => g.lap[h] < g.lap[x] \/ (g.lap[h] = g.lap[x] /\ g.off[h] < g.off[x])
  BY <1>3 DEF History, Before
<1>6. y < i => g.lap[y] < g.lap[i] \/ (g.lap[y] = g.lap[i] /\ g.off[y] < g.off[i])
  BY <1>3 DEF History, Before
<1>7. g.lap[i] < g.lap[j] \/ (g.lap[i] = g.lap[j] /\ g.off[i] < g.off[j])
  BY <1>3 DEF History, Before
<1>8. g.lap[x] < g.lap[i] \/ (g.lap[x] = g.lap[i] /\ g.off[x] < g.off[i])
  BY <1>3 DEF History, Before
<1>9. g.off[i] > 0
  <2>1. i - 1 \in 1 .. g.n /\ (i - 1) + 1 = i
    BY <1>1, <1>3
  <2>2. g.off[(i - 1) + 1] \in Hdr .. Ring
    BY <2>1, LooksLater
  <2> QED BY <2>1, <2>2, Sizes
<1>10. g.lap[y] = IF InPlace(g, x) THEN g.lap[x] ELSE g.lap[x] + 1
  BY <1>2, <1>3 DEF History, Follows
<1>11. p = g.off[x] \/ (p = 0 /\ ~InPlace(g, x))
  BY DEF Heads, PlaceOf
<1>12. /\ g.lap[h] <= g.lap[x] /\ (g.lap[h] = g.lap[x] => g.off[h] <= g.off[x])
       /\ g.lap[y] <= g.lap[i]
  BY <1>1, <1>2, <1>3, <1>4, <1>5, <1>6
<1>13. g.lap[j] = g.lap[h] \/ (g.lap[j] = g.lap[h] + 1 /\ g.off[j] < g.off[h])
  BY <1>4, Sizes DEF Near, Gap
<1>14. g.lap[i] <= g.lap[j] /\ g.lap[x] <= g.lap[i]
  BY <1>4, <1>7, <1>8
<1>15. CASE g.lap[i] = g.lap[j]
  <2>1. Written(g.off[i], g.off[j]) = g.off[i] .. g.off[j] - 1
    BY <1>4, <1>7, <1>15 DEF Written
  <2>2. CASE p = g.off[x]
    <3>1. g.off[x] < g.off[i] \/ g.off[j] <= g.off[x]
      <4>1. CASE g.lap[x] = g.lap[i]
        BY <1>4, <1>8, <4>1
      <4>2. CASE g.lap[x] # g.lap[i]
        <5>1. g.lap[x] = g.lap[h] /\ g.lap[j] = g.lap[h] + 1 /\ g.off[j] < g.off[h]
          BY <1>4, <1>12, <1>13, <1>14, <1>15, <4>2
        <5> QED BY <1>4, <1>12, <5>1
      <4> QED BY <4>1, <4>2
    <3>2. g.off[x] \notin g.off[i] .. g.off[j] - 1
      BY <1>4, <3>1
    <3> QED BY <2>1, <2>2, <3>2
  <2>3. CASE p = 0
    BY <1>4, <1>9, <2>1, <2>3
  <2> QED BY <1>11, <2>2, <2>3
<1>16. CASE g.lap[i] # g.lap[j]
  <2>1. g.lap[i] = g.lap[h] /\ g.lap[j] = g.lap[h] + 1 /\ g.off[j] < g.off[h] /\ g.lap[x] = g.lap[i]
        /\ g.off[x] < g.off[i] /\ g.off[h] <= g.off[x]
    BY <1>4, <1>8, <1>12, <1>13, <1>14, <1>16
  <2>2. Written(g.off[i], g.off[j]) = (g.off[i] .. Ring - 1) \cup (0 .. g.off[j] - 1)
    BY <1>4, <2>1 DEF Written
  <2>3. InPlace(g, x)
    BY <1>4, <1>10, <1>12, <2>1
  <2> QED BY <1>4, <1>11, <2>1, <2>2, <2>3
<1> QED BY <1>15, <1>16

LEMMA PutHas ==
    ASSUME NEW m, NEW x \in Nat, NEW e \in Entry
    PROVE  x \in DOMAIN Put(m, x, e) /\ Put(m, x, e)[x] = e
  BY DEF Put

LEMMA PutKeeps ==
    ASSUME NEW m, NEW x \in Nat, NEW e \in Entry, NEW p \in DOMAIN m, p \notin x .. x + EntryLen(e) - 1
    PROVE  p \in DOMAIN Put(m, x, e) /\ Put(m, x, e)[p] = m[p]
<1>1. EntryLen(e) \in Nat /\ EntryLen(e) > 0
  BY SizeRange, Sizes
<1>2. x \in x .. x + EntryLen(e) - 1
  BY <1>1
<1> QED BY <1>2 DEF Put

-----------------------------------------------------------------------------
(* The leader's log.                                                       *)

\* The head is at entry h or where entry h was looked for; the entries from h on are in
\* memory, those before c are committed and those before a are applied.
LeadLog(l, g, h, a, c) ==
    /\ l \in Log
    /\ h \in 1 .. g.n /\ a \in h .. g.n + 1 /\ c \in a .. g.n + 1
    /\ l.end = g.off[g.n + 1] /\ l.tail = PlaceOf(g, g.n)
    /\ l.head \in {g.off[h], PlaceOf(g, h)} /\ l.apply = g.off[a] /\ l.commit = g.off[c]
    /\ Near(g, h, g.n + 1)
    /\ \A i \in h .. g.n : Holds(l.mem, g, i)

\* With room for one more entry the head is neither at the end nor where the entry goes.
LEMMA NotFull ==
    ASSUME NEW g, History(g), NEW e \in Entry, NEW h \in 1 .. g.n, Near(g, h, g.n + 1),
           Gap(g, h, g.n + 1) + Footprint(g, e) < Ring, NEW p \in {g.off[h], PlaceOf(g, h)}
    PROVE  /\ p # g.off[g.n + 1]
           /\ p = 0 => EntryLen(e) <= Ring - g.off[g.n + 1]
<1>1. PICK n \in Nat \ {0} : n = g.n
  BY HistoryTypes
<1>2. h \in Nat /\ h \in 1 .. n /\ h \in 1 .. n + 1 /\ n + 1 \in 1 .. n + 1 /\ h + 1 \in 1 .. n + 1
  BY <1>1
<1>3. /\ g.lap[h] \in Nat /\ g.lap[n + 1] \in Nat /\ g.lap[h + 1] \in Nat
      /\ g.off[h] \in 0 .. Ring /\ g.off[n + 1] \in 0 .. Ring /\ g.off[h + 1] \in 0 .. Ring
  BY <1>1, <1>2, HistoryTypes
<1>4. g.lap[h] < g.lap[n + 1] \/ (g.lap[h] = g.lap[n + 1] /\ g.off[h] < g.off[n + 1])
  BY <1>1, <1>2 DEF History, Before
<1>5. g.off[n + 1] \in Hdr .. Ring
  BY <1>1, LooksLater
<1>6. g.lap[h + 1] = IF InPlace(g, h) THEN g.lap[h] ELSE g.lap[h] + 1
  BY <1>1, <1>2 DEF History, Follows
<1>7. h + 1 = n + 1 \/ g.lap[h + 1] <= g.lap[n + 1]
  <2>1. h + 1 < n + 1 => Before(g, h + 1, n + 1)
    BY <1>1, <1>2 DEF History
  <2> QED BY <1>2, <1>3, <2>1 DEF Before
<1>8. EntryLen(e) \in Hdr .. Ring
  BY SizeRange
<1>9. PICK len \in Hdr .. Ring : len = EntryLen(e)
  BY <1>8
<1>10. Footprint(g, e) = IF len <= Ring - g.off[n + 1] THEN len ELSE Ring - g.off[n + 1] + len
  BY <1>1, <1>9 DEF Footprint
<1>11. /\ g.lap[n + 1] = g.lap[h] \/ g.lap[n + 1] = g.lap[h] + 1
       /\ Gap(g, h, n + 1) < Ring /\ Gap(g, h, n + 1) + Footprint(g, e) < Ring
  BY <1>1 DEF Near
<1>12. Gap(g, h, n + 1) = IF g.lap[h] = g.lap[n + 1] THEN g.off[n + 1] - g.off[h]
                          ELSE Ring - g.off[h] + g.off[n + 1]
  BY DEF Gap
<1>13. CASE p = g.off[h]
  <2>1. g.off[h] # g.off[n + 1]
    BY <1>3, <1>4, <1>11, <1>12, Sizes
  <2>2. ASSUME p = 0, ~(len <= Ring - g.off[n + 1]) PROVE FALSE
    <3>1. g.lap[h] = g.lap[n + 1] /\ Gap(g, h, n + 1) = g.off[n + 1]
      BY <1>3, <1>5, <1>11, <1>12, <1>13, <2>2, Sizes
    <3> QED BY <1>3, <1>9, <1>10, <1>11, <2>2, <3>1, Sizes
  <2> QED BY <1>1, <1>9, <1>13, <2>1, <2>2
<1>14. CASE p # g.off[h]
  <2>1. p = 0 /\ ~InPlace(g, h)
    BY <1>14 DEF PlaceOf
  <2>2. g.lap[n + 1] = g.lap[h] + 1
    BY <1>2, <1>3, <1>6, <1>7, <1>11, <2>1
  <2>3. Gap(g, h, n + 1) = Ring - g.off[h] + g.off[n + 1]
    BY <1>3, <1>12, <2>2
  <2>4. Footprint(g, e) = len
    BY <1>3, <1>9, <1>10, <1>11, <2>3, Sizes
  <2> QED BY <1>1, <1>3, <1>5, <1>9, <1>10, <1>11, <2>1, <2>3, <2>4, Sizes
<1> QED BY <1>13, <1>14

\* What log_append_entry does to the memory.
LEMMA AppendedMemory ==
    ASSUME NEW l \in Log, NEW g, History(g), NEW type, NEW len, NEW val,
           NEW e \in Entry, e = [type |-> type, len |-> len, val |-> val],
           e.type = "CSM" => e.val = g.req[g.n + 1] + 1, NEW k, k = Extend(g, e),
           NEW h \in 1 .. g.n, Near(g, h, g.n + 1), l.head \in {g.off[h], PlaceOf(g, h)},
           Gap(g, h, g.n + 1) + Footprint(g, e) < Ring, l.end = g.off[g.n + 1],
           NEW r, r = Appended(l, type, len, val)
    PROVE  /\ r.end = k.off[k.n + 1] /\ r.tail = PlaceOf(k, k.n)
           /\ r.head = l.head /\ r.apply = l.apply /\ r.commit = l.commit /\ r.old_end = l.old_end
           /\ Holds(r.mem, k, k.n)
           /\ \A p \in DOMAIN l.mem : p \notin Written(k.off[k.n], k.off[k.n + 1]) =>
                p \in DOMAIN r.mem /\ r.mem[p] = l.mem[p]
<1>1. PICK n \in Nat \ {0} : n = g.n + 1
  BY HistoryTypes
<1>2. History(k) /\ Extends(g, k, e)
  BY Extension
<1>3. k.n = n /\ k.ent[n] = e /\ k.off[n] = g.off[n]
  BY <1>1, <1>2 DEF Extends
<1>20. g.n \in Nat
  BY HistoryTypes
<1>18. h \in 1 .. g.n + 1
  BY <1>20
<1>19. Near(k, h, k.n + 1)
  BY <1>18, Room
<1>4. PICK o \in Nat : o = g.off[n] /\ o \in 0 .. Ring
  BY <1>1, HistoryTypes
<1>5. EntryLen(e) \in Hdr .. Ring
  BY SizeRange
<1>6. /\ InPlace(k, n) <=> EntryLen(e) <= Ring - o
      /\ PlaceOf(k, n) = IF EntryLen(e) <= Ring - o THEN o ELSE 0
      /\ k.off[n + 1] = PlaceOf(k, n) + EntryLen(e)
  <2>1. Follows(k, n)
    BY <1>2, <1>3 DEF History
  <2> QED BY <1>3, <1>4, <2>1 DEF Follows, PlaceOf, InPlace, Size
<1>7. l.head # o /\ (l.head = 0 => EntryLen(e) <= Ring - o)
  BY <1>1, <1>4, NotFull
<1>8. PICK at : at = IF FitsHeader(o) THEN o ELSE 0
  OBVIOUS
<1>9. PICK m0 : m0 = Put(l.mem, at, e)
  OBVIOUS
<1>11. Memory(l.mem)
  BY LogFields
<1>12. DOMAIN l.mem \subseteq 0 .. Ring - 1
  BY <1>11 DEF Memory
<1>13. Near(k, n, n + 1)
  <2>1. h \in 1 .. g.n + 1 /\ h \in 1 .. k.n + 1 /\ n \in 1 .. k.n + 1 /\ n + 1 \in 1 .. k.n + 1 /\ h <= n
    BY <1>1, <1>3, <1>20
  <2>2. Near(k, h, k.n + 1)
    BY <1>19
  <2>3. Near(k, h, n + 1) /\ n <= n + 1
    BY <1>3, <2>2
  <2> QED BY <1>1, <1>2, <2>1, <2>3, Between
<1>14. /\ InPlace(k, n) => Written(o, k.off[n + 1]) = o .. o + EntryLen(e) - 1
       /\ ~InPlace(k, n) => Written(o, k.off[n + 1]) = (o .. Ring - 1) \cup (0 .. EntryLen(e) - 1)
  <2>1. k.lap[n + 1] = IF InPlace(k, n) THEN k.lap[n] ELSE k.lap[n] + 1
    BY <1>1, <1>2, <1>3 DEF History, Follows
  <2>2. k.lap[n] \in Nat /\ k.lap[n + 1] \in Nat /\ k.off[n + 1] \in 0 .. Ring
    BY <1>1, <1>2, HistoryTypes
  <2>3. ~InPlace(k, n) => k.off[n + 1] < o
    <3>1. Gap(k, n, n + 1) < Ring
      BY <1>13 DEF Near
    <3>2. ~InPlace(k, n) => Gap(k, n, n + 1) = Ring - o + k.off[n + 1]
      BY <1>3, <1>4, <2>1, <2>2 DEF Gap
    <3> QED BY <1>4, <2>2, <3>1, <3>2, Sizes
  <2>4. InPlace(k, n) => k.off[n + 1] = o + EntryLen(e) /\ k.off[n + 1] > o
    BY <1>4, <1>5, <1>6, Sizes
  <2>5. ~InPlace(k, n) => k.off[n + 1] = EntryLen(e)
    BY <1>4, <1>5, <1>6, Sizes
  <2>6. InPlace(k, n) => Written(o, k.off[n + 1]) = o .. k.off[n + 1] - 1
    BY <2>4 DEF Written
  <2>7. ~InPlace(k, n) => Written(o, k.off[n + 1]) = (o .. Ring - 1) \cup (0 .. k.off[n + 1] - 1)
    BY <1>4, <2>2, <2>3 DEF Written
  <2>8. CASE InPlace(k, n)
    BY <1>5, <2>4, <2>6, <2>8
  <2>9. CASE ~InPlace(k, n)
    BY <1>5, <2>5, <2>7, <2>9
  <2> QED BY <2>8, <2>9
<1> DEFINE mark == [l EXCEPT !.mem = m0, !.end = 0]
           To(q, x) == [q EXCEPT !.mem = Put(@, x, e), !.reply = {y \in @ : y[1] # x},
                                 !.tail = x, !.end = x + EntryLen(e)]
<1>10. r = IF Fits(at, e) THEN To(l, at) ELSE To(mark, 0)
  <2>1. r = IF l.end = l.head THEN l
            ELSE IF Fits(at, e) THEN To(l, at)
            ELSE IF l.head = 0 THEN mark ELSE To(mark, 0)
    BY <1>1, <1>4, <1>8, <1>9 DEF Appended
  <2>2. l.end # l.head
    BY <1>1, <1>4, <1>7
  <2>3. l.head = 0 => Fits(at, e)
    BY <1>4, <1>5, <1>7, <1>8, Sizes DEF Fits, FitsHeader
  <2> QED BY <2>1, <2>2, <2>3
<1>15. CASE Fits(at, e)
  <2>1. r.mem = m0 /\ r.tail = at /\ r.end = at + EntryLen(e)
        /\ r.head = l.head /\ r.apply = l.apply /\ r.commit = l.commit /\ r.old_end = l.old_end
    BY <1>9, <1>10, <1>15 DEF Log
  <2>2. at \in Nat /\ at = PlaceOf(k, n)
    BY <1>4, <1>5, <1>6, <1>8, <1>15, Sizes DEF FitsHeader, Fits
  <2>3. Holds(r.mem, k, n)
    <3>1. Heads(k, n) = {at}
      BY <1>3, <1>4, <1>6, <1>8, <2>2 DEF Heads
    <3>2. at \in DOMAIN m0 /\ m0[at] = e
      BY <1>9, <2>2, PutHas
    <3> QED BY <1>3, <2>1, <3>1, <3>2 DEF Holds
  <2>4. at .. at + EntryLen(e) - 1 \subseteq Written(o, k.off[n + 1])
    <3>1. InPlace(k, n) => at = o
      BY <1>6, <2>2
    <3>2. ~InPlace(k, n) => at = 0
      BY <1>6, <2>2
    <3>3. EntryLen(e) \in Nat
      BY SizeRange
    <3>4. CASE InPlace(k, n)
      BY <1>14, <3>1, <3>4
    <3>5. CASE ~InPlace(k, n)
      <4>1. at .. at + EntryLen(e) - 1 = 0 .. EntryLen(e) - 1
        BY <3>2, <3>3, <3>5
      <4> QED BY <1>14, <3>5, <4>1
    <3> QED BY <3>4, <3>5
  <2>5. ASSUME NEW p \in DOMAIN l.mem, p \notin Written(o, k.off[n + 1])
        PROVE  p \in DOMAIN r.mem /\ r.mem[p] = l.mem[p]
    <3>1. p \notin at .. at + EntryLen(e) - 1
      BY <2>4, <2>5
    <3>2. p \in DOMAIN m0 /\ m0[p] = l.mem[p]
      BY <1>9, <2>2, <3>1, PutKeeps
    <3> QED BY <2>1, <3>2
  <2>6. at + EntryLen(e) = k.off[n + 1]
    BY <1>6, <2>2
  <2> QED BY <1>3, <1>4, <2>1, <2>2, <2>3, <2>5, <2>6
<1>17. PICK zero \in Nat : zero = 0
  OBVIOUS
<1>16. CASE ~Fits(at, e)
  <2>1. FitsHeader(o) /\ at = o /\ PlaceOf(k, n) = 0 /\ ~InPlace(k, n)
    BY <1>4, <1>5, <1>6, <1>8, <1>16, Sizes DEF FitsHeader, Fits
  <2>2. PICK m1 : m1 = Put(m0, zero, e)
    OBVIOUS
  <2>3. mark.mem = m0 /\ mark.head = l.head /\ mark.apply = l.apply /\ mark.commit = l.commit
        /\ mark.old_end = l.old_end
        /\ DOMAIN mark = {"mem", "reply", "head", "apply", "commit", "end", "tail", "old_end"}
    BY DEF Log
  <2>4. r.mem = m1 /\ r.tail = 0 /\ r.end = EntryLen(e)
        /\ r.head = l.head /\ r.apply = l.apply /\ r.commit = l.commit /\ r.old_end = l.old_end
    <3>1. r = To(mark, zero)
      BY <1>10, <1>16, <1>17
    <3>2. PICK q : q = mark
      OBVIOUS
    <3>3. zero + EntryLen(e) = EntryLen(e) /\ zero = 0
      BY <1>5, <1>17, Sizes
    <3> HIDE DEF mark
    <3> QED BY <2>2, <2>3, <3>1, <3>2, <3>3
  <2>5. 0 \in DOMAIN m1 /\ m1[0] = e
    BY <1>17, <2>2, PutHas
  <2>6. EntryLen(e) <= o
    <3>1. k.off[n + 1] = EntryLen(e)
      BY <1>5, <1>6, <2>1, Sizes
    <3>2. k.lap[n + 1] = k.lap[n] + 1
      BY <1>1, <1>2, <1>3, <2>1 DEF History, Follows
    <3>3. k.lap[n] \in Nat
      BY <1>1, <1>2, HistoryTypes
    <3> QED BY <1>3, <1>4, <1>5, <1>13, <3>1, <3>2, <3>3, Sizes DEF Near, Gap
  <2>7. o \in DOMAIN m1 /\ m1[o] = e
    <3>1. o \in DOMAIN m0 /\ m0[o] = e
      BY <1>9, <2>1, PutHas
    <3>2. o \notin zero .. zero + EntryLen(e) - 1
      BY <1>5, <1>17, <2>6
    <3> QED BY <2>2, <3>1, <3>2, PutKeeps
  <2>8. Holds(r.mem, k, n)
    BY <1>3, <1>4, <2>1, <2>4, <2>5, <2>7 DEF Holds, Heads
  <2>9. ASSUME NEW p \in DOMAIN l.mem, p \notin Written(o, k.off[n + 1])
        PROVE  p \in DOMAIN m1 /\ m1[p] = l.mem[p]
    <3>1. p \in 0 .. Ring - 1 /\ p \notin o .. Ring - 1 /\ p \notin 0 .. EntryLen(e) - 1
      BY <1>12, <1>14, <2>1, <2>9
    <3>2. p \notin o .. o + EntryLen(e) - 1 /\ p \notin zero .. zero + EntryLen(e) - 1
      BY <1>5, <1>17, <3>1
    <3>3. p \in DOMAIN m0 /\ m0[p] = l.mem[p]
      BY <1>9, <2>1, <3>2, PutKeeps
    <3> QED BY <2>2, <3>2, <3>3, PutKeeps
  <2>10. k.off[n + 1] = EntryLen(e)
    <3>1. k.off[n + 1] = 0 + EntryLen(e)
      BY <1>6, <2>1
    <3> QED BY <1>5, <3>1
  <2> QED BY <1>3, <1>4, <2>1, <2>4, <2>8, <2>9, <2>10
<1> QED BY <1>15, <1>16

\* An entry for which there is room is one more of the entries that are in memory.
LEMMA Appending ==
    ASSUME NEW l, NEW g, History(g), NEW h, NEW a, NEW c, LeadLog(l, g, h, a, c),
           NEW type, NEW len, NEW val, NEW e \in Entry, e = [type |-> type, len |-> len, val |-> val],
           e.type = "CSM" => e.val = g.req[g.n + 1] + 1, NEW k, k = Extend(g, e),
           Gap(g, h, g.n + 1) + Footprint(g, e) < Ring
    PROVE  LeadLog(Appended(l, type, len, val), k, h, a, c)
<1>1. PICK r : r = Appended(l, type, len, val)
  OBVIOUS
<1>2. PICK n \in Nat \ {0} : n = g.n + 1
  BY HistoryTypes
<1>3. History(k) /\ Extends(g, k, e)
  BY Extension
<1>4. /\ l \in Log /\ h \in 1 .. g.n /\ a \in h .. n /\ c \in a .. n
      /\ Near(g, h, g.n + 1) /\ l.end = g.off[g.n + 1] /\ l.head \in {g.off[h], PlaceOf(g, h)}
      /\ l.apply = g.off[a] /\ l.commit = g.off[c] /\ g.n = n - 1 /\ h \in Nat
  BY <1>2, HistoryTypes DEF LeadLog
<1>5. r \in Log
  BY <1>1, <1>4, AppendedType
<1>6. /\ r.end = k.off[k.n + 1] /\ r.tail = PlaceOf(k, k.n)
      /\ r.head = l.head /\ r.apply = l.apply /\ r.commit = l.commit
      /\ Holds(r.mem, k, k.n)
      /\ \A p \in DOMAIN l.mem : p \notin Written(k.off[k.n], k.off[k.n + 1]) =>
           p \in DOMAIN r.mem /\ r.mem[p] = l.mem[p]
  BY <1>1, <1>4, AppendedMemory
<1>7. /\ k.n = n
      /\ \A i \in 1 .. n : k.off[i] = g.off[i]
      /\ \A i \in 1 .. n - 1 : k.ent[i] = g.ent[i]
  BY <1>2, <1>3, <1>4 DEF Extends
<1>8. h \in 1 .. k.n + 1 /\ n \in 1 .. k.n + 1 /\ n + 1 \in 1 .. k.n + 1 /\ h \in 1 .. n - 1 /\ h \in 1 .. g.n + 1
  BY <1>4, <1>7
<1>9. Near(k, h, n + 1)
  BY <1>4, <1>7, <1>8, Room
<1>10. \A i \in 1 .. n - 1 : PlaceOf(k, i) = PlaceOf(g, i) /\ Heads(k, i) = Heads(g, i)
  <2>1. \A i \in 1 .. n - 1 : i \in 1 .. n
    OBVIOUS
  <2> QED BY <1>7, <2>1 DEF PlaceOf, InPlace, Size, Heads
<1>11. ASSUME NEW i \in h .. n PROVE Holds(r.mem, k, i)
  <2>1. CASE i = n
    BY <1>6, <1>7, <2>1
  <2>2. CASE i # n
    <3>1. i \in 1 .. n - 1 /\ i \in h .. g.n /\ i \in Nat /\ h <= i /\ i < n
      BY <1>4, <1>8, <2>2
    <3>2. Holds(l.mem, g, i)
      BY <1>4, <3>1 DEF LeadLog
    <3>3. \A p \in Heads(k, i) : p \notin Written(k.off[n], k.off[n + 1])
      <4>1. n < n + 1
        OBVIOUS
      <4> QED BY <1>3, <1>8, <1>9, <3>1, <4>1, Outside
    <3> QED BY <1>6, <1>7, <1>10, <3>1, <3>2, <3>3 DEF Holds
  <2> QED BY <2>1, <2>2
<1>12. /\ h \in 1 .. n /\ a \in h .. n + 1 /\ c \in a .. n + 1
       /\ k.off[a] = g.off[a] /\ k.off[c] = g.off[c] /\ k.off[h] = g.off[h] /\ PlaceOf(k, h) = PlaceOf(g, h)
  <2>1. a \in 1 .. n /\ c \in 1 .. n
    BY <1>4
  <2> QED BY <1>4, <1>7, <1>8, <1>10, <2>1
<1> QED BY <1>1, <1>4, <1>5, <1>6, <1>7, <1>9, <1>11, <1>12 DEF LeadLog

-----------------------------------------------------------------------------
(* Sequences of request numbers, and reading a log.                        *)

From(x, y) == [z \in 1 .. y - x |-> x + z]
Upto(y) == [z \in 1 .. y |-> z]

LEMMA FromSeq ==
    ASSUME NEW x \in Nat, NEW y \in Nat, x <= y
    PROVE  From(x, y) \in Seq(Nat) /\ Len(From(x, y)) = y - x
<1>1. \A z \in 1 .. y - x : x + z \in Nat
  OBVIOUS
<1>2. y - x \in Nat
  OBVIOUS
<1> QED BY <1>1, <1>2 DEF From

LEMMA UptoSeq ==
    ASSUME NEW y \in Nat
    PROVE  Upto(y) \in Seq(Nat) /\ Len(Upto(y)) = y
<1>1. \A z \in 1 .. y : z \in Nat
  OBVIOUS
<1> QED BY <1>1 DEF Upto

LEMMA FromNext ==
    ASSUME NEW x \in Nat, NEW y \in Nat, x < y
    PROVE  <<x + 1>> \o From(x + 1, y) = From(x, y)
<1>1. PICK s : s = From(x + 1, y)
  OBVIOUS
<1>2. PICK t : t = From(x, y)
  OBVIOUS
<1>3. PICK c : c = <<x + 1>>
  OBVIOUS
<1>10. x + 1 \in Nat /\ x + 1 <= y /\ x <= y
  OBVIOUS
<1>4. s \in Seq(Nat) /\ Len(s) = y - (x + 1) /\ t \in Seq(Nat) /\ Len(t) = y - x
  BY <1>1, <1>2, <1>10, FromSeq
<1>5. c \in Seq(Nat) /\ Len(c) = 1 /\ c[1] = x + 1
  <2>1. x + 1 \in Nat
    OBVIOUS
  <2> QED BY <1>3, <2>1
<1>9. /\ c \o s \in Seq(Nat) /\ Len(c \o s) = Len(c) + Len(s)
      /\ \A z \in 1 .. Len(c) + Len(s) : (c \o s)[z] = IF z <= Len(c) THEN c[z] ELSE s[z - Len(c)]
  BY <1>4, <1>5, ConcatProperties
<1>6. c \o s \in Seq(Nat) /\ Len(c \o s) = Len(t) /\ Len(c) + Len(s) = Len(t)
  BY <1>4, <1>5, <1>9
<1>7. ASSUME NEW z \in 1 .. Len(t) PROVE (c \o s)[z] = t[z]
  <2>1. t[z] = x + z
    BY <1>2, <1>4 DEF From
  <2>2. CASE z = 1
    BY <1>5, <1>6, <1>9, <2>1, <2>2
  <2>3. CASE z # 1
    <3>1. z - 1 \in 1 .. Len(s)
      BY <1>4, <2>3
    <3>2. s[z - 1] = (x + 1) + (z - 1)
      BY <1>1, <1>4, <3>1 DEF From
    <3>3. (c \o s)[z] = s[z - 1]
      BY <1>5, <1>6, <1>9, <2>3
    <3> QED BY <2>1, <3>2, <3>3
  <2> QED BY <2>2, <2>3
<1>8. c \o s = t
  BY <1>4, <1>6, <1>7, SeqEqual
<1> QED BY <1>1, <1>2, <1>3, <1>8

LEMMA UptoFrom ==
    ASSUME NEW x \in Nat, NEW y \in Nat, x <= y
    PROVE  Upto(x) \o From(x, y) = Upto(y)
<1>1. PICK s : s = From(x, y)
  OBVIOUS
<1>2. PICK t : t = Upto(y)
  OBVIOUS
<1>3. PICK c : c = Upto(x)
  OBVIOUS
<1>4. s \in Seq(Nat) /\ Len(s) = y - x /\ t \in Seq(Nat) /\ Len(t) = y
  BY <1>1, <1>2, FromSeq, UptoSeq
<1>5. c \in Seq(Nat) /\ Len(c) = x
  BY <1>3, UptoSeq
<1>9. /\ c \o s \in Seq(Nat) /\ Len(c \o s) = Len(c) + Len(s)
      /\ \A z \in 1 .. Len(c) + Len(s) : (c \o s)[z] = IF z <= Len(c) THEN c[z] ELSE s[z - Len(c)]
  BY <1>4, <1>5, ConcatProperties
<1>6. c \o s \in Seq(Nat) /\ Len(c \o s) = Len(t) /\ Len(c) + Len(s) = Len(t)
  BY <1>4, <1>5, <1>9
<1>7. ASSUME NEW z \in 1 .. Len(t) PROVE (c \o s)[z] = t[z]
  <2>1. t[z] = z
    BY <1>2, <1>4 DEF Upto
  <2>2. CASE z <= x
    <3>1. (c \o s)[z] = c[z]
      BY <1>5, <1>6, <1>9, <2>2
    <3> QED BY <1>3, <2>1, <2>2, <3>1 DEF Upto
  <2>3. CASE ~(z <= x)
    <3>1. z - x \in 1 .. Len(s) /\ z > x
      BY <1>4, <2>3
    <3>2. s[z - x] = x + (z - x)
      BY <1>1, <1>4, <3>1 DEF From
    <3>3. (c \o s)[z] = s[z - x]
      BY <1>5, <1>6, <1>9, <2>3
    <3> QED BY <2>1, <3>2, <3>3
  <2> QED BY <2>2, <2>3
<1>8. c \o s = t
  BY <1>4, <1>6, <1>7, SeqEqual
<1> QED BY <1>1, <1>2, <1>3, <1>8

\* Every entry takes a byte at least.
LEMMA Spread ==
    ASSUME NEW g, History(g), NEW i \in 1 .. g.n + 1, NEW j \in 1 .. g.n + 1, i <= j, Near(g, i, j)
    PROVE  j - i <= Gap(g, i, j)
<1> DEFINE T == {d \in Nat : i + d <= j => d <= Gap(g, i, i + d)}
<1>1. i \in Nat /\ j \in Nat /\ g.n \in Nat
  BY HistoryTypes
<1>2. 0 \in T
  <2>1. Gap(g, i, i) = 0 /\ i + 0 = i
    BY <1>1, Between
  <2> QED BY <2>1
<1>3. ASSUME NEW d \in Nat, d \in T PROVE d + 1 \in T
  <2> SUFFICES ASSUME i + (d + 1) <= j PROVE d + 1 <= Gap(g, i, i + (d + 1))
    OBVIOUS
  <2>1. PICK x \in Nat : x = i + d
    BY <1>1
  <2>2. x \in 1 .. g.n + 1 /\ x + 1 \in 1 .. g.n + 1 /\ i <= x /\ x <= x + 1 /\ x + 1 <= j /\ i <= x + 1
    BY <1>1, <2>1
  <2>3. Near(g, i, x + 1)
    BY <2>2, Between
  <2>4. /\ Gap(g, i, x + 1) = Gap(g, i, x) + Gap(g, x, x + 1)
        /\ Gap(g, i, x) \in 0 .. Ring - 1 /\ Gap(g, x, x + 1) \in 0 .. Ring - 1
        /\ Gap(g, x, x + 1) = 0 <=> x = x + 1
    BY <2>2, <2>3, Between
  <2>5. d <= Gap(g, i, x)
    BY <1>3, <2>1, <2>2
  <2>6. i + (d + 1) = x + 1
    BY <1>1, <2>1
  <2>7. d + 1 <= Gap(g, i, x + 1)
    BY <2>4, <2>5, Sizes
  <2> QED BY <2>6, <2>7
<1>4. Nat \subseteq T
  <2> HIDE DEF T
  <2> QED BY <1>2, <1>3, Induction
<1>5. j - i \in T /\ i + (j - i) = j
  <2>1. j - i \in Nat
    BY <1>1
  <2> QED BY <1>1, <1>4, <2>1
<1> QED BY <1>5

\* The entries from i on are in memory, and the log ends behind entry e - 1.
InMemory(l, g, h, e) ==
    /\ Memory(l.mem) /\ l.end = g.off[e]
    /\ \A i \in h .. e - 1 : Holds(l.mem, g, i)

\* A reader who begins where entry b is looked for stops where some entry j is looked for,
\* and has met the requests in between, Go having held for all of them.  Given time, he
\* goes on to the end or until Go does not hold, unless the log ends with the buffer.
Read(l, g, e, Go, b, w, k) ==
    \E j \in b .. e :
      /\ w.off = g.off[j] /\ w.csm = From(g.req[b], g.req[j])
      /\ \A i \in b .. j - 1 : Go[g.off[i]]
      /\ (g.off[e] # Ring /\ e - b <= k) => (j = e \/ ~Go[g.off[j]])

LEMMA Reading ==
    ASSUME NEW g, History(g), NEW h \in 1 .. g.n + 1, NEW e \in 1 .. g.n + 1, h <= e, Near(g, h, e),
           NEW l, InMemory(l, g, h, e), NEW Go, NEW k \in Nat, NEW b \in h .. e
    PROVE  Read(l, g, e, Go, b, Readings(l, Go)[k][g.off[b]], k)
<1> DEFINE T == {d \in Nat : \A x \in h .. e : Read(l, g, e, Go, x, Readings(l, Go)[d][g.off[x]], d)}
<1>1. h \in Nat /\ e \in Nat /\ g.n \in Nat
  BY HistoryTypes
<1>2. PICK R : R = Readings(l, Go)
  OBVIOUS
<1>3. \A x \in h .. e : x \in 1 .. g.n + 1 /\ x \in Nat /\ g.off[x] \in Nat /\ g.req[x] \in Nat /\ h <= x /\ x <= e
  <2>1. \A x \in h .. e : x \in Nat /\ x \in 1 .. g.n + 1
    BY <1>1
  <2> QED BY <2>1, HistoryTypes
<1>4. ASSUME NEW x \in h .. e PROVE From(g.req[x], g.req[x]) = <<>>
  <2>1. From(g.req[x], g.req[x]) \in Seq(Nat) /\ Len(From(g.req[x], g.req[x])) = 0
    <3>1. g.req[x] \in Nat /\ g.req[x] <= g.req[x] /\ g.req[x] - g.req[x] = 0
      BY <1>3
    <3> QED BY <3>1, FromSeq
  <2> QED BY <2>1
<1>5. ASSUME NEW x \in h .. e, NEW d \in Nat,
             (g.off[e] # Ring /\ e - x <= d) => (x = e \/ ~Go[g.off[x]])
      PROVE  Read(l, g, e, Go, x, Stopped(g.off[x]), d)
  <2>1. x \in x .. e /\ x .. x - 1 = {}
    BY <1>1, <1>3
  <2> QED BY <1>4, <1>5, <2>1 DEF Read, Stopped
<1>6. ASSUME NEW x \in h .. e, g.off[e] # Ring
      PROVE  Distance(l.end, g.off[x]) = 0 <=> x = e
  <2>1. Distance(g.off[e], g.off[x]) = Gap(g, x, e)
    BY <1>1, <1>3, <1>6, Distances
  <2>2. Gap(g, x, e) = 0 <=> x = e
    BY <1>1, <1>3, Between
  <2> QED BY <2>1, <2>2 DEF InMemory
<1>7. 0 \in T
  <2> SUFFICES ASSUME NEW x \in h .. e PROVE Read(l, g, e, Go, x, R[0][g.off[x]], 0)
    BY <1>2
  <2>1. R[0][g.off[x]] = Stopped(g.off[x])
    BY <1>2, <1>3, ReadingsTotal DEF InMemory
  <2>2. e - x <= 0 => x = e
    BY <1>1, <1>3
  <2> QED BY <1>5, <2>1, <2>2
<1>8. ASSUME NEW d \in Nat, d \in T PROVE d + 1 \in T
  <2> SUFFICES ASSUME NEW x \in h .. e PROVE Read(l, g, e, Go, x, R[d + 1][g.off[x]], d + 1)
    BY <1>2
  <2>1. R[d + 1][g.off[x]] =
          IF Stops(l, Go, g.off[x]) THEN Stopped(g.off[x])
          ELSE GoneOn(At(l.mem, g.off[x]), Header(l.mem, At(l.mem, g.off[x])), R[d][After(l.mem, g.off[x])])
    <3>1. R[d + 1] = Longer(l, Go, R[d])
      BY <1>2, ReadingsTotal DEF InMemory
    <3>2. g.off[x] \in Nat
      BY <1>3
    <3> QED BY <3>1, <3>2 DEF Longer
  <2>2. CASE Stops(l, Go, g.off[x])
    <3>1. g.off[e] # Ring => (x = e \/ ~Go[g.off[x]])
      BY <1>6, <2>2 DEF Stops
    <3> QED BY <1>5, <2>1, <2>2, <3>1
  <2>3. CASE ~Stops(l, Go, g.off[x])
    <3>1. Go[g.off[x]] /\ Distance(l.end, g.off[x]) # 0
      BY <2>3 DEF Stops
    <3>2. x # e
      <4>1. Distance(g.off[e], g.off[e]) = 0
        BY <1>1, <1>3 DEF Distance
      <4> QED BY <3>1, <4>1 DEF InMemory
    <3>3. x \in 1 .. g.n /\ x \in h .. e - 1 /\ x + 1 \in h .. e /\ x \in Nat
      BY <1>1, <1>3, <3>2
    <3>4. Holds(l.mem, g, x)
      BY <3>3 DEF InMemory
    <3>5. /\ At(l.mem, g.off[x]) = PlaceOf(g, x) /\ Header(l.mem, PlaceOf(g, x)) = g.ent[x]
          /\ After(l.mem, g.off[x]) = g.off[x + 1]
      BY <3>3, <3>4, Meets DEF InMemory
    <3>6. PICK w : w = R[d][g.off[x + 1]]
      OBVIOUS
    <3>7. R[d + 1][g.off[x]] = GoneOn(PlaceOf(g, x), g.ent[x], w)
      BY <2>1, <2>3, <3>5, <3>6
    <3>8. Read(l, g, e, Go, x + 1, w, d)
      BY <1>2, <1>8, <3>3, <3>6
    <3>9. PICK j \in x + 1 .. e :
            /\ w.off = g.off[j] /\ w.csm = From(g.req[x + 1], g.req[j])
            /\ \A i \in x + 1 .. j - 1 : Go[g.off[i]]
            /\ (g.off[e] # Ring /\ e - (x + 1) <= d) => (j = e \/ ~Go[g.off[j]])
      BY <3>8 DEF Read
    <3>10. j \in x .. e /\ j \in h .. e /\ j \in Nat
      BY <1>1, <3>3, <3>9
    <3>11. \A i \in x .. j - 1 : Go[g.off[i]]
      <4>1. \A i \in x .. j - 1 : i = x \/ i \in x + 1 .. j - 1
        BY <3>3, <3>10
      <4> QED BY <3>1, <3>9, <4>1
    <3>12. (g.off[e] # Ring /\ e - x <= d + 1) => (j = e \/ ~Go[g.off[j]])
      <4>1. e - x <= d + 1 => e - (x + 1) <= d
        BY <1>1, <3>3
      <4> QED BY <3>9, <4>1
    <3>13. (IF g.ent[x].type = "CSM" THEN <<g.ent[x].val>> ELSE <<>>) \o w.csm = From(g.req[x], g.req[j])
      <4>1. /\ g.req[x + 1] = g.req[x] + (IF g.ent[x].type = "CSM" THEN 1 ELSE 0)
            /\ g.ent[x].type = "CSM" => g.ent[x].val = g.req[x + 1]
        BY <3>3 DEF History, Follows
      <4>2. g.req[x + 1] <= g.req[j]
        <5>1. x + 1 \in 1 .. g.n + 1 /\ j \in 1 .. g.n + 1 /\ (x + 1 = j \/ x + 1 < j)
          BY <1>1, <3>3, <3>9, <3>10
        <5>2. x + 1 < j => Before(g, x + 1, j)
          BY <5>1 DEF History
        <5> QED BY <1>3, <3>3, <5>1, <5>2 DEF Before
      <4>3. g.req[x] \in Nat /\ g.req[x + 1] \in Nat /\ g.req[j] \in Nat
        BY <1>3, <3>3, <3>10
      <4>4. CASE g.ent[x].type = "CSM"
        <5>1. g.req[x + 1] = g.req[x] + 1 /\ g.req[x] < g.req[j] /\ g.ent[x].val = g.req[x] + 1
          BY <4>1, <4>2, <4>3, <4>4
        <5>2. <<g.req[x] + 1>> \o From(g.req[x] + 1, g.req[j]) = From(g.req[x], g.req[j])
          BY <4>3, <5>1, FromNext
        <5> QED BY <3>9, <4>4, <5>1, <5>2
      <4>5. CASE g.ent[x].type # "CSM"
        <5>1. g.req[x + 1] = g.req[x]
          BY <4>1, <4>3, <4>5
        <5>2. From(g.req[x], g.req[j]) \in Seq(Nat)
          BY <4>2, <4>3, <5>1, FromSeq
        <5>3. <<>> \o From(g.req[x], g.req[j]) = From(g.req[x], g.req[j])
          BY <5>2
        <5> QED BY <3>9, <4>5, <5>1, <5>3
      <4> QED BY <4>4, <4>5
    <3>14. /\ GoneOn(PlaceOf(g, x), g.ent[x], w).off = g.off[j]
           /\ GoneOn(PlaceOf(g, x), g.ent[x], w).csm = From(g.req[x], g.req[j])
      BY <3>9, <3>13 DEF GoneOn
    <3> QED BY <3>7, <3>10, <3>11, <3>12, <3>14 DEF Read
  <2> QED BY <2>2, <2>3
<1>9. Nat \subseteq T
  <2> HIDE DEF T
  <2> QED BY <1>7, <1>8, Induction
<1> QED BY <1>9

\* Ring steps are enough.
Walked(l, g, e, Go, b) ==
    \E j \in b .. e :
      /\ Walk(l, g.off[b], Go).off = g.off[j]
      /\ Walk(l, g.off[b], Go).csm = From(g.req[b], g.req[j])
      /\ \A i \in b .. j - 1 : Go[g.off[i]]
      /\ g.off[e] # Ring => (j = e \/ ~Go[g.off[j]])

LEMMA Walking ==
    ASSUME NEW g, History(g), NEW h \in 1 .. g.n + 1, NEW e \in 1 .. g.n + 1, h <= e, Near(g, h, e),
           NEW l, InMemory(l, g, h, e), NEW Go, NEW b \in h .. e
    PROVE  Walked(l, g, e, Go, b)
<1>1. Read(l, g, e, Go, b, Walk(l, g.off[b], Go), Ring)
  BY Reading, Sizes DEF Walk
<1>2. b \in 1 .. g.n + 1 /\ b \in Nat /\ h \in Nat /\ e \in Nat /\ h <= b /\ b <= e
  <2>1. g.n \in Nat
    BY HistoryTypes
  <2> QED BY <2>1
<1>3. e - b <= Ring
  <2>1. Near(g, b, e) /\ Gap(g, b, e) \in 0 .. Ring - 1
    BY <1>2, Between
  <2>2. e - b <= Gap(g, b, e)
    BY <1>2, <2>1, Spread
  <2> QED BY <1>2, <2>1, <2>2, Sizes
<1> QED BY <1>1, <1>3 DEF Read, Walked

-----------------------------------------------------------------------------
(* Histories that go on, and what the others have of the log.              *)

Grown(g, k) ==
    /\ g.n <= k.n
    /\ \A i \in 1 .. g.n + 1 : /\ k.lap[i] = g.lap[i] /\ k.off[i] = g.off[i]
                               /\ k.req[i] = g.req[i] /\ k.oth[i] = g.oth[i]
    /\ \A i \in 1 .. g.n : k.ent[i] = g.ent[i]

LEMMA GrownSteps ==
    ASSUME NEW g, History(g)
    PROVE  /\ Grown(g, g)
           /\ \A k, e : History(k) /\ Extends(g, k, e) => Grown(g, k)
           /\ \A k, j : History(k) /\ History(j) /\ Grown(g, k) /\ Grown(k, j) => Grown(g, j)
<1>1. g.n \in Nat
  BY HistoryTypes
<1>2. Grown(g, g)
  BY <1>1 DEF Grown
<1>3. ASSUME NEW k, NEW e, History(k), Extends(g, k, e) PROVE Grown(g, k)
  BY <1>1, <1>3 DEF Grown, Extends
<1>4. ASSUME NEW k, NEW j, History(k), History(j), Grown(g, k), Grown(k, j) PROVE Grown(g, j)
  <2>1. k.n \in Nat /\ j.n \in Nat
    BY <1>4, HistoryTypes
  <2>2. g.n <= k.n /\ k.n <= j.n
    BY <1>4 DEF Grown
  <2>3. \A i \in 1 .. g.n + 1 : i \in 1 .. k.n + 1
    BY <1>1, <2>1, <2>2
  <2>4. \A i \in 1 .. g.n : i \in 1 .. k.n
    BY <1>1, <2>1, <2>2
  <2>5. g.n <= j.n
    BY <1>1, <2>1, <2>2
  <2> QED BY <1>4, <2>3, <2>4, <2>5 DEF Grown
<1> QED BY <1>2, <1>3, <1>4

LEMMA GrownHolds ==
    ASSUME NEW g, History(g), NEW k, Grown(g, k), NEW i \in 1 .. g.n, NEW m
    PROVE  /\ PlaceOf(k, i) = PlaceOf(g, i) /\ (Holds(m, k, i) <=> Holds(m, g, i))
<1>1. i \in 1 .. g.n + 1
  <2>1. g.n \in Nat
    BY HistoryTypes
  <2> QED BY <2>1
<1>2. k.off[i] = g.off[i] /\ k.ent[i] = g.ent[i]
  BY <1>1 DEF Grown
<1> QED BY <1>2 DEF PlaceOf, InPlace, Size, Heads, Holds

\* A follower with log l whose end the leader knows as r, and which has applied p: it has
\* what is in memory before entry e and has applied it up to entry a, with o <= a the
\* position that the leader knows of; d <= c is the commit offset that it knows.
Tracks(l, r, p, g, h, o, c) ==
    \E e, a, d \in Nat :
      /\ e \in h .. g.n + 1 /\ a \in h .. e /\ d \in a .. c /\ o <= a
      /\ l \in Log /\ l.end = g.off[e] /\ l.apply = g.off[a] /\ l.commit = g.off[d]
      /\ \A i \in h .. e - 1 : Holds(l.mem, g, i)
      /\ r = g.off[e] /\ p = Upto(g.req[a])

\* The leader's steps leave it at that: entries are appended, the head moves to what the
\* leader knows, more is committed.
LEMMA TracksOn ==
    ASSUME NEW g, History(g), NEW k, History(k), Grown(g, k),
           NEW l, NEW r, NEW p, NEW h \in 1 .. g.n, NEW o \in Nat, NEW c \in 1 .. g.n + 1,
           Tracks(l, r, p, g, h, o, c),
           NEW h2 \in h .. o, NEW c2 \in Nat, c <= c2
    PROVE  Tracks(l, r, p, k, h2, o, c2)
<1>1. PICK e \in Nat, a \in Nat, d \in Nat :
         /\ e \in h .. g.n + 1 /\ a \in h .. e /\ d \in a .. c /\ o <= a
         /\ l \in Log /\ l.end = g.off[e] /\ l.apply = g.off[a] /\ l.commit = g.off[d]
         /\ \A i \in h .. e - 1 : Holds(l.mem, g, i)
         /\ r = g.off[e] /\ p = Upto(g.req[a])
  BY DEF Tracks
<1>2. g.n \in Nat /\ k.n \in Nat /\ g.n <= k.n /\ h \in Nat /\ h2 \in Nat
  BY HistoryTypes DEF Grown
<1>3. e \in 1 .. g.n + 1 /\ a \in 1 .. g.n + 1 /\ d \in 1 .. g.n + 1
  BY <1>1, <1>2
<1>4. k.off[e] = g.off[e] /\ k.off[a] = g.off[a] /\ k.off[d] = g.off[d] /\ k.req[a] = g.req[a]
  BY <1>3 DEF Grown
<1>5. e \in h2 .. k.n + 1 /\ a \in h2 .. e /\ d \in a .. c2
  BY <1>1, <1>2
<1>6. ASSUME NEW i \in h2 .. e - 1 PROVE Holds(l.mem, k, i)
  <2>1. i \in h .. e - 1 /\ i \in 1 .. g.n
    BY <1>1, <1>2
  <2> QED BY <1>1, <2>1, GrownHolds
<1> QED BY <1>1, <1>4, <1>5, <1>6 DEF Tracks

\* What the leader reads from it is later than what it knew.
LEMMA TracksFresh ==
    ASSUME NEW g, History(g), NEW l, NEW r, NEW p, NEW h \in 1 .. g.n, NEW o \in Nat, NEW c \in 1 .. g.n + 1,
           Tracks(l, r, p, g, h, o, c)
    PROVE  \E a \in h .. g.n + 1 : a \in Nat /\ o <= a /\ l.apply = g.off[a] /\ Tracks(l, r, p, g, h, a, c)
<1>1. PICK e \in Nat, a \in Nat, d \in Nat :
         /\ e \in h .. g.n + 1 /\ a \in h .. e /\ d \in a .. c /\ o <= a
         /\ l \in Log /\ l.end = g.off[e] /\ l.apply = g.off[a] /\ l.commit = g.off[d]
         /\ \A i \in h .. e - 1 : Holds(l.mem, g, i)
         /\ r = g.off[e] /\ p = Upto(g.req[a])
  BY DEF Tracks
<1>2. g.n \in Nat /\ h \in Nat
  BY HistoryTypes
<1>3. a \in h .. g.n + 1 /\ a <= a
  BY <1>1, <1>2
<1>4. Tracks(l, r, p, g, h, a, c)
  BY <1>1, <1>3 DEF Tracks
<1> QED BY <1>1, <1>3, <1>4

-----------------------------------------------------------------------------
(* The order of offsets.                                                   *)

LEMMA DistanceOrder ==
    ASSUME NEW g, History(g), NEW h \in 1 .. g.n + 1, NEW e \in h .. g.n + 1, Near(g, h, e), g.off[e] # Ring,
           NEW x \in h .. e, NEW y \in h .. e
    PROVE  /\ Larger(g.off[e], g.off[x], g.off[y]) <=> y < x
           /\ Distance(g.off[e], g.off[x]) = Gap(g, x, e)
           /\ Distance(g.off[e], g.off[x]) = 0 <=> x = e
           /\ Gap(g, x, e) \in 0 .. Ring - 1
<1>1. g.n \in Nat /\ h \in Nat
  BY HistoryTypes
<1>2. /\ e \in 1 .. g.n + 1 /\ x \in 1 .. g.n + 1 /\ y \in 1 .. g.n + 1
      /\ e \in Nat /\ x \in Nat /\ y \in Nat /\ h <= e /\ h <= x /\ x <= e /\ h <= y /\ y <= e /\ e <= e
  BY <1>1
<1>3. Distance(g.off[e], g.off[x]) = Gap(g, x, e) /\ Distance(g.off[e], g.off[y]) = Gap(g, y, e)
  BY <1>2, Distances
<1>4. Near(g, x, e) /\ Near(g, y, e) /\ Gap(g, x, e) \in 0 .. Ring - 1 /\ Gap(g, y, e) \in 0 .. Ring - 1
      /\ (Gap(g, x, e) = 0 <=> x = e)
  BY <1>2, Between
<1>5. x <= y => /\ Gap(g, x, e) = Gap(g, x, y) + Gap(g, y, e) /\ Gap(g, x, y) \in 0 .. Ring - 1
  BY <1>2, <1>4, Between
<1>6. y <= x => /\ Gap(g, y, e) = Gap(g, y, x) + Gap(g, x, e) /\ Gap(g, y, x) \in 0 .. Ring - 1
                /\ (Gap(g, y, x) = 0 <=> x = y)
  BY <1>2, <1>4, Between
<1>7. Larger(g.off[e], g.off[x], g.off[y]) <=> Gap(g, x, e) < Gap(g, y, e)
  BY <1>3 DEF Larger
<1>8. CASE y < x
  <2>1. Gap(g, y, x) > 0
    BY <1>2, <1>6, <1>8, Sizes
  <2> QED BY <1>2, <1>3, <1>4, <1>6, <1>7, <1>8, <2>1, Sizes
<1>9. CASE ~(y < x)
  BY <1>2, <1>3, <1>4, <1>5, <1>7, <1>9, Sizes
<1> QED BY <1>8, <1>9

\* What the pruning takes for the smallest apply offset: of the leader or of a server.
FirstApplied(l, ao, g, a, q, m) ==
    /\ MinApply(l, ao) = g.off[m] /\ \A s \in Server : m <= q[s]
    /\ m = a \/ \E s \in Server : m = q[s]

LEMMA MinApplyIndex ==
    ASSUME NEW g, History(g), NEW h \in 1 .. g.n, Near(g, h, g.n + 1), g.off[g.n + 1] # Ring,
           NEW l \in Log, l.end = g.off[g.n + 1], NEW a \in h .. g.n + 1, l.apply = g.off[a],
           NEW ao \in [0 .. N -> Offset], NEW q,
           \A s \in Server : q[s] \in h .. g.n + 1 /\ ao[s] = g.off[q[s]]
    PROVE  \E m \in h .. a : FirstApplied(l, ao, g, a, q, m)
<1>1. PICK e \in Nat : e = g.n + 1
  BY HistoryTypes
<1>2. h \in 1 .. g.n + 1 /\ e \in h .. g.n + 1 /\ h \in Nat /\ g.n \in Nat
  <2>1. g.n \in Nat
    BY HistoryTypes
  <2> QED BY <1>1, <2>1
<1>3. PICK t \in Server : t = Slowest(l, ao)
  BY SlowestType
<1>4. q[t] \in h .. e /\ a \in h .. e /\ ao[t] = g.off[q[t]]
  BY <1>1
<1>5. ASSUME NEW s \in Server PROVE q[t] <= q[s]
  <2>1. q[s] \in h .. e /\ ao[s] = g.off[q[s]]
    BY <1>1
  <2>2. ~Larger(g.off[e], g.off[q[t]], g.off[q[s]])
    BY <1>1, <1>3, <1>4, <2>1, SlowestType
  <2>3. ~(q[s] < q[t])
    BY <1>1, <1>2, <1>4, <2>1, <2>2, DistanceOrder
  <2> QED BY <1>2, <1>4, <2>1, <2>3
<1>6. Larger(g.off[e], g.off[a], g.off[q[t]]) <=> q[t] < a
  <2>1. Near(g, h, e) /\ g.off[e] # Ring
    BY <1>1
  <2> QED BY <1>2, <1>4, <2>1, DistanceOrder
<1>7. MinApply(l, ao) = IF q[t] < a THEN g.off[q[t]] ELSE g.off[a]
  BY <1>1, <1>3, <1>4, <1>6 DEF MinApply
<1>8. CASE q[t] < a
  <2>1. q[t] \in h .. a
    BY <1>1, <1>2, <1>4, <1>8
  <2> QED BY <1>5, <1>7, <1>8, <2>1 DEF FirstApplied
<1>9. CASE ~(q[t] < a)
  <2>1. a \in h .. a
    BY <1>1, <1>2, <1>4
  <2>2. \A s \in Server : a <= q[s]
    <3>1. ASSUME NEW s \in Server PROVE a <= q[s]
      <4>1. q[s] \in h .. e
        BY <1>1
      <4> QED BY <1>1, <1>2, <1>4, <1>5, <1>9, <4>1
    <3> QED BY <3>1
  <2> QED BY <1>7, <1>9, <2>1, <2>2 DEF FirstApplied
<1> QED BY <1>8, <1>9

-----------------------------------------------------------------------------
(* The followers.                                                          *)

\* The offsets ao are those of the entries q[s].
Known(ao, g, h, q) ==
    /\ q \in [Server -> Nat]
    /\ \A s \in Server : q[s] \in h .. g.n + 1 /\ ao[s] = g.off[q[s]]

\* Who is up has a part of the leader's log.
Tracked(g, h, q, c) ==
    \A s \in on \ {Leader} : Tracks(log[s], rmt[s].end, applied[s], g, h, q[s], c)

\* The entries are the requests and what the leader has added, in the order in which it
\* took them; every server has applied some of the committed requests.
Faithful(g, h, a, c, q) ==
    /\ History(g) /\ LeadLog(L, g, h, a, c)
    /\ submitted = g.req[g.n + 1] /\ committed = g.req[c] /\ applied[Leader] = Upto(g.req[a])
    /\ Known(apply_offsets, g, h, q)
    /\ Tracked(g, h, q, c)
    /\ applied \in [Server -> Seq(Nat)]
    /\ \A s \in Server : \E k \in 0 .. committed : applied[s] = Upto(k)

\* A reader who has applied the entries before a goes on at most to entry d, the commit
\* offset, and to the end.  (If d is behind the end it does not go on.)
Applies(l, g, a, d, e) ==
    \E j \in a .. e : /\ j <= d /\ ToApply(l).off = g.off[j]
                      /\ ToApply(l).csm = From(g.req[a], g.req[j])

LEMMA ApplyingOn ==
    ASSUME NEW g, History(g), NEW h \in 1 .. g.n + 1, Near(g, h, g.n + 1),
           NEW e \in h .. g.n + 1, NEW a \in h .. e, NEW d \in a .. g.n + 1,
           NEW l \in Log, l.end = g.off[e], l.apply = g.off[a], l.commit = g.off[d],
           \A i \in h .. e - 1 : Holds(l.mem, g, i)
    PROVE  Applies(l, g, a, d, e)
<1>1. PICK n \in Nat : n = g.n
  BY HistoryTypes
<1>2. /\ h \in Nat /\ e \in Nat /\ a \in Nat /\ d \in Nat /\ n + 1 \in 1 .. g.n + 1
      /\ e \in 1 .. g.n + 1 /\ d \in 1 .. g.n + 1 /\ a \in 1 .. g.n + 1
      /\ h <= e /\ h <= d /\ d <= n + 1 /\ e <= n + 1 /\ h <= a /\ a <= e /\ a <= d
  BY <1>1
<1>3. Near(g, h, e)
  BY <1>1, <1>2, Between
<1>9. PICK Go : Go = [o \in Nat |-> Larger(l.end, l.commit, o)]
  OBVIOUS
<1>4. PICK j \in a .. e : /\ Walk(l, g.off[a], Go).off = g.off[j]
                          /\ Walk(l, g.off[a], Go).csm = From(g.req[a], g.req[j])
                          /\ \A i \in a .. j - 1 : Go[g.off[i]]
  <2>1. InMemory(l, g, h, e)
    BY LogFields DEF InMemory
  <2>2. a \in h .. e
    BY <1>2
  <2>3. h \in 1 .. g.n + 1 /\ e \in 1 .. g.n + 1 /\ h <= e /\ Near(g, h, e) /\ a \in h .. e
    BY <1>2, <1>3, <2>2
  <2>4. Walked(l, g, e, Go, a)
    BY <2>1, <2>3, Walking
  <2> QED BY <2>4 DEF Walked
<1>5. ToApply(l).off = g.off[j] /\ ToApply(l).csm = From(g.req[a], g.req[j])
  BY <1>4, <1>9 DEF ToApply
<1>6. ASSUME NEW i \in a .. j - 1 PROVE Larger(g.off[e], g.off[d], g.off[i])
  <2>1. i \in Nat
    BY <1>2
  <2>2. g.off[i] \in Nat
    BY <2>1, HistoryTypes
  <2> QED BY <1>4, <1>9, <2>2
<1>7. ASSUME j > d PROVE FALSE
  <2>1. j \in Nat /\ a <= j /\ j <= e /\ d < e /\ d \in h .. e
    BY <1>2, <1>7
  <2>2. d \in a .. j - 1
    BY <1>2, <1>7, <2>1
  <2>3. Larger(g.off[e], g.off[d], g.off[d])
    BY <1>6, <2>2
  <2>4. g.off[d] \in Offset /\ g.off[e] \in Offset
    BY <1>2, HistoryTypes
  <2> QED BY <2>3, <2>4, DistanceRange DEF Larger
<1>8. j <= d
  BY <1>2, <1>7
<1> QED BY <1>5, <1>8 DEF Applies

\* A pass of polling() of follower s, which has in its log l what is before entry e and
\* knows that what is before entry d is committed.
LEMMA PassKeeps ==
    ASSUME Types, Types', NEW g, NEW h, NEW a, NEW c, NEW q, Faithful(g, h, a, c, q),
           NEW s \in Follower, s \in on, NEW l \in Log, FollowerPass(s, l),
           NEW e \in h .. g.n + 1, NEW b \in h .. e, NEW d \in b .. c, q[s] <= b,
           l.end = g.off[e], l.apply = g.off[b], l.commit = g.off[d],
           \A i \in h .. e - 1 : Holds(l.mem, g, i), applied[s] = Upto(g.req[b]),
           rmt'[s].end = g.off[e], \A t \in Follower : t # s => rmt'[t] = rmt[t],
           UNCHANGED <<apply_offsets, on, submitted, committed>>
    PROVE  Faithful(g, h, a, c, q)'
<1>1. /\ History(g) /\ LeadLog(L, g, h, a, c)
      /\ submitted = g.req[g.n + 1] /\ committed = g.req[c] /\ applied[Leader] = Upto(g.req[a])
      /\ Known(apply_offsets, g, h, q) /\ Tracked(g, h, q, c)
      /\ applied \in [Server -> Seq(Nat)]
      /\ \A t \in Server : \E k \in 0 .. committed : applied[t] = Upto(k)
  BY DEF Faithful
<1>2. PICK n \in Nat : n = g.n
  BY <1>1, HistoryTypes
<1>3. /\ h \in 1 .. g.n + 1 /\ Near(g, h, g.n + 1) /\ c \in 1 .. g.n + 1 /\ d \in b .. g.n + 1
      /\ h \in Nat /\ b \in Nat /\ e \in Nat /\ d \in Nat /\ c \in Nat /\ b <= d /\ d <= c /\ h <= b /\ b <= e
      /\ b \in 1 .. g.n + 1 /\ d \in 1 .. g.n + 1 /\ e \in 1 .. g.n + 1
  <2>1. h \in 1 .. g.n /\ a \in h .. g.n + 1 /\ c \in a .. g.n + 1 /\ Near(g, h, g.n + 1)
    BY <1>1 DEF LeadLog
  <2> QED BY <1>2, <2>1
<1>4. PICK j \in b .. e : j <= d /\ ToApply(l).off = g.off[j] /\ ToApply(l).csm = From(g.req[b], g.req[j])
  BY <1>1, <1>3, ApplyingOn DEF Applies
<1>5. j \in Nat /\ j \in h .. e /\ d \in j .. c /\ q[s] <= j /\ b <= j /\ j \in 1 .. g.n + 1
  <2>1. q[s] \in Nat
    BY <1>1 DEF Known, Follower
  <2> QED BY <1>2, <1>3, <1>4, <2>1
<1>6. /\ g.req[b] \in Nat /\ g.req[j] \in Nat /\ g.req[c] \in Nat
      /\ g.req[b] <= g.req[j] /\ g.req[j] <= g.req[c]
  <2>1. g.req[b] \in Nat /\ g.req[j] \in Nat /\ g.req[c] \in Nat
    BY <1>1, <1>3, <1>5, HistoryTypes
  <2>2. b < j => g.req[b] <= g.req[j]
    BY <1>1, <1>3, <1>5 DEF History, Before
  <2>3. j < c => g.req[j] <= g.req[c]
    BY <1>1, <1>3, <1>5 DEF History, Before
  <2>4. b = j \/ b < j
    BY <1>3, <1>5
  <2>5. j = c \/ j < c
    BY <1>3, <1>4, <1>5
  <2> QED BY <2>1, <2>2, <2>3, <2>4, <2>5
<1> DEFINE stored == NewEntries(l)
           todo == ToApply(l)
           polled == Unpolled(l, cid_offset[s])
           new == [l EXCEPT !.old_end = stored.off, !.head = PolledHead(l, polled.met),
                            !.apply = todo.off]
           R == {<<stored.met[k], s>> : k \in DOMAIN stored.met}
<1>7. /\ log' = [log EXCEPT ![s] = new, ![Leader].reply = @ \cup R]
      /\ applied' = [applied EXCEPT ![s] = @ \o todo.csm]
  BY Zenon DEF FollowerPass
<1>8. new.end = l.end /\ new.commit = l.commit /\ new.mem = l.mem /\ new.apply = todo.off
  BY DEF Log
<1>9. s # Leader /\ s \in Server
  BY DEF Follower
<1> HIDE DEF new, stored, polled, R
<1>10. /\ log'[s] = new
       /\ log'[Leader] = [log[Leader] EXCEPT !.reply = @ \cup R]
       /\ \A t \in Server : t # s /\ t # Leader => log'[t] = log[t]
  BY <1>7, <1>9, Roles DEF Types
<1>11. log' \in [Server -> Log]
  BY DEF Types
<1>12. applied'[s] = Upto(g.req[j]) /\ \A t \in Server : t # s => applied'[t] = applied[t]
  <2>1. applied'[s] = Upto(g.req[b]) \o From(g.req[b], g.req[j])
    BY <1>1, <1>4, <1>7, <1>9
  <2>2. Upto(g.req[b]) \o From(g.req[b], g.req[j]) = Upto(g.req[j])
    BY <1>6, UptoFrom
  <2> QED BY <1>1, <1>7, <2>1, <2>2
<1>13. Tracks(log'[s], rmt'[s].end, applied'[s], g, h, q[s], c)
  <2>1. /\ log'[s] \in Log /\ log'[s].end = g.off[e] /\ log'[s].apply = g.off[j]
        /\ log'[s].commit = g.off[d] /\ log'[s].mem = l.mem
    BY <1>4, <1>8, <1>9, <1>10, <1>11
  <2> QED BY <1>3, <1>5, <1>12, <2>1 DEF Tracks
<1>14. Tracked(g, h, q, c)'
  <2> SUFFICES ASSUME NEW t \in on \ {Leader}, t # s
               PROVE  Tracks(log'[t], rmt'[t].end, applied'[t], g, h, q[t], c)
    BY <1>13 DEF Tracked
  <2>1. t \in Server /\ t \in Follower /\ t # Leader
    BY DEF Types, Follower
  <2>2. log'[t] = log[t] /\ rmt'[t] = rmt[t] /\ applied'[t] = applied[t]
    BY <1>10, <1>12, <2>1
  <2> QED BY <1>1, <2>2 DEF Tracked
<1>15. LeadLog(L', g, h, a, c)
  <2>1. L' \in Log
    BY <1>11, Roles DEF L
  <2>2. /\ L'.mem = L.mem /\ L'.end = L.end /\ L'.tail = L.tail /\ L'.head = L.head
        /\ L'.apply = L.apply /\ L'.commit = L.commit
    <3>1. log[Leader] \in Log
      BY Roles DEF Types
    <3>2. PICK k \in Log : k = log[Leader]
      BY <3>1
    <3>3. PICK Q : Q = k.reply \cup R
      OBVIOUS
    <3>4. L' = [k EXCEPT !.reply = Q]
      BY <1>10, <3>2, <3>3 DEF L
    <3> QED BY <3>2, <3>4 DEF L, Log
  <2> QED BY <1>1, <2>1, <2>2 DEF LeadLog
<1>16. applied' \in [Server -> Seq(Nat)]
  <2>1. Upto(g.req[j]) \in Seq(Nat)
    BY <1>6, UptoSeq
  <2>2. applied' = [t \in Server |-> applied'[t]]
    BY <1>1, <1>7
  <2> QED BY <1>1, <1>12, <2>1, <2>2
<1>17. \A t \in Server : \E k \in 0 .. committed : applied'[t] = Upto(k)
  <2>1. g.req[j] \in 0 .. committed
    BY <1>1, <1>6
  <2>2. \A t \in Server : t = s \/ applied'[t] = applied[t]
    BY <1>12
  <2>3. \E k \in 0 .. committed : applied'[s] = Upto(k)
    BY <1>12, <2>1
  <2> QED BY <1>1, <2>2, <2>3
<1>18. applied'[Leader] = Upto(g.req[a])
  BY <1>1, <1>9, <1>12, Roles
<1> QED BY <1>1, <1>14, <1>15, <1>16, <1>17, <1>18 DEF Faithful

\* The entries, then the end offset of follower s.
LEMMA RemoteLogKeeps ==
    ASSUME Types, Types', NEW g, NEW h, NEW a, NEW c, NEW q, Faithful(g, h, a, c, q),
           NEW s \in Follower, UpdateRemoteLog(s)
    PROVE  Faithful(g, h, a, c, q)'
<1> DEFINE written == Written(rmt[s].end, L.end)
           new == [log[s] EXCEPT
                    !.mem = [x \in (DOMAIN @ \ written) \cup (DOMAIN L.mem \cap written) |->
                               IF x \in written THEN L.mem[x] ELSE @[x]],
                    !.end = L.end]
<1>1. FollowerPass(s, new) /\ s \in on /\ Distance(L.end, rmt[s].end) > 0
  BY Zenon DEF UpdateRemoteLog
<1>2. rmt' = [rmt EXCEPT ![s].end = L.end]
      /\ UNCHANGED <<apply_offsets, prev_head, on, prunes, submitted, committed>>
  BY Zenon DEF UpdateRemoteLog
<1>3. L \in Log /\ log[s] \in Log
  BY Roles DEF Types, L
<1>4. History(g) /\ LeadLog(L, g, h, a, c) /\ Tracked(g, h, q, c)
  BY DEF Faithful
<1>5. PICK n \in Nat : n = g.n
  BY <1>4, HistoryTypes
<1>6. PICK e \in Nat, b \in Nat, d \in Nat :
         /\ e \in h .. g.n + 1 /\ b \in h .. e /\ d \in b .. c /\ q[s] <= b
         /\ log[s].end = g.off[e] /\ log[s].apply = g.off[b] /\ log[s].commit = g.off[d]
         /\ \A i \in h .. e - 1 : Holds(log[s].mem, g, i)
         /\ rmt[s].end = g.off[e] /\ applied[s] = Upto(g.req[b])
  <2>1. Tracks(log[s], rmt[s].end, applied[s], g, h, q[s], c)
    BY <1>1, <1>4 DEF Tracked, Follower
  <2> QED BY <2>1 DEF Tracks
<1>7. /\ h \in 1 .. g.n + 1 /\ e \in 1 .. g.n + 1 /\ n + 1 \in 1 .. g.n + 1 /\ Near(g, h, g.n + 1)
      /\ h \in Nat /\ h <= e /\ e <= n + 1 /\ b <= e /\ h <= b /\ L.end = g.off[g.n + 1]
      /\ \A i \in h .. g.n : Holds(L.mem, g, i)
  BY <1>4, <1>5, <1>6 DEF LeadLog
<1>8. e < n + 1
  <2>1. g.off[n + 1] \in 0 .. Ring
    BY <1>4, HistoryTypes
  <2>2. e # n + 1
    BY <1>1, <1>5, <1>6, <1>7, <2>1 DEF Distance
  <2> QED BY <1>7, <2>2
<1>9. PICK k \in Log, l \in Log : k = log[s] /\ l = L
  BY <1>3
<1>10. PICK W : W = written
  OBVIOUS
<1>11. PICK m : m = [x \in (DOMAIN k.mem \ W) \cup (DOMAIN l.mem \cap W) |->
                       IF x \in W THEN l.mem[x] ELSE k.mem[x]]
  OBVIOUS
<1>12. new = [k EXCEPT !.mem = m, !.end = l.end]
  BY <1>9, <1>10, <1>11
<1>13. W = Written(g.off[e], g.off[g.n + 1])
  BY <1>6, <1>7, <1>10
<1> HIDE DEF new, written
<1>14. m \in Memories
  <2>1. Memory(k.mem) /\ Memory(l.mem)
    BY LogFields
  <2>2. PICK D \in SUBSET (0 .. Ring - 1) : D = (DOMAIN k.mem \ W) \cup (DOMAIN l.mem \cap W)
    BY <2>1 DEF Memory
  <2>3. m \in [D -> Entry]
    BY <1>11, <2>1, <2>2 DEF Memory
  <2> QED BY <2>3, InMemories
<1>15. /\ new \in Log /\ new.end = g.off[g.n + 1] /\ new.apply = g.off[b] /\ new.commit = g.off[d]
       /\ new.mem = m
  <2>1. l.end \in Offset
    BY LogFields
  <2> QED BY <1>6, <1>7, <1>9, <1>12, <1>14, <2>1 DEF Log
<1>16. ASSUME NEW i \in h .. g.n PROVE Holds(m, g, i)
  <2>1. i \in Nat /\ h <= i /\ i <= n /\ i \in 1 .. g.n + 1
    BY <1>5, <1>7
  <2>2. CASE i < e
    <3>1. Holds(k.mem, g, i)
      BY <1>6, <1>7, <1>9, <2>1, <2>2
    <3>2. ASSUME NEW p \in Heads(g, i) PROVE p \notin W
      <4>1. Near(g, h, n + 1) /\ e < n + 1
        BY <1>5, <1>7, <1>8
      <4>2. p \notin Written(g.off[e], g.off[n + 1])
        BY <1>4, <1>7, <2>1, <2>2, <4>1, Outside
      <4> QED BY <1>5, <1>13, <4>2
    <3> QED BY <1>11, <3>1, <3>2 DEF Holds
  <2>3. CASE ~(i < e)
    <3>1. Holds(l.mem, g, i)
      BY <1>7, <1>9
    <3>2. ASSUME NEW p \in Heads(g, i) PROVE p \in W
      <4>1. Near(g, e, n + 1) /\ e <= i /\ i < n + 1
        <5>1. Near(g, h, n + 1)
          BY <1>5, <1>7
        <5> QED BY <1>4, <1>7, <2>1, <2>3, <5>1, Between
      <4>2. p \in Written(g.off[e], g.off[n + 1])
        BY <1>4, <1>7, <2>1, <4>1, Inside
      <4> QED BY <1>5, <1>13, <4>2
    <3> QED BY <1>11, <3>1, <3>2 DEF Holds
  <2> QED BY <2>2, <2>3
<1>17. PICK y \in h .. g.n + 1 : y = g.n + 1
  BY <1>5, <1>7
<1>18. /\ b \in h .. y /\ new.end = g.off[y] /\ rmt'[s].end = g.off[y]
       /\ \A t \in Follower : t # s => rmt'[t] = rmt[t]
  <2>1. rmt'[s].end = L.end
    BY <1>2 DEF Types
  <2> QED BY <1>2, <1>5, <1>7, <1>15, <1>17, <2>1 DEF Types
<1>19. \A i \in h .. y - 1 : Holds(new.mem, g, i)
  <2>1. y - 1 = g.n
    BY <1>5, <1>17
  <2> QED BY <1>15, <1>16, <2>1
<1> QED BY <1>1, <1>2, <1>6, <1>15, <1>18, <1>19, PassKeeps

\* A new commit offset of follower s, at most its end or at most the leader's.
LEMMA RemoteCommitKeeps ==
    ASSUME Types, Types', NEW g, NEW h, NEW a, NEW c, NEW q, Faithful(g, h, a, c, q),
           NEW s \in Follower, UpdateRemoteCommit(s)
    PROVE  Faithful(g, h, a, c, q)'
<1> DEFINE o == IF Larger(L.end, L.commit, rmt[s].end) THEN rmt[s].end ELSE L.commit
           new == [log[s] EXCEPT !.commit = o]
<1>1. /\ s \in on /\ rmt' = [rmt EXCEPT ![s].commit = o] /\ FollowerPass(s, new)
      /\ UNCHANGED <<apply_offsets, prev_head, on, prunes, submitted, committed>>
  BY Zenon DEF UpdateRemoteCommit
<1>2. L \in Log /\ log[s] \in Log
  BY Roles DEF Types, L
<1>3. History(g) /\ LeadLog(L, g, h, a, c) /\ Tracked(g, h, q, c)
  BY DEF Faithful
<1>4. PICK n \in Nat : n = g.n
  BY <1>3, HistoryTypes
<1>5. PICK e \in Nat, b \in Nat, d \in Nat :
         /\ e \in h .. g.n + 1 /\ b \in h .. e /\ d \in b .. c /\ q[s] <= b
         /\ log[s].end = g.off[e] /\ log[s].apply = g.off[b] /\ log[s].commit = g.off[d]
         /\ \A i \in h .. e - 1 : Holds(log[s].mem, g, i)
         /\ rmt[s].end = g.off[e] /\ applied[s] = Upto(g.req[b])
  <2>1. Tracks(log[s], rmt[s].end, applied[s], g, h, q[s], c)
    BY <1>1, <1>3 DEF Tracked, Follower
  <2> QED BY <2>1 DEF Tracks
<1>6. /\ h \in 1 .. g.n + 1 /\ Near(g, h, g.n + 1) /\ h \in Nat
      /\ c \in h .. g.n + 1 /\ e \in h .. g.n + 1 /\ n + 1 \in h .. g.n + 1 /\ c \in Nat /\ b <= e /\ b <= c
      /\ L.end = g.off[n + 1] /\ L.commit = g.off[c]
  BY <1>3, <1>4, <1>5 DEF LeadLog
<1>7. PICK x \in b .. c : o = g.off[x]
  <2>1. CASE Larger(L.end, L.commit, rmt[s].end)
    <3>1. g.off[n + 1] # Ring
      <4>1. Distance(L.end, L.commit) \in Nat
        <5>1. L.end \in Offset /\ L.commit \in Offset
          BY <1>2, LogFields
        <5> QED BY <5>1, DistanceRange
      <4>2. L.end # Ring
        BY <2>1, <4>1 DEF Larger, Distance
      <4> QED BY <1>6, <4>2
    <3>2. Larger(g.off[n + 1], g.off[c], g.off[e])
      BY <1>5, <1>6, <2>1
    <3>3. Near(g, h, n + 1) /\ n + 1 \in h .. g.n + 1 /\ c \in h .. n + 1 /\ e \in h .. n + 1
      BY <1>4, <1>6
    <3>4. e < c
      BY <1>3, <1>6, <3>1, <3>2, <3>3, DistanceOrder
    <3>5. e \in b .. c
      BY <1>5, <1>6, <3>4
    <3> QED BY <1>5, <2>1, <3>5
  <2>2. CASE ~Larger(L.end, L.commit, rmt[s].end)
    <3>1. c \in b .. c
      BY <1>5, <1>6
    <3> QED BY <1>6, <2>2, <3>1
  <2> QED BY <2>1, <2>2
<1>8. o \in Offset
  <2>1. x \in Nat
    BY <1>5, <1>6
  <2> QED BY <1>3, <1>7, <2>1, HistoryTypes
<1>9. PICK w \in Offset : w = o
  BY <1>8
<1>10. new = [log[s] EXCEPT !.commit = w]
  BY <1>9
<1> HIDE DEF new, o
<1>11. /\ new \in Log /\ new.end = g.off[e] /\ new.apply = g.off[b] /\ new.commit = g.off[x]
       /\ new.mem = log[s].mem
  BY <1>2, <1>5, <1>7, <1>9, <1>10 DEF Log
<1>12. rmt'[s].end = g.off[e] /\ \A t \in Follower : t # s => rmt'[t] = rmt[t]
  BY <1>1, <1>5 DEF Types
<1>13. \A i \in h .. e - 1 : Holds(new.mem, g, i)
  BY <1>5, <1>11
<1> QED BY <1>1, <1>5, <1>7, <1>11, <1>12, <1>13, PassKeeps

-----------------------------------------------------------------------------
(* Pruning.                                                                *)

LEMMA SmallFootprint ==
    ASSUME NEW g, History(g), NEW e \in Entry, NEW G \in Nat, 2 * EntryLen(e) <= G
    PROVE  Footprint(g, e) \in 0 .. G
<1>1. PICK n \in Nat : n = g.n + 1
  BY HistoryTypes
<1>2. g.off[n] \in 0 .. Ring
  BY <1>1, HistoryTypes
<1>3. EntryLen(e) \in Hdr .. Ring
  BY SizeRange
<1>4. Footprint(g, e) = IF EntryLen(e) <= Ring - g.off[n] THEN EntryLen(e) ELSE Ring - g.off[n] + EntryLen(e)
  BY <1>1 DEF Footprint
<1> QED BY <1>2, <1>3, <1>4, Sizes

\* A head between the old one and the end is as good.
LEMMA HeadMoves ==
    ASSUME NEW g, History(g), NEW l, NEW h, NEW a, NEW c, LeadLog(l, g, h, a, c),
           NEW j \in h .. a, j <= g.n, NEW o \in {g.off[j], PlaceOf(g, j)}
    PROVE  /\ LeadLog([l EXCEPT !.head = o], g, j, a, c)
           /\ Gap(g, j, g.n + 1) <= Gap(g, h, g.n + 1)
<1>1. PICK n \in Nat \ {0} : n = g.n
  BY HistoryTypes
<1>2. /\ l \in Log /\ h \in 1 .. n /\ a \in h .. n + 1 /\ c \in a .. n + 1 /\ h \in Nat
      /\ l.end = g.off[g.n + 1] /\ l.tail = PlaceOf(g, g.n) /\ l.apply = g.off[a] /\ l.commit = g.off[c]
      /\ Near(g, h, g.n + 1) /\ \A i \in h .. g.n : Holds(l.mem, g, i)
  BY <1>1 DEF LeadLog
<1>3. /\ j \in 1 .. n /\ h <= j /\ j <= n + 1 /\ n + 1 <= n + 1 /\ Near(g, h, n + 1)
      /\ h \in 1 .. g.n + 1 /\ j \in 1 .. g.n + 1 /\ n + 1 \in 1 .. g.n + 1
  BY <1>1, <1>2
<1>4. /\ Near(g, j, n + 1) /\ Gap(g, h, n + 1) = Gap(g, h, j) + Gap(g, j, n + 1)
      /\ Gap(g, h, j) \in 0 .. Ring - 1 /\ Gap(g, j, n + 1) \in 0 .. Ring - 1
  BY <1>3, Between
<1>5. Gap(g, j, g.n + 1) <= Gap(g, h, g.n + 1)
  BY <1>1, <1>4, Sizes
<1>6. o \in Offset
  <2>1. j \in Nat /\ g.off[j] \in Offset /\ PlaceOf(g, j) \in 0 .. Ring - Hdr
    BY <1>3, HistoryTypes, PlaceRange
  <2> QED BY <2>1, Sizes DEF Offset
<1>7. PICK r : r = [l EXCEPT !.head = o]
  OBVIOUS
<1>8. /\ r \in Log /\ r.end = l.end /\ r.tail = l.tail /\ r.head = o /\ r.apply = l.apply
      /\ r.commit = l.commit /\ r.mem = l.mem
  BY <1>2, <1>6, <1>7 DEF Log
<1>9. a \in j .. n + 1 /\ \A i \in j .. g.n : i \in h .. g.n
  BY <1>1, <1>2, <1>3
<1>10. LeadLog(r, g, j, a, c)
  BY <1>1, <1>2, <1>3, <1>4, <1>8, <1>9 DEF LeadLog
<1> QED BY <1>5, <1>7, <1>10

\* What log_pruning finds: how far it may move the head, and when it does.
Prunable(l, g, h, a, q, alive, min, j) ==
    /\ j \in h .. a /\ j <= g.n /\ min \in {g.off[j], PlaceOf(g, j)}
    /\ \A s \in alive : j <= q[s]
    /\ \A y \in h .. a :
         /\ \A s \in alive : y <= q[s]
         /\ Gap(g, y, g.n + 1) < Distance(l.end, l.head)
         /\ Gap(g, g.n, g.n + 1) < Distance(l.end, l.head)
         => Larger(l.end, min, l.head) /\ (y <= j \/ j = g.n)

LEMMA Pruning ==
    ASSUME NEW g, History(g), NEW l, NEW h, NEW a, NEW c, NEW q, LeadLog(l, g, h, a, c), l.end # Ring,
           NEW ao \in [0 .. N -> Offset], Known(ao, g, h, q), NEW alive \in SUBSET Server,
           NEW known, known = [i \in DOMAIN ao |-> IF i \in Server \ alive THEN l.apply ELSE ao[i]],
           NEW min, min = IF Distance(l.end, MinApply(l, known)) = 0 THEN l.tail ELSE MinApply(l, known)
    PROVE  \E j \in h .. a : Prunable(l, g, h, a, q, alive, min, j)
<1>1. PICK n \in Nat \ {0} : n = g.n
  BY HistoryTypes
<1>2. /\ l \in Log /\ h \in 1 .. g.n /\ h \in 1 .. n /\ a \in h .. g.n + 1 /\ h \in Nat /\ a \in Nat /\ h <= a /\ a <= n + 1
      /\ l.end = g.off[g.n + 1] /\ l.tail = PlaceOf(g, g.n) /\ l.apply = g.off[a]
      /\ Near(g, h, g.n + 1) /\ g.off[g.n + 1] # Ring
  BY <1>1 DEF LeadLog
<1>3. PICK r : r = [s \in Server |-> IF s \in alive THEN q[s] ELSE a]
  OBVIOUS
<1>4. \A s \in Server : r[s] \in h .. g.n + 1 /\ known[s] = g.off[r[s]]
  BY <1>2, <1>3, Roles DEF Known
<1>5. known \in [0 .. N -> Offset]
  <2>1. l.apply \in Offset
    BY <1>2, LogFields
  <2> QED BY <2>1
<1>14. PICK m \in h .. a : FirstApplied(l, known, g, a, r, m)
  BY <1>2, <1>4, <1>5, MinApplyIndex
<1>6. /\ MinApply(l, known) = g.off[m] /\ \A s \in Server : m <= r[s]
      /\ m = a \/ \E s \in Server : m = r[s]
  BY <1>14 DEF FirstApplied
<1>7. m \in Nat /\ m <= n + 1 /\ h <= m /\ m <= a
  BY <1>2
<1>8. \A s \in alive : m <= q[s]
  BY <1>3, <1>6
<1>9. ASSUME NEW y \in h .. a, \A s \in alive : y <= q[s] PROVE y <= m
  <2>1. y <= a
    BY <1>2
  <2>2. \A s \in Server : y <= r[s]
    BY <1>3, <1>9, <2>1
  <2> QED BY <1>6, <2>1, <2>2
<1>10. /\ h \in 1 .. g.n + 1 /\ n + 1 \in h .. g.n + 1 /\ m \in h .. n + 1 /\ n \in h .. n + 1
       /\ Near(g, h, n + 1) /\ g.off[n + 1] # Ring /\ l.end = g.off[n + 1]
  BY <1>1, <1>2, <1>7
<1>11. /\ Distance(l.end, g.off[m]) = Gap(g, m, n + 1) /\ (Distance(l.end, g.off[m]) = 0 <=> m = n + 1)
  BY <1>10, DistanceOrder
<1>12. CASE m = n + 1
  <2>1. min = PlaceOf(g, n)
    BY <1>1, <1>2, <1>6, <1>11, <1>12
  <2>2. n \in h .. a /\ n <= g.n /\ \A s \in alive : n <= q[s]
    <3>1. \A s \in alive : q[s] \in Nat
      BY DEF Known
    <3> QED BY <1>1, <1>2, <1>7, <1>8, <1>12, <3>1
  <2>3. Distance(l.end, min) <= Gap(g, n, n + 1)
    <3>1. CASE min = g.off[n]
      BY <1>10, <3>1, DistanceOrder
    <3>2. CASE min # g.off[n]
      <4>1. ~InPlace(g, n) /\ min = 0
        BY <2>1, <3>2 DEF PlaceOf
      <4>2. g.off[n + 1] = Size(g, n) /\ Size(g, n) \in Hdr .. Ring
        <5>1. n \in 1 .. g.n /\ n \in Nat
          BY <1>1
        <5>2. Size(g, n) \in Hdr .. Ring
          BY <5>1, PlaceRange
        <5>3. g.off[n + 1] = PlaceOf(g, n) + Size(g, n)
          BY <5>1 DEF History, Follows
        <5>4. PlaceOf(g, n) = 0
          BY <2>1, <4>1
        <5>5. PICK z \in Nat : z = Size(g, n)
          BY <5>2, Sizes
        <5> QED BY <5>2, <5>3, <5>4, <5>5
      <4>3. Distance(l.end, min) = Size(g, n)
        BY <1>10, <4>1, <4>2, Sizes DEF Distance
      <4>4. g.lap[n + 1] = g.lap[n] + 1 /\ g.lap[n] \in Nat /\ g.off[n] \in 0 .. Ring
        BY <1>1, <4>1, HistoryTypes DEF History, Follows
      <4>5. Gap(g, n, n + 1) = Ring - g.off[n] + g.off[n + 1]
        BY <4>4 DEF Gap
      <4> QED BY <4>2, <4>3, <4>4, <4>5, Sizes
    <3> QED BY <3>1, <3>2
  <2>4. Distance(l.end, min) \in 0 .. Ring /\ Distance(l.end, l.head) \in 0 .. Ring /\ Gap(g, n, n + 1) \in 0 .. Ring - 1
    <3>1. min \in Offset /\ l.head \in Offset /\ l.end \in Offset
      BY <1>2, <2>1, <1>1, LogFields
    <3> QED BY <1>10, <3>1, DistanceRange, DistanceOrder
  <2>5. Gap(g, n, n + 1) < Distance(l.end, l.head) => Larger(l.end, min, l.head)
    BY <2>3, <2>4, Sizes DEF Larger
  <2> QED BY <1>1, <2>1, <2>2, <2>5 DEF Prunable
<1>13. CASE m # n + 1
  <2>1. min = g.off[m]
    BY <1>6, <1>11, <1>13
  <2>2. m <= g.n
    BY <1>1, <1>7, <1>13
  <2>3. ASSUME NEW y \in h .. a, \A s \in alive : y <= q[s], Gap(g, y, n + 1) < Distance(l.end, l.head)
        PROVE  Larger(l.end, min, l.head) /\ y <= m
    <3>1. y <= m /\ y \in 1 .. g.n + 1 /\ m \in 1 .. g.n + 1 /\ n + 1 \in 1 .. g.n + 1 /\ y \in Nat /\ h <= y
      BY <1>1, <1>2, <1>7, <1>9, <2>2, <2>3
    <3>2. Near(g, y, n + 1)
      BY <1>7, <1>10, <3>1, Between
    <3>3. /\ Gap(g, y, n + 1) = Gap(g, y, m) + Gap(g, m, n + 1)
          /\ Gap(g, y, m) \in 0 .. Ring - 1 /\ Gap(g, m, n + 1) \in 0 .. Ring - 1
      <4>1. y \in 1 .. g.n + 1 /\ m \in 1 .. g.n + 1 /\ n + 1 \in 1 .. g.n + 1
            /\ y <= m /\ m <= n + 1 /\ Near(g, y, n + 1)
        BY <1>7, <3>1, <3>2
      <4> QED BY <4>1, Between
    <3>4. Distance(l.end, l.head) \in 0 .. Ring
      BY <1>2, LogFields, DistanceRange
    <3> QED BY <1>11, <2>1, <2>3, <3>1, <3>3, <3>4, Sizes DEF Larger
  <2> QED BY <1>1, <1>6, <1>8, <2>1, <2>2, <2>3 DEF Prunable
<1> QED BY <1>12, <1>13

\* What log_pruning with the log l leaves: the history may have got a HEAD entry, and the
\* apply offsets are fresh.
AfterPruning(l, g, h, a, c, q, alive, prev, k, j, p) ==
    /\ History(k) /\ Grown(g, k) /\ LeadLog(log'[Leader], k, j, a, c) /\ j \in h .. a
    /\ \A s \in Server \ {Leader} : log'[s] = log[s]
    /\ Known(apply_offsets', k, j, p)
    /\ \A s \in alive \ {Leader} : Tracks(log[s], rmt[s].end, applied[s], k, j, p[s], c)
    /\ \A s \in Server : s \notin alive \ {Leader} => p[s] = a
    /\ \/ k = g /\ j = h /\ prev_head' = prev /\ log'[Leader] = l
       \/ ~prev /\ prev_head' /\ l.end # Ring
          /\ \E v \in Offset : k = Extend(g, [type |-> "HEAD", len |-> 0, val |-> v])
    /\ \A y \in h .. a :
         /\ ~prev /\ l.end # Ring
         /\ \A s \in alive : y <= q[s]
         /\ Gap(g, y, g.n + 1) < Distance(l.end, l.head)
         /\ Gap(g, g.n, g.n + 1) < Distance(l.end, l.head)
         => y <= j \/ j = g.n

LEMMA PruningKeeps ==
    ASSUME Types, NEW g, History(g), NEW l, NEW h, NEW a, NEW c, LeadLog(l, g, h, a, c),
           NEW ao \in [0 .. N -> Offset], NEW q, Known(ao, g, h, q),
           NEW alive \in SUBSET Server, Leader \in alive, NEW prev \in BOOLEAN,
           LogPruning(l, ao, alive, prev),
           \A s \in alive \ {Leader} : Tracks(log[s], rmt[s].end, applied[s], g, h, q[s], c),
           NEW G \in Nat, 2 * Hdr <= G, Gap(g, h, g.n + 1) + G < Ring
    PROVE  \E k, j, p : AfterPruning(l, g, h, a, c, q, alive, prev, k, j, p)
<1> DEFINE known == [i \in DOMAIN ao |-> IF i \in Server \ alive THEN l.apply ELSE ao[i]]
           least == MinApply(l, known)
           min   == IF Distance(l.end, least) = 0 THEN l.tail ELSE least
           prune == Larger(l.end, min, l.head) /\ ~prev
<1>1. /\ log' = [log EXCEPT ![Leader] =
                   IF prune THEN Appended([l EXCEPT !.head = min], "HEAD", 0, min) ELSE l]
      /\ prev_head' = (prev \/ prune)
      /\ apply_offsets' = [i \in DOMAIN ao |->
           IF i = Leader \/ i \in Server \ alive THEN l.apply
           ELSE IF i \in alive THEN log[i].apply ELSE ao[i]]
  BY Zenon DEF LogPruning
<1>2. PICK n \in Nat \ {0} : n = g.n
  BY HistoryTypes
<1>3. /\ l \in Log /\ h \in 1 .. g.n /\ h \in Nat /\ a \in h .. g.n + 1 /\ c \in a .. g.n + 1
      /\ a \in Nat /\ c \in 1 .. g.n + 1 /\ h <= a /\ a <= n + 1 /\ c \in Nat
      /\ l.end = g.off[g.n + 1] /\ l.apply = g.off[a] /\ Near(g, h, g.n + 1)
  BY <1>2 DEF LeadLog
<1>4. PICK z : z = min
  OBVIOUS
<1>5. l.end # Ring => \E j \in h .. a : Prunable(l, g, h, a, q, alive, z, j)
  <2>1. PICK kn : kn = known
    OBVIOUS
  <2>2. z = IF Distance(l.end, MinApply(l, kn)) = 0 THEN l.tail ELSE MinApply(l, kn)
    BY <1>4, <2>1
  <2> HIDE DEF known
  <2> QED BY <2>1, <2>2, Pruning DEF known
<1>6. prune <=> Larger(l.end, z, l.head) /\ ~prev
  BY <1>4
<1>7. log' = [log EXCEPT ![Leader] =
                   IF prune THEN Appended([l EXCEPT !.head = z], "HEAD", 0, z) ELSE l]
  BY <1>1, <1>4
<1> HIDE DEF known, least, min, prune
<1>8. ASSUME NEW j \in h .. a, \A s \in alive : j <= q[s], j <= g.n,
             NEW k, History(k), Grown(g, k), LeadLog(log'[Leader], k, j, a, c)
      PROVE  \E p : /\ Known(apply_offsets', k, j, p)
                    /\ \A s \in alive \ {Leader} : Tracks(log[s], rmt[s].end, applied[s], k, j, p[s], c)
                    /\ \A s \in Server : s \notin alive \ {Leader} => p[s] = a
  <2> DEFINE Is(s, x) == /\ x \in h .. g.n + 1 /\ x \in Nat /\ q[s] <= x /\ log[s].apply = g.off[x]
                         /\ Tracks(log[s], rmt[s].end, applied[s], g, h, x, c)
             p == [s \in Server |-> IF s \in alive \ {Leader} THEN CHOOSE x : Is(s, x) ELSE a]
  <2>1. ASSUME NEW s \in alive \ {Leader}
        PROVE  Is(s, p[s]) /\ j <= p[s] /\ j <= q[s]
    <3>1. s \in Server /\ q[s] \in Nat /\ j <= q[s]
      BY <1>8 DEF Known
    <3>2. \E x : Is(s, x)
      <4>1. \E x \in h .. g.n + 1 : x \in Nat /\ q[s] <= x /\ log[s].apply = g.off[x]
                                    /\ Tracks(log[s], rmt[s].end, applied[s], g, h, x, c)
        BY <1>3, <3>1, TracksFresh
      <4> QED BY <4>1
    <3>3. p[s] = CHOOSE x : Is(s, x)
      BY <3>1
    <3>4. Is(s, p[s])
      <4> HIDE DEF p, Is
      <4> QED BY <3>2, <3>3, Zenon
    <3>5. j \in Nat
      BY <1>3
    <3>6. PICK x : x = p[s]
      OBVIOUS
    <3>7. Is(s, x)
      BY <3>4, <3>6
    <3> HIDE DEF p
    <3> QED BY <3>1, <3>4, <3>5, <3>6, <3>7
  <2>2. \A s \in Server : s \notin alive \ {Leader} => p[s] = a
    OBVIOUS
  <2>3. DOMAIN p = Server /\ p = [s \in Server |-> p[s]]
    OBVIOUS
  <2>4. g.n <= k.n /\ k.n \in Nat
    BY <1>8, HistoryTypes DEF Grown
  <2>5. ASSUME NEW s \in Server
        PROVE  p[s] \in Nat /\ p[s] \in j .. k.n + 1 /\ apply_offsets'[s] = k.off[p[s]]
    <3>1. \A x \in 1 .. g.n + 1 : k.off[x] = g.off[x]
      BY <1>8 DEF Grown
    <3>2. s \in DOMAIN ao /\ s \in 0 .. N
      BY Roles
    <3>3. CASE s \in alive \ {Leader}
      <4>1. PICK x : x = p[s]
        OBVIOUS
      <4>2. Is(s, x) /\ j <= x
        BY <2>1, <3>3, <4>1
      <4>3. apply_offsets'[s] = log[s].apply
        BY <1>1, <3>2, <3>3
      <4>4. x \in j .. k.n + 1 /\ x \in 1 .. g.n + 1
        BY <1>2, <1>3, <2>4, <4>2
      <4> HIDE DEF p
      <4> QED BY <3>1, <4>1, <4>2, <4>3, <4>4
    <3>4. CASE s \notin alive \ {Leader}
      <4>1. p[s] = a
        BY <2>2, <3>4
      <4>2. apply_offsets'[s] = l.apply
        BY <1>1, <3>2, <3>4
      <4>3. a \in j .. k.n + 1 /\ a \in 1 .. g.n + 1
        BY <1>2, <1>3, <1>8, <2>4
      <4> HIDE DEF p
      <4> QED BY <1>3, <3>1, <4>1, <4>2, <4>3
    <3> QED BY <3>3, <3>4
  <2>6. ASSUME NEW s \in alive \ {Leader}
        PROVE  Tracks(log[s], rmt[s].end, applied[s], k, j, p[s], c)
    <3>1. PICK x : x = p[s]
      OBVIOUS
    <3>2. Is(s, x) /\ j <= x
      BY <2>1, <3>1
    <3>3. j \in h .. x /\ x \in Nat /\ c <= c
      BY <1>3, <3>2
    <3>4. Tracks(log[s], rmt[s].end, applied[s], g, h, x, c)
      BY <3>2
    <3>5. Tracks(log[s], rmt[s].end, applied[s], k, j, x, c)
      BY <1>3, <1>8, <3>3, <3>4, TracksOn
    <3> HIDE DEF p
    <3> QED BY <3>1, <3>5
  <2> HIDE DEF p
  <2>7. p \in [Server -> Nat]
    BY <2>3, <2>5
  <2>8. Known(apply_offsets', k, j, p)
    BY <2>5, <2>7 DEF Known
  <2> QED BY <2>2, <2>6, <2>8
<1>9. \A s \in Server \ {Leader} : log'[s] = log[s]
  BY <1>1 DEF Types
<1>10. CASE ~prune
  <2>1. log'[Leader] = l /\ prev_head' = prev
    BY <1>1, <1>10, Roles DEF Types
  <2>2. LeadLog(log'[Leader], g, h, a, c) /\ Grown(g, g)
    BY <2>1, GrownSteps
  <2>3. h \in h .. a /\ h <= g.n
    BY <1>2, <1>3
  <2>4. \A s \in alive : h <= q[s]
    BY <1>2, <1>3 DEF Known
  <2>5. PICK p : /\ Known(apply_offsets', g, h, p)
                 /\ \A s \in alive \ {Leader} : Tracks(log[s], rmt[s].end, applied[s], g, h, p[s], c)
                 /\ \A s \in Server : s \notin alive \ {Leader} => p[s] = a
    BY <1>8, <2>2, <2>3, <2>4
  <2>6. ASSUME NEW y \in h .. a, ~prev, l.end # Ring, \A s \in alive : y <= q[s],
               Gap(g, y, g.n + 1) < Distance(l.end, l.head),
               Gap(g, g.n, g.n + 1) < Distance(l.end, l.head)
        PROVE  FALSE
    <3>1. PICK j \in h .. a : Prunable(l, g, h, a, q, alive, z, j)
      BY <1>5, <2>6
    <3>2. Larger(l.end, z, l.head)
      BY <2>6, <3>1 DEF Prunable
    <3> QED BY <1>6, <1>10, <2>6, <3>2
  <2>7. AfterPruning(l, g, h, a, c, q, alive, prev, g, h, p)
    BY <1>9, <2>1, <2>2, <2>3, <2>5, <2>6 DEF AfterPruning
  <2> QED BY <2>7
<1>11. CASE prune
  <2>1. ~prev /\ prev_head' /\ Larger(l.end, z, l.head)
    BY <1>1, <1>6, <1>11
  <2>2. l.end # Ring
    BY <2>1 DEF Larger, Distance
  <2>3. PICK j \in h .. a : Prunable(l, g, h, a, q, alive, z, j)
    BY <1>5, <2>2
  <2>4. /\ j \in h .. a /\ j <= g.n /\ z \in {g.off[j], PlaceOf(g, j)} /\ \A s \in alive : j <= q[s]
        /\ \A y \in h .. a :
             /\ \A s \in alive : y <= q[s]
             /\ Gap(g, y, g.n + 1) < Distance(l.end, l.head)
             /\ Gap(g, g.n, g.n + 1) < Distance(l.end, l.head)
             => Larger(l.end, z, l.head) /\ (y <= j \/ j = g.n)
    BY <2>3 DEF Prunable
  <2>5. PICK x : x = [l EXCEPT !.head = z]
    OBVIOUS
  <2>6. LeadLog(x, g, j, a, c) /\ Gap(g, j, g.n + 1) <= Gap(g, h, g.n + 1)
    BY <2>4, <2>5, HeadMoves
  <2>7. z \in Offset
    <3>1. j \in Nat /\ g.off[j] \in Offset /\ PlaceOf(g, j) \in 0 .. Ring - Hdr
      <4>1. j \in Nat
        BY <1>3
      <4> QED BY <4>1, HistoryTypes, PlaceRange
    <3>2. PlaceOf(g, j) \in Offset
      BY <3>1, Sizes DEF Offset
    <3>3. z = g.off[j] \/ z = PlaceOf(g, j)
      BY <2>4
    <3> QED BY <3>1, <3>2, <3>3
  <2>8. PICK e \in Entry : e = [type |-> "HEAD", len |-> 0, val |-> z]
    BY <2>7, EntryTypes
  <2>9. PICK k : k = Extend(g, e)
    OBVIOUS
  <2>10. e.type # "CSM" /\ EntryLen(e) = Hdr
    BY <2>8, Sizes DEF EntryLen
  <2>11. History(k) /\ Extends(g, k, e) /\ Grown(g, k)
    <3>1. History(k) /\ Extends(g, k, e)
      BY <2>9, <2>10, Extension
    <3> QED BY <3>1, GrownSteps
  <2>12. Gap(g, j, g.n + 1) + Footprint(g, e) < Ring
    <3>1. Footprint(g, e) \in 0 .. G
      BY <2>10, SmallFootprint
    <3>2. /\ Gap(g, j, g.n + 1) \in 0 .. Ring - 1 /\ Gap(g, h, g.n + 1) \in 0 .. Ring - 1
      <4>1. j \in 1 .. g.n + 1 /\ h \in 1 .. g.n + 1 /\ n + 1 \in 1 .. g.n + 1 /\ j <= n + 1 /\ h <= n + 1
            /\ Near(g, h, n + 1) /\ h <= h /\ h <= j
        BY <1>2, <1>3, <2>4
      <4>2. Gap(g, j, n + 1) \in 0 .. Ring - 1 /\ Gap(g, h, n + 1) \in 0 .. Ring - 1
        BY <4>1, Between
      <4> QED BY <1>2, <4>2
    <3> QED BY <2>6, <3>1, <3>2, Sizes
  <2>13. LeadLog(Appended(x, "HEAD", 0, z), k, j, a, c)
    BY <2>6, <2>8, <2>9, <2>10, <2>12, Appending
  <2>14. log'[Leader] = Appended(x, "HEAD", 0, z)
    BY <1>7, <1>11, <2>5, Roles DEF Types
  <2>15. PICK p : /\ Known(apply_offsets', k, j, p)
                  /\ \A s \in alive \ {Leader} : Tracks(log[s], rmt[s].end, applied[s], k, j, p[s], c)
                  /\ \A s \in Server : s \notin alive \ {Leader} => p[s] = a
    BY <1>8, <2>4, <2>11, <2>13, <2>14
  <2>16. \E v \in Offset : k = Extend(g, [type |-> "HEAD", len |-> 0, val |-> v])
    BY <2>7, <2>8, <2>9
  <2>17. AfterPruning(l, g, h, a, c, q, alive, prev, k, j, p)
    BY <1>9, <2>1, <2>2, <2>4, <2>11, <2>13, <2>14, <2>15, <2>16 DEF AfterPruning
  <2> QED BY <2>17
<1> QED BY <1>10, <1>11

-----------------------------------------------------------------------------
(* A pass of the leader, up to the pruning.                                *)

\* Every entry takes at most G bytes, with what stays free before it.
Grain(G) == /\ G \in Nat /\ 2 * Hdr <= G
            /\ \A i \in 1 .. MaxReq : 2 * (Hdr + DataLen[i]) <= G

Command(i) == [type |-> "CSM", len |-> DataLen[i], val |-> i]

\* k requests have been taken, and the log is now l.
Passed(g, h, a, c, k, l, g1, a1, c1) ==
    /\ \/ k = 0 /\ g1 = g
       \/ /\ k = 1 /\ submitted < MaxReq /\ submitted - Len(applied[Leader]) < Clients
          /\ g1 = Extend(g, Command(submitted + 1))
    /\ History(g1) /\ Grown(g, g1) /\ LeadLog(l, g1, h, a1, c1)
    /\ a1 \in a .. g1.n + 1 /\ c1 \in c .. g1.n + 1
    /\ submitted' = g1.req[g1.n + 1] /\ committed' = g1.req[c1]
    /\ applied' = [applied EXCEPT ![Leader] = Upto(g1.req[a1])]
    /\ IF Crowded(l) THEN ForceLogPruning(l, prev_head /\ k = 0)
       ELSE /\ log' = [log EXCEPT ![Leader] = l]
            /\ prev_head' = (prev_head /\ k = 0)
            /\ UNCHANGED <<apply_offsets, on>>
    /\ UNCHANGED <<rmt, prunes>>

\* The commit offset and the apply offset go on to where other entries are looked for.
LeaderRead(r, g, h, a, c, d, p) ==
    \E a1 \in a .. g.n + 1, c1 \in c .. g.n + 1 :
      /\ LeadLog(r, g, h, a1, c1)
      /\ g.req[a] \in Nat /\ g.req[a1] \in Nat /\ g.req[a] <= g.req[a1]
      /\ g.req[c] \in Nat /\ g.req[c1] \in Nat /\ g.req[c] <= g.req[c1]
      /\ ToApply(d).csm = From(g.req[a], g.req[a1])
      /\ Len(Committed(p).csm) = g.req[c1] - g.req[c]

LEMMA LeaderReads ==
    ASSUME NEW g, History(g), NEW l, NEW h, NEW a, NEW c, LeadLog(l, g, h, a, c),
           NEW p, p = [l EXCEPT !.old_end = NewEntries(l).off],
           NEW d, d = [p EXCEPT !.commit = Committed(p).off],
           NEW r, r = [d EXCEPT !.apply = ToApply(d).off]
    PROVE  LeaderRead(r, g, h, a, c, d, p)
<1>1. PICK n \in Nat \ {0} : n = g.n
  BY HistoryTypes
<1>2. PICK e \in Nat : e = n + 1
  OBVIOUS
<1>3. /\ l \in Log /\ h \in 1 .. g.n /\ h \in 1 .. g.n + 1 /\ e \in 1 .. g.n + 1 /\ h \in Nat /\ h <= e
      /\ a \in h .. e /\ c \in a .. e /\ a \in Nat /\ c \in Nat /\ a <= c /\ c \in h .. e
      /\ l.end = g.off[e] /\ l.tail = PlaceOf(g, g.n) /\ l.head \in {g.off[h], PlaceOf(g, h)}
      /\ l.apply = g.off[a] /\ l.commit = g.off[c] /\ Near(g, h, e)
      /\ \A i \in h .. e - 1 : Holds(l.mem, g, i)
  BY <1>1, <1>2 DEF LeadLog
<1>4. /\ p \in Log /\ p.end = l.end /\ p.tail = l.tail /\ p.head = l.head /\ p.apply = l.apply
      /\ p.commit = l.commit /\ p.mem = l.mem
  <2>1. PICK o \in Offset : o = NewEntries(l).off
    BY <1>3, LogFields, WalkPlaces DEF NewEntries
  <2>2. p = [l EXCEPT !.old_end = o]
    BY <2>1
  <2> QED BY <1>3, <2>2 DEF Log
<1>5. InMemory(p, g, h, e)
  BY <1>3, <1>4, LogFields DEF InMemory
<1>6. PICK c1 \in c .. e : Committed(p).off = g.off[c1] /\ Committed(p).csm = From(g.req[c], g.req[c1])
  <2>1. PICK Go : Go = [o \in Nat |-> Replied(p, At(p.mem, o))]
    OBVIOUS
  <2>2. Walked(p, g, e, Go, c)
    BY <1>3, <1>5, Walking
  <2>3. Committed(p) = Walk(p, g.off[c], Go)
    BY <1>3, <1>4, <2>1 DEF Committed
  <2> QED BY <2>2, <2>3 DEF Walked
<1>7. /\ c1 \in Nat /\ c <= c1 /\ c1 \in h .. e /\ c1 \in 1 .. g.n + 1 /\ c \in 1 .. g.n + 1 /\ c1 \in a .. g.n + 1
      /\ a \in 1 .. g.n + 1
  BY <1>1, <1>2, <1>3
<1>8. /\ d \in Log /\ d.end = l.end /\ d.tail = l.tail /\ d.head = l.head /\ d.apply = l.apply
      /\ d.commit = g.off[c1] /\ d.mem = l.mem
  <2>1. PICK o \in Offset : o = g.off[c1]
    BY <1>7, HistoryTypes
  <2>2. d = [p EXCEPT !.commit = o]
    BY <1>6, <2>1
  <2> QED BY <1>4, <2>1, <2>2 DEF Log
<1>9. PICK a1 \in a .. e : /\ a1 <= c1 /\ ToApply(d).off = g.off[a1]
                           /\ ToApply(d).csm = From(g.req[a], g.req[a1])
  <2>1. /\ Near(g, h, g.n + 1) /\ e \in h .. g.n + 1 /\ a \in h .. e /\ c1 \in a .. g.n + 1
        /\ d.end = g.off[e] /\ d.apply = g.off[a] /\ \A i \in h .. e - 1 : Holds(d.mem, g, i)
    BY <1>1, <1>2, <1>3, <1>7, <1>8
  <2>2. Applies(d, g, a, c1, e)
    BY <1>3, <1>8, <2>1, ApplyingOn
  <2> QED BY <2>2 DEF Applies
<1>10. /\ r \in Log /\ r.end = l.end /\ r.tail = l.tail /\ r.head = l.head /\ r.apply = g.off[a1]
       /\ r.commit = g.off[c1] /\ r.mem = l.mem
  <2>1. a1 \in Nat
    BY <1>3
  <2>2. PICK o \in Offset : o = g.off[a1]
    BY <2>1, HistoryTypes
  <2>3. r = [d EXCEPT !.apply = o]
    BY <1>9, <2>2
  <2> QED BY <1>8, <2>2, <2>3 DEF Log
<1>11. /\ a1 \in Nat /\ a <= a1 /\ a1 \in a .. g.n + 1 /\ a1 \in h .. g.n + 1 /\ c1 \in a1 .. g.n + 1
       /\ c1 \in c .. g.n + 1 /\ a1 \in 1 .. g.n + 1
  BY <1>1, <1>2, <1>3, <1>7, <1>9
<1>12. LeadLog(r, g, h, a1, c1)
  <2>1. g.n + 1 = e /\ \A i \in h .. g.n : i \in h .. e - 1
    BY <1>1, <1>2
  <2> QED BY <1>3, <1>10, <1>11, <2>1 DEF LeadLog
<1>13. ASSUME NEW x \in 1 .. g.n + 1, NEW y \in 1 .. g.n + 1, x <= y
       PROVE  g.req[x] \in Nat /\ g.req[y] \in Nat /\ g.req[x] <= g.req[y]
  <2>1. x \in Nat /\ y \in Nat /\ (x = y \/ x < y)
    BY <1>1, <1>13
  <2>2. x < y => g.req[x] <= g.req[y]
    BY DEF History, Before
  <2>3. g.req[x] \in Nat /\ g.req[y] \in Nat
    BY <2>1, HistoryTypes
  <2> QED BY <2>1, <2>2, <2>3
<1>14. /\ g.req[a] \in Nat /\ g.req[a1] \in Nat /\ g.req[a] <= g.req[a1]
       /\ g.req[c] \in Nat /\ g.req[c1] \in Nat /\ g.req[c] <= g.req[c1]
  BY <1>7, <1>11, <1>13
<1>15. Len(Committed(p).csm) = g.req[c1] - g.req[c]
  BY <1>6, <1>14, FromSeq
<1> QED BY <1>9, <1>11, <1>12, <1>14, <1>15 DEF LeaderRead

LEMMA Passing ==
    ASSUME Types, NEW g, NEW h, NEW a, NEW c, NEW q, Faithful(g, h, a, c, q), LeaderPass,
           NEW G, Grain(G), Gap(g, h, g.n + 1) + G < Ring
    PROVE  \E k, l, g1, a1, c1 : k \in 0 .. 1 /\ l \in Log /\ Passed(g, h, a, c, k, l, g1, a1, c1)
<1> DEFINE A(k) == IF k = 1 THEN Appended(L, "CSM", DataLen[submitted + 1], submitted + 1) ELSE L
           P(x) == [x EXCEPT !.old_end = NewEntries(x).off]
           C(x) == [x EXCEPT !.commit = Committed(x).off]
           E(x) == [x EXCEPT !.apply = ToApply(x).off]
<1>1. PICK k \in 0 .. 1 :
        LET done == Committed(P(A(k)))
            todo == ToApply(C(P(A(k))))
            l == E(C(P(A(k))))
        IN  /\ k = 1 => submitted < MaxReq /\ submitted - Len(applied[Leader]) < Clients
            /\ submitted' = submitted + k
            /\ committed' = committed + Len(done.csm)
            /\ applied' = [applied EXCEPT ![Leader] = @ \o todo.csm]
            /\ IF Crowded(l) THEN ForceLogPruning(l, prev_head /\ k = 0)
               ELSE /\ log' = [log EXCEPT ![Leader] = l]
                    /\ prev_head' = (prev_head /\ k = 0)
                    /\ UNCHANGED <<apply_offsets, on>>
            /\ UNCHANGED <<rmt, prunes>>
  BY Zenon DEF LeaderPass
<1>2. PICK l0 : l0 = A(k)
  OBVIOUS
<1>3. PICK p : p = P(l0)
  OBVIOUS
<1>4. PICK d : d = C(p)
  OBVIOUS
<1>5. PICK l : l = E(d)
  OBVIOUS
<1>6. /\ k = 1 => submitted < MaxReq /\ submitted - Len(applied[Leader]) < Clients
      /\ submitted' = submitted + k
      /\ committed' = committed + Len(Committed(p).csm)
      /\ applied' = [applied EXCEPT ![Leader] = @ \o ToApply(d).csm]
      /\ IF Crowded(l) THEN ForceLogPruning(l, prev_head /\ k = 0)
         ELSE /\ log' = [log EXCEPT ![Leader] = l]
              /\ prev_head' = (prev_head /\ k = 0)
              /\ UNCHANGED <<apply_offsets, on>>
      /\ UNCHANGED <<rmt, prunes>>
  <2> HIDE DEF A, P, C, E
  <2> QED BY <1>1, <1>2, <1>3, <1>4, <1>5, Zenon
<1>7. /\ History(g) /\ LeadLog(L, g, h, a, c)
      /\ submitted = g.req[g.n + 1] /\ committed = g.req[c] /\ applied[Leader] = Upto(g.req[a])
      /\ applied \in [Server -> Seq(Nat)]
  BY DEF Faithful
<1>8. PICK n \in Nat \ {0} : n = g.n
  BY <1>7, HistoryTypes
<1>9. submitted \in Nat /\ MaxReq \in Nat
  BY LogAssumption DEF Types, MaxReq
<1>10. PICK g1 : g1 = IF k = 1 THEN Extend(g, Command(submitted + 1)) ELSE g
  OBVIOUS
<1>11. /\ History(g1) /\ Grown(g, g1) /\ LeadLog(l0, g1, h, a, c) /\ submitted' = g1.req[g1.n + 1]
  <2>1. CASE k = 1
    <3>1. submitted + 1 \in 1 .. MaxReq
      BY <1>6, <1>9, <2>1
    <3>2. PICK e \in Entry : e = Command(submitted + 1)
      BY <3>1, CommandType DEF Command
    <3>3. e = [type |-> "CSM", len |-> DataLen[submitted + 1], val |-> submitted + 1]
      BY <3>2 DEF Command
    <3>4. e.type = "CSM" => e.val = g.req[g.n + 1] + 1
      BY <1>7, <3>3
    <3>5. Footprint(g, e) \in 0 .. G
      <4>1. 2 * EntryLen(e) <= G /\ G \in Nat
        BY <3>1, <3>3 DEF Grain, EntryLen
      <4> QED BY <1>7, <4>1, SmallFootprint
    <3>6. g1 = Extend(g, e)
      BY <1>10, <2>1, <3>2
    <3>7. History(g1) /\ Extends(g, g1, e) /\ Grown(g, g1)
      <4>1. History(g1) /\ Extends(g, g1, e)
        BY <1>7, <3>4, <3>6, Extension
      <4> QED BY <1>7, <4>1, GrownSteps
    <3>8. Gap(g, h, g.n + 1) + Footprint(g, e) < Ring
      <4>1. Gap(g, h, g.n + 1) \in 0 .. Ring - 1
        <5>1. h \in 1 .. g.n + 1 /\ g.n + 1 \in 1 .. g.n + 1 /\ h <= g.n + 1 /\ g.n + 1 <= g.n + 1 /\ Near(g, h, g.n + 1)
          BY <1>7, <1>8 DEF LeadLog
        <5> QED BY <1>7, <5>1, Between
      <4> QED BY <3>5, <4>1, Sizes DEF Grain
    <3>9. LeadLog(Appended(L, "CSM", DataLen[submitted + 1], submitted + 1), g1, h, a, c)
      BY <1>7, <3>3, <3>4, <3>6, <3>8, Appending
    <3>10. submitted' = g1.req[g1.n + 1]
      <4>1. Follows(g1, n + 1) /\ g1.n = n + 1 /\ g1.ent[n + 1] = e /\ g1.req[n + 1] = g.req[n + 1]
        BY <1>8, <3>7 DEF Extends, History
      <4>2. e.type = "CSM"
        BY <3>3
      <4>3. g1.req[(n + 1) + 1] = g1.req[n + 1] + 1
        BY <4>1, <4>2 DEF Follows
      <4> QED BY <1>6, <1>7, <1>8, <2>1, <4>1, <4>3
    <3> QED BY <1>2, <2>1, <3>7, <3>9, <3>10
  <2>2. CASE k # 1
    <3>1. k = 0
      BY <2>2
    <3> QED BY <1>2, <1>6, <1>7, <1>9, <1>10, <3>1, GrownSteps
  <2> QED BY <2>1, <2>2
<1>12. PICK a1 \in a .. g1.n + 1, c1 \in c .. g1.n + 1 :
             /\ LeadLog(l, g1, h, a1, c1)
             /\ g1.req[a] \in Nat /\ g1.req[a1] \in Nat /\ g1.req[a] <= g1.req[a1]
             /\ g1.req[c] \in Nat /\ g1.req[c1] \in Nat /\ g1.req[c] <= g1.req[c1]
             /\ ToApply(d).csm = From(g1.req[a], g1.req[a1])
             /\ Len(Committed(p).csm) = g1.req[c1] - g1.req[c]
  <2>1. LeaderRead(l, g1, h, a, c, d, p)
    BY <1>3, <1>4, <1>5, <1>11, LeaderReads
  <2> QED BY <2>1 DEF LeaderRead
<1> HIDE DEF A, P, C, E
<1>13. g1.req[a] = g.req[a] /\ g1.req[c] = g.req[c]
  <2>1. a \in 1 .. g.n + 1 /\ c \in 1 .. g.n + 1
    BY <1>7, <1>8 DEF LeadLog
  <2> QED BY <1>11, <2>1 DEF Grown
<1>14. committed' = g1.req[c1]
  BY <1>6, <1>7, <1>12, <1>13
<1>15. applied' = [applied EXCEPT ![Leader] = Upto(g1.req[a1])]
  <2>1. Upto(g1.req[a]) \o From(g1.req[a], g1.req[a1]) = Upto(g1.req[a1])
    BY <1>12, UptoFrom
  <2> QED BY <1>6, <1>7, <1>12, <1>13, <2>1
<1>16. l \in Log
  BY <1>12 DEF LeadLog
<1>17. Passed(g, h, a, c, k, l, g1, a1, c1)
  <2>1. \/ k = 0 /\ g1 = g
        \/ /\ k = 1 /\ submitted < MaxReq /\ submitted - Len(applied[Leader]) < Clients
           /\ g1 = Extend(g, Command(submitted + 1))
    BY <1>6, <1>10
  <2> QED BY <1>6, <1>11, <1>12, <1>14, <1>15, <2>1 DEF Passed
<1> QED BY <1>16, <1>17

-----------------------------------------------------------------------------
(* How many entries there are that somebody may need.                      *)

\* With u servers ON and all requests before entry a applied: entries are small, two HEAD
\* entries have another one between them, there is a CONFIG entry for each server that
\* has been removed, and a client has one request that is not applied.
Counts(g, a, u, prev, G) ==
    /\ \A i \in 1 .. g.n : 2 * Size(g, i) <= G
    /\ \A i \in 1 .. g.n + 1 :
         g.n + 1 - i <= 2 * (g.oth[g.n + 1] - g.oth[i]) + (IF prev THEN 1 ELSE 0)
    /\ g.oth[g.n + 1] + u <= g.req[g.n + 1] + N + 1
    /\ g.req[g.n + 1] <= g.req[a] + Clients

Most == 2 * (Clients + N) + 1

LEMMA Few ==
    ASSUME NEW g, History(g), NEW a \in 1 .. g.n + 1, NEW u \in Nat, 1 <= u, NEW prev \in BOOLEAN, NEW G,
           Counts(g, a, u, prev, G)
    PROVE  g.n + 1 <= a + Most
<1>1. PICK m \in Nat : m = g.n + 1
  BY HistoryTypes
<1>2. PICK one \in Nat : one = 1
  OBVIOUS
<1>3. a \in Nat /\ a <= m /\ m \in Nat /\ one \in 1 .. g.n + 1 /\ m \in 1 .. g.n + 1
  BY <1>1, <1>2
<1>4. /\ g.oth[m] \in Nat /\ g.oth[a] \in Nat /\ g.oth[one] \in Nat
      /\ g.req[m] \in Nat /\ g.req[a] \in Nat /\ g.req[one] \in Nat
  BY <1>3, HistoryTypes
<1>5. g.req[one] = 0
  BY <1>2 DEF History
<1>6. g.req[a] <= g.oth[a]
  <2>1. CASE a = one
    BY <1>4, <1>5, <2>1
  <2>2. CASE a # one
    <3>1. one < a
      BY <1>2, <1>3, <2>2
    <3>2. g.oth[one] + g.req[a] <= g.oth[a] + g.req[one]
      BY <1>3, <3>1 DEF History, Before
    <3> QED BY <1>4, <1>5, <3>2
  <2> QED BY <2>1, <2>2
<1>7. /\ m - a <= 2 * (g.oth[m] - g.oth[a]) + (IF prev THEN 1 ELSE 0)
      /\ g.oth[m] + u <= g.req[m] + N + 1 /\ g.req[m] <= g.req[a] + Clients
  <2>1. /\ g.n + 1 - a <= 2 * (g.oth[g.n + 1] - g.oth[a]) + (IF prev THEN 1 ELSE 0)
        /\ g.oth[g.n + 1] + u <= g.req[g.n + 1] + N + 1 /\ g.req[g.n + 1] <= g.req[a] + Clients
    BY Zenon DEF Counts
  <2>2. PICK b \in Nat : b = (IF prev THEN 1 ELSE 0) /\ g.n \in Nat
    BY HistoryTypes
  <2> QED BY <1>1, <2>1, <2>2
<1>8. m - a <= 2 * (g.oth[m] - g.oth[a]) + 1
  BY <1>3, <1>4, <1>7
<1>9. N \in Nat /\ Clients \in Nat
  BY LogAssumption
<1>10. g.oth[m] - g.oth[a] <= Clients + N
  BY <1>4, <1>6, <1>7, <1>9
<1>11. m <= a + Most
  BY <1>3, <1>4, <1>8, <1>9, <1>10 DEF Most
<1> QED BY <1>1, <1>11

LEMMA CountsMore ==
    ASSUME NEW g, History(g), NEW k, NEW e \in Entry, History(k), Extends(g, k, e),
           NEW a \in 1 .. g.n + 1, NEW u \in Nat, NEW v \in Nat,
           NEW prev \in BOOLEAN, NEW prev2 \in BOOLEAN, NEW G \in Nat,
           Counts(g, a, u, prev, G), 2 * EntryLen(e) <= G,
           \/ e.type = "CSM" /\ v = u /\ g.req[g.n + 1] < g.req[a] + Clients
           \/ e.type = "CONFIG" /\ v + 1 = u
           \/ e.type = "HEAD" /\ v = u /\ ~prev /\ prev2
    PROVE  Counts(k, a, v, prev2, G)
<1>1. PICK m \in Nat \ {0} : m = g.n + 1
  BY HistoryTypes
<1>2. /\ k.n = m /\ k.ent[m] = e /\ g.n \in Nat /\ g.n = m - 1
      /\ \A i \in 1 .. m : k.req[i] = g.req[i] /\ k.oth[i] = g.oth[i]
      /\ \A i \in 1 .. m - 1 : k.ent[i] = g.ent[i]
  BY <1>1, HistoryTypes DEF Extends
<1>3. /\ k.req[m + 1] = g.req[m] + (IF e.type = "CSM" THEN 1 ELSE 0)
      /\ k.oth[m + 1] = g.oth[m] + (IF e.type = "HEAD" THEN 0 ELSE 1)
  <2>1. Follows(k, m)
    BY <1>2 DEF History
  <2> QED BY <1>2, <2>1 DEF Follows
<1>4. g.req[m] \in Nat /\ g.oth[m] \in Nat /\ g.req[a] \in Nat /\ a \in 1 .. m
  BY <1>1, <1>2, HistoryTypes
<1>5. N \in Nat /\ Clients \in Nat
  BY LogAssumption
<1>6. /\ \A i \in 1 .. m - 1 : 2 * Size(g, i) <= G
      /\ \A i \in 1 .. m : m - i <= 2 * (g.oth[m] - g.oth[i]) + (IF prev THEN 1 ELSE 0)
      /\ g.oth[m] + u <= g.req[m] + N + 1
      /\ g.req[m] <= g.req[a] + Clients
  BY <1>1, <1>2 DEF Counts
<1>7. \A i \in 1 .. m : 2 * Size(k, i) <= G
  <2>1. \A i \in 1 .. m : i = m \/ i \in 1 .. m - 1
    OBVIOUS
  <2> QED BY <1>2, <1>6, <2>1 DEF Size
<1>8. k.oth[m + 1] + v <= k.req[m + 1] + N + 1
  <2>1. k.req[m + 1] \in Nat /\ k.oth[m + 1] \in Nat
    BY HistoryTypes
  <2>2. CASE e.type = "CSM" /\ v = u
    BY <1>3, <1>4, <1>5, <1>6, <2>2
  <2>3. CASE e.type = "CONFIG" /\ v + 1 = u
    BY <1>3, <1>4, <1>5, <1>6, <2>3
  <2>4. CASE e.type = "HEAD" /\ v = u
    BY <1>3, <1>4, <1>5, <1>6, <2>4
  <2> QED BY <2>2, <2>3, <2>4
<1>9. k.req[m + 1] <= k.req[a] + Clients
  <2>1. k.req[a] = g.req[a]
    BY <1>2, <1>4
  <2>2. CASE e.type = "CSM"
    BY <1>1, <1>3, <1>4, <1>5, <2>1, <2>2
  <2>3. CASE e.type # "CSM"
    BY <1>3, <1>4, <1>5, <1>6, <2>1, <2>3
  <2> QED BY <2>2, <2>3
<1>10. ASSUME NEW i \in 1 .. m + 1
       PROVE  m + 1 - i <= 2 * (k.oth[m + 1] - k.oth[i]) + (IF prev2 THEN 1 ELSE 0)
  <2>1. k.oth[m + 1] \in Nat /\ i \in Nat
    BY HistoryTypes
  <2>2. CASE i = m + 1
    BY <2>1, <2>2
  <2>3. CASE i # m + 1
    <3>1. i \in 1 .. m /\ k.oth[i] = g.oth[i] /\ g.oth[i] \in Nat
      <4>1. i \in 1 .. m
        BY <2>1, <2>3
      <4> QED BY <1>2, <2>1, <4>1, HistoryTypes
    <3>2. m - i <= 2 * (g.oth[m] - g.oth[i]) + (IF prev THEN 1 ELSE 0)
      BY <1>6, <3>1
    <3>3. CASE e.type = "HEAD"
      <4>1. ~prev /\ prev2 /\ k.oth[m + 1] = g.oth[m]
        BY <1>3, <1>4, <3>3
      <4> QED BY <1>4, <2>1, <3>1, <3>2, <4>1
    <3>4. CASE e.type # "HEAD"
      <4>1. k.oth[m + 1] = g.oth[m] + 1
        BY <1>3, <3>4
      <4> QED BY <1>4, <2>1, <3>1, <3>2, <4>1
    <3> QED BY <3>3, <3>4
  <2> QED BY <2>2, <2>3
<1> QED BY <1>2, <1>7, <1>8, <1>9, <1>10 DEF Counts

LEMMA CountsLater ==
    ASSUME NEW g, History(g), NEW a \in 1 .. g.n + 1, NEW b \in a .. g.n + 1, NEW u,
           NEW prev \in BOOLEAN, NEW prev2 \in BOOLEAN, NEW G,
           Counts(g, a, u, prev, G), prev => prev2
    PROVE  Counts(g, b, u, prev2, G)
<1>1. PICK m \in Nat \ {0} : m = g.n + 1
  BY HistoryTypes
<1>2. a \in Nat /\ b \in Nat /\ a <= b /\ b \in 1 .. g.n + 1
  BY <1>1
<1>3. g.req[a] \in Nat /\ g.req[b] \in Nat /\ g.req[m] \in Nat /\ Clients \in Nat
  BY <1>2, HistoryTypes, LogAssumption
<1>4. g.req[a] <= g.req[b]
  <2>1. a < b => g.req[a] <= g.req[b]
    BY <1>2 DEF History, Before
  <2> QED BY <1>2, <1>3, <2>1
<1>5. g.req[g.n + 1] <= g.req[b] + Clients
  BY <1>1, <1>3, <1>4 DEF Counts
<1>6. ASSUME NEW i \in 1 .. g.n + 1
      PROVE  g.n + 1 - i <= 2 * (g.oth[g.n + 1] - g.oth[i]) + (IF prev2 THEN 1 ELSE 0)
  <2>1. g.n + 1 - i <= 2 * (g.oth[g.n + 1] - g.oth[i]) + (IF prev THEN 1 ELSE 0)
    BY DEF Counts
  <2>2. i \in Nat /\ g.n + 1 \in Nat /\ g.n \in Nat
    BY <1>1, HistoryTypes
  <2>3. g.oth[i] \in Nat /\ g.oth[g.n + 1] \in Nat
    BY <2>2, HistoryTypes
  <2>4. (IF prev THEN 1 ELSE 0) <= (IF prev2 THEN 1 ELSE 0)
    OBVIOUS
  <2> QED BY <2>1, <2>2, <2>3, <2>4
<1>7. /\ \A i \in 1 .. g.n : 2 * Size(g, i) <= G
      /\ g.oth[g.n + 1] + u <= g.req[g.n + 1] + N + 1
  BY DEF Counts
<1> QED BY <1>5, <1>6, <1>7, Zenon DEF Counts

LEMMA Widths ==
    ASSUME NEW g, History(g), NEW a, NEW u, NEW prev, NEW G \in Nat, Counts(g, a, u, prev, G),
           NEW i \in 1 .. g.n + 1, NEW j \in 1 .. g.n + 1, i <= j, Near(g, i, j)
    PROVE  Gap(g, i, j) <= G * (j - i)
<1> DEFINE T == {d \in Nat : i + d <= j => Gap(g, i, i + d) <= G * d}
<1>1. i \in Nat /\ j \in Nat /\ g.n \in Nat
  BY HistoryTypes
<1>2. 0 \in T
  <2>1. Gap(g, i, i) = 0 /\ i + 0 = i
    BY <1>1, Between
  <2> QED BY <2>1
<1>3. ASSUME NEW d \in Nat, d \in T PROVE d + 1 \in T
  <2> SUFFICES ASSUME i + (d + 1) <= j PROVE Gap(g, i, i + (d + 1)) <= G * (d + 1)
    OBVIOUS
  <2>1. PICK x \in Nat : x = i + d
    BY <1>1
  <2>2. x \in 1 .. g.n + 1 /\ x + 1 \in 1 .. g.n + 1 /\ i <= x /\ x <= x + 1 /\ x + 1 <= j /\ i <= x + 1
        /\ x \in 1 .. g.n
    BY <1>1, <2>1
  <2>3. Near(g, i, x + 1)
    BY <2>2, Between
  <2>4. /\ Gap(g, i, x + 1) = Gap(g, i, x) + Gap(g, x, x + 1)
        /\ Gap(g, i, x) \in 0 .. Ring - 1 /\ Gap(g, x, x + 1) \in 0 .. Ring - 1
    BY <2>2, <2>3, Between
  <2>5. Gap(g, x, x + 1) <= G
    <3>1. Follows(g, x) /\ 2 * Size(g, x) <= G
      BY <2>2 DEF History, Counts
    <3>2. g.lap[x] \in Nat /\ g.off[x] \in 0 .. Ring /\ Size(g, x) \in Hdr .. Ring
      BY HistoryTypes, PlaceRange
    <3> QED BY <3>1, <3>2, Sizes DEF Follows, PlaceOf, InPlace, Gap
  <2>6. Gap(g, i, x) <= G * d
    BY <1>3, <2>1, <2>2
  <2>7. i + (d + 1) = x + 1
    BY <1>1, <2>1
  <2>8. G * (d + 1) = G * d + G /\ G * d \in Nat
    OBVIOUS
  <2>9. PICK z \in Nat : z = G * d
    BY <2>8
  <2>10. Gap(g, i, x + 1) <= z + G
    BY <2>4, <2>5, <2>6, <2>9, Sizes
  <2> QED BY <2>7, <2>8, <2>9, <2>10
<1>4. Nat \subseteq T
  <2> HIDE DEF T
  <2> QED BY <1>2, <1>3, Induction
<1>5. PICK d \in Nat : d = j - i
  BY <1>1
<1>6. d \in T
  BY <1>4
<1>7. i + d = j
  BY <1>1, <1>5
<1>8. Gap(g, i, i + d) <= G * d
  BY <1>1, <1>6, <1>7
<1> QED BY <1>5, <1>7, <1>8

-----------------------------------------------------------------------------
(* Room for what a step may append.                                        *)

\* What a sensible configuration sees to: the ring is long enough for the group, the
\* clients and the longest entry.
Enough(G) ==
    Grain(G) /\ 24 * (G * (N + 1)) <= Ring /\ 4 * (G * (Most + 2)) < 3 * Ring

\* The leader's log was not crowded when it looked.
Calm(used, end, prev, G) ==
    4 * used < 3 * Ring + (IF end = Ring THEN 12 * G ELSE IF prev THEN 8 * G ELSE 4 * G)

\* It was, and some servers have been removed: u are left.
Tight(used, end, u, prev, G) ==
    4 * used + 24 * (G * u) < 3 * Ring + 24 * (G * (N + 1)) + (IF prev THEN 4 * G ELSE 0)
                              + (IF end = Ring THEN 8 * G ELSE 0)

\* Then the apply offsets of the leader and of the removed servers are not old.
Fresh(g, q, up) ==
    \A s \in Server : s \notin up \ {Leader} =>
      g.n + 1 <= q[s] + Most + (IF g.off[g.n + 1] = Ring THEN 1 ELSE 0)

Spacious(g, h, q, up, prev, G) ==
    \/ Calm(Gap(g, h, g.n + 1), g.off[g.n + 1], prev, G)
    \/ /\ Tight(Gap(g, h, g.n + 1), g.off[g.n + 1], Cardinality(up), prev, G)
       /\ Fresh(g, q, up)

LEMMA UpCount ==
    ASSUME NEW up \in SUBSET Server, Leader \in up
    PROVE  /\ Cardinality(up) \in Nat /\ 1 <= Cardinality(up) /\ Cardinality(up) <= N
           /\ \A t \in up : Cardinality(up \ {t}) \in Nat /\ Cardinality(up \ {t}) + 1 = Cardinality(up)
<1>1. IsFiniteSet(Server) /\ Cardinality(Server) = N
  <2>1. N - 1 \in Int /\ 0 \in Int /\ N \in Nat /\ 0 < N
    BY Sizes
  <2>2. IsFiniteSet(0 .. N - 1) /\ Cardinality(0 .. N - 1) = IF 0 > N - 1 THEN 0 ELSE N - 1 - 0 + 1
    BY <2>1, FS_Interval
  <2> QED BY <2>1, <2>2 DEF Server
<1>2. IsFiniteSet(up) /\ Cardinality(up) <= N
  BY <1>1, FS_Subset
<1>3. Cardinality(up) \in Nat
  BY <1>2, FS_CardinalityType
<1>4. ASSUME NEW t \in up PROVE Cardinality(up \ {t}) \in Nat /\ Cardinality(up \ {t}) = Cardinality(up) - 1
  BY <1>2, FS_RemoveElement, FS_CardinalityType
<1>6. ASSUME NEW t \in up PROVE Cardinality(up \ {t}) \in Nat /\ Cardinality(up \ {t}) + 1 = Cardinality(up)
  <2>1. PICK x \in Nat : x = Cardinality(up)
    BY <1>3
  <2>2. PICK y \in Nat : y = Cardinality(up \ {t}) /\ y = x - 1
    BY <1>4, <2>1
  <2> QED BY <2>1, <2>2
<1>5. 1 <= Cardinality(up)
  <2>1. PICK x \in Nat, y \in Nat : x = Cardinality(up) /\ y = Cardinality(up \ {Leader}) /\ y + 1 = x
    BY <1>3, <1>6
  <2> QED BY <2>1
<1> QED BY <1>2, <1>3, <1>5, <1>6

\* Numbers of bytes.
LEMMA Products ==
    ASSUME NEW G \in Nat, NEW x \in Nat, NEW y \in Nat
    PROVE  /\ G * x \in Nat /\ G * (x + 1) = G * x + G
           /\ x <= y => G * x <= G * y
<1>1. G * x \in Nat /\ G * (x + 1) = G * x + G
  OBVIOUS
<1>2. ASSUME x <= y PROVE G * x <= G * y
  <2>1. PICK d \in Nat : y = x + d
    BY <1>2
  <2>2. G * y = G * x + G * d /\ G * d \in Nat
    BY <2>1
  <2> QED BY <1>1, <2>2
<1> QED BY <1>1, <1>2

\* There is room for three entries.
LEMMA Ample ==
    ASSUME NEW g, NEW h, NEW q, NEW up \in SUBSET Server, Leader \in up, NEW prev \in BOOLEAN,
           NEW G, Enough(G), Spacious(g, h, q, up, prev, G), Gap(g, h, g.n + 1) \in Nat
    PROVE  Gap(g, h, g.n + 1) + 3 * G < Ring
<1>1. G \in Nat /\ N \in Nat /\ 1 <= N /\ Ring \in Nat
  BY Sizes DEF Enough, Grain
<1>2. PICK u \in Nat : u = Cardinality(up) /\ 1 <= u
  BY UpCount
<1>3. PICK U \in Nat : U = Gap(g, h, g.n + 1)
  OBVIOUS
<1>4. PICK x \in Nat, y \in Nat : x = G * u /\ y = G * (N + 1) /\ G <= x /\ 2 * G <= y
  <2>1. G * 1 <= G * u /\ G * 2 <= G * (N + 1) /\ G * u \in Nat /\ G * (N + 1) \in Nat /\ G * 1 = G /\ G * 2 = 2 * G
    <3>1. 1 \in Nat /\ 2 \in Nat /\ N + 1 \in Nat /\ 1 <= u /\ 2 <= N + 1
      BY <1>1, <1>2
    <3> QED BY <1>1, <1>2, <3>1, Products
  <2> QED BY <2>1
<1>5. 24 * y <= Ring
  BY <1>4 DEF Enough
<1>6. CASE Calm(U, g.off[g.n + 1], prev, G)
  <2>1. 4 * U < 3 * Ring + 12 * G
    BY <1>1, <1>6 DEF Calm
  <2> QED BY <1>1, <1>3, <1>4, <1>5, <2>1
<1>7. CASE Tight(U, g.off[g.n + 1], u, prev, G)
  <2>1. 4 * U + 24 * x < 3 * Ring + 24 * y + (IF prev THEN 4 * G ELSE 0)
                              + (IF g.off[g.n + 1] = Ring THEN 8 * G ELSE 0)
    BY <1>4, <1>7 DEF Tight
  <2>2. PICK b \in Nat : b = (IF prev THEN 4 * G ELSE 0) /\ b <= 4 * G
    BY <1>1
  <2>3. PICK d \in Nat : d = (IF g.off[g.n + 1] = Ring THEN 8 * G ELSE 0) /\ d <= 8 * G
    BY <1>1
  <2>4. 4 * U + 24 * x < 3 * Ring + 24 * y + b + d
    BY <2>1, <2>2, <2>3
  <2> QED BY <1>1, <1>3, <1>4, <1>5, <2>2, <2>3, <2>4
<1> QED BY <1>2, <1>3, <1>6, <1>7 DEF Spacious

\* The distance that log_pruning and force_log_pruning see is that of the positions, or a
\* little less, if the head is behind a marker.
LEMMA HeadDistance ==
    ASSUME NEW g, History(g), NEW l, NEW h, NEW a, NEW c, LeadLog(l, g, h, a, c), l.end # Ring,
           NEW G \in Nat, \A i \in 1 .. g.n : 2 * Size(g, i) <= G
    PROVE  /\ Distance(l.end, l.head) \in Nat /\ Gap(g, h, g.n + 1) \in Nat
           /\ Gap(g, h, g.n + 1) <= Distance(l.end, l.head) + G
<1>7. g.n \in Nat
  <2>1. 0 \in Nat
    OBVIOUS
  <2> QED BY <2>1, HistoryTypes
<1>1. PICK n \in Nat \ {0} : n = g.n + 1
  BY <1>7
<1>6. g.n \in Nat /\ h \in 1 .. g.n
  <2>1. h \in 1 .. g.n
    BY DEF LeadLog
  <2> QED BY <1>7, <2>1
<1>2. /\ h \in 1 .. g.n /\ h \in 1 .. n /\ h \in 1 .. g.n + 1 /\ n \in 1 .. g.n + 1 /\ h \in Nat /\ g.n \in Nat
      /\ h + 1 \in 1 .. g.n + 1 /\ h + 1 \in Nat /\ h <= n /\ n \in h .. g.n + 1 /\ h \in h .. n
      /\ l.end = g.off[n] /\ l.head \in {g.off[h], PlaceOf(g, h)} /\ Near(g, h, n) /\ g.off[n] # Ring
  <2>1. /\ h \in 1 .. g.n /\ h \in 1 .. n /\ h \in 1 .. g.n + 1 /\ n \in 1 .. g.n + 1 /\ h \in Nat /\ g.n \in Nat
        /\ h + 1 \in 1 .. g.n + 1 /\ h + 1 \in Nat /\ h <= n /\ n \in h .. g.n + 1 /\ h \in h .. n
    BY <1>1, <1>6
  <2>2. l.end = g.off[n] /\ l.head \in {g.off[h], PlaceOf(g, h)} /\ Near(g, h, n)
    BY <1>1 DEF LeadLog
  <2> QED BY <2>1, <2>2
<1>3. Gap(g, h, n) \in 0 .. Ring - 1
  BY <1>2, Between
<1>4. CASE l.head = g.off[h]
  <2>1. Distance(l.end, l.head) = Gap(g, h, n)
    BY <1>2, <1>4, DistanceOrder
  <2> QED BY <1>1, <1>3, <2>1, Sizes
<1>5. CASE l.head # g.off[h]
  <2>1. l.head = 0 /\ ~InPlace(g, h)
    BY <1>2, <1>5 DEF PlaceOf
  <2>2. g.lap[h + 1] = g.lap[h] + 1 /\ 2 * Size(g, h) <= G /\ Size(g, h) \in Hdr .. Ring
    BY <1>2, <2>1, PlaceRange DEF History, Follows
  <2>3. h + 1 < n => Before(g, h + 1, n)
    BY <1>2 DEF History
  <2>4. g.lap[h] \in Nat /\ g.lap[n] \in Nat /\ g.lap[h + 1] \in Nat /\ g.off[h] \in 0 .. Ring /\ g.off[n] \in 0 .. Ring
    BY <1>2, HistoryTypes
  <2>5. h + 1 = n \/ h + 1 < n
    BY <1>1, <1>2
  <2>6. g.lap[n] = g.lap[h] + 1
    BY <1>2, <2>2, <2>3, <2>4, <2>5 DEF Before, Near
  <2>7. Gap(g, h, n) = Ring - g.off[h] + g.off[n]
    BY <2>4, <2>6 DEF Gap
  <2>8. Distance(l.end, l.head) = g.off[n]
    BY <1>2, <2>1, <2>4 DEF Distance
  <2>9. Ring - g.off[h] < Size(g, h)
    BY <2>1, <2>2, <2>4, Sizes DEF InPlace
  <2> QED BY <1>1, <1>3, <2>2, <2>4, <2>7, <2>8, <2>9, Sizes
<1> QED BY <1>4, <1>5

\* What the two bounds say, whatever the last entry is and wherever the log ends.
LEMMA Reckon ==
    ASSUME NEW G \in Nat, NEW U \in Nat, NEW u \in Nat, NEW end, NEW prev \in BOOLEAN
    PROVE  /\ Calm(U, end, prev, G) =>
                /\ 4 * U < 3 * Ring + 12 * G
                /\ end # Ring => 4 * U < 3 * Ring + 8 * G
                /\ end # Ring /\ ~prev => 4 * U < 3 * Ring + 4 * G
           /\ Tight(U, end, u, prev, G) =>
                /\ 4 * U + 24 * (G * u) < 3 * Ring + 24 * (G * (N + 1)) + 12 * G
                /\ end # Ring => 4 * U + 24 * (G * u) < 3 * Ring + 24 * (G * (N + 1)) + 4 * G
                /\ end # Ring /\ ~prev => 4 * U + 24 * (G * u) < 3 * Ring + 24 * (G * (N + 1))
           /\ 4 * U < 3 * Ring + 4 * G => Calm(U, end, prev, G)
           /\ 4 * U < 3 * Ring + 8 * G /\ prev => Calm(U, end, prev, G)
           /\ 4 * U < 3 * Ring + 12 * G /\ end = Ring => Calm(U, end, prev, G)
           /\ 4 * U + 24 * (G * u) < 3 * Ring + 24 * (G * (N + 1)) => Tight(U, end, u, prev, G)
           /\ 4 * U + 24 * (G * u) < 3 * Ring + 24 * (G * (N + 1)) + 4 * G /\ prev => Tight(U, end, u, prev, G)
           /\ 4 * U + 24 * (G * u) < 3 * Ring + 24 * (G * (N + 1)) + 8 * G /\ end = Ring => Tight(U, end, u, prev, G)
<1>1. PICK x \in Nat : x = G * u
  BY Products
<1>2. PICK y \in Nat : y = G * (N + 1)
  <2>1. N + 1 \in Nat
    BY Sizes
  <2> QED BY <2>1, Products
<1>3. Ring \in Nat
  BY Sizes
<1>4. /\ Calm(U, end, prev, G) <=>
           4 * U < 3 * Ring + (IF end = Ring THEN 12 * G ELSE IF prev THEN 8 * G ELSE 4 * G)
      /\ Tight(U, end, u, prev, G) <=>
           4 * U + 24 * x < 3 * Ring + 24 * y + (IF prev THEN 4 * G ELSE 0) + (IF end = Ring THEN 8 * G ELSE 0)
  BY <1>1, <1>2 DEF Calm, Tight
<1>9. /\ 4 * U < 3 * Ring + 4 * G => 4 * U < 3 * Ring + 12 * G
      /\ 4 * U < 3 * Ring + 8 * G => 4 * U < 3 * Ring + 12 * G
      /\ 4 * U < 3 * Ring + 4 * G => 4 * U < 3 * Ring + 8 * G
      /\ 4 * U + 24 * x < 3 * Ring + 24 * y => 4 * U + 24 * x < 3 * Ring + 24 * y + 4 * G + 0
      /\ 4 * U + 24 * x < 3 * Ring + 24 * y + 4 * G => 4 * U + 24 * x < 3 * Ring + 24 * y + 4 * G + 0
      /\ 4 * U + 24 * x < 3 * Ring + 24 * y + 4 * G + 0 => 4 * U + 24 * x < 3 * Ring + 24 * y + 4 * G
      /\ 4 * U + 24 * x < 3 * Ring + 24 * y + 4 * G + 0 => 4 * U + 24 * x < 3 * Ring + 24 * y + 12 * G
      /\ 4 * U + 24 * x < 3 * Ring + 24 * y + 0 + 8 * G => 4 * U + 24 * x < 3 * Ring + 24 * y + 12 * G
      /\ 4 * U + 24 * x < 3 * Ring + 24 * y + 4 * G + 8 * G => 4 * U + 24 * x < 3 * Ring + 24 * y + 12 * G
      /\ 4 * U + 24 * x < 3 * Ring + 24 * y => 4 * U + 24 * x < 3 * Ring + 24 * y + 0 + 8 * G
      /\ 4 * U + 24 * x < 3 * Ring + 24 * y => 4 * U + 24 * x < 3 * Ring + 24 * y + 4 * G + 8 * G
      /\ 4 * U + 24 * x < 3 * Ring + 24 * y + 4 * G => 4 * U + 24 * x < 3 * Ring + 24 * y + 4 * G + 8 * G
      /\ 4 * U + 24 * x < 3 * Ring + 24 * y + 8 * G => 4 * U + 24 * x < 3 * Ring + 24 * y + 0 + 8 * G
      /\ 4 * U + 24 * x < 3 * Ring + 24 * y + 8 * G => 4 * U + 24 * x < 3 * Ring + 24 * y + 4 * G + 8 * G
  BY <1>1, <1>2, <1>3
<1>5. CASE end = Ring /\ prev
  <2>1. /\ Calm(U, end, prev, G) <=> 4 * U < 3 * Ring + 12 * G
        /\ Tight(U, end, u, prev, G) <=> 4 * U + 24 * x < 3 * Ring + 24 * y + 4 * G + 8 * G
    BY <1>4, <1>5, Zenon
  <2> QED BY <1>1, <1>2, <1>5, <1>9, <2>1, Zenon
<1>6. CASE end = Ring /\ ~prev
  <2>1. /\ Calm(U, end, prev, G) <=> 4 * U < 3 * Ring + 12 * G
        /\ Tight(U, end, u, prev, G) <=> 4 * U + 24 * x < 3 * Ring + 24 * y + 0 + 8 * G
    BY <1>4, <1>6, Zenon
  <2> QED BY <1>1, <1>2, <1>6, <1>9, <2>1, Zenon
<1>7. CASE end # Ring /\ prev
  <2>1. /\ Calm(U, end, prev, G) <=> 4 * U < 3 * Ring + 8 * G
        /\ Tight(U, end, u, prev, G) <=> 4 * U + 24 * x < 3 * Ring + 24 * y + 4 * G + 0
    BY <1>4, <1>7, Zenon
  <2> QED BY <1>1, <1>2, <1>7, <1>9, <2>1, Zenon
<1>8. CASE end # Ring /\ ~prev
  BY <1>1, <1>2, <1>3, <1>4, <1>8
<1> QED BY <1>5, <1>6, <1>7, <1>8

\* One more entry, for which there is room.
LEMMA OneMore ==
    ASSUME NEW g, History(g), NEW e \in Entry, e.type = "CSM" => e.val = g.req[g.n + 1] + 1,
           NEW k, k = Extend(g, e), NEW j \in 1 .. g.n + 1, Near(g, j, g.n + 1),
           NEW G \in Nat, 2 * EntryLen(e) <= G, Gap(g, j, g.n + 1) + G < Ring
    PROVE  /\ History(k) /\ Extends(g, k, e) /\ Grown(g, k) /\ k.n = g.n + 1 /\ k.n \in Nat
           /\ Near(k, j, k.n + 1) /\ Gap(k, j, k.n + 1) \in Nat /\ Gap(g, j, g.n + 1) \in Nat
           /\ Gap(k, j, k.n + 1) <= Gap(g, j, g.n + 1) + G
           /\ g.off[g.n + 1] = Ring => k.off[k.n + 1] # Ring
           /\ e.type # "CSM" => k.req[k.n + 1] = g.req[g.n + 1]
<1>1. History(k) /\ Extends(g, k, e)
  BY Extension
<1>2. Grown(g, k)
  BY <1>1, GrownSteps
<1>3. PICK m \in Nat \ {0} : m = g.n + 1
  <2>1. 0 \in Nat
    OBVIOUS
  <2>2. g.n \in Nat
    BY <2>1, HistoryTypes
  <2> QED BY <2>2
<1>4. k.n = m /\ k.off[m] = g.off[m] /\ k.ent[m] = e /\ k.req[m] = g.req[m]
  <2>1. m \in 1 .. g.n + 1
    BY <1>3
  <2> QED BY <1>1, <1>3, <2>1 DEF Extends
<1>5. Gap(g, j, m) \in 0 .. Ring - 1
  <2>1. m \in 1 .. g.n + 1 /\ j <= m /\ m <= m /\ Near(g, j, m)
    BY <1>3
  <2> QED BY <2>1, Between
<1>6. Footprint(g, e) \in 0 .. G
  BY SmallFootprint
<1>7. Gap(g, j, g.n + 1) + Footprint(g, e) < Ring
  BY <1>3, <1>5, <1>6, Sizes
<1>8. Near(k, j, k.n + 1) /\ Gap(k, j, k.n + 1) = Gap(g, j, g.n + 1) + Footprint(g, e)
  BY <1>7, Room
<1>9. Follows(k, m)
  BY <1>1, <1>3, <1>4 DEF History
<1>10. ASSUME g.off[m] = Ring PROVE k.off[m + 1] # Ring
  <2>1. EntryLen(e) \in Hdr .. Ring
    BY SizeRange
  <2>2. k.off[m + 1] = EntryLen(e)
    BY <1>4, <1>9, <1>10, <2>1, Sizes DEF Follows, PlaceOf, InPlace, Size
  <2> QED BY <1>3, <1>5, <2>1, <2>2, Sizes
<1>11. e.type # "CSM" => k.req[m + 1] = g.req[m]
  <2>1. g.req[m] \in Nat
    BY HistoryTypes
  <2> QED BY <1>4, <1>9, <2>1 DEF Follows
<1>12. Gap(k, j, k.n + 1) \in Nat /\ Gap(g, j, g.n + 1) \in Nat /\ Gap(k, j, k.n + 1) <= Gap(g, j, g.n + 1) + G
  BY <1>3, <1>5, <1>6, <1>8, Sizes
<1> QED BY <1>1, <1>2, <1>3, <1>4, <1>8, <1>10, <1>11, <1>12

LEMMA KnownGrown ==
    ASSUME NEW g, History(g), NEW k, History(k), Grown(g, k), NEW h \in 1 .. g.n, NEW ao, NEW q, Known(ao, g, h, q)
    PROVE  Known(ao, k, h, q)
<1>1. PICK n \in Nat, m \in Nat : n = g.n /\ m = k.n /\ n <= m
  <2>1. 0 \in Nat
    OBVIOUS
  <2>2. g.n \in Nat /\ k.n \in Nat
    BY <2>1, HistoryTypes
  <2> QED BY <2>2 DEF Grown
<1>2. ASSUME NEW s \in Server PROVE q[s] \in h .. k.n + 1 /\ ao[s] = k.off[q[s]]
  <2>1. q[s] \in h .. g.n + 1 /\ ao[s] = g.off[q[s]]
    BY DEF Known
  <2>2. q[s] \in 1 .. g.n + 1 /\ q[s] \in h .. k.n + 1
    BY <1>1, <2>1
  <2> QED BY <2>1, <2>2 DEF Grown
<1> QED BY <1>2 DEF Known

\* A step of the leader that leaves the others alone.
LEMMA LeaderKeeps ==
    ASSUME Types, Types', NEW g, NEW h, NEW a, NEW c, NEW q, Faithful(g, h, a, c, q),
           NEW k, History(k), NEW j, NEW b, NEW d, LeadLog(log'[Leader], k, j, b, d),
           NEW p, Known(apply_offsets', k, j, p), rmt' = rmt,
           \A s \in Server \ {Leader} : log'[s] = log[s],
           \A s \in on' \ {Leader} : Tracks(log[s], rmt[s].end, applied[s], k, j, p[s], d),
           submitted' = k.req[k.n + 1], committed' = k.req[d], committed <= committed',
           applied' = [applied EXCEPT ![Leader] = Upto(k.req[b])]
    PROVE  Faithful(k, j, b, d, p)'
<1>1. committed = g.req[c] /\ applied \in [Server -> Seq(Nat)] /\ History(g) /\ LeadLog(L, g, h, a, c)
      /\ \A s \in Server : \E i \in 0 .. committed : applied[s] = Upto(i)
  BY DEF Faithful
<1>2. committed \in Nat
  <2>1. g.n \in Nat
    <3>1. 0 \in Nat
      OBVIOUS
    <3> QED BY <1>1, <3>1, HistoryTypes
  <2>2. c \in Nat
    BY <1>1, <2>1 DEF LeadLog
  <2> QED BY <1>1, <2>2, HistoryTypes
<1>3. b \in Nat /\ d \in Nat /\ b <= d /\ b \in 1 .. k.n + 1 /\ d \in 1 .. k.n + 1
  <2>1. 0 \in Nat
    OBVIOUS
  <2>2. k.n \in Nat
    BY <2>1, HistoryTypes
  <2> QED BY <2>2 DEF LeadLog
<1>4. k.req[b] \in Nat /\ k.req[d] \in Nat /\ k.req[b] <= k.req[d]
  <2>1. k.req[b] \in Nat /\ k.req[d] \in Nat
    BY <1>3, HistoryTypes
  <2>2. b < d => k.req[b] <= k.req[d]
    BY <1>3 DEF History, Before
  <2> QED BY <1>3, <2>1, <2>2
<1>5. Upto(k.req[b]) \in Seq(Nat)
  BY <1>4, UptoSeq
<1>6. applied' \in [Server -> Seq(Nat)] /\ applied'[Leader] = Upto(k.req[b])
      /\ \A s \in Server \ {Leader} : applied'[s] = applied[s]
  BY <1>1, <1>5, Roles
<1>7. ASSUME NEW s \in Server PROVE \E i \in 0 .. committed' : applied'[s] = Upto(i)
  <2>1. CASE s = Leader
    <3>1. k.req[b] \in 0 .. committed'
      BY <1>4
    <3> QED BY <1>6, <2>1, <3>1
  <2>2. CASE s # Leader
    <3>1. PICK i \in 0 .. committed : applied[s] = Upto(i)
      BY <1>1
    <3>2. i \in 0 .. committed'
      BY <1>2, <1>4, <3>1
    <3> QED BY <1>6, <2>2, <3>1, <3>2
  <2> QED BY <2>1, <2>2
<1>8. Tracked(k, j, p, d)'
  <2>1. ASSUME NEW s \in on' \ {Leader}
        PROVE  Tracks(log'[s], rmt'[s].end, applied'[s], k, j, p[s], d)
    <3>1. s \in Server \ {Leader}
      BY DEF Types
    <3> QED BY <1>6, <3>1
  <2> QED BY <2>1 DEF Tracked
<1>9. LeadLog(L, k, j, b, d)'
  BY DEF L
<1>10. Known(apply_offsets, k, j, p)'
  OBVIOUS
<1> QED BY <1>6, <1>7, <1>8, <1>9, <1>10 DEF Faithful

-----------------------------------------------------------------------------
(* The invariant: there is a history behind the logs, with few entries that somebody  *)
(* still needs and with room in the ring.                                              *)

Sound(g, h, a, c, q, G) ==
    /\ Faithful(g, h, a, c, q)
    /\ Counts(g, a, Cardinality(on), prev_head, G)
    /\ Spacious(g, h, q, on, prev_head, G)

Backed(G) == \E g, h, a, c, q : Sound(g, h, a, c, q, G)

\* What it says of the leader.
Lead(g, h, a, c, G, u) ==
    /\ History(g) /\ LeadLog(L, g, h, a, c) /\ h \in 1 .. g.n /\ h \in 1 .. g.n + 1 /\ a \in 1 .. g.n + 1
    /\ c \in 1 .. g.n + 1 /\ g.n \in Nat /\ Near(g, h, g.n + 1)
    /\ G \in Nat /\ 2 * Hdr <= G /\ Grain(G)
    /\ u \in Nat /\ u = Cardinality(on) /\ 1 <= u /\ u <= N
    /\ Gap(g, h, g.n + 1) \in Nat /\ Gap(g, h, g.n + 1) + 3 * G < Ring
    /\ Counts(g, a, u, prev_head, G)
    /\ Leader \in on /\ on \in SUBSET Server /\ prev_head \in BOOLEAN

LEMMA Leading ==
    ASSUME Types, NEW G, Enough(G), NEW g, NEW h, NEW a, NEW c, NEW q, Sound(g, h, a, c, q, G)
    PROVE  \E u : Lead(g, h, a, c, G, u)
<1>1. /\ Faithful(g, h, a, c, q) /\ Spacious(g, h, q, on, prev_head, G)
      /\ Counts(g, a, Cardinality(on), prev_head, G)
  BY DEF Sound
<1>2. History(g) /\ LeadLog(L, g, h, a, c)
  BY <1>1 DEF Faithful
<1>3. g.n \in Nat /\ g.n # 0
  <2>1. 0 \in Nat
    OBVIOUS
  <2> QED BY <1>2, <2>1, HistoryTypes
<1>4. /\ h \in 1 .. g.n /\ h \in 1 .. g.n + 1 /\ a \in 1 .. g.n + 1 /\ c \in 1 .. g.n + 1 /\ Near(g, h, g.n + 1)
  BY <1>2, <1>3 DEF LeadLog
<1>5. Gap(g, h, g.n + 1) \in 0 .. Ring - 1
  <2>1. g.n + 1 \in 1 .. g.n + 1 /\ h <= g.n + 1 /\ g.n + 1 <= g.n + 1
    BY <1>3, <1>4
  <2> QED BY <1>2, <1>4, <2>1, Between
<1>6. Leader \in on /\ on \in SUBSET Server /\ prev_head \in BOOLEAN
  BY DEF Types
<1>7. PICK u \in Nat : u = Cardinality(on) /\ 1 <= u /\ u <= N
  BY <1>6, UpCount
<1>8. Grain(G) /\ G \in Nat /\ 2 * Hdr <= G
  BY DEF Enough, Grain
<1>9. Gap(g, h, g.n + 1) \in Nat
  BY <1>5, Sizes
<1>10. Gap(g, h, g.n + 1) + 3 * G < Ring
  BY <1>1, <1>6, <1>9, Ample
<1>11. Lead(g, h, a, c, G, u)
  BY <1>1, <1>2, <1>3, <1>4, <1>6, <1>7, <1>8, <1>9, <1>10 DEF Lead
<1> QED BY <1>11

\* What log_pruning leaves of it.
HeadAfter(g, h, a, c, alive, k, j, p, u, G) ==
    /\ Counts(k, a, u, prev_head', G) /\ Fresh(k, p, alive)
    /\ j \in 1 .. g.n + 1 /\ Gap(g, j, g.n + 1) \in Nat /\ Gap(g, j, g.n + 1) <= Gap(g, h, g.n + 1)
    /\ Gap(k, j, k.n + 1) \in Nat /\ Gap(k, j, k.n + 1) <= Gap(g, j, g.n + 1) + G
    /\ k.req[k.n + 1] = g.req[g.n + 1] /\ k.req[a] = g.req[a] /\ k.req[c] = g.req[c]

LEMMA HeadLater ==
    ASSUME Types', NEW g, History(g), NEW l, NEW h, NEW a, NEW c, LeadLog(l, g, h, a, c), NEW q, NEW alive,
           NEW prev \in BOOLEAN, NEW k, NEW j, NEW p, AfterPruning(l, g, h, a, c, q, alive, prev, k, j, p),
           NEW G \in Nat, 2 * Hdr <= G, Gap(g, h, g.n + 1) + G < Ring,
           NEW u \in Nat, 1 <= u, Counts(g, a, u, prev, G)
    PROVE  HeadAfter(g, h, a, c, alive, k, j, p, u, G)
<1>1. g.n \in Nat /\ g.n # 0
  <2>1. 0 \in Nat
    OBVIOUS
  <2> QED BY <2>1, HistoryTypes
<1>2. /\ h \in 1 .. g.n + 1 /\ h \in Nat /\ a \in h .. g.n + 1 /\ a \in 1 .. g.n + 1 /\ c \in 1 .. g.n + 1
      /\ Near(g, h, g.n + 1)
  BY <1>1 DEF LeadLog
<1>3. /\ History(k) /\ Grown(g, k) /\ j \in h .. a
      /\ \A s \in Server : s \notin alive \ {Leader} => p[s] = a
      /\ \/ k = g /\ j = h /\ prev_head' = prev
         \/ ~prev /\ prev_head' /\ \E v \in Offset : k = Extend(g, [type |-> "HEAD", len |-> 0, val |-> v])
  BY DEF AfterPruning
<1>4. j \in 1 .. g.n + 1 /\ h <= j /\ j <= g.n + 1 /\ g.n + 1 \in 1 .. g.n + 1 /\ h <= g.n + 1 /\ g.n + 1 <= g.n + 1
  BY <1>1, <1>2, <1>3
<1>5. /\ Near(g, j, g.n + 1) /\ Gap(g, h, g.n + 1) = Gap(g, h, j) + Gap(g, j, g.n + 1)
      /\ Gap(g, h, j) \in 0 .. Ring - 1 /\ Gap(g, j, g.n + 1) \in 0 .. Ring - 1
  BY <1>2, <1>4, Between
<1>6. /\ Gap(g, h, g.n + 1) \in Nat /\ Gap(g, j, g.n + 1) \in Nat /\ Gap(g, j, g.n + 1) <= Gap(g, h, g.n + 1)
      /\ Gap(g, j, g.n + 1) + G < Ring
  BY <1>5, Sizes
<1>7. prev_head' \in BOOLEAN
  BY DEF Types
<1>8. k.req[a] = g.req[a] /\ k.req[c] = g.req[c]
  BY <1>2, <1>3 DEF Grown
<1>9. /\ Counts(k, a, u, prev_head', G) /\ k.req[k.n + 1] = g.req[g.n + 1]
      /\ Gap(k, j, k.n + 1) \in Nat /\ Gap(k, j, k.n + 1) <= Gap(g, j, g.n + 1) + G
  <2>1. CASE k = g /\ j = h /\ prev_head' = prev
    BY <1>6, <2>1
  <2>2. CASE ~prev /\ prev_head' /\ \E v \in Offset : k = Extend(g, [type |-> "HEAD", len |-> 0, val |-> v])
    <3>1. PICK v \in Offset : k = Extend(g, [type |-> "HEAD", len |-> 0, val |-> v])
      BY <2>2
    <3>2. PICK e \in Entry : e = [type |-> "HEAD", len |-> 0, val |-> v]
      BY EntryTypes
    <3>3. k = Extend(g, e) /\ e.type # "CSM" /\ e.type = "HEAD" /\ EntryLen(e) = Hdr
      BY <3>1, <3>2, Sizes DEF EntryLen
    <3>4. /\ Extends(g, k, e) /\ Gap(k, j, k.n + 1) \in Nat /\ Gap(k, j, k.n + 1) <= Gap(g, j, g.n + 1) + G
          /\ k.req[k.n + 1] = g.req[g.n + 1]
      BY <1>4, <1>5, <1>6, <3>3, OneMore
    <3>5. Counts(k, a, u, prev_head', G)
      <4>1. 2 * EntryLen(e) <= G
        BY <3>3
      <4>2. prev = FALSE /\ prev_head' = TRUE
        BY <1>7, <2>2
      <4>3. Counts(g, a, u, FALSE, G)
        BY <4>2
      <4>4. /\ Extends(g, k, e) /\ 2 * EntryLen(e) <= G /\ e.type = "HEAD" /\ History(k) /\ a \in 1 .. g.n + 1
            /\ e \in Entry /\ FALSE \in BOOLEAN /\ TRUE \in BOOLEAN
        BY <1>2, <1>3, <3>2, <3>3, <3>4, <4>1
      <4>5. Counts(k, a, u, TRUE, G)
        BY <4>3, <4>4, CountsMore
      <4> QED BY <4>2, <4>5
    <3> QED BY <3>4, <3>5
  <2> QED BY <1>3, <2>1, <2>2
<1>10. Fresh(k, p, alive)
  <2>1. k.n \in Nat /\ g.n <= k.n
    BY <1>2, <1>3, HistoryTypes DEF Grown
  <2>2. a \in 1 .. k.n + 1 /\ a \in Nat
    BY <1>1, <1>2, <2>1
  <2>3. k.n + 1 <= a + Most
    BY <1>3, <1>7, <1>9, <2>2, Few
  <2>4. Most \in Nat
    BY LogAssumption DEF Most
  <2>5. k.n + 1 <= a + Most + (IF k.off[k.n + 1] = Ring THEN 1 ELSE 0)
    BY <2>1, <2>2, <2>3, <2>4
  <2> QED BY <1>3, <2>5 DEF Fresh
<1> QED BY <1>4, <1>6, <1>8, <1>9, <1>10 DEF HeadAfter

\* The timer.
LEMMA PruneKeeps ==
    ASSUME Types, Types', NEW G, Enough(G), Backed(G), Prune
    PROVE  Backed(G)'
<1>1. PICK g, h, a, c, q : Sound(g, h, a, c, q, G)
  BY DEF Backed
<1>2. PICK u : Lead(g, h, a, c, G, u)
  BY <1>1, Leading
<1>3. /\ History(g) /\ LeadLog(L, g, h, a, c) /\ h \in 1 .. g.n /\ a \in 1 .. g.n + 1 /\ c \in 1 .. g.n + 1
      /\ g.n \in Nat /\ G \in Nat /\ 2 * Hdr <= G /\ u \in Nat /\ u = Cardinality(on) /\ 1 <= u
      /\ Gap(g, h, g.n + 1) \in Nat /\ Gap(g, h, g.n + 1) + 3 * G < Ring
      /\ Counts(g, a, u, prev_head, G) /\ Leader \in on /\ on \in SUBSET Server /\ prev_head \in BOOLEAN
  BY <1>2 DEF Lead
<1>4. Gap(g, h, g.n + 1) + G < Ring
  BY <1>3, Sizes
<1>5. /\ LogPruning(L, apply_offsets, on, prev_head) /\ on' = on
      /\ rmt' = rmt /\ submitted' = submitted /\ committed' = committed /\ applied' = applied
  BY DEF Prune
<1>6. /\ Faithful(g, h, a, c, q) /\ Spacious(g, h, q, on, prev_head, G)
  BY <1>1 DEF Sound
<1>7. /\ Known(apply_offsets, g, h, q) /\ Tracked(g, h, q, c)
      /\ submitted = g.req[g.n + 1] /\ committed = g.req[c] /\ applied[Leader] = Upto(g.req[a])
      /\ applied \in [Server -> Seq(Nat)]
  BY <1>6 DEF Faithful
<1>8. apply_offsets \in [0 .. N -> Offset]
  BY DEF Types
<1>9. PICK k, j, p : AfterPruning(L, g, h, a, c, q, on, prev_head, k, j, p)
  <2>1. \A s \in on \ {Leader} : Tracks(log[s], rmt[s].end, applied[s], g, h, q[s], c)
    BY <1>7 DEF Tracked
  <2> QED BY <1>3, <1>4, <1>5, <1>7, <1>8, <2>1, PruningKeeps
<1>10. HeadAfter(g, h, a, c, on, k, j, p, u, G)
  BY <1>3, <1>4, <1>9, HeadLater
<1>11. Faithful(k, j, a, c, p)'
  <2>1. /\ History(k) /\ LeadLog(log'[Leader], k, j, a, c)
        /\ \A s \in Server \ {Leader} : log'[s] = log[s]
        /\ Known(apply_offsets', k, j, p)
        /\ \A s \in on \ {Leader} : Tracks(log[s], rmt[s].end, applied[s], k, j, p[s], c)
    BY <1>9 DEF AfterPruning
  <2>2. submitted' = k.req[k.n + 1] /\ committed' = k.req[c] /\ applied[Leader] = Upto(k.req[a])
    BY <1>5, <1>7, <1>10 DEF HeadAfter
  <2>3. applied' = [applied EXCEPT ![Leader] = Upto(k.req[a])]
    BY <1>5, <1>7, <2>2
  <2>4. committed \in Nat /\ committed <= committed'
    <3>1. c \in Nat
      BY <1>3
    <3> QED BY <1>3, <1>5, <1>7, <3>1, HistoryTypes
  <2> QED BY <1>5, <1>6, <2>1, <2>2, <2>3, <2>4, LeaderKeeps
<1>12. Spacious(k, j, p, on, prev_head', G)
  <2>1. PICK U \in Nat : U = Gap(g, h, g.n + 1)
    BY <1>3
  <2>2. PICK V \in Nat : V = Gap(k, j, k.n + 1) /\ V <= U + G
    BY <1>3, <1>10, <2>1 DEF HeadAfter
  <2>3. \/ k = g /\ j = h /\ prev_head' = prev_head
        \/ ~prev_head /\ prev_head' /\ L.end # Ring
    BY <1>9 DEF AfterPruning
  <2>4. Fresh(k, p, on)
    BY <1>10 DEF HeadAfter
  <2>5. g.off[g.n + 1] = L.end
    BY <1>3 DEF LeadLog
  <2>6. PICK x \in Nat, y \in Nat : x = G * u /\ y = G * (N + 1)
    <3>1. N + 1 \in Nat
      BY Sizes
    <3> QED BY <1>3, <3>1, Products
  <2>7. prev_head' \in BOOLEAN
    BY DEF Types
  <2>8. CASE Calm(U, g.off[g.n + 1], prev_head, G)
    <3>1. CASE k = g /\ j = h /\ prev_head' = prev_head
      BY <2>1, <2>8, <3>1 DEF Spacious
    <3>2. CASE ~prev_head /\ prev_head' /\ L.end # Ring
      <4>1. 4 * U < 3 * Ring + 4 * G
        BY <1>3, <2>5, <2>8, <3>2, Reckon
      <4>2. 4 * V < 3 * Ring + 8 * G
        BY <1>3, <2>2, <4>1, Sizes
      <4>4. PICK pv \in BOOLEAN : pv = prev_head' /\ pv
        BY <2>7, <3>2
      <4>3. Calm(V, k.off[k.n + 1], pv, G)
        BY <1>3, <4>2, <4>4, Reckon
      <4> QED BY <2>2, <4>3, <4>4 DEF Spacious
    <3> QED BY <2>3, <3>1, <3>2
  <2>9. CASE Tight(U, g.off[g.n + 1], u, prev_head, G)
    <3>1. CASE k = g /\ j = h /\ prev_head' = prev_head
      BY <1>3, <2>1, <2>4, <2>9, <3>1 DEF Spacious
    <3>2. CASE ~prev_head /\ prev_head' /\ L.end # Ring
      <4>1. 4 * U + 24 * x < 3 * Ring + 24 * y
        BY <1>3, <2>5, <2>6, <2>9, <3>2, Reckon
      <4>2. 4 * V + 24 * x < 3 * Ring + 24 * y + 4 * G
        BY <1>3, <2>2, <4>1, Sizes
      <4>3. Tight(V, k.off[k.n + 1], u, prev_head', G)
        BY <1>3, <2>6, <2>7, <3>2, <4>2, Reckon
      <4> QED BY <1>3, <2>2, <2>4, <4>3 DEF Spacious
    <3> QED BY <2>3, <3>1, <3>2
  <2> QED BY <1>3, <1>6, <2>1, <2>8, <2>9 DEF Spacious
<1>13. Counts(k, a, Cardinality(on'), prev_head', G)
  BY <1>3, <1>5, <1>10 DEF HeadAfter
<1>14. Sound(k, j, a, c, p, G)'
  BY <1>5, <1>11, <1>12, <1>13 DEF Sound
<1> QED BY <1>14 DEF Backed

\* What a pass of the leader brings before the pruning: a command at most.
Load(g, h, q, u, U, G) ==
    \/ 4 * U < 3 * Ring + 16 * G
    \/ /\ 4 * U + 24 * (G * u) < 3 * Ring + 24 * (G * (N + 1)) + 16 * G
       /\ \A s \in Server : s \notin on \ {Leader} => g.n + 1 <= q[s] + Most + 2

Filled(l, g, h, a, c, q, u, prev, G) ==
    /\ History(g) /\ LeadLog(l, g, h, a, c) /\ h \in 1 .. g.n /\ a \in 1 .. g.n + 1 /\ c \in 1 .. g.n + 1
    /\ g.n \in Nat /\ Counts(g, a, u, prev, G) /\ Known(apply_offsets, g, h, q)
    /\ \A s \in on \ {Leader} : Tracks(log[s], rmt[s].end, applied[s], g, h, q[s], c)
    /\ Gap(g, h, g.n + 1) \in Nat /\ Gap(g, h, g.n + 1) + 2 * G < Ring
    /\ prev \/ l.end = Ring => Spacious(g, h, q, on, prev, G)
    /\ Load(g, h, q, u, Gap(g, h, g.n + 1), G)
    /\ committed <= g.req[c]

\* The command of the next request, if there is one.
LEMMA OneCommand ==
    ASSUME Types, NEW g, NEW h, NEW a, NEW c, NEW q, NEW G, NEW u, Faithful(g, h, a, c, q), Lead(g, h, a, c, G, u),
           submitted < MaxReq, submitted - Len(applied[Leader]) < Clients,
           NEW k, k = Extend(g, Command(submitted + 1))
    PROVE  /\ Gap(k, h, k.n + 1) \in Nat /\ Gap(k, h, k.n + 1) <= Gap(g, h, g.n + 1) + G /\ k.n = g.n + 1
           /\ g.off[g.n + 1] = Ring => k.off[k.n + 1] # Ring
           /\ Counts(k, a, u, FALSE, G)
<1>1. /\ History(g) /\ h \in 1 .. g.n + 1 /\ a \in 1 .. g.n + 1 /\ g.n \in Nat /\ Near(g, h, g.n + 1)
      /\ G \in Nat /\ Grain(G) /\ u \in Nat /\ Gap(g, h, g.n + 1) \in Nat /\ Gap(g, h, g.n + 1) + 3 * G < Ring
      /\ Counts(g, a, u, prev_head, G) /\ prev_head \in BOOLEAN
  BY DEF Lead
<1>2. submitted = g.req[g.n + 1] /\ applied[Leader] = Upto(g.req[a])
  BY DEF Faithful
<1>3. submitted + 1 \in 1 .. MaxReq /\ submitted \in Nat
  BY LogAssumption DEF Types, MaxReq
<1>4. PICK e \in Entry : e = Command(submitted + 1)
  BY <1>3, CommandType DEF Command
<1>5. e.type = "CSM" /\ e.val = g.req[g.n + 1] + 1 /\ EntryLen(e) = Hdr + DataLen[submitted + 1]
  BY <1>2, <1>4 DEF Command, EntryLen
<1>6. 2 * EntryLen(e) <= G
  BY <1>1, <1>3, <1>5 DEF Grain
<1>7. Gap(g, h, g.n + 1) + G < Ring
  BY <1>1, Sizes
<1>8. k = Extend(g, e)
  BY <1>4
<1>9. /\ History(k) /\ Extends(g, k, e) /\ k.n = g.n + 1 /\ Gap(k, h, k.n + 1) \in Nat
      /\ Gap(k, h, k.n + 1) <= Gap(g, h, g.n + 1) + G
      /\ g.off[g.n + 1] = Ring => k.off[k.n + 1] # Ring
  BY <1>1, <1>4, <1>5, <1>6, <1>7, <1>8, OneMore, SMTT(30)
<1>10. g.req[a] \in Nat
  <2>1. a \in Nat
    BY <1>1
  <2> QED BY <1>1, <2>1, HistoryTypes
<1>11. g.req[g.n + 1] < g.req[a] + Clients
  <2>1. Len(applied[Leader]) = g.req[a]
    BY <1>2, <1>10, UptoSeq
  <2>2. Clients \in Nat
    BY LogAssumption
  <2> QED BY <1>2, <1>3, <1>10, <2>1, <2>2
<1>12. Counts(k, a, u, FALSE, G)
  <2>1. FALSE \in BOOLEAN
    OBVIOUS
  <2>2. /\ History(g) /\ History(k) /\ Extends(g, k, e) /\ e \in Entry /\ e.type = "CSM" /\ 2 * EntryLen(e) <= G
        /\ a \in 1 .. g.n + 1 /\ u \in Nat /\ G \in Nat /\ TRUE \in BOOLEAN
    BY <1>1, <1>4, <1>5, <1>6, <1>9
  <2>3. CASE prev_head = TRUE
    <3>1. Counts(g, a, u, TRUE, G)
      BY <1>1, <2>3
    <3> QED BY <1>11, <2>1, <2>2, <3>1, CountsMore
  <2>4. CASE prev_head = FALSE
    <3>1. Counts(g, a, u, FALSE, G)
      BY <1>1, <2>4
    <3> QED BY <1>11, <2>1, <2>2, <3>1, CountsMore
  <2> QED BY <1>1, <2>3, <2>4
<1> QED BY <1>9, <1>12

LEMMA Filling ==
    ASSUME Types, NEW g, NEW h, NEW a, NEW c, NEW q, NEW G, NEW u, Sound(g, h, a, c, q, G), Lead(g, h, a, c, G, u),
           NEW k \in 0 .. 1, NEW l \in Log, NEW g1, NEW a1, NEW c1, Passed(g, h, a, c, k, l, g1, a1, c1),
           NEW prev \in BOOLEAN, prev <=> (prev_head /\ k = 0)
    PROVE  Filled(l, g1, h, a1, c1, q, u, prev, G)
<1>1. /\ History(g) /\ h \in 1 .. g.n /\ h \in 1 .. g.n + 1 /\ a \in 1 .. g.n + 1 /\ c \in 1 .. g.n + 1
      /\ g.n \in Nat /\ Near(g, h, g.n + 1) /\ LeadLog(L, g, h, a, c)
      /\ G \in Nat /\ Grain(G) /\ u \in Nat /\ u = Cardinality(on)
      /\ Gap(g, h, g.n + 1) \in Nat /\ Gap(g, h, g.n + 1) + 3 * G < Ring
      /\ Counts(g, a, u, prev_head, G) /\ prev_head \in BOOLEAN
  BY DEF Lead
<1>2. Faithful(g, h, a, c, q) /\ Spacious(g, h, q, on, prev_head, G)
  BY DEF Sound
<1>3. /\ Known(apply_offsets, g, h, q) /\ Tracked(g, h, q, c) /\ committed = g.req[c]
  BY <1>2 DEF Faithful
<1>4. /\ \/ k = 0 /\ g1 = g
         \/ /\ k = 1 /\ submitted < MaxReq /\ submitted - Len(applied[Leader]) < Clients
            /\ g1 = Extend(g, Command(submitted + 1))
      /\ History(g1) /\ Grown(g, g1) /\ LeadLog(l, g1, h, a1, c1)
      /\ a1 \in a .. g1.n + 1 /\ c1 \in c .. g1.n + 1
  BY Zenon DEF Passed
<1>5. g1.n \in Nat /\ g.n <= g1.n
  <2>1. 0 \in Nat
    OBVIOUS
  <2> QED BY <1>4, <2>1, HistoryTypes DEF Grown
<1>6. /\ h \in 1 .. g1.n /\ a1 \in 1 .. g1.n + 1 /\ c1 \in 1 .. g1.n + 1 /\ c \in 1 .. g1.n + 1 /\ a \in 1 .. g1.n + 1
      /\ c <= c1 /\ c \in Nat /\ c1 \in Nat /\ h \in Nat
  <2>1. h \in Nat /\ a \in Nat /\ c \in Nat /\ h \in 1 .. g1.n /\ c \in 1 .. g1.n + 1 /\ a \in 1 .. g1.n + 1
    BY <1>1, <1>5
  <2>2. a1 \in Nat /\ c1 \in Nat /\ a <= a1 /\ a1 <= g1.n + 1 /\ c <= c1 /\ c1 <= g1.n + 1
    BY <1>4, <1>5, <2>1
  <2> QED BY <1>5, <2>1, <2>2
<1>7. Known(apply_offsets, g1, h, q)
  BY <1>1, <1>3, <1>4, KnownGrown
<1>8. \A s \in on \ {Leader} : Tracks(log[s], rmt[s].end, applied[s], g1, h, q[s], c1)
  <2> SUFFICES ASSUME NEW s \in on \ {Leader} PROVE Tracks(log[s], rmt[s].end, applied[s], g1, h, q[s], c1)
    OBVIOUS
  <2>1. s \in Server
    BY DEF Types
  <2>2. Tracks(log[s], rmt[s].end, applied[s], g, h, q[s], c)
    BY <1>3 DEF Tracked
  <2>3. q[s] \in Nat /\ h \in h .. q[s]
    BY <1>3, <1>6, <2>1 DEF Known
  <2> QED BY <1>1, <1>4, <1>6, <2>2, <2>3, TracksOn
<1>9. committed <= g1.req[c1]
  <2>1. g1.req[c] = g.req[c]
    BY <1>1, <1>4 DEF Grown
  <2>2. g1.req[c] \in Nat /\ g1.req[c1] \in Nat
    BY <1>4, <1>6, HistoryTypes
  <2>3. c < c1 => g1.req[c] <= g1.req[c1]
    BY <1>4, <1>6 DEF History, Before
  <2>4. c = c1 \/ c < c1
    BY <1>6
  <2> QED BY <1>3, <2>1, <2>2, <2>3, <2>4
<1>10. PICK U \in Nat : U = Gap(g, h, g.n + 1)
  BY <1>1
<1>11. PICK x \in Nat, y \in Nat : x = G * u /\ y = G * (N + 1)
  <2>1. N + 1 \in Nat
    BY Sizes
  <2> QED BY <1>1, <2>1, Products
<1>12. l.end = g1.off[g1.n + 1]
  BY <1>4 DEF LeadLog
<1>20. Ring \in Nat /\ Most \in Nat
  BY Sizes, LogAssumption DEF Most
<1>21. \A s \in Server : q[s] \in Nat
  BY <1>3 DEF Known
<1>13. Calm(U, g.off[g.n + 1], prev_head, G) => 4 * U < 3 * Ring + 12 * G
  BY <1>1, Reckon
<1>14. Tight(U, g.off[g.n + 1], u, prev_head, G) => 4 * U + 24 * x < 3 * Ring + 24 * y + 12 * G
  BY <1>1, <1>11, Reckon
<1>15. \/ Calm(U, g.off[g.n + 1], prev_head, G)
       \/ Tight(U, g.off[g.n + 1], u, prev_head, G) /\ Fresh(g, q, on)
  BY <1>1, <1>2, <1>10 DEF Spacious
<1>16. Fresh(g, q, on) => \A s \in Server : s \notin on \ {Leader} => g.n + 1 <= q[s] + Most + 1
  <2> SUFFICES ASSUME Fresh(g, q, on), NEW s \in Server, s \notin on \ {Leader} PROVE g.n + 1 <= q[s] + Most + 1
    OBVIOUS
  <2>1. g.n + 1 <= q[s] + Most + (IF g.off[g.n + 1] = Ring THEN 1 ELSE 0)
    BY DEF Fresh
  <2>2. PICK b \in Nat : b = (IF g.off[g.n + 1] = Ring THEN 1 ELSE 0) /\ b <= 1
    OBVIOUS
  <2>3. g.n + 1 <= q[s] + Most + b
    BY <2>1, <2>2
  <2> QED BY <1>1, <1>20, <1>21, <2>2, <2>3
<1>17. CASE k = 0
  <2>1. g1 = g /\ prev = prev_head
    BY <1>1, <1>4, <1>17
  <2>2. Counts(g1, a1, u, prev, G)
    BY <1>1, <1>4, <2>1, CountsLater
  <2>3. Spacious(g1, h, q, on, prev, G)
    BY <1>2, <2>1
  <2>4. Load(g1, h, q, u, U, G)
    <3>1. CASE Calm(U, g.off[g.n + 1], prev_head, G)
      BY <1>1, <1>13, <1>20, <3>1 DEF Load
    <3>2. CASE Tight(U, g.off[g.n + 1], u, prev_head, G) /\ Fresh(g, q, on)
      <4>1. 4 * U + 24 * x < 3 * Ring + 24 * y + 16 * G
        BY <1>1, <1>14, <1>20, <3>2
      <4>2. \A s \in Server : s \notin on \ {Leader} => g1.n + 1 <= q[s] + Most + 2
        BY <1>1, <1>16, <1>20, <1>21, <2>1, <3>2
      <4> QED BY <1>11, <4>1, <4>2 DEF Load
    <3> QED BY <1>15, <3>1, <3>2
  <2>5. Gap(g1, h, g1.n + 1) + 2 * G < Ring
    BY <1>1, <1>20, <2>1
  <2> QED BY <1>1, <1>4, <1>5, <1>6, <1>7, <1>8, <1>9, <1>10, <2>1, <2>2, <2>3, <2>4, <2>5 DEF Filled
<1>18. CASE k = 1
  <2>1. submitted < MaxReq /\ submitted - Len(applied[Leader]) < Clients /\ g1 = Extend(g, Command(submitted + 1))
    BY <1>4, <1>18
  <2>2. /\ Gap(g1, h, g1.n + 1) \in Nat /\ Gap(g1, h, g1.n + 1) <= Gap(g, h, g.n + 1) + G /\ g1.n = g.n + 1
        /\ g.off[g.n + 1] = Ring => g1.off[g1.n + 1] # Ring
        /\ Counts(g1, a, u, FALSE, G)
    BY <1>2, <2>1, OneCommand
  <2>3. prev = FALSE
    BY <1>18
  <2>4. Counts(g1, a1, u, prev, G)
    <3>1. FALSE \in BOOLEAN
      OBVIOUS
    <3> QED BY <1>4, <1>6, <2>2, <2>3, <3>1, CountsLater
  <2>5. PICK V \in Nat : V = Gap(g1, h, g1.n + 1) /\ V <= U + G
    BY <1>10, <2>2
  <2>6. Gap(g1, h, g1.n + 1) + 2 * G < Ring
    BY <1>1, <1>10, <1>20, <2>5
  <2>7. Load(g1, h, q, u, V, G)
    <3>1. CASE Calm(U, g.off[g.n + 1], prev_head, G)
      <4>1. 4 * V < 3 * Ring + 16 * G
        BY <1>1, <1>13, <1>20, <2>5, <3>1
      <4> QED BY <4>1 DEF Load
    <3>2. CASE Tight(U, g.off[g.n + 1], u, prev_head, G) /\ Fresh(g, q, on)
      <4>1. 4 * V + 24 * x < 3 * Ring + 24 * y + 16 * G
        BY <1>1, <1>14, <1>20, <2>5, <3>2
      <4>2. \A s \in Server : s \notin on \ {Leader} => g1.n + 1 <= q[s] + Most + 2
        BY <1>1, <1>16, <1>20, <1>21, <2>2, <3>2
      <4> QED BY <1>11, <4>1, <4>2 DEF Load
    <3> QED BY <1>15, <3>1, <3>2
  <2>8. ASSUME l.end = Ring PROVE Spacious(g1, h, q, on, prev, G)
    <3>1. g.off[g.n + 1] # Ring /\ g1.off[g1.n + 1] = Ring
      BY <1>12, <2>2, <2>8
    <3>2. CASE Calm(U, g.off[g.n + 1], prev_head, G)
      <4>1. 4 * U < 3 * Ring + 8 * G
        BY <1>1, <3>1, <3>2, Reckon
      <4>2. 4 * V < 3 * Ring + 12 * G
        BY <1>1, <1>20, <2>5, <4>1
      <4>3. Calm(V, g1.off[g1.n + 1], prev, G)
        BY <1>1, <3>1, <4>2, Reckon
      <4> QED BY <2>5, <4>3 DEF Spacious
    <3>3. CASE Tight(U, g.off[g.n + 1], u, prev_head, G) /\ Fresh(g, q, on)
      <4>6. Tight(U, g.off[g.n + 1], u, prev_head, G) /\ g.off[g.n + 1] # Ring
        BY <3>1, <3>3
      <4>7. 4 * U + 24 * (G * u) < 3 * Ring + 24 * (G * (N + 1)) + 4 * G
        BY <1>1, <4>6, Reckon
      <4>1. 4 * U + 24 * x < 3 * Ring + 24 * y + 4 * G
        BY <1>11, <4>7
      <4>2. 4 * V + 24 * x < 3 * Ring + 24 * y + 8 * G
        BY <1>1, <1>20, <2>5, <4>1
      <4>3. Tight(V, g1.off[g1.n + 1], u, prev, G)
        BY <1>1, <1>11, <3>1, <4>2, Reckon
      <4>4. ASSUME NEW s \in Server, s \notin on \ {Leader}
            PROVE  g1.n + 1 <= q[s] + Most + (IF g1.off[g1.n + 1] = Ring THEN 1 ELSE 0)
        <5>1. g.n + 1 <= q[s] + Most + (IF g.off[g.n + 1] = Ring THEN 1 ELSE 0)
          BY <3>3, <4>4 DEF Fresh
        <5>2. g.n + 1 <= q[s] + Most
          BY <1>20, <1>21, <3>1, <5>1
        <5>3. g1.n + 1 <= q[s] + Most + 1
          BY <1>1, <1>20, <1>21, <2>2, <5>2
        <5> QED BY <3>1, <5>3
      <4>5. Fresh(g1, q, on)
        BY <4>4 DEF Fresh
      <4> QED BY <1>1, <2>5, <4>3, <4>5 DEF Spacious
    <3> QED BY <1>15, <3>2, <3>3
  <2> QED BY <1>1, <1>4, <1>5, <1>6, <1>7, <1>8, <1>9, <2>2, <2>3, <2>4, <2>5, <2>6, <2>7, <2>8 DEF Filled
<1>19. k = 0 \/ k = 1
  OBVIOUS
<1> QED BY <1>17, <1>18, <1>19

\* If force_log_pruning removes nobody, the slowest is not far behind and the head moves.
LEMMA NobodyRemoved ==
    ASSUME Types, NEW G, Enough(G), NEW l \in Log, NEW g, NEW h, NEW a, NEW c, NEW q, NEW u \in Nat, 1 <= u,
           Filled(l, g, h, a, c, q, u, FALSE, G), l.end # Ring, Crowded(l),
           NEW t, t = Slowest(l, apply_offsets),
           ~(t \in on \ {Leader} /\ Larger(l.end, l.apply, apply_offsets[t])),
           \A s \in Server : s \notin on \ {Leader} => g.n + 1 <= q[s] + Most + 2,
           NEW k, NEW j, NEW p, AfterPruning(l, g, h, a, c, q, on, FALSE, k, j, p)
    PROVE  4 * Gap(g, j, g.n + 1) < 3 * Ring
<1>1. /\ History(g) /\ LeadLog(l, g, h, a, c) /\ h \in 1 .. g.n /\ a \in 1 .. g.n + 1 /\ g.n \in Nat
      /\ Counts(g, a, u, FALSE, G) /\ Known(apply_offsets, g, h, q)
  BY DEF Filled
<1>2. G \in Nat /\ Most \in Nat /\ Ring \in Nat /\ FALSE \in BOOLEAN
  BY Sizes, LogAssumption DEF Enough, Grain, Most
<1>3. PICK n \in Nat : n = g.n
  BY <1>1
<1>4. /\ h \in Nat /\ a \in Nat /\ h <= a /\ a <= n + 1 /\ h <= n /\ l.end = g.off[g.n + 1] /\ l.apply = g.off[a]
      /\ Near(g, h, n + 1) /\ h \in 1 .. g.n + 1 /\ n + 1 \in h .. g.n + 1 /\ n + 1 \in 1 .. g.n + 1
      /\ a \in h .. n + 1 /\ g.off[n + 1] # Ring
  BY <1>1, <1>3 DEF LeadLog
<1>5. t \in Server /\ \A s \in Server : ~Larger(l.end, apply_offsets[t], apply_offsets[s])
  BY SlowestType DEF Types
<1>6. \A s \in Server : q[s] \in Nat /\ q[s] \in h .. n + 1 /\ apply_offsets[s] = g.off[q[s]]
  BY <1>1, <1>3 DEF Known
<1>7. ASSUME NEW s \in Server PROVE q[t] <= q[s]
  <2>1. q[s] \in h .. n + 1 /\ q[t] \in h .. n + 1 /\ q[s] \in Nat /\ q[t] \in Nat
    BY <1>5, <1>6
  <2>2. ~Larger(g.off[n + 1], g.off[q[t]], g.off[q[s]])
    BY <1>3, <1>4, <1>5, <1>6
  <2>3. ~(q[s] < q[t])
    BY <1>1, <1>4, <2>1, <2>2, DistanceOrder
  <2> QED BY <2>1, <2>3
<1>8. n + 1 <= a + Most
  BY <1>1, <1>2, <1>3, Few
<1>9. q[t] < a => n + 1 <= q[t] + Most + 2
  <2> SUFFICES ASSUME q[t] < a PROVE n + 1 <= q[t] + Most + 2
    OBVIOUS
  <2>1. q[t] \in h .. n + 1 /\ apply_offsets[t] = g.off[q[t]]
    BY <1>5, <1>6
  <2>2. Larger(g.off[n + 1], g.off[a], g.off[q[t]])
    BY <1>1, <1>4, <2>1, DistanceOrder
  <2>3. t \notin on \ {Leader}
    BY <1>3, <1>4, <2>1, <2>2
  <2> QED BY <1>3, <1>5, <2>3
<1>10. PICK y \in Nat : y = IF q[t] < a THEN q[t] ELSE a
  BY <1>4, <1>5, <1>6
<1>11. /\ h <= y /\ y <= a /\ y <= n + 1 /\ n + 1 <= y + (Most + 2) /\ y \in h .. a /\ y \in 1 .. g.n + 1
  <2>1. q[t] \in Nat /\ h <= q[t] /\ q[t] <= n + 1
    BY <1>5, <1>6
  <2>2. h <= y /\ y <= a /\ y <= n + 1 /\ n + 1 <= y + (Most + 2)
    BY <1>2, <1>4, <1>8, <1>9, <1>10, <2>1
  <2>3. 1 <= h
    BY <1>4
  <2> QED BY <1>3, <1>4, <2>2, <2>3
<1>12. \A s \in on : y <= q[s]
  <2> SUFFICES ASSUME NEW s \in on PROVE y <= q[s]
    OBVIOUS
  <2>1. s \in Server
    BY DEF Types
  <2>2. q[t] <= q[s] /\ q[t] \in Nat /\ q[s] \in Nat
    BY <1>5, <1>6, <1>7, <2>1
  <2>3. y <= q[t]
    BY <1>4, <1>10, <2>2
  <2> QED BY <2>2, <2>3
<1>13. PICK w \in Nat : w = G * (Most + 2) /\ 4 * w < 3 * Ring
  <2>1. Most + 2 \in Nat
    BY <1>2
  <2> QED BY <1>2, <2>1, Products DEF Enough
<1>23. ASSUME NEW x \in 1 .. g.n + 1, x <= n + 1, Near(g, x, n + 1) PROVE Gap(g, x, n + 1) <= G * (n + 1 - x)
  <2>1. PICK pv : pv = FALSE
    OBVIOUS
  <2>2. Counts(g, a, u, pv, G)
    BY <1>1, <2>1
  <2> QED BY <1>1, <1>2, <1>4, <1>23, <2>2, Widths
<1>14. ASSUME NEW x \in Nat, y <= x, x <= n + 1, n + 1 <= x + (Most + 2)
       PROVE  Gap(g, x, n + 1) \in Nat /\ Gap(g, x, n + 1) <= w
  <2>1. x \in 1 .. g.n + 1 /\ h <= x /\ n + 1 <= n + 1
    BY <1>3, <1>4, <1>11, <1>14
  <2>2. Near(g, x, n + 1) /\ Gap(g, x, n + 1) \in 0 .. Ring - 1
    BY <1>1, <1>4, <1>14, <2>1, Between
  <2>3. PICK d \in Nat : d = n + 1 - x /\ d <= Most + 2
    BY <1>2, <1>14
  <2>4. Gap(g, x, n + 1) <= G * d
    BY <1>14, <1>23, <2>1, <2>2, <2>3
  <2>5. Most + 2 \in Nat
    BY <1>2
  <2>6. G * d \in Nat /\ G * d <= G * (Most + 2)
    BY <1>2, <2>3, <2>5, Products
  <2> QED BY <1>13, <2>2, <2>4, <2>6
<1>15. Gap(g, y, n + 1) \in Nat /\ Gap(g, y, n + 1) <= w
  BY <1>10, <1>11, <1>14
<1>16. Gap(g, n, n + 1) \in Nat /\ Gap(g, n, n + 1) <= w
  <2>1. n \in 1 .. g.n + 1 /\ h <= n /\ n + 1 <= n + 1 /\ n <= n + 1
    BY <1>3, <1>4
  <2>2. Near(g, n, n + 1) /\ Gap(g, n, n + 1) \in 0 .. Ring - 1
    BY <1>1, <1>4, <2>1, Between
  <2>3. Gap(g, n, n + 1) <= G * (n + 1 - n)
    BY <1>23, <2>1, <2>2
  <2>4. PICK one \in Nat : one = 1 /\ one <= Most + 2
    BY <1>2
  <2>5. G * one \in Nat /\ G * one <= G * (Most + 2)
    <3>1. Most + 2 \in Nat
      BY <1>2
    <3> QED BY <1>2, <2>4, <3>1, Products
  <2>6. n + 1 - n = one
    BY <1>3, <2>4
  <2> QED BY <1>13, <2>2, <2>3, <2>5, <2>6
<1>17. Distance(l.end, l.head) \in Nat /\ 3 * Ring <= 4 * Distance(l.end, l.head)
  <2>1. l.end \in Offset /\ l.head \in Offset
    BY LogFields
  <2>2. Distance(l.end, l.head) \in 0 .. Ring
    BY <2>1, DistanceRange
  <2>3. 4 * Distance(l.end, l.head) >= 3 * Ring
    BY DEF Crowded
  <2> QED BY <1>2, <2>2, <2>3
<1>18. /\ Gap(g, y, g.n + 1) < Distance(l.end, l.head) /\ Gap(g, g.n, g.n + 1) < Distance(l.end, l.head)
  BY <1>2, <1>3, <1>13, <1>15, <1>16, <1>17
<1>19. y <= j \/ j = g.n
  BY <1>11, <1>12, <1>18 DEF AfterPruning
<1>20. j \in h .. a
  BY DEF AfterPruning
<1>21. CASE j = g.n
  BY <1>2, <1>3, <1>13, <1>16, <1>21
<1>22. CASE y <= j
  <2>1. j \in Nat /\ j <= n + 1
    BY <1>4, <1>20
  <2>2. n + 1 <= j + (Most + 2)
    BY <1>2, <1>11, <1>22, <2>1
  <2>3. Gap(g, j, n + 1) \in Nat /\ Gap(g, j, n + 1) <= w
    BY <1>14, <1>22, <2>1, <2>2
  <2> QED BY <1>2, <1>3, <1>13, <2>3
<1> QED BY <1>19, <1>21, <1>22

\* A pass without pruning.
LEMMA QuietKeeps ==
    ASSUME Types, Types', NEW G, Enough(G), NEW g, NEW h, NEW a, NEW c, NEW q, Sound(g, h, a, c, q, G),
           NEW u, Lead(g, h, a, c, G, u),
           NEW k \in 0 .. 1, NEW l \in Log, NEW g1, NEW a1, NEW c1, Passed(g, h, a, c, k, l, g1, a1, c1),
           ~Crowded(l)
    PROVE  Backed(G)'
<1>1. PICK prev \in BOOLEAN : prev = (prev_head /\ k = 0)
  BY DEF Types
<1>2. Filled(l, g1, h, a1, c1, q, u, prev, G)
  BY <1>1, Filling
<1>3. /\ History(g1) /\ LeadLog(l, g1, h, a1, c1) /\ h \in 1 .. g1.n
      /\ g1.n \in Nat /\ Counts(g1, a1, u, prev, G) /\ Known(apply_offsets, g1, h, q)
      /\ \A s \in on \ {Leader} : Tracks(log[s], rmt[s].end, applied[s], g1, h, q[s], c1)
      /\ Gap(g1, h, g1.n + 1) \in Nat
      /\ prev \/ l.end = Ring => Spacious(g1, h, q, on, prev, G)
      /\ committed <= g1.req[c1]
  BY <1>2 DEF Filled
<1>4. /\ submitted' = g1.req[g1.n + 1] /\ committed' = g1.req[c1]
      /\ applied' = [applied EXCEPT ![Leader] = Upto(g1.req[a1])]
      /\ log' = [log EXCEPT ![Leader] = l]
      /\ prev_head' = (prev_head /\ k = 0) /\ apply_offsets' = apply_offsets /\ on' = on /\ rmt' = rmt
  BY Zenon DEF Passed
<1>5. log'[Leader] = l /\ \A s \in Server \ {Leader} : log'[s] = log[s]
  BY <1>4, Roles DEF Types
<1>6. prev_head' = prev
  BY <1>1, <1>4
<1>7. u = Cardinality(on) /\ G \in Nat /\ u \in Nat
  BY DEF Lead
<1>8. Faithful(g1, h, a1, c1, q)'
  <2>1. Faithful(g, h, a, c, q)
    BY DEF Sound
  <2>2. Known(apply_offsets', g1, h, q) /\ committed <= committed' /\ LeadLog(log'[Leader], g1, h, a1, c1)
        /\ \A s \in on' \ {Leader} : Tracks(log[s], rmt[s].end, applied[s], g1, h, q[s], c1)
    BY <1>3, <1>4, <1>5
  <2> QED BY <1>3, <1>4, <1>5, <2>1, <2>2, LeaderKeeps
<1>9. Spacious(g1, h, q, on, prev, G)
  <2>1. CASE l.end = Ring
    BY <1>3, <2>1
  <2>2. CASE l.end # Ring
    <3>1. \A i \in 1 .. g1.n : 2 * Size(g1, i) <= G
      BY <1>3 DEF Counts
    <3>2. PICK D \in Nat, U \in Nat : /\ D = Distance(l.end, l.head) /\ U = Gap(g1, h, g1.n + 1) /\ U <= D + G
      BY <1>3, <1>7, <2>2, <3>1, HeadDistance
    <3>3. 4 * D < 3 * Ring
      <4>1. ~(4 * D >= 3 * Ring)
        BY <3>2 DEF Crowded
      <4> QED BY <4>1, Sizes
    <3>4. 4 * U < 3 * Ring + 4 * G
      BY <1>7, <3>2, <3>3, Sizes
    <3>5. Calm(U, g1.off[g1.n + 1], prev, G)
      BY <1>7, <3>4, Reckon
    <3> QED BY <3>2, <3>5 DEF Spacious
  <2> QED BY <2>1, <2>2
<1>10. Counts(g1, a1, Cardinality(on'), prev_head', G) /\ Spacious(g1, h, q, on', prev_head', G)
  BY <1>3, <1>4, <1>6, <1>7, <1>9
<1>11. Sound(g1, h, a1, c1, q, G)'
  BY <1>8, <1>10 DEF Sound
<1> QED BY <1>11 DEF Backed

\* A pass with force_log_pruning that removes nobody.
LEMMA ForcedKeeps ==
    ASSUME Types, Types', NEW G, Enough(G), NEW g, NEW h, NEW a, NEW c, NEW q, Faithful(g, h, a, c, q),
           NEW u \in Nat, 1 <= u, u <= N, u = Cardinality(on),
           NEW l \in Log, NEW g1, NEW a1, NEW c1, NEW p1, NEW prev \in BOOLEAN,
           Filled(l, g1, h, a1, c1, p1, u, prev, G), l.end # Ring, Crowded(l),
           NEW t, t = Slowest(l, apply_offsets),
           ~(t \in on \ {Leader} /\ Larger(l.end, l.apply, apply_offsets[t])),
           LogPruning(l, apply_offsets, on, prev), on' = on, rmt' = rmt,
           submitted' = g1.req[g1.n + 1], committed' = g1.req[c1],
           applied' = [applied EXCEPT ![Leader] = Upto(g1.req[a1])]
    PROVE  Backed(G)'
<1>1. /\ History(g1) /\ LeadLog(l, g1, h, a1, c1) /\ h \in 1 .. g1.n
      /\ g1.n \in Nat /\ Counts(g1, a1, u, prev, G) /\ Known(apply_offsets, g1, h, p1)
      /\ \A s \in on \ {Leader} : Tracks(log[s], rmt[s].end, applied[s], g1, h, p1[s], c1)
      /\ Gap(g1, h, g1.n + 1) \in Nat /\ Gap(g1, h, g1.n + 1) + 2 * G < Ring
      /\ prev \/ l.end = Ring => Spacious(g1, h, p1, on, prev, G)
      /\ Load(g1, h, p1, u, Gap(g1, h, g1.n + 1), G)
      /\ committed <= g1.req[c1]
  BY DEF Filled
<1>2. G \in Nat /\ 2 * Hdr <= G /\ Ring \in Nat /\ N \in Nat
  BY Sizes DEF Enough, Grain
<1>3. Gap(g1, h, g1.n + 1) + G < Ring
  BY <1>1, <1>2
<1>4. apply_offsets \in [0 .. N -> Offset] /\ on \in SUBSET Server /\ Leader \in on /\ prev_head' \in BOOLEAN
  BY DEF Types
<1>5. PICK k, j, p : AfterPruning(l, g1, h, a1, c1, p1, on, prev, k, j, p)
  BY <1>1, <1>2, <1>3, <1>4, PruningKeeps
<1>6. HeadAfter(g1, h, a1, c1, on, k, j, p, u, G)
  BY <1>1, <1>2, <1>3, <1>5, HeadLater
<1>7. Faithful(k, j, a1, c1, p)'
  <2>1. /\ History(k) /\ LeadLog(log'[Leader], k, j, a1, c1)
        /\ \A s \in Server \ {Leader} : log'[s] = log[s]
        /\ Known(apply_offsets', k, j, p)
        /\ \A s \in on \ {Leader} : Tracks(log[s], rmt[s].end, applied[s], k, j, p[s], c1)
    BY <1>5 DEF AfterPruning
  <2>2. /\ submitted' = k.req[k.n + 1] /\ committed' = k.req[c1] /\ committed <= committed'
        /\ applied' = [applied EXCEPT ![Leader] = Upto(k.req[a1])]
    BY <1>1, <1>6 DEF HeadAfter
  <2>3. \A s \in on' \ {Leader} : Tracks(log[s], rmt[s].end, applied[s], k, j, p[s], c1)
    BY <2>1
  <2> QED BY <2>1, <2>2, <2>3, LeaderKeeps
<1>8. PICK U \in Nat, V \in Nat, W \in Nat :
        /\ U = Gap(g1, h, g1.n + 1) /\ V = Gap(k, j, k.n + 1) /\ W = Gap(g1, j, g1.n + 1) /\ V <= W + G /\ W <= U
  BY <1>1, <1>6 DEF HeadAfter
<1>9. PICK x \in Nat, y \in Nat, z \in Nat : x = G * u /\ y = G * (N + 1) /\ z = G * N /\ x <= z /\ y = z + G
  <2>1. N + 1 \in Nat
    BY <1>2
  <2> QED BY <1>2, <2>1, Products
<1>10. Spacious(k, j, p, on, prev_head', G)
  <2>1. Fresh(k, p, on)
    BY <1>6 DEF HeadAfter
  <2>2. CASE prev
    <3>1. k = g1 /\ j = h /\ prev_head' = prev
      BY <1>5, <2>2 DEF AfterPruning
    <3>2. Spacious(g1, h, p1, on, prev, G)
      BY <1>1, <2>2
    <3>3. \/ Calm(Gap(k, j, k.n + 1), k.off[k.n + 1], prev_head', G)
          \/ Tight(Gap(k, j, k.n + 1), k.off[k.n + 1], Cardinality(on), prev_head', G)
      BY <3>1, <3>2 DEF Spacious
    <3> QED BY <2>1, <3>3 DEF Spacious
  <2>3. CASE ~prev
    <3>1. CASE 4 * U < 3 * Ring + 16 * G
      <4>1. 4 * V + 24 * x < 3 * Ring + 24 * y
        BY <1>2, <1>8, <1>9, <3>1
      <4>2. PICK pv \in BOOLEAN : pv = prev_head'
        BY <1>4
      <4>3. 4 * V + 24 * (G * u) < 3 * Ring + 24 * (G * (N + 1))
        BY <1>9, <4>1
      <4>4. Tight(V, k.off[k.n + 1], u, pv, G)
        BY <1>2, <4>3, Reckon
      <4> QED BY <1>8, <2>1, <4>2, <4>4 DEF Spacious
    <3>2. CASE \A s \in Server : s \notin on \ {Leader} => g1.n + 1 <= p1[s] + Most + 2
      <4>1. prev = FALSE
        BY <2>3
      <4>2. /\ Filled(l, g1, h, a1, c1, p1, u, FALSE, G)
            /\ AfterPruning(l, g1, h, a1, c1, p1, on, FALSE, k, j, p)
        BY <1>5, <4>1
      <4>3. 4 * W < 3 * Ring
        BY <1>8, <3>2, <4>2, NobodyRemoved
      <4>4. 4 * V < 3 * Ring + 4 * G
        BY <1>2, <1>8, <4>3
      <4>5. PICK pv \in BOOLEAN : pv = prev_head'
        BY <1>4
      <4>6. Calm(V, k.off[k.n + 1], pv, G)
        BY <1>2, <4>4, Reckon
      <4> QED BY <1>8, <4>5, <4>6 DEF Spacious
    <3> QED BY <1>1, <1>8, <3>1, <3>2 DEF Load
  <2> QED BY <2>2, <2>3
<1>11. Counts(k, a1, Cardinality(on'), prev_head', G) /\ Spacious(k, j, p, on', prev_head', G)
  BY <1>6, <1>10 DEF HeadAfter
<1>12. Sound(k, j, a1, c1, p, G)'
  BY <1>7, <1>11 DEF Sound
<1> QED BY <1>12 DEF Backed

\* A pass with force_log_pruning that removes server t.
LEMMA RemovalKeeps ==
    ASSUME Types, Types', NEW G, Enough(G), NEW g, NEW h, NEW a, NEW c, NEW q, Faithful(g, h, a, c, q),
           NEW u \in Nat, u <= N, u = Cardinality(on),
           NEW l \in Log, NEW g1, NEW a1, NEW c1, NEW p1, NEW prev \in BOOLEAN,
           Filled(l, g1, h, a1, c1, p1, u, prev, G),
           NEW t \in on \ {Leader},
           NEW ao, ao = [apply_offsets EXCEPT ![N] = l.apply],
           LogPruning(Appended(l, "CONFIG", 0, 0), ao, on \ {t}, FALSE), on' = on \ {t}, rmt' = rmt,
           submitted' = g1.req[g1.n + 1], committed' = g1.req[c1],
           applied' = [applied EXCEPT ![Leader] = Upto(g1.req[a1])]
    PROVE  Backed(G)'
<1>1. /\ History(g1) /\ LeadLog(l, g1, h, a1, c1) /\ h \in 1 .. g1.n /\ a1 \in 1 .. g1.n + 1 /\ c1 \in 1 .. g1.n + 1
      /\ g1.n \in Nat /\ Counts(g1, a1, u, prev, G) /\ Known(apply_offsets, g1, h, p1)
      /\ \A s \in on \ {Leader} : Tracks(log[s], rmt[s].end, applied[s], g1, h, p1[s], c1)
      /\ Gap(g1, h, g1.n + 1) \in Nat /\ Gap(g1, h, g1.n + 1) + 2 * G < Ring
      /\ Load(g1, h, p1, u, Gap(g1, h, g1.n + 1), G)
      /\ committed <= g1.req[c1]
  BY DEF Filled
<1>2. G \in Nat /\ 2 * Hdr <= G /\ Ring \in Nat /\ N \in Nat
  BY Sizes DEF Enough, Grain
<1>3. apply_offsets \in [0 .. N -> Offset] /\ on \in SUBSET Server /\ Leader \in on /\ prev_head' \in BOOLEAN
      /\ t \in on
  BY DEF Types
<1>4. PICK left \in SUBSET Server : left = on \ {t} /\ Leader \in left
  BY <1>3
<1>5. PICK v \in Nat : v = Cardinality(left) /\ 1 <= v /\ v + 1 = u
  BY <1>3, <1>4, UpCount
<1>6. PICK e \in Entry : e = [type |-> "CONFIG", len |-> 0, val |-> 0]
  <2>1. 0 \in Offset
    BY OffsetNat
  <2> QED BY <2>1, EntryTypes
<1>7. e.type = "CONFIG" /\ e.type # "CSM" /\ EntryLen(e) = Hdr /\ 2 * EntryLen(e) <= G
  BY <1>2, <1>6, Sizes DEF EntryLen
<1>8. PICK g2 : g2 = Extend(g1, e)
  OBVIOUS
<1>9. h \in 1 .. g1.n + 1 /\ Near(g1, h, g1.n + 1) /\ Gap(g1, h, g1.n + 1) + G < Ring /\ h \in Nat
  BY <1>1, <1>2 DEF LeadLog
<1>10. /\ History(g2) /\ Extends(g1, g2, e) /\ Grown(g1, g2) /\ g2.n = g1.n + 1 /\ g2.n \in Nat
       /\ Gap(g2, h, g2.n + 1) \in Nat /\ Gap(g2, h, g2.n + 1) <= Gap(g1, h, g1.n + 1) + G
       /\ g2.req[g2.n + 1] = g1.req[g1.n + 1]
  BY <1>1, <1>2, <1>6, <1>7, <1>8, <1>9, OneMore
<1>11. PICK l2 : l2 = Appended(l, "CONFIG", 0, 0)
  OBVIOUS
<1>12. LeadLog(l2, g2, h, a1, c1)
  <2>1. Footprint(g1, e) \in 0 .. G
    BY <1>1, <1>2, <1>7, SmallFootprint
  <2>2. Gap(g1, h, g1.n + 1) + Footprint(g1, e) < Ring
    BY <1>1, <1>2, <1>9, <2>1
  <2> QED BY <1>1, <1>6, <1>7, <1>8, <1>11, <2>2, Appending
<1>13. Counts(g2, a1, v, FALSE, G)
  <2>1. /\ History(g1) /\ History(g2) /\ Extends(g1, g2, e) /\ e \in Entry /\ e.type = "CONFIG" /\ 2 * EntryLen(e) <= G
        /\ a1 \in 1 .. g1.n + 1 /\ G \in Nat /\ TRUE \in BOOLEAN /\ FALSE \in BOOLEAN /\ v + 1 = u
    BY <1>1, <1>2, <1>5, <1>6, <1>7, <1>10
  <2>2. CASE prev = TRUE
    <3>1. Counts(g1, a1, u, TRUE, G)
      BY <1>1, <2>2
    <3> QED BY <2>1, <3>1, CountsMore
  <2>3. CASE prev = FALSE
    <3>1. Counts(g1, a1, u, FALSE, G)
      BY <1>1, <2>3
    <3> QED BY <2>1, <3>1, CountsMore
  <2> QED BY <2>2, <2>3
<1>14. ao \in [0 .. N -> Offset] /\ \A s \in Server : ao[s] = apply_offsets[s]
  <2>1. l.apply \in Offset
    BY LogFields
  <2>2. \A s \in Server : s # N /\ s \in 0 .. N
    BY <1>2 DEF Server
  <2> QED BY <1>3, <2>1, <2>2
<1>15. Known(ao, g2, h, p1)
  <2>1. Known(ao, g1, h, p1)
    BY <1>1, <1>14 DEF Known
  <2> QED BY <1>1, <1>10, <2>1, KnownGrown
<1>16. \A s \in left \ {Leader} : Tracks(log[s], rmt[s].end, applied[s], g2, h, p1[s], c1)
  <2> SUFFICES ASSUME NEW s \in left \ {Leader} PROVE Tracks(log[s], rmt[s].end, applied[s], g2, h, p1[s], c1)
    OBVIOUS
  <2>1. s \in Server /\ s \in on \ {Leader}
    BY <1>4
  <2>2. p1[s] \in Nat /\ h \in h .. p1[s] /\ c1 \in Nat /\ c1 <= c1
    BY <1>1, <1>9, <2>1 DEF Known
  <2> QED BY <1>1, <1>10, <2>1, <2>2, TracksOn
<1>17. Gap(g2, h, g2.n + 1) + G < Ring
  BY <1>1, <1>2, <1>10
<1>18. FALSE \in BOOLEAN /\ LogPruning(l2, ao, left, FALSE)
  BY <1>4, <1>11
<1>19. PICK k, j, p : AfterPruning(l2, g2, h, a1, c1, p1, left, FALSE, k, j, p)
  BY <1>2, <1>4, <1>10, <1>12, <1>14, <1>15, <1>16, <1>17, <1>18, PruningKeeps
<1>20. HeadAfter(g2, h, a1, c1, left, k, j, p, v, G)
  BY <1>2, <1>5, <1>10, <1>12, <1>13, <1>17, <1>18, <1>19, HeadLater
<1>21. g2.req[a1] = g1.req[a1] /\ g2.req[c1] = g1.req[c1]
  BY <1>1, <1>10 DEF Grown
<1>22. Faithful(k, j, a1, c1, p)'
  <2>1. /\ History(k) /\ LeadLog(log'[Leader], k, j, a1, c1)
        /\ \A s \in Server \ {Leader} : log'[s] = log[s]
        /\ Known(apply_offsets', k, j, p)
        /\ \A s \in left \ {Leader} : Tracks(log[s], rmt[s].end, applied[s], k, j, p[s], c1)
    BY <1>19 DEF AfterPruning
  <2>2. /\ submitted' = k.req[k.n + 1] /\ committed' = k.req[c1] /\ committed <= committed'
        /\ applied' = [applied EXCEPT ![Leader] = Upto(k.req[a1])]
    BY <1>1, <1>10, <1>20, <1>21 DEF HeadAfter
  <2>3. \A s \in on' \ {Leader} : Tracks(log[s], rmt[s].end, applied[s], k, j, p[s], c1)
    BY <1>4, <2>1
  <2> QED BY <2>1, <2>2, <2>3, LeaderKeeps
<1>23. PICK U \in Nat, V \in Nat : U = Gap(g1, h, g1.n + 1) /\ V = Gap(k, j, k.n + 1) /\ V <= U + 2 * G
  <2>1. PICK W \in Nat : W = Gap(g2, j, g2.n + 1) /\ W <= Gap(g2, h, g2.n + 1)
    BY <1>20 DEF HeadAfter
  <2>2. PICK V \in Nat : V = Gap(k, j, k.n + 1) /\ V <= W + G
    BY <1>20, <2>1 DEF HeadAfter
  <2>3. PICK U \in Nat : U = Gap(g1, h, g1.n + 1) /\ Gap(g2, h, g2.n + 1) <= U + G
    BY <1>1, <1>10
  <2>4. V <= U + 2 * G
    BY <1>2, <1>10, <2>1, <2>2, <2>3
  <2> QED BY <2>2, <2>3, <2>4
<1>24. PICK x \in Nat, w \in Nat, y \in Nat, z \in Nat :
         x = G * u /\ w = G * v /\ y = G * (N + 1) /\ z = G * N /\ x <= z /\ y = z + G /\ x = w + G
  <2>1. N + 1 \in Nat /\ v + 1 = u
    BY <1>2, <1>5
  <2>2. G * N \in Nat /\ G * (N + 1) = G * N + G /\ G * u <= G * N /\ G * u \in Nat
    BY <1>2, Products
  <2>3. G * v \in Nat /\ G * (v + 1) = G * v + G
    BY <1>2, <1>5, Products
  <2>4. G * u = G * v + G
    BY <2>1, <2>3
  <2>5. G * (N + 1) \in Nat
    BY <1>2, <2>2
  <2> QED BY <2>2, <2>3, <2>4, <2>5
<1>25. 4 * V + 24 * w < 3 * Ring + 24 * y
  <2>1. CASE 4 * U < 3 * Ring + 16 * G
    BY <1>2, <1>23, <1>24, <2>1
  <2>2. CASE 4 * U + 24 * x < 3 * Ring + 24 * y + 16 * G
    BY <1>2, <1>23, <1>24, <2>2
  <2>3. \/ 4 * U < 3 * Ring + 16 * G
        \/ 4 * U + 24 * (G * u) < 3 * Ring + 24 * (G * (N + 1)) + 16 * G
    BY <1>1, <1>23 DEF Load
  <2> QED BY <1>24, <2>1, <2>2, <2>3
<1>26. Spacious(k, j, p, left, prev_head', G)
  <2>1. Fresh(k, p, left)
    BY <1>20 DEF HeadAfter
  <2>2. PICK pv \in BOOLEAN : pv = prev_head'
    BY <1>3
  <2>3. 4 * V + 24 * (G * v) < 3 * Ring + 24 * (G * (N + 1))
    BY <1>24, <1>25
  <2>4. Tight(V, k.off[k.n + 1], v, pv, G)
    BY <1>2, <2>3, Reckon
  <2> QED BY <1>5, <1>23, <2>1, <2>2, <2>4 DEF Spacious
<1>27. Counts(k, a1, Cardinality(on'), prev_head', G) /\ Spacious(k, j, p, on', prev_head', G)
  BY <1>4, <1>5, <1>20, <1>26 DEF HeadAfter
<1>28. Sound(k, j, a1, c1, p, G)'
  BY <1>22, <1>27 DEF Sound
<1> QED BY <1>28 DEF Backed

LEMMA LeaderPassKeeps ==
    ASSUME Types, Types', NEW G, Enough(G), Backed(G), LeaderPass
    PROVE  Backed(G)'
<1>1. PICK g, h, a, c, q : Sound(g, h, a, c, q, G)
  BY DEF Backed
<1>2. PICK u : Lead(g, h, a, c, G, u)
  BY <1>1, Leading
<1>3. /\ Grain(G) /\ Gap(g, h, g.n + 1) \in Nat /\ Gap(g, h, g.n + 1) + 3 * G < Ring /\ G \in Nat
      /\ u \in Nat /\ 1 <= u /\ u <= N /\ u = Cardinality(on)
  BY <1>2 DEF Lead
<1>4. Faithful(g, h, a, c, q)
  BY <1>1 DEF Sound
<1>5. PICK k, l, g1, a1, c1 : k \in 0 .. 1 /\ l \in Log /\ Passed(g, h, a, c, k, l, g1, a1, c1)
  <2>1. Gap(g, h, g.n + 1) + G < Ring
    BY <1>3, Sizes
  <2> QED BY <1>3, <1>4, <2>1, Passing
<1>8. l \in Log
  BY <1>5
<1>6. CASE ~Crowded(l)
  BY <1>1, <1>2, <1>5, <1>6, QuietKeeps
<1>7. CASE Crowded(l)
  <2>1. PICK prev \in BOOLEAN : prev = (prev_head /\ k = 0)
    BY DEF Types
  <2>2. Filled(l, g1, h, a1, c1, q, u, prev, G)
    BY <1>1, <1>2, <1>5, <2>1, Filling
  <2>3. /\ submitted' = g1.req[g1.n + 1] /\ committed' = g1.req[c1]
        /\ applied' = [applied EXCEPT ![Leader] = Upto(g1.req[a1])]
        /\ ForceLogPruning(l, prev_head /\ k = 0) /\ rmt' = rmt
    BY <1>5, <1>7, Zenon DEF Passed
  <2>4. ForceLogPruning(l, prev)
    BY <2>1, <2>3
  <2>5. l.end # Ring
    <3> SUFFICES ASSUME l.end = Ring PROVE FALSE
      OBVIOUS
    <3>1. Distance(l.end, l.head) = 0
      BY DEF Distance
    <3> QED BY <1>7, <3>1, Sizes DEF Crowded
  <2>6. PICK t : t = Slowest(l, apply_offsets)
    OBVIOUS
  <2> DEFINE remove == t \in on \ {Leader} /\ Larger(l.end, l.apply, apply_offsets[t])
             left == IF remove THEN on \ {t} ELSE on
             new == IF remove THEN Appended(l, "CONFIG", 0, 0) ELSE l
             ao == IF remove THEN [apply_offsets EXCEPT ![N] = l.apply] ELSE apply_offsets
  <2>7. LogPruning(new, ao, left, prev /\ ~remove) /\ on' = left
    BY <2>4, <2>6, Zenon DEF ForceLogPruning
  <2>8. CASE ~remove
    <3>1. PICK pv \in BOOLEAN : pv = (prev /\ ~remove)
      OBVIOUS
    <3>2. pv = prev
      BY <2>8, <3>1
    <3>3. new = l /\ ao = apply_offsets /\ left = on
      BY <2>8
    <3>4. LogPruning(l, apply_offsets, on, prev) /\ on' = on
      <4> HIDE DEF remove, left, new, ao
      <4> QED BY <2>7, <3>1, <3>2, <3>3
    <3>5. ~(t \in on \ {Leader} /\ Larger(l.end, l.apply, apply_offsets[t]))
      BY <2>8
    <3> HIDE DEF remove, left, new, ao
    <3> QED BY <1>3, <1>4, <1>7, <1>8, <2>1, <2>2, <2>3, <2>5, <2>6, <3>4, <3>5, ForcedKeeps
  <2>9. CASE remove
    <3>1. PICK pv \in BOOLEAN : pv = (prev /\ ~remove)
      OBVIOUS
    <3>2. pv = FALSE
      BY <2>9, <3>1
    <3>3. new = Appended(l, "CONFIG", 0, 0) /\ ao = [apply_offsets EXCEPT ![N] = l.apply] /\ left = on \ {t}
          /\ t \in on \ {Leader}
      BY <2>9
    <3>5. PICK ap : ap = [apply_offsets EXCEPT ![N] = l.apply]
      OBVIOUS
    <3>4. LogPruning(Appended(l, "CONFIG", 0, 0), ap, on \ {t}, FALSE) /\ on' = on \ {t}
      <4> HIDE DEF remove, left, new, ao
      <4> QED BY <2>7, <3>1, <3>2, <3>3, <3>5
    <3> HIDE DEF remove, left, new, ao
    <3> QED BY <1>3, <1>4, <1>8, <2>1, <2>2, <2>3, <3>3, <3>4, <3>5, RemovalKeeps
  <2> QED BY <2>8, <2>9
<1> QED BY <1>6, <1>7

\* Initially the CONFIG entry is the history.
LEMMA InitBacked ==
    ASSUME Init, NEW G, Enough(G)
    PROVE  Backed(G)
<1>1. PICK o \in Start :
        LET end == o + Hdr
            old == [mem |-> [a \in {o} |-> [type |-> "CONFIG", len |-> 0, val |-> 0]], reply |-> {},
                    head |-> o, apply |-> end, commit |-> end, end |-> end, tail |-> o,
                    old_end |-> end]
            new == [old EXCEPT !.apply = 0, !.commit = 0, !.old_end = Ring]
        IN  /\ log = [s \in Server |->
                        IF o > 0 THEN old ELSE IF s = Leader THEN new
                        ELSE [new EXCEPT !.mem = <<>>, !.end = 0, !.tail = Ring]]
            /\ cid_offset = [s \in Server |-> log[s].commit]
            /\ rmt = [s \in Follower |-> [end |-> log[s].end, commit |-> log[s].commit]]
            /\ apply_offsets = [i \in 0 .. N |-> o]
            /\ prev_head = FALSE
            /\ on = Server
            /\ prunes = 0
            /\ submitted = 0
            /\ committed = 0
            /\ applied = [s \in Server |-> <<>>]
  BY Zenon DEF Init
<1>2. o \in 0 .. Ring - Hdr /\ o \in Offset /\ o + Hdr \in Offset /\ o \in Nat
  BY LogAssumption, Sizes DEF Offset
<1>3. PICK e \in Entry : e = [type |-> "CONFIG", len |-> 0, val |-> 0]
  <2>1. 0 \in Offset
    BY OffsetNat
  <2> QED BY <2>1, EntryTypes
<1>4. EntryLen(e) = Hdr /\ e.type = "CONFIG"
  BY <1>3, Sizes DEF EntryLen
<1>5. Types
  BY InitTypes
<1> DEFINE g == [n |-> 1, lap |-> [i \in Nat |-> 0], off |-> [i \in Nat |-> IF i = 1 THEN o ELSE o + Hdr],
                 ent |-> [i \in Nat |-> e], req |-> [i \in Nat |-> 0],
                 oth |-> [i \in Nat |-> IF i = 1 THEN 0 ELSE 1]]
<1>6. g \in Histories
  <2>1. 1 \in Nat \ {0} /\ [i \in Nat |-> IF i = 1 THEN o ELSE o + Hdr] \in [Nat -> Offset]
    BY <1>2
  <2>2. [i \in Nat |-> IF i = 1 THEN 0 ELSE 1] \in [Nat -> Nat] /\ [i \in Nat |-> 0] \in [Nat -> Nat]
    OBVIOUS
  <2> QED BY <2>1, <2>2 DEF Histories
<1>7. /\ g.n = 1 /\ g.off[1] = o /\ g.off[2] = o + Hdr /\ g.lap[1] = 0 /\ g.lap[2] = 0 /\ g.ent[1] = e
      /\ g.req[1] = 0 /\ g.req[2] = 0 /\ g.oth[1] = 0 /\ g.oth[2] = 1
  OBVIOUS
<1>8. PICK k : k = g
  OBVIOUS
<1>9. /\ k \in Histories /\ k.n = 1 /\ k.off[1] = o /\ k.off[2] = o + Hdr /\ k.lap[1] = 0 /\ k.lap[2] = 0
      /\ k.ent[1] = e /\ k.req[1] = 0 /\ k.req[2] = 0 /\ k.oth[1] = 0 /\ k.oth[2] = 1
  BY <1>6, <1>7, <1>8
<1> HIDE DEF g
<1>10. Size(k, 1) = Hdr /\ InPlace(k, 1) /\ PlaceOf(k, 1) = o
  BY <1>2, <1>4, <1>9, Sizes DEF Size, InPlace, PlaceOf
<1>11. History(k)
  <2>1. Follows(k, 1)
    BY <1>4, <1>9, <1>10 DEF Follows
  <2>2. Before(k, 1, 2)
    BY <1>2, <1>9, Sizes DEF Before
  <2>3. \A i \in 1 .. k.n : i = 1
    BY <1>9
  <2>4. \A i, j \in 1 .. k.n + 1 : i < j => i = 1 /\ j = 2
    BY <1>9
  <2> QED BY <1>9, <2>1, <2>2, <2>3, <2>4 DEF History
<1>12. Gap(k, 1, 2) = Hdr /\ Near(k, 1, 2) /\ k.n + 1 = 2
  BY <1>2, <1>9, Sizes DEF Gap, Near
<1>13. /\ prev_head = FALSE /\ on = Server /\ submitted = 0 /\ committed = 0 /\ applied = [s \in Server |-> <<>>]
       /\ apply_offsets = [i \in 0 .. N |-> o]
  BY <1>1, Zenon
<1>14. Upto(0) = <<>>
  <2>1. 0 \in Nat
    OBVIOUS
  <2>2. Upto(0) \in Seq(Nat) /\ Len(Upto(0)) = 0
    BY <2>1, UptoSeq
  <2> QED BY <2>2, EmptySeq
<1>15. PICK w \in Nat : w = IF o > 0 THEN 2 ELSE 1
  OBVIOUS
<1>16. /\ w \in 1 .. 2 /\ k.req[w] = 0
       /\ k.off[w] = IF o > 0 THEN o + Hdr ELSE 0
  <2>1. CASE o > 0
    BY <1>9, <1>15, <2>1
  <2>2. CASE ~(o > 0)
    BY <1>2, <1>9, <1>15, <2>2
  <2> QED BY <2>1, <2>2
<1>17. \A s \in Server : s = Leader \/ o > 0 =>
         /\ log[s].end = o + Hdr /\ log[s].tail = o /\ log[s].head = o
         /\ log[s].apply = k.off[w] /\ log[s].commit = k.off[w]
         /\ log[s].mem = [a \in {o} |-> [type |-> "CONFIG", len |-> 0, val |-> 0]]
  <2>1. CASE o > 0
    BY <1>1, <1>16, <2>1
  <2>2. CASE ~(o > 0)
    BY <1>1, <1>16, <2>2, Roles
  <2> QED BY <2>1, <2>2
<1>18. \A s \in Server : ~(s = Leader \/ o > 0) => log[s].end = 0 /\ log[s].apply = 0 /\ log[s].commit = 0
  BY <1>1
<1>19. \A s \in Follower : rmt[s].end = log[s].end
  <2>1. rmt = [s \in Follower |-> [end |-> log[s].end, commit |-> log[s].commit]]
    BY <1>1, Zenon
  <2> QED BY <2>1
<1>20. Holds([a \in {o} |-> [type |-> "CONFIG", len |-> 0, val |-> 0]], k, 1)
  <2>1. \A p \in Heads(k, 1) : p = o
    BY <1>9, <1>10 DEF Heads
  <2> QED BY <1>3, <1>9, <2>1 DEF Holds
<1>21. LeadLog(L, k, 1, w, w)
  <2>1. L \in Log
    BY <1>5, Roles DEF L, Types
  <2>2. /\ L.end = o + Hdr /\ L.tail = o /\ L.head = o /\ L.apply = k.off[w] /\ L.commit = k.off[w]
        /\ L.mem = [a \in {o} |-> [type |-> "CONFIG", len |-> 0, val |-> 0]]
    BY <1>17, Roles DEF L
  <2>3. 1 \in 1 .. k.n /\ w \in 1 .. k.n + 1 /\ w \in w .. k.n + 1
    BY <1>9, <1>16
  <2>4. \A i \in 1 .. k.n : i = 1
    BY <1>9
  <2>5. L.tail = PlaceOf(k, k.n) /\ L.head \in {k.off[1], PlaceOf(k, 1)}
    BY <1>9, <1>10, <2>2
  <2>6. L.end = k.off[k.n + 1] /\ Near(k, 1, k.n + 1)
    BY <1>9, <1>12, <2>2
  <2>7. \A i \in 1 .. k.n : Holds(L.mem, k, i)
    BY <1>20, <2>2, <2>4
  <2> QED BY <2>1, <2>2, <2>3, <2>5, <2>6, <2>7 DEF LeadLog
<1>22. PICK q : q = [s \in Server |-> 1]
  OBVIOUS
<1>23. Known(apply_offsets, k, 1, q)
  <2>1. \A s \in Server : apply_offsets[s] = o
    BY <1>13, Roles
  <2>2. 1 \in 1 .. k.n + 1 /\ 1 \in Nat
    BY <1>9
  <2> QED BY <1>9, <1>22, <2>1, <2>2 DEF Known
<1>24. Tracked(k, 1, q, w)
  <2> SUFFICES ASSUME NEW s \in Server, s # Leader
               PROVE  Tracks(log[s], rmt[s].end, applied[s], k, 1, q[s], w)
    BY <1>13 DEF Tracked
  <2>1. log[s] \in Log /\ rmt[s].end = log[s].end /\ applied[s] = <<>> /\ q[s] = 1
    BY <1>5, <1>13, <1>19, <1>22 DEF Types, Follower
  <2>2. CASE o > 0
    <3>1. w = 2
      BY <1>15, <2>2
    <3>2. PICK e2 \in Nat : e2 = 2
      OBVIOUS
    <3>3. /\ e2 \in 1 .. k.n + 1 /\ e2 \in 1 .. e2 /\ e2 \in e2 .. w /\ 1 <= e2
      BY <1>9, <3>1, <3>2
    <3>4. /\ log[s].end = k.off[e2] /\ log[s].apply = k.off[e2] /\ log[s].commit = k.off[e2]
      BY <1>9, <1>17, <2>2, <3>1, <3>2
    <3>5. \A i \in 1 .. e2 - 1 : Holds(log[s].mem, k, i)
      <4>1. \A i \in 1 .. e2 - 1 : i = 1
        BY <3>2
      <4> QED BY <1>17, <1>20, <2>2, <4>1
    <3>6. applied[s] = Upto(k.req[e2])
      BY <1>9, <1>14, <2>1, <3>2
    <3> QED BY <2>1, <3>3, <3>4, <3>5, <3>6 DEF Tracks
  <2>3. CASE ~(o > 0)
    <3>1. w = 1 /\ o = 0
      BY <1>2, <1>15, <2>3
    <3>2. PICK e2 \in Nat : e2 = 1
      OBVIOUS
    <3>3. /\ e2 \in 1 .. k.n + 1 /\ e2 \in 1 .. e2 /\ e2 \in e2 .. w /\ 1 <= e2
      BY <1>9, <3>1, <3>2
    <3>4. /\ log[s].end = k.off[e2] /\ log[s].apply = k.off[e2] /\ log[s].commit = k.off[e2]
      BY <1>9, <1>18, <2>3, <3>1, <3>2
    <3>5. \A i \in 1 .. e2 - 1 : Holds(log[s].mem, k, i)
      BY <3>2
    <3>6. applied[s] = Upto(k.req[e2])
      BY <1>9, <1>14, <2>1, <3>2
    <3> QED BY <2>1, <3>3, <3>4, <3>5, <3>6 DEF Tracks
  <2> QED BY <2>2, <2>3
<1>25. Faithful(k, 1, w, w, q)
  <2>1. submitted = k.req[k.n + 1] /\ committed = k.req[w]
    BY <1>9, <1>12, <1>13, <1>16
  <2>2. applied[Leader] = Upto(k.req[w])
    BY <1>13, <1>14, <1>16, Roles
  <2>3. applied \in [Server -> Seq(Nat)]
    <3>1. <<>> \in Seq(Nat)
      OBVIOUS
    <3> QED BY <1>13, <3>1
  <2>4. \A s \in Server : \E i \in 0 .. committed : applied[s] = Upto(i)
    <3>1. 0 \in 0 .. committed
      BY <1>13
    <3> QED BY <1>13, <1>14, <3>1
  <2> QED BY <1>11, <1>21, <1>23, <1>24, <2>1, <2>2, <2>3, <2>4 DEF Faithful
<1>26. G \in Nat /\ 2 * Hdr <= G /\ N \in Nat /\ Clients \in Nat /\ Ring \in Nat
  BY Sizes, LogAssumption DEF Enough, Grain
<1>27. Cardinality(on) = N
  <2>1. N - 1 \in Int /\ 0 \in Int /\ N \in Nat /\ 0 < N
    BY Sizes
  <2>2. Cardinality(0 .. N - 1) = IF 0 > N - 1 THEN 0 ELSE N - 1 - 0 + 1
    BY <2>1, FS_Interval
  <2> QED BY <1>13, <2>1, <2>2 DEF Server
<1>28. Counts(k, w, N, FALSE, G)
  <2>1. \A i \in 1 .. k.n : 2 * Size(k, i) <= G
    <3>1. \A i \in 1 .. k.n : i = 1
      BY <1>9
    <3> QED BY <1>10, <1>26, <3>1
  <2>2. ASSUME NEW i \in 1 .. k.n + 1
        PROVE  k.n + 1 - i <= 2 * (k.oth[k.n + 1] - k.oth[i]) + (IF FALSE THEN 1 ELSE 0)
    <3>1. i = 1 \/ i = 2
      BY <1>12
    <3> QED BY <1>9, <1>12, <3>1
  <2>3. /\ k.oth[k.n + 1] + N <= k.req[k.n + 1] + N + 1
        /\ k.req[k.n + 1] <= k.req[w] + Clients
    BY <1>9, <1>12, <1>16, <1>26
  <2> QED BY <2>1, <2>2, <2>3 DEF Counts
<1>29. Spacious(k, 1, q, on, FALSE, G)
  <2>1. 4 * Hdr < 3 * Ring + 4 * G
    BY <1>26, Sizes
  <2>2. FALSE \in BOOLEAN /\ Hdr \in Nat /\ Cardinality(on) \in Nat
    BY <1>26, <1>27, Sizes
  <2>3. Calm(Hdr, k.off[k.n + 1], FALSE, G)
    BY <1>26, <2>1, <2>2, Reckon
  <2> QED BY <1>12, <2>3 DEF Spacious
<1>30. Sound(k, 1, w, w, q, G)
  BY <1>13, <1>25, <1>27, <1>28, <1>29 DEF Sound
<1> QED BY <1>30 DEF Backed

LEMMA NextBacked ==
    ASSUME Types, Types', [Next]_vars, NEW G, Enough(G), Backed(G)
    PROVE  Backed(G)'
<1>1. PICK g, h, a, c, q : Sound(g, h, a, c, q, G)
  BY DEF Backed
<1>2. CASE LeaderPass
  BY <1>2, LeaderPassKeeps
<1>3. CASE Prune
  BY <1>3, PruneKeeps
<1>4. ASSUME NEW s \in Follower, UpdateRemoteLog(s) \/ UpdateRemoteCommit(s) PROVE Backed(G)'
  <2>1. on' = on /\ prev_head' = prev_head
    BY <1>4, Zenon DEF UpdateRemoteLog, UpdateRemoteCommit
  <2>2. Faithful(g, h, a, c, q)'
    BY <1>1, <1>4, RemoteLogKeeps, RemoteCommitKeeps DEF Sound
  <2>3. Sound(g, h, a, c, q, G)'
    BY <1>1, <2>1, <2>2 DEF Sound
  <2> QED BY <2>3 DEF Backed
<1>5. CASE UNCHANGED vars
  <2>1. UNCHANGED <<log, rmt, apply_offsets, prev_head, on, submitted, committed, applied>>
    BY <1>5 DEF vars
  <2>2. Faithful(g, h, a, c, q)'
    BY <1>1, <2>1 DEF Sound, Faithful, Tracked, L
  <2>3. Sound(g, h, a, c, q, G)'
    BY <1>1, <2>1, <2>2 DEF Sound
  <2> QED BY <2>3 DEF Backed
<1> QED BY <1>2, <1>3, <1>4, <1>5 DEF Next

-----------------------------------------------------------------------------
(* What the leader keeps.                                                  *)

\* A reader who begins at the head meets every entry from h on.
LEMMA KeptRequests ==
    ASSUME NEW g, History(g), NEW l, NEW h, NEW a, NEW c, LeadLog(l, g, h, a, c), l.end # Ring
    PROVE  Walk(l, l.head, ToTheEnd).csm = From(g.req[h], g.req[g.n + 1])
<1>1. PICK n \in Nat \ {0} : n = g.n
  BY HistoryTypes
<1>2. PICK e \in Nat : e = n + 1
  OBVIOUS
<1>3. /\ l \in Log /\ h \in 1 .. g.n /\ h \in 1 .. g.n + 1 /\ e \in 1 .. g.n + 1 /\ h \in Nat /\ h <= e /\ h # e
      /\ h \in h .. e /\ e \in h .. g.n + 1 /\ e \in h .. e
      /\ l.end = g.off[e] /\ l.head \in {g.off[h], PlaceOf(g, h)} /\ Near(g, h, e) /\ g.off[e] # Ring
      /\ \A i \in h .. e - 1 : Holds(l.mem, g, i)
  BY <1>1, <1>2 DEF LeadLog
<1>4. InMemory(l, g, h, e) /\ Memory(l.mem)
  BY <1>3, LogFields DEF InMemory
<1>5. Walk(l, g.off[h], ToTheEnd).csm = From(g.req[h], g.req[e])
  <2>1. Walked(l, g, e, ToTheEnd, h)
    BY <1>3, <1>4, Walking
  <2>2. PICK j \in h .. e : /\ Walk(l, g.off[h], ToTheEnd).csm = From(g.req[h], g.req[j])
                            /\ j = e \/ ~ToTheEnd[g.off[j]]
    BY <1>3, <2>1 DEF Walked
  <2>3. j \in Nat
    BY <1>3
  <2>4. g.off[j] \in Nat
    BY <2>3, HistoryTypes
  <2>5. ToTheEnd[g.off[j]]
    BY <2>4 DEF ToTheEnd
  <2> QED BY <2>2, <2>5
<1>6. CASE l.head = g.off[h]
  BY <1>1, <1>2, <1>5, <1>6
<1>7. CASE l.head # g.off[h]
  <2>1. l.head = PlaceOf(g, h) /\ l.head = 0
    BY <1>3, <1>7 DEF PlaceOf
  <2>2. PICK r \in Nat : Ring = r + 1
    BY Sizes
  <2>3. PICK R : R = Readings(l, ToTheEnd)
    OBVIOUS
  <2>4. R[Ring] = Longer(l, ToTheEnd, R[r])
    BY <1>4, <2>2, <2>3, ReadingsTotal
  <2>5. /\ At(l.mem, g.off[h]) = PlaceOf(g, h) /\ At(l.mem, PlaceOf(g, h)) = PlaceOf(g, h)
        /\ After(l.mem, g.off[h]) = After(l.mem, PlaceOf(g, h))
    <3>1. Holds(l.mem, g, h)
      BY <1>3
    <3> QED BY <1>3, <1>4, <3>1, Meets
  <2>6. g.off[h] \in Nat /\ 0 \in Nat /\ ToTheEnd[g.off[h]] /\ ToTheEnd[0]
    <3>1. g.off[h] \in Nat
      BY <1>3, HistoryTypes
    <3> QED BY <3>1 DEF ToTheEnd
  <2>7. Distance(l.end, g.off[h]) # 0
    BY <1>3, DistanceOrder
  <2>8. Distance(l.end, 0) # 0
    <3>1. g.off[n + 1] \in Hdr .. Ring
      BY <1>1, LooksLater
    <3> QED BY <1>2, <1>3, <3>1, Sizes DEF Distance
  <2>9. ~Stops(l, ToTheEnd, g.off[h]) /\ ~Stops(l, ToTheEnd, 0)
    BY <2>6, <2>7, <2>8 DEF Stops
  <2>10. R[Ring][g.off[h]] =
           GoneOn(At(l.mem, g.off[h]), Header(l.mem, At(l.mem, g.off[h])), R[r][After(l.mem, g.off[h])])
    BY <2>4, <2>6, <2>9 DEF Longer
  <2>11. R[Ring][0] = GoneOn(At(l.mem, 0), Header(l.mem, At(l.mem, 0)), R[r][After(l.mem, 0)])
    BY <2>4, <2>6, <2>9 DEF Longer
  <2>12. R[Ring][0] = R[Ring][g.off[h]]
    BY <2>1, <2>5, <2>10, <2>11
  <2>13. Walk(l, l.head, ToTheEnd) = Walk(l, g.off[h], ToTheEnd)
    BY <2>1, <2>3, <2>12 DEF Walk
  <2> QED BY <1>1, <1>2, <1>5, <2>13
<1> QED BY <1>6, <1>7

\* Whoever is up has applied what is before entry h.
LEMMA AppliedBeforeHead ==
    ASSUME Types, NEW g, NEW h, NEW a, NEW c, NEW q, Faithful(g, h, a, c, q), NEW s \in on
    PROVE  g.req[h] \in Nat /\ Len(applied[s]) \in Nat /\ g.req[h] <= Len(applied[s])
<1>1. /\ History(g) /\ LeadLog(L, g, h, a, c) /\ applied[Leader] = Upto(g.req[a]) /\ Tracked(g, h, q, c)
  BY DEF Faithful
<1>2. PICK n \in Nat : n = g.n
  BY <1>1, HistoryTypes
<1>3. h \in 1 .. g.n + 1 /\ h \in Nat /\ a \in Nat /\ h <= a /\ a \in 1 .. g.n + 1
  BY <1>1, <1>2 DEF LeadLog
<1>4. PICK b \in 1 .. g.n + 1 : b \in Nat /\ h <= b /\ applied[s] = Upto(g.req[b])
  <2>1. CASE s = Leader
    BY <1>1, <1>3, <2>1
  <2>2. CASE s # Leader
    <3>1. Tracks(log[s], rmt[s].end, applied[s], g, h, q[s], c)
      BY <1>1, <2>2 DEF Tracked
    <3>2. PICK e \in Nat, b \in Nat : e \in h .. g.n + 1 /\ b \in h .. e /\ applied[s] = Upto(g.req[b])
      BY <3>1 DEF Tracks
    <3>3. b \in 1 .. g.n + 1 /\ h <= b
      BY <1>2, <1>3, <3>2
    <3> QED BY <3>2, <3>3
  <2> QED BY <2>1, <2>2
<1>5. g.req[h] \in Nat /\ g.req[b] \in Nat
  BY <1>1, <1>3, <1>4, HistoryTypes
<1>6. g.req[h] <= g.req[b]
  <2>1. h < b => g.req[h] <= g.req[b]
    BY <1>1, <1>3, <1>4 DEF History, Before
  <2> QED BY <1>3, <1>4, <1>5, <2>1
<1>7. Len(applied[s]) = g.req[b]
  BY <1>4, <1>5, UptoSeq
<1> QED BY <1>5, <1>6, <1>7

LEMMA NothingLost ==
    ASSUME Types, NEW G, Enough(G), Backed(G)
    PROVE  PrunedOnlyIfApplied
<1> SUFFICES ASSUME L.end # Ring, NEW s \in on, NEW x \in Len(applied[s]) + 1 .. submitted
             PROVE  x \in ToSet(Kept)
  BY DEF PrunedOnlyIfApplied
<1>1. PICK g, h, a, c, q : Sound(g, h, a, c, q, G)
  BY DEF Backed
<1>2. Faithful(g, h, a, c, q)
  BY <1>1 DEF Sound
<1>3. History(g) /\ LeadLog(L, g, h, a, c) /\ submitted = g.req[g.n + 1]
  BY <1>2 DEF Faithful
<1>4. Kept = From(g.req[h], g.req[g.n + 1])
  BY <1>3, KeptRequests DEF Kept
<1>5. g.req[h] \in Nat /\ Len(applied[s]) \in Nat /\ g.req[h] <= Len(applied[s])
  BY <1>2, AppliedBeforeHead
<1>6. submitted \in Nat
  BY DEF Types
<1>7. PICK y \in Nat, z \in Nat : y = g.req[h] /\ z = g.req[g.n + 1] /\ z = submitted
  BY <1>3, <1>5, <1>6
<1>8. x - y \in 1 .. z - y /\ y + (x - y) = x
  BY <1>5, <1>6, <1>7
<1>9. From(y, z)[x - y] = x /\ x - y \in DOMAIN From(y, z)
  BY <1>8 DEF From
<1> QED BY <1>4, <1>7, <1>9 DEF ToSet

\* What is asked of the constants: some G bounds what an entry takes.
EnoughRing == \E G : Enough(G)

\* The ring of dare_log.h (LOG_SIZE, entries of 64 bytes and the command) is, with all
\* MAX_SERVER_COUNT servers and 177 clients whose commands have every length that the 16
\* bits of sm_cmd_t.len can tell.
LEMMA RingOfTheCode ==
    ASSUME Ring >= 16384 * 4096, Hdr = 64, N <= 13, Clients <= 177,
           \A i \in 1 .. MaxReq : DataLen[i] <= 65535
    PROVE  EnoughRing
<1>1. N \in Nat /\ Clients \in Nat /\ Ring \in Nat
  BY LogAssumption
<1>2. PICK G \in Nat : G = 131198
  OBVIOUS
<1>3. Grain(G)
  <2>1. ASSUME NEW i \in 1 .. MaxReq PROVE DataLen[i] \in Int
    BY LogAssumption DEF MaxReq
  <2> QED BY <1>2, <2>1 DEF Grain
<1>4. 24 * (G * (N + 1)) <= Ring
  <2>1. 24 * (131198 * (N + 1)) <= 16384 * 4096
    BY <1>1
  <2> QED BY <1>1, <1>2, <2>1
<1>5. 4 * (G * (Most + 2)) < 3 * Ring
  BY <1>1, <1>2 DEF Most
<1> QED BY <1>3, <1>4, <1>5 DEF Enough, EnoughRing

\* P1 in log_pruning's comment, for every group, number of clients and ring that is long
\* enough: the leader prunes by offsets that it read a while ago, an offset that it holds
\* for a server that is behind by a round looks as if it were ahead, and a log that is
\* full drops what is appended; but whatever a server that is up has yet to apply, the
\* leader still has.
THEOREM NothingNeededIsPruned == ASSUME EnoughRing PROVE Spec => []PrunedOnlyIfApplied
<1>1. PICK G : Enough(G)
  BY DEF EnoughRing
<1>2. Init => Types /\ Backed(G)
  BY <1>1, InitTypes, InitBacked
<1>3. Types /\ Backed(G) /\ [Next]_vars => Types' /\ Backed(G)'
  BY <1>1, NextTypes, NextBacked
<1>4. Types /\ Backed(G) => PrunedOnlyIfApplied
  BY <1>1, NothingLost
<1> QED BY <1>2, <1>3, <1>4, PTL DEF Spec

-----------------------------------------------------------------------------
(* The ring implements the replicated log.                                             *)

\* More requests are taken, committed and applied, never fewer.
OnlyMore ==
    /\ submitted <= submitted' /\ committed <= committed'
    /\ \A s \in Server : Len(applied[s]) <= Len(applied'[s])

LEMMA WalkRequests ==
    ASSUME NEW l, Memory(l.mem), NEW Go, NEW o \in Offset
    PROVE  Walk(l, o, Go).csm \in Seq(Nat)
<1>1. o \in Nat /\ Ring \in Nat
  BY Sizes, OffsetNat
<1>2. Walk(l, o, Go) \in Reads
  BY <1>1, ReadingsTotal DEF Walk
<1> QED BY <1>2 DEF Reads

LEMMA FollowerOnlyMore ==
    ASSUME Types, NEW s \in Follower, Passes(s), applied \in [Server -> Seq(Nat)],
           submitted \in Nat, committed \in Nat, UNCHANGED <<submitted, committed>>
    PROVE  OnlyMore
<1>1. PICK l \in Log : FollowerPass(s, l)
  BY DEF Passes
<1>2. PICK x \in Seq(Nat) : x = ToApply(l).csm
  BY LogFields, WalkRequests DEF ToApply
<1>3. applied' = [applied EXCEPT ![s] = @ \o x]
  BY <1>1, <1>2, Zenon DEF FollowerPass
<1>4. ASSUME NEW t \in Server PROVE Len(applied[t]) <= Len(applied'[t])
  <2>1. PICK y \in Seq(Nat) : y = applied[t]
    OBVIOUS
  <2>2. Len(y) \in Nat /\ Len(x) \in Nat /\ Len(y \o x) = Len(y) + Len(x)
    BY LenProperties, ConcatProperties
  <2> QED BY <1>3, <2>1, <2>2
<1> QED BY <1>4 DEF OnlyMore

LEMMA RequestsLater ==
    ASSUME NEW g, History(g), NEW x \in 1 .. g.n + 1, NEW y \in 1 .. g.n + 1, x <= y
    PROVE  g.req[x] \in Nat /\ g.req[y] \in Nat /\ g.req[x] <= g.req[y]
<1>1. 0 \in Nat
  OBVIOUS
<1>2. PICK n \in Nat : n = g.n
  BY <1>1, HistoryTypes
<1>3. x \in Nat /\ y \in Nat /\ (x = y \/ x < y)
  BY <1>2
<1>4. x < y => g.req[x] <= g.req[y]
  BY DEF History, Before
<1>5. g.req[x] \in Nat /\ g.req[y] \in Nat
  BY <1>3, HistoryTypes
<1> QED BY <1>3, <1>4, <1>5

LEMMA LeaderOnlyMore ==
    ASSUME Types, NEW G, Enough(G), Backed(G), LeaderPass
    PROVE  OnlyMore
<1>1. PICK g, h, a, c, q : Sound(g, h, a, c, q, G)
  BY DEF Backed
<1>2. PICK u : Lead(g, h, a, c, G, u)
  BY <1>1, Leading
<1>3. /\ History(g) /\ Grain(G) /\ Gap(g, h, g.n + 1) \in Nat /\ Gap(g, h, g.n + 1) + 3 * G < Ring
      /\ G \in Nat /\ a \in 1 .. g.n + 1 /\ c \in 1 .. g.n + 1 /\ g.n \in Nat
  BY <1>2 DEF Lead
<1>4. Faithful(g, h, a, c, q)
  BY <1>1 DEF Sound
<1>5. PICK k, l, g1, a1, c1 : k \in 0 .. 1 /\ l \in Log /\ Passed(g, h, a, c, k, l, g1, a1, c1)
  <2>1. Gap(g, h, g.n + 1) + G < Ring
    BY <1>3, Sizes
  <2> QED BY <1>3, <1>4, <2>1, Passing
<1>6. /\ History(g1) /\ Grown(g, g1) /\ a1 \in a .. g1.n + 1 /\ c1 \in c .. g1.n + 1
      /\ submitted' = g1.req[g1.n + 1] /\ committed' = g1.req[c1]
      /\ applied' = [applied EXCEPT ![Leader] = Upto(g1.req[a1])]
  BY <1>5 DEF Passed
<1>7. /\ submitted = g.req[g.n + 1] /\ committed = g.req[c] /\ applied[Leader] = Upto(g.req[a])
      /\ applied \in [Server -> Seq(Nat)]
  BY <1>4 DEF Faithful
<1>8. g1.n \in Nat /\ g.n <= g1.n
  <2>1. 0 \in Nat
    OBVIOUS
  <2> QED BY <1>6, <2>1, HistoryTypes DEF Grown
<1>9. /\ g.n + 1 \in 1 .. g.n + 1
      /\ g.n + 1 \in 1 .. g1.n + 1 /\ g1.n + 1 \in 1 .. g1.n + 1 /\ g.n + 1 <= g1.n + 1
      /\ a \in 1 .. g1.n + 1 /\ a1 \in 1 .. g1.n + 1 /\ a <= a1
      /\ c \in 1 .. g1.n + 1 /\ c1 \in 1 .. g1.n + 1 /\ c <= c1
  BY <1>3, <1>6, <1>8
<1>10. g1.req[g.n + 1] = g.req[g.n + 1] /\ g1.req[a] = g.req[a] /\ g1.req[c] = g.req[c]
  BY <1>3, <1>6, <1>9 DEF Grown
<1>11. submitted <= submitted' /\ committed <= committed'
  BY <1>6, <1>7, <1>9, <1>10, RequestsLater
<1>12. PICK y \in Nat, z \in Nat : y = g.req[a] /\ z = g1.req[a1] /\ y <= z
  BY <1>6, <1>9, <1>10, RequestsLater
<1>13. ASSUME NEW s \in Server PROVE Len(applied[s]) <= Len(applied'[s])
  <2>1. CASE s = Leader
    <3>1. applied[s] = Upto(y) /\ applied'[s] = Upto(z)
      BY <1>6, <1>7, <1>12, <2>1
    <3>2. Len(Upto(y)) = y /\ Len(Upto(z)) = z
      BY UptoSeq
    <3> QED BY <1>12, <3>1, <3>2
  <2>2. CASE s # Leader
    <3>1. PICK x \in Seq(Nat) : x = applied[s]
      BY <1>7
    <3>2. applied'[s] = x
      BY <1>6, <1>7, <2>2, <3>1
    <3>3. Len(x) \in Nat
      BY LenProperties
    <3> QED BY <3>1, <3>2, <3>3
  <2> QED BY <2>1, <2>2
<1> QED BY <1>11, <1>13 DEF OnlyMore

\* What the servers have applied, without offsets.
InOrder ==
    /\ submitted \in 0 .. MaxReq /\ committed \in 0 .. submitted
    /\ applied \in [Server -> Seq(Nat)]
    /\ \A s \in Server : \E k \in 0 .. committed : applied[s] = Upto(k)

LEMMA BackedInOrder == ASSUME Types, NEW G, Backed(G) PROVE InOrder
<1>1. PICK g, h, a, c, q : Sound(g, h, a, c, q, G)
  BY DEF Backed
<1>2. /\ History(g) /\ LeadLog(L, g, h, a, c)
      /\ submitted = g.req[g.n + 1] /\ committed = g.req[c]
      /\ applied \in [Server -> Seq(Nat)]
      /\ \A s \in Server : \E k \in 0 .. committed : applied[s] = Upto(k)
  BY <1>1 DEF Sound, Faithful
<1>3. g.n \in Nat
  <2>1. 0 \in Nat
    OBVIOUS
  <2> QED BY <1>2, <2>1, HistoryTypes
<1>4. c \in 1 .. g.n + 1 /\ g.n + 1 \in 1 .. g.n + 1 /\ c <= g.n + 1
  BY <1>2, <1>3 DEF LeadLog
<1>5. committed \in Nat /\ submitted \in Nat /\ committed <= submitted
  BY <1>2, <1>4, RequestsLater
<1> QED BY <1>2, <1>5 DEF InOrder, Types

LEMMA NextOnlyMore == ASSUME Types, NEW G, Enough(G), Backed(G), Next PROVE OnlyMore
<1>1. InOrder
  BY BackedInOrder
<1>2. submitted \in Nat /\ committed \in Nat /\ applied \in [Server -> Seq(Nat)]
  BY <1>1 DEF InOrder
<1>3. CASE LeaderPass
  BY <1>3, LeaderOnlyMore
<1>4. CASE Prune
  <2>1. UNCHANGED <<submitted, committed, applied>>
    BY <1>4, Zenon DEF Prune
  <2>2. ASSUME NEW s \in Server PROVE Len(applied[s]) <= Len(applied'[s])
    <3>1. Len(applied[s]) \in Nat
      BY <1>2, LenProperties
    <3> QED BY <2>1, <3>1
  <2> QED BY <1>2, <2>1, <2>2 DEF OnlyMore
<1>5. ASSUME NEW s \in Follower, UpdateRemoteLog(s) PROVE OnlyMore
  <2>1. UNCHANGED <<submitted, committed>>
    BY <1>5, Zenon DEF UpdateRemoteLog
  <2> QED BY <1>2, <1>5, <2>1, RemoteLogPasses, FollowerOnlyMore
<1>6. ASSUME NEW s \in Follower, UpdateRemoteCommit(s) PROVE OnlyMore
  <2>1. UNCHANGED <<submitted, committed>>
    BY <1>6, Zenon DEF UpdateRemoteCommit
  <2> QED BY <1>2, <1>6, <2>1, RemoteCommitPasses, FollowerOnlyMore
<1> QED BY <1>3, <1>4, <1>5, <1>6 DEF Next

LEMMA FirstRequests ==
    ASSUME NEW M \in Nat, NEW x \in 0 .. M
    PROVE  Upto(x) \in Seq(1 .. M) /\ Len(Upto(x)) = x /\ \A i \in 1 .. x : Upto(x)[i] = i
<1>1. x \in Nat /\ \A i \in 1 .. x : i \in 1 .. M
  OBVIOUS
<1> QED BY <1>1 DEF Upto

\* Of two such sequences the shorter one is a prefix.
LEMMA UptoPrefix ==
    ASSUME NEW x \in Nat, NEW y \in Nat, x <= y
    PROVE  Abstract!Prefix(Upto(x), Upto(y))
<1>1. /\ Upto(x) \in Seq(Nat) /\ Len(Upto(x)) = x /\ Upto(y) \in Seq(Nat) /\ Len(Upto(y)) = y
      /\ \A i \in 1 .. x : Upto(x)[i] = i
      /\ \A i \in 1 .. y : Upto(y)[i] = i
  BY UptoSeq DEF Upto
<1>2. PICK s \in Seq(Nat), t \in Seq(Nat) : s = Upto(x) /\ t = Upto(y)
  BY <1>1
<1>3. \A i \in 1 .. x : i \in 1 .. y /\ t[i] = i /\ i \in Nat
  BY <1>1, <1>2
<1>4. 1 \in Int /\ x \in Int /\ \A i \in 1 .. x : t[i] \in Nat
  BY <1>3
<1>5. /\ SubSeq(t, 1, x) \in Seq(Nat) /\ Len(SubSeq(t, 1, x)) = (IF 1 <= x THEN x - 1 + 1 ELSE 0)
      /\ \A i \in 1 .. x - 1 + 1 : SubSeq(t, 1, x)[i] = t[1 + i - 1]
  BY <1>4, SubSeqProperties
<1>6. Len(SubSeq(t, 1, x)) = Len(s)
  BY <1>1, <1>2, <1>5
<1>7. ASSUME NEW i \in 1 .. Len(s) PROVE s[i] = SubSeq(t, 1, x)[i]
  <2>1. i \in 1 .. x /\ i \in 1 .. x - 1 + 1 /\ 1 + i - 1 = i
    BY <1>1, <1>2
  <2> QED BY <1>1, <1>2, <1>3, <1>5, <2>1
<1>8. s = SubSeq(t, 1, x)
  BY <1>5, <1>6, <1>7, SeqEqual
<1> QED BY <1>1, <1>2, <1>8 DEF Abstract!Prefix

LEMMA AbstractInit == ASSUME Init PROVE Abstract!Init
<1>1. submitted = 0 /\ committed = 0 /\ applied = [s \in Server |-> <<>>]
  BY Zenon DEF Init
<1>2. [i \in 1 .. submitted |-> i] = <<>>
  BY <1>1
<1> QED BY <1>1, <1>2 DEF Abstract!Init

\* A step that keeps the order and goes on is a step of the replicated log.
LEMMA AbstractNext ==
    ASSUME InOrder, InOrder', OnlyMore
    PROVE  Abstract!Next
<1>1. PICK m \in Nat : m = MaxReq
  BY LogAssumption DEF MaxReq
<1>2. PICK x \in 0 .. m, y \in 0 .. m : x = submitted /\ y = submitted' /\ x <= y
  BY <1>1 DEF InOrder, OnlyMore
<1>3. PICK d \in 0 .. x, e \in 0 .. y : d = committed /\ e = committed' /\ d <= e
  BY <1>2 DEF InOrder, OnlyMore
<1>4. [i \in 1 .. submitted |-> i] = Upto(x) /\ [i \in 1 .. submitted' |-> i] = Upto(y)
  BY <1>2 DEF Upto
<1>5. Upto(y) \in Seq(1 .. m) /\ Len(Upto(y)) = y /\ Abstract!Prefix(Upto(x), Upto(y))
  BY <1>2, FirstRequests, UptoPrefix
<1>6. ASSUME NEW s \in Server
      PROVE  /\ applied'[s] \in Seq(1 .. m)
             /\ Abstract!Prefix(applied[s], applied'[s])
             /\ Abstract!Prefix(applied'[s], Upto(y))
             /\ Len(applied'[s]) <= committed'
  <2>1. PICK k \in 0 .. d : applied[s] = Upto(k)
    BY <1>3 DEF InOrder
  <2>2. PICK j \in 0 .. e : applied'[s] = Upto(j)
    BY <1>3 DEF InOrder
  <2>3. k \in Nat /\ j \in Nat /\ Len(Upto(k)) = k /\ Len(Upto(j)) = j
    BY <2>1, <2>2, UptoSeq
  <2>4. k <= j
    BY <2>1, <2>2, <2>3 DEF OnlyMore
  <2>5. j \in 0 .. m /\ j <= y /\ y \in Nat
    BY <1>2, <1>3
  <2> QED BY <1>3, <2>1, <2>2, <2>3, <2>4, <2>5, FirstRequests, UptoPrefix
<1>7. Abstract!Submit
  BY <1>1, <1>4, <1>5 DEF Abstract!Submit
<1>8. Abstract!Commit
  <2>1. Len([i \in 1 .. submitted' |-> i]) = y
    BY <1>4, <1>5
  <2>2. e \in d .. y
    BY <1>2, <1>3
  <2>3. committed' \in committed .. Len([i \in 1 .. submitted' |-> i])
    BY <1>3, <2>1, <2>2
  <2> QED BY <2>3 DEF Abstract!Commit
<1>9. applied' \in [Server -> Seq(1 .. MaxReq)]
  <2>1. applied' \in [Server -> Seq(Nat)]
    BY DEF InOrder
  <2> QED BY <1>1, <1>6, <2>1
<1>10. \A s \in Server : Abstract!Deliver(s)
  BY <1>4, <1>6 DEF Abstract!Deliver
<1> QED BY <1>7, <1>8, <1>9, <1>10 DEF Abstract!Next

\* ImplementsReplicatedLog, for every group and ring that is long enough: whatever is
\* wrapped, marked, pruned, forced out or still on its way, apply_committed_entries hands
\* the committed requests to the proxy of every server, in the order in which the leader
\* took them, none twice, none skipped and none from bytes that hold something else.
THEOREM RingImplementsLog == ASSUME EnoughRing PROVE Spec => ImplementsReplicatedLog
<1>1. PICK G : Enough(G)
  BY DEF EnoughRing
<1> DEFINE Inv == Types /\ Backed(G)
<1>2. Init => Inv /\ Abstract!Init
  BY <1>1, InitTypes, InitBacked, AbstractInit
<1>3. Inv /\ [Next]_vars => Inv'
  BY <1>1, NextTypes, NextBacked
<1>4. Inv => InOrder
  BY BackedInOrder
<1>5. Inv /\ InOrder /\ InOrder' /\ [Next]_vars => [Abstract!Next]_(Abstract!vars)
  <2> SUFFICES ASSUME Inv, InOrder, InOrder', [Next]_vars PROVE [Abstract!Next]_(Abstract!vars)
    OBVIOUS
  <2>1. CASE Next
    BY <1>1, <2>1, NextOnlyMore, AbstractNext
  <2>2. CASE UNCHANGED vars
    BY <2>2 DEF vars, Abstract!vars
  <2> QED BY <2>1, <2>2
<1> HIDE DEF Inv
<1> QED BY <1>2, <1>3, <1>4, <1>5, PTL DEF Spec, ImplementsReplicatedLog, Abstract!Spec
=============================================================================
