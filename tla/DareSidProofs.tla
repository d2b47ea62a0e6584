--------------------------- MODULE DareSidProofs ---------------------------
(***************************************************************************)
(* The record view of a SID and the 64-bit word of the code agree.         *)
(***************************************************************************)
EXTENDS DareSid, Integers, TLAPS

\* Comparing SIDs as integers, as every handler does, is comparing the
\* fields: a larger term wins, then the leader flag, then the index.
THEOREM WordOrder ==
  ASSUME NEW s \in Sid, NEW t \in Sid
  PROVE  SidLess(s, t) <=> SidWord(s) < SidWord(t)
<1> DEFINE a == s.term  l == s.L  i == s.idx
           b == t.term  m == t.L  j == t.idx
<1>1. /\ a \in Nat /\ l \in 0 .. 1 /\ i \in 0 .. 255
      /\ b \in Nat /\ m \in 0 .. 1 /\ j \in 0 .. 255
  BY DEF Sid
<1>2. SidLess(s, t) <=> a < b \/ (a = b /\ (l < m \/ (l = m /\ i < j)))
  BY DEF SidLess
<1>3. /\ SidWord(s) = 512 * a + 256 * l + i
      /\ SidWord(t) = 512 * b + 256 * m + j
  BY DEF SidWord
<1> HIDE DEF a, l, i, b, m, j
<1>4. 512 * a + 256 * l + i < 512 * b + 256 * m + j
         <=> a < b \/ (a = b /\ (l < m \/ (l = m /\ i < j)))
  BY <1>1
<1>5. QED
  BY <1>2, <1>3, <1>4

\* The words determine the SIDs: SID_GET_TERM, SID_GET_L and SID_GET_IDX give
\* back the fields, so testing words for equality tests SIDs.
THEOREM WordFields ==
  ASSUME NEW s \in Sid
  PROVE  /\ SID_GET_IDX(SidWord(s)) = s.idx
         /\ SID_GET_L(SidWord(s)) = s.L
         /\ SID_GET_TERM(SidWord(s)) = s.term
<1> DEFINE a == s.term  l == s.L  i == s.idx
           w == 512 * a + 256 * l + i
<1>1. a \in Nat /\ l \in 0 .. 1 /\ i \in 0 .. 255
  BY DEF Sid
<1>2. SidWord(s) = w
  BY DEF SidWord
<1> HIDE DEF a, l, i
<1>3. /\ w % 256 = i
      /\ w \div 256 = 2 * a + l
      /\ w \div 512 = a
      /\ (2 * a + l) % 2 = l
  BY <1>1
<1>4. QED
  BY <1>2, <1>3 DEF a, l, i, SID_GET_IDX, SID_GET_L, SID_GET_TERM

\* SIDs with the same fields are the same.
LEMMA SidFields ==
  ASSUME NEW s \in Sid, NEW t \in Sid,
         s.term = t.term, s.L = t.L, s.idx = t.idx
  PROVE  s = t
  BY DEF Sid

\* SidLeq is a total order on SIDs, and the term grows with it.
LEMMA SidOrder ==
  ASSUME NEW s \in Sid, NEW t \in Sid
  PROVE  /\ SidLeq(s, s)
         /\ ~SidLess(s, t) <=> SidLeq(t, s)
         /\ SidLeq(s, t) => s.term <= t.term
         /\ SidLeq(s, t) /\ SidLeq(t, s) => s = t
<1> DEFINE a == s.term  l == s.L  i == s.idx
           b == t.term  m == t.L  j == t.idx
<1>1. /\ a \in Nat /\ l \in 0 .. 1 /\ i \in 0 .. 255
      /\ b \in Nat /\ m \in 0 .. 1 /\ j \in 0 .. 255
  BY DEF Sid
<1>2. /\ SidLess(s, t) <=> a < b \/ (a = b /\ (l < m \/ (l = m /\ i < j)))
      /\ SidLess(t, s) <=> b < a \/ (b = a /\ (m < l \/ (m = l /\ j < i)))
  BY DEF SidLess
<1>3. s = t <=> a = b /\ l = m /\ i = j
  BY SidFields
<1> HIDE DEF a, l, i, b, m, j
<1>4. QED
  BY <1>1, <1>2, <1>3 DEF SidLeq, a, b

\* SidLeq is transitive.
LEMMA SidLeqTrans ==
  ASSUME NEW s \in Sid, NEW t \in Sid, NEW u \in Sid,
         SidLeq(s, t), SidLeq(t, u)
  PROVE  SidLeq(s, u)
<1>1. CASE s = t \/ t = u
  BY <1>1 DEF SidLeq
<1>2. CASE SidLess(s, t) /\ SidLess(t, u)
  <2>1. SidWord(s) < SidWord(t) /\ SidWord(t) < SidWord(u)
    BY <1>2, WordOrder
  <2>2. SidWord(s) \in Int /\ SidWord(t) \in Int /\ SidWord(u) \in Int
    BY SMTT(30) DEF Sid, SidWord
  <2>3. SidWord(s) < SidWord(u)
    BY <2>1, <2>2
  <2>4. QED
    BY <2>3, WordOrder DEF SidLeq
<1>3. QED
  BY <1>1, <1>2 DEF SidLeq
=============================================================================
