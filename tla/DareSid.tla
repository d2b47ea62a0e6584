------------------------------ MODULE DareSid ------------------------------
(***************************************************************************)
(* The state identifier (SID) of src/include/dare/dare_server.h: a 64-bit  *)
(* word [TERM|L|IDX] made of a 55-bit term, a leader flag and an 8-bit     *)
(* server index.  The code compares whole words, so the order of SIDs is   *)
(* the lexicographic order of their three fields.  A SID is modelled as a  *)
(* record of the fields; SidWord is the word the code stores, and the      *)
(* theorems of DareSidProofs relate the two orders.                        *)
(***************************************************************************)
EXTENDS Naturals

\* The 8-bit index field of SID_NULL (0xFF): no server of the group.
NoIdx == 255

\* The SIDs the code can build: any term, either flag, any 8-bit index.
Sid == [term : Nat, L : {0, 1}, idx : 0 .. 255]

\* SID_SET_TERM, SID_SET_L / SID_UNSET_L and SID_SET_IDX on an empty word.
MkSid(term, l, idx) == [term |-> term, L |-> l, idx |-> idx]

\* SID_SET_L alone: the flag is set, term and index stay.
SetL(s) == [s EXCEPT !.L = 1]

\* The word 0, which marks an empty HB or vote-request slot.
ZeroSid == MkSid(0, 0, 0)

\* SID_NULL (0xFF), the SID a server starts with.
NullSid == MkSid(0, 0, NoIdx)

\* s < t on the 64-bit words, field by field.
SidLess(s, t) ==
    \/ s.term < t.term
    \/ /\ s.term = t.term
       /\ \/ s.L < t.L
          \/ s.L = t.L /\ s.idx < t.idx

\* s <= t on the words.
SidLeq(s, t) == s = t \/ SidLess(s, t)

\* The word [TERM|L|IDX] itself, without its 2^64 limit: a term stays below
\* 2^55 for longer than any deployment lasts.
SidWord(s) == 512 * s.term + 256 * s.L + s.idx

(***************************************************************************)
(* The macros of the header on words: what they extract and replace.       *)
(***************************************************************************)
SID_GET_IDX(w)  == w % 256
SID_GET_L(w)    == (w \div 256) % 2
SID_GET_TERM(w) == w \div 512
=============================================================================
