--------------------------- MODULE MCReplication ---------------------------
(***************************************************************************)
(* Instances of DareReplication for TLC.                                   *)
(***************************************************************************)
EXTENDS DareReplication, TLC

\* The last term in which each server is elected.
Terms_010 == 0 :> 0 @@ 1 :> 1 @@ 2 :> 0
Terms_012 == 0 :> 0 @@ 1 :> 1 @@ 2 :> 2
Five_01200 == 0 :> 0 @@ 1 :> 1 @@ 2 :> 2 @@ 3 :> 0 @@ 4 :> 0
Five_22222 == [i \in 0 .. 4 |-> 2]

(***************************************************************************)
(* Five servers, later on: server 1, elected in term 1 by all, has         *)
(* replicated its blank entry everywhere and committed it (c = 1) or not,  *)
(* has written a second entry to server 4 alone, which has persisted it    *)
(* (e = 2) or not, and has failed.  A leader that servers 0, 2 and 3 elect *)
(* has to cut the log of server 4.                                         *)
(***************************************************************************)
CutInit ==
    \E c \in 0 .. 1, e \in 1 .. 2 :
      LET Old(R) == [term |-> 1, sender |-> 1, reply |-> R]
          second == Old(IF e = 2 THEN {4} ELSE {})
          Log(i) == CASE i = 1 -> <<Old(Others(1)), second>>
                      [] i = 4 -> <<Old({4}), second>>
                      [] OTHER -> <<Old({i})>>
      IN /\ term = [i \in Server |-> 1]
         /\ leading = {1}
         /\ mem = [i \in Server |-> [p \in Pos |->
                     IF p \in DOMAIN Log(i) THEN Log(i)[p] ELSE NoEntry]]
         /\ end = [i \in Server |-> Len(Log(i))]
         /\ old_end = [end EXCEPT ![4] = e]
         /\ commit = [i \in Server |-> c]
         /\ nc_buf = [i \in Server |-> [j \in Server |-> [from |-> 0, terms |-> <<>>]]]
         /\ log_access = [i \in Server |-> IF i = 1 THEN Others(1) ELSE {1}]
         /\ vote_ack = [i \in Server |-> [j \in Server |->
                          IF i = 1 /\ j # 1 THEN 0 ELSE NoAck]]
         /\ lr = [i \in Server |-> [j \in Server |->
                    IF i = 1 /\ j # 1
                    THEN [step |-> "log", commit |-> c, end |-> end[j], cached |-> end[j]]
                    ELSE LrStart]]
         /\ replies = {}
         /\ up = Others(1)

CutSpec == CutInit /\ [][Next]_vars
=============================================================================
