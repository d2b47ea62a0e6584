----------------------------- MODULE MCElection -----------------------------
(***************************************************************************)
(* Instances of DareElection for TLC.                                      *)
(*                                                                         *)
(* Nobody can win term 1: every server starts it as its own candidate, and *)
(* a request of term 1 never beats a SID of term 1.  The runs about three  *)
(* servers therefore begin later: when that round is over (StartedInit) or *)
(* when a leader has lost its followers (ContestedInit).                   *)
(***************************************************************************)
EXTENDS DareElection, TLC

\* The last term in which each server starts an election.
Two_33    == [i \in Server |-> 3]
Three_311 == [i \in Server |-> IF i = 0 THEN 3 ELSE 1]
Three_423 == 0 :> 4 @@ 1 :> 2 @@ 2 :> 3
Three_331 == [i \in Server |-> IF i = 2 THEN 1 ELSE 3]

\* Init after Start of every server, Land and DropRequests of its requests.
StartedInit ==
    /\ sid = [i \in Server |-> MkSid(1, 0, i)]
    /\ hb = [i \in Server |-> [j \in Server |-> ZeroSid]]
    /\ vote_req = [i \in Server |-> [j \in Server |-> NoRequest]]
    /\ vote_ack = [i \in Server |-> [j \in Server |-> FALSE]]
    /\ prv_data = [i \in Server |-> [j \in Server |-> ZeroSid]]
    /\ latest_hb_received = [i \in Server |-> ZeroSid]
    /\ log_access = [i \in Server |-> {}]
    /\ hb_event = [i \in Server |-> "receive"]
    /\ to_adjust = [i \in Server |-> FALSE]
    /\ log = [i \in Server |-> <<>>]
    /\ posted = [i \in Server |-> [j \in Server |-> <<>>]]
    /\ up = Server

\* Later: server 1 leads term 2.  Server 0 follows it, and may lack its entry;
\* server 2 followed it, got no more HBs and is a candidate of term 3.  Its
\* requests are in the slots of the others, which do not poll them.
ContestedInit ==
    /\ log \in {[i \in Server |-> IF i = 0 THEN l ELSE <<2>>] : l \in {<<>>, <<2>>}}
    /\ sid = [i \in Server |-> IF i = 2 THEN MkSid(3, 0, 2) ELSE MkSid(2, 1, 1)]
    /\ hb = [i \in Server |-> [j \in Server |-> ZeroSid]]
    /\ vote_req = [i \in Server |-> [j \in Server |->
                      IF i # 2 /\ j = 2 THEN RequestOf(sid[2], log[2]) ELSE NoRequest]]
    /\ vote_ack = [i \in Server |-> [j \in Server |-> i = 1 /\ j # 1]]
    /\ prv_data = [i \in Server |-> [j \in Server |->
                      IF j = 1 THEN ZeroSid ELSE MkSid(2, 0, 1)]]
    /\ latest_hb_received = [i \in Server |-> ZeroSid]
    /\ log_access = 0 :> {1} @@ 1 :> {0, 2} @@ 2 :> {}
    /\ hb_event = [i \in Server |-> IF i = 1 THEN "send" ELSE "receive"]
    /\ to_adjust = [i \in Server |-> i # 1]
    /\ posted = [i \in Server |-> [j \in Server |-> <<>>]]
    /\ up = Server

ContestedSpec == ContestedInit /\ [][Next]_vars

StartedSpec == StartedInit /\ [][Next]_vars
StartedFairSpec == StartedSpec /\ Fairness
=============================================================================
