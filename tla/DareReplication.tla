-------------------------- MODULE DareReplication --------------------------
(***************************************************************************)
(* Log replication of an APUS (DARE) group: the LOG-QP half of             *)
(* dare_ibv_rc.c, persist_new_entries and commit_new_entries.              *)
(*                                                                         *)
(* The leader works on the logs of the others by one-sided RDMA.  For each *)
(* server it goes through the steps of next_lr_step, one outstanding       *)
(* operation at a time (send_flag): read the determinants of the entries   *)
(* the server has not committed, cut its log at the first one that does    *)
(* not match, write the missing entries, move its end offset.  The server  *)
(* persists what it finds before its end offset and writes one reply byte  *)
(* per entry into the log of the entry's sender; a majority of reply bytes *)
(* commits an entry.                                                       *)
(*                                                                         *)
(* One action stands for posting, execution and completion of one of these *)
(* operations: its remote effect is one RDMA access, and its completion    *)
(* only moves the leader's next_lr_step.  On a QP that is not open at both *)
(* ends it fails, changes nothing and is posted again.  Reply bytes and    *)
(* commit offsets are posted unsignaled: nobody notices their loss.        *)
(*                                                                         *)
(* An election is one step here (Elect); DareElection has its details.     *)
(* Entries have one length, so an offset is a number of entries, and the   *)
(* log is shorter than the ring.                                           *)
(***************************************************************************)
EXTENDS Integers, Sequences, FiniteSets

CONSTANTS
    N,          \* group size
    Ring,       \* log->len
    Accurate,   \* do servers suspect only leaders that have failed?
    MaxTerm,    \* bound: the last term in which server i is elected
    MaxLog,     \* bound: entries of a log
    MaxCrash    \* bound: servers that may fail

ASSUME SizeAssumption == /\ N \in 2 .. 13
                         /\ MaxLog \in Nat /\ Ring \in Nat /\ MaxLog < Ring
Server == 0 .. N - 1

ASSUME ModeAssumption == /\ Accurate \in BOOLEAN
                         /\ MaxTerm \in [Server -> Nat] /\ MaxCrash \in Nat

VARIABLES
    term,       \* term of ctrl_data->sid
    leading,    \* the servers that are IS_LEADER
    mem,        \* mem[i][p]: the p-th entry of the ring log->entries
    end,        \* log->end
    old_end,    \* log->old_end: where persist_new_entries continues
    commit,     \* log->commit
    nc_buf,     \* nc_buf[i][j]: log->nc_buf[j] of i; the own one is for others
    log_access, \* log_access[i]: the servers whose LOG QP is open at i
    vote_ack,   \* vote_ack[i][j]: commit offset that j acknowledged, or NoAck
    lr,         \* lr[i][j]: what leader i knows of the log of j
    replies,    \* reply bytes posted and not landed
    up          \* servers that have not failed

logVars == <<mem, end, old_end, commit>>
roleVars == <<term, leading, log_access, vote_ack>>
vars == <<roleVars, logVars, nc_buf, lr, replies, up>>

Pos == 1 .. Ring
Offset == 0 .. Ring

\* dare_log_entry_t: its index is its position, its command is left out.
Entry == [term : Nat, sender : Server, reply : SUBSET Server]

\* The memory of a new log is all zeros.
NoEntry == [term |-> 0, sender |-> 0, reply |-> {}]

NoAck == 0 - 1

\* dare_nc_buf_t: the terms of the entries after offset from.
NcBuf == [from : Offset, terms : Seq(Nat)]

\* next_lr_step and log_offsets[j] of a leader.  The steps before LR_SET_END
\* are one, "get"; cached is cached_end_offset.
LrState == [step : {"get", "set_end", "log", "end"},
            commit : Offset, end : Offset, cached : Offset]

\* Mutant: next_lr_step is incremented after every step, the last one too.
StepIncremented ==
    [get |-> "set_end", set_end |-> "log", log |-> "end", end |-> "after_end"]

\* The step after one that completes successfully.
NextStep == [get |-> "set_end", set_end |-> "log", log |-> "end", end |-> "log"]
LrStart == [step |-> "get", commit |-> 0, end |-> 0, cached |-> 0]

Reply == [from : Server, to : Server, pos : Pos]

TypeOK ==
    /\ term \in [Server -> Nat]
    /\ leading \in SUBSET Server
    /\ mem \in [Server -> [Pos -> Entry]]
    /\ end \in [Server -> Offset]
    /\ old_end \in [Server -> Offset]
    /\ commit \in [Server -> Offset]
    /\ nc_buf \in [Server -> [Server -> NcBuf]]
    /\ log_access \in [Server -> SUBSET Server]
    /\ vote_ack \in [Server -> [Server -> Offset \cup {NoAck}]]
    /\ lr \in [Server -> [Server -> LrState]]
    /\ replies \in SUBSET Reply
    /\ up \in SUBSET Server

Others(i) == Server \ {i}
Majority(S) == Cardinality(S) >= N \div 2 + 1

\* The LOG QPs of i and j are open to each other.  Without TERM_PSN, which the
\* build does not define, they connect whenever they were opened.
Connected(i, j) == j \in log_access[i] /\ i \in log_access[j]

-----------------------------------------------------------------------------
(***************************************************************************)
(* Offsets of the ring (dare_log.h).                                       *)
(***************************************************************************)
\* log_offset_end_distance of offset x when the end offset is e.
Distance(e, x) == IF e >= x THEN e - x ELSE Ring - (x - e)

\* Mutant: the comparison the wrong way round.
Smaller(e, x, y) == Distance(e, x) > Distance(e, y)

\* log_is_offset_larger: x is closer to the end offset e than y.
Larger(e, x, y) == Distance(e, x) < Distance(e, y)

\* The last offset of S in this order.
Largest(e, S) == CHOOSE x \in S : \A y \in S : ~Larger(e, y, x)

\* The entries a loop over log_get_entry from offset x to offset y passes.
Walk(x, y) ==
    IF x <= y THEN [k \in 1 .. y - x |-> x + k]
    ELSE [k \in 1 .. Ring - x + y |-> IF k <= Ring - x THEN x + k ELSE k - (Ring - x)]

Walked(x, y) == {Walk(x, y)[k] : k \in DOMAIN Walk(x, y)}

\* Length of the longest prefix of w all of whose positions are in S.
PrefixIn(w, S) ==
    CHOOSE n \in 0 .. Len(w) : /\ \A k \in 1 .. n : w[k] \in S
                               /\ n < Len(w) => w[n + 1] \notin S

\* The up-to-date test of a vote: the log of i is not better than that of j.
LastTerm(i) == IF end[i] = 0 THEN 0 ELSE mem[i][end[i]].term

\* Mutant: the index is not compared.
LastTermLeq(i, j) == LastTerm(i) <= LastTerm(j)

LogLeq(i, j) == \/ LastTerm(i) < LastTerm(j)
                \/ LastTerm(i) = LastTerm(j) /\ end[i] <= end[j]

\* log_entries_to_nc_buf of server i.
NotCommitted(i) ==
    LET w == Walk(commit[i], end[i])
    IN [from |-> commit[i], terms |-> [k \in DOMAIN w |-> mem[i][w[k]].term]]

\* The number of determinants of buffer b that match the log of l.  The search
\* stops at the end of the log and at the first entry that differs.
Matching(l, b) ==
    LET w == [k \in DOMAIN b.terms |-> b.from + k]
        same == {b.from + k : k \in {k \in DOMAIN b.terms :
                    /\ b.from + k - 1 # end[l] /\ b.from + k \in Pos
                    /\ mem[l][b.from + k].term = b.terms[k]}}
    IN PrefixIn(w, same)

\* Mutant: the determinants are compared without the term.
RemoteEndByIndex(l, b) ==
    IF b.from + Len(b.terms) <= end[l] THEN b.from + Len(b.terms) ELSE end[l]

\* Mutant: without a matching entry the whole remote log is cut.
RemoteEndOrNothing(l, b) == IF Matching(l, b) = 0 THEN 0 ELSE b.from + Matching(l, b)

\* log_find_remote_end_offset.
RemoteEnd(l, b) == b.from + Matching(l, b)

-----------------------------------------------------------------------------
(***************************************************************************)
(* persist_new_entries and log_append_entry.                               *)
(***************************************************************************)
\* The loop of persist_new_entries at a leader: it becomes the sender.
SentBy(l, m, x, y) ==
    [p \in Pos |-> IF p \in Walked(x, y) THEN [m[p] EXCEPT !.sender = l] ELSE m[p]]

\* The leader l appends an entry of term t and persists it in the same round
\* of polling(), before any remote log is written.
AppendPersisted(l, t) ==
    LET m == [mem[l] EXCEPT ![end[l] + 1] = [@ EXCEPT !.term = t, !.reply = {}]]
    IN /\ end[l] < MaxLog
       /\ end' = [end EXCEPT ![l] = @ + 1]
       /\ mem' = [mem EXCEPT ![l] = SentBy(l, m, old_end[l], end[l] + 1)]
       /\ old_end' = [old_end EXCEPT ![l] = end[l] + 1]

\* A client's command or a CONFIG entry reaches the leader.
AppendEntry(l) ==
    /\ l \in up \cap leading
    /\ AppendPersisted(l, term[l])
    /\ UNCHANGED <<roleVars, commit, nc_buf, lr, replies, up>>

\* rc_send_entries_reply for the entries at the positions in S: a byte goes to
\* the sender that the entry names, if the QP to it is open.
RepliesTo(f, S) ==
    {[from |-> f, to |-> mem[f][p].sender, pos |-> p] :
        p \in {p \in S : mem[f][p].sender \in log_access[f]}}

\* persist_new_entries of a server that does not lead.  It runs from old_end
\* to the end offset, around the ring when the log was cut before old_end.
Persist(f) ==
    LET new == Walked(old_end[f], end[f])
    IN /\ f \in up \ leading
       /\ Distance(end[f], old_end[f]) # 0
       /\ mem' = [mem EXCEPT ![f] = [p \in Pos |->
                     IF p \in new THEN [mem[f][p] EXCEPT !.reply = @ \cup {f}] ELSE mem[f][p]]]
       /\ replies' = replies \cup RepliesTo(f, new)
       /\ old_end' = [old_end EXCEPT ![f] = end[f]]
       /\ UNCHANGED <<roleVars, end, commit, nc_buf, lr, up>>

\* A reply byte lands in the entry at its position, whatever is there by now.
LandReply(r) ==
    /\ r \in replies
    /\ replies' = replies \ {r}
    /\ mem' = IF r.to \in up /\ Connected(r.from, r.to)
              THEN [mem EXCEPT ![r.to][r.pos].reply = @ \cup {r.from}] ELSE mem
    /\ UNCHANGED <<roleVars, end, old_end, commit, nc_buf, lr, up>>

-----------------------------------------------------------------------------
(***************************************************************************)
(* log_adjustment: bring a remote log to a prefix of the leader's.         *)
(***************************************************************************)
\* The leader l can work on the log of f, which has acknowledged it.
Access(l, f) ==
    /\ l \in up \cap leading /\ f \in up
    /\ vote_ack[l][f] # NoAck /\ Connected(l, f)

\* LR_GET_WRITE to LR_GET_NCE: take the commit offset from the vote ack and
\* read the buffer; without entries in it the adjustment is done.
GetEntries(l, f) ==
    /\ Access(l, f) /\ lr[l][f].step = "get"
    /\ commit' = [commit EXCEPT ![l] = Largest(end[l], {@, vote_ack[l][f]})]
    /\ nc_buf' = [nc_buf EXCEPT ![l][f] = nc_buf[f][f]]
    /\ lr' = [lr EXCEPT ![l][f] =
                IF nc_buf[f][f].terms = <<>>
                THEN [@ EXCEPT !.step = "log", !.commit = vote_ack[l][f],
                               !.end = vote_ack[l][f]]
                ELSE [@ EXCEPT !.step = NextStep.get, !.commit = vote_ack[l][f]]]
    /\ UNCHANGED <<roleVars, mem, end, old_end, replies, up>>

\* LR_SET_END: cut the remote log after the last matching entry.
SetEnd(l, f) ==
    /\ Access(l, f) /\ lr[l][f].step = "set_end"
    /\ LET e == RemoteEnd(l, nc_buf[l][f])
       IN /\ end' = [end EXCEPT ![f] = e]
          /\ lr' = [lr EXCEPT ![l][f].end = e, ![l][f].step = NextStep.set_end]
    /\ UNCHANGED <<roleVars, mem, old_end, commit, nc_buf, replies, up>>

(***************************************************************************)
(* update_remote_logs: extend the remote logs, commit, spread the commit.  *)
(***************************************************************************)
\* LR_UPDATE_LOG: write the entries after the remote end, reply bytes and all.
WriteLog(l, f) ==
    /\ Access(l, f) /\ lr[l][f].step = "log"
    /\ Distance(end[l], lr[l][f].end) # 0
    /\ mem' = [mem EXCEPT ![f] = [p \in Pos |->
                  IF p \in Walked(lr[l][f].end, end[l]) THEN mem[l][p] ELSE @[p]]]
    /\ lr' = [lr EXCEPT ![l][f].cached = end[l], ![l][f].step = NextStep.log]
    /\ UNCHANGED <<roleVars, end, old_end, commit, nc_buf, replies, up>>

\* LR_UPDATE_END: move the remote end to where the leader's was in WriteLog.
WriteEnd(l, f) ==
    /\ Access(l, f) /\ lr[l][f].step = "end"
    /\ end' = [end EXCEPT ![f] = lr[l][f].cached]
    /\ lr' = [lr EXCEPT ![l][f].end = lr[l][f].cached, ![l][f].step = NextStep.end]
    /\ UNCHANGED <<roleVars, mem, old_end, commit, nc_buf, replies, up>>

\* Mutant: half of the group is enough.
RepliedByHalf(l) == {p \in Pos : Cardinality(mem[l][p].reply \cup {l}) >= N \div 2}

\* Mutant: the leader does not count itself.
RepliedByOthers(l) == {p \in Pos : Majority(mem[l][p].reply)}

\* The positions of the log of l whose reply bytes, with itself, are a majority.
Replied(l) == {p \in Pos : Majority(mem[l][p].reply \cup {l})}

\* commit_new_entries calls rc_write_remote_logs.
PassNeeded(l) ==
    \/ Distance(end[l], commit[l]) # 0
    \/ \E f \in Others(l) : /\ vote_ack[l][f] # NoAck
                            /\ lr[l][f].step # "log" \/ lr[l][f].end # end[l]

\* The commit offset after the scan, which stops at the first entry without a
\* majority of reply bytes.
Scanned(l) ==
    LET w == Walk(commit[l], end[l])
        n == PrefixIn(w, Replied(l))
    IN IF n = 0 THEN commit[l] ELSE w[n]

\* The rest of the pass: commit, and post the commit offset, as far as the
\* remote log reaches, to the servers that are not in the middle of an update.
\* It is posted once: the leader takes it for written even if it is lost.
Commit(l) ==
    LET c == Scanned(l)
        behind == {f \in Others(l) : /\ lr[l][f].step = "log"
                                     /\ lr[l][f].commit \notin {lr[l][f].end, c}}
        new(f) == IF Larger(end[l], c, lr[l][f].end) THEN lr[l][f].end ELSE c
        reached == {f \in behind \cap up : Connected(l, f)}
    IN /\ l \in up \cap leading /\ PassNeeded(l)
       /\ c # commit[l] \/ behind # {}
       /\ commit' = [i \in Server |-> IF i = l THEN c
                                      ELSE IF i \in reached THEN new(i) ELSE commit[i]]
       /\ lr' = [lr EXCEPT ![l] = [f \in Server |->
                    IF f \in behind THEN [@[f] EXCEPT !.commit = new(f)] ELSE @[f]]]
       /\ UNCHANGED <<roleVars, mem, end, old_end, nc_buf, replies, up>>

-----------------------------------------------------------------------------
(***************************************************************************)
(* Changes of leader, failures.                                            *)
(***************************************************************************)
\* The reply bytes that stay when the servers in S reset their LOG QPs.
NotReset(S) == {r \in replies : r.from \notin S /\ r.to \notin S}

\* start_election and poll_vote_count of l, poll_vote_requests of the other
\* servers in Q, one after the other.  The voters publish their buffers, open
\* their logs to l and acknowledge with their commit offsets; l takes over the
\* largest of these, appends the blank entry and opens all its LOG QPs.
Elect(l, Q) ==
    LET t == 1 + (CHOOSE x \in {term[i] : i \in Q} : \A i \in Q : term[i] <= x)
        voters == Q \ {l}
    IN /\ l \in Q /\ Q \subseteq up /\ Majority(Q)
       /\ t <= MaxTerm[l]
       /\ Accurate => leading \cap up = {}
       /\ \A v \in voters : LogLeq(v, l)
       /\ term' = [i \in Server |-> IF i \in Q THEN t ELSE term[i]]
       /\ leading' = (leading \ Q) \cup {l}
       /\ nc_buf' = [i \in Server |-> IF i \in voters
                        THEN [nc_buf[i] EXCEPT ![i] = NotCommitted(i)] ELSE nc_buf[i]]
       /\ log_access' = [i \in Server |-> IF i = l THEN Others(l)
                                          ELSE IF i \in Q THEN {l} ELSE log_access[i]]
       /\ vote_ack' = [vote_ack EXCEPT ![l] = [j \in Server |->
                            IF j \in voters THEN commit[j] ELSE NoAck]]
       /\ commit' = [commit EXCEPT ![l] = Largest(end[l], {commit[j] : j \in Q})]
       /\ lr' = [lr EXCEPT ![l] = [j \in Server |-> [@[j] EXCEPT !.step = "get"]]]
       /\ AppendPersisted(l, t)
       /\ replies' = NotReset(Q)
       /\ UNCHANGED up

\* server_to_follower of f on an HB of the leader l of a larger term.
Follow(f, l) ==
    /\ f \in up /\ l \in up \cap leading /\ term[f] < term[l]
    /\ term' = [term EXCEPT ![f] = term[l]]
    /\ leading' = leading \ {f}
    /\ nc_buf' = [nc_buf EXCEPT ![f][f] = NotCommitted(f)]
    /\ log_access' = [log_access EXCEPT ![f] = {l}]
    /\ vote_ack' = [vote_ack EXCEPT ![l][f] = commit[f]]
    /\ replies' = NotReset({f})
    /\ UNCHANGED <<logVars, lr, up>>

Crash(i) ==
    /\ i \in up
    /\ Cardinality(Server \ up) < MaxCrash
    /\ up' = up \ {i}
    /\ UNCHANGED <<roleVars, logVars, nc_buf, lr, replies>>

-----------------------------------------------------------------------------
Init ==
    /\ term = [i \in Server |-> 0]
    /\ leading = {}
    /\ mem = [i \in Server |-> [p \in Pos |-> NoEntry]]
    /\ end = [i \in Server |-> 0]
    /\ old_end = [i \in Server |-> 0]
    /\ commit = [i \in Server |-> 0]
    /\ nc_buf = [i \in Server |-> [j \in Server |-> [from |-> 0, terms |-> <<>>]]]
    /\ log_access = [i \in Server |-> {}]
    /\ vote_ack = [i \in Server |-> [j \in Server |-> NoAck]]
    /\ lr = [i \in Server |-> [j \in Server |-> LrStart]]
    /\ replies = {}
    /\ up = Server

Next ==
    \/ \E i \in Server : AppendEntry(i) \/ Persist(i) \/ Commit(i) \/ Crash(i)
    \/ \E l, f \in Server :
          \/ GetEntries(l, f) \/ SetEnd(l, f) \/ WriteLog(l, f) \/ WriteEnd(l, f)
          \/ Follow(f, l)
    \/ \E r \in replies : LandReply(r)
    \/ \E l \in Server, Q \in SUBSET Server : Elect(l, Q)

Spec == Init /\ [][Next]_vars

-----------------------------------------------------------------------------
(***************************************************************************)
(* Safety.                                                                 *)
(***************************************************************************)
\* Server i has an entry of term t at position p.
Holds(i, p, t) == p <= end[i] /\ mem[i][p].term = t

\* update_remote_logs: "Find minimum offset that exists on a majority of
\* servers a.k.a find committed entries".  An entry below the commit offset of
\* any server is in the logs of a majority.
CommittedOnMajority ==
    \A i \in Server : \A p \in 1 .. commit[i] :
        Majority({j \in Server : Holds(j, p, mem[i][p].term)})

\* A committed entry stays: no adjustment, write or election removes or
\* replaces an entry below a server's commit offset, and no commit offset
\* goes back.
CommittedStable ==
    [][\A i \in Server : /\ commit'[i] >= commit[i]
                         /\ \A p \in 1 .. commit[i] : Holds(i, p, mem[i][p].term)'
                                /\ mem'[i][p].term = mem[i][p].term]_vars

\* The leader of the largest term has every entry that any server has
\* committed: the up-to-date test of the votes and the majority of the
\* replies intersect.
LeaderHasCommitted ==
    \A l \in leading : (\A i \in Server : term[i] <= term[l]) =>
        \A i \in Server : \A p \in 1 .. commit[i] : Holds(l, p, mem[i][p].term)

\* What the leader knows of an adjusted log is true: its log_offsets[f].end is
\* the end of the remote log, which is a prefix of its own.  update_remote_logs
\* extends remote logs blindly on this knowledge, and nothing checks it again.
AdjustedLogs ==
    \A l \in leading \cap up : \A f \in Others(l) :
        (vote_ack[l][f] # NoAck /\ Connected(l, f) /\ lr[l][f].step \in {"log", "end"})
            => /\ end[f] = lr[l][f].end
               /\ \A p \in 1 .. end[f] : Holds(l, p, mem[f][p].term)

-----------------------------------------------------------------------------
(***************************************************************************)
(* Liveness.  commit_new_entries goes on posting the next operation for    *)
(* every server, every server goes on persisting, HBs arrive and the       *)
(* network delivers.  Nothing is assumed of elections, clients, failures.  *)
(***************************************************************************)
Update(l, f) ==
    GetEntries(l, f) \/ SetEnd(l, f) \/ WriteLog(l, f) \/ WriteEnd(l, f)

Fairness ==
    /\ \A i \in Server : WF_vars(Persist(i)) /\ WF_vars(Commit(i))
    /\ \A l, f \in Server : WF_vars(Update(l, f)) /\ WF_vars(Follow(f, l))
    /\ WF_vars(\E r \in replies : LandReply(r))

FairSpec == Spec /\ Fairness

\* As long as the group's first leader lasts, every entry it has appended gets
\* committed and into the log of every server that runs, whichever servers
\* fail meanwhile and however late the others follow.
EntryReachesAll ==
    \A l \in Server, p \in 1 .. MaxLog :
        (l \in leading \cap up /\ end[l] >= p)
            ~> \/ commit[l] >= p /\ \A f \in up : end[f] >= p
               \/ l \notin leading \cap up

-----------------------------------------------------------------------------
(***************************************************************************)
(* What a comment of the code says and the code does not do.               *)
(***************************************************************************)
\* poll_vote_count: "Append CONFIG entry to be able to commit previous
\* entries".  So a leader that lasts would commit all entries of its log.
LeaderCommits ==
    \A l \in Server, p \in 1 .. MaxLog :
        (l \in leading \cap up /\ end[l] >= p)
            ~> commit[l] >= p \/ l \notin leading \cap up
=============================================================================
