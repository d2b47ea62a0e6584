------------------------------- MODULE DareLog -------------------------------
(***************************************************************************)
(* The circular log under one leader (dare_log.h), and what moves its      *)
(* offsets: appending, replicating, persisting, committing, applying       *)
(* (dare_server.c), and the pruning that gives space back to the leader.   *)
(*                                                                         *)
(* Entries have different lengths, so an entry may not fit before the end  *)
(* of the buffer: without place for its header it starts at offset 0; with *)
(* place for the header only, the header stays behind as a marker and the  *)
(* entry is written at offset 0.  Every reader of a log has to skip the    *)
(* same places as the leader did.  An offset says nothing about the round  *)
(* it belongs to: offsets are compared by their distance to the end.       *)
(*                                                                         *)
(* Left to DareReplication: elections, log adjustment, the single steps of *)
(* an update and delayed replies.  Here an update of a remote log (entries,*)
(* then end offset) is one step together with the pass of polling() in     *)
(* which the follower meets it, so a slow follower is one whose updates    *)
(* come late.  A pass of the leader is one step.                           *)
(***************************************************************************)
EXTENDS Integers, Sequences, FiniteSets, SequencesExt

CONSTANTS
    N,          \* group size
    Ring,       \* log->len
    Hdr,        \* sizeof(dare_log_entry_t)
    Start,      \* offsets at which the life of the log may begin
    DataLen,    \* length of the command of each request, in order
    Clients,    \* client threads: each waits until its request is applied
    MaxPrunes   \* bound on the runs of the pruning timer

Server == 0 .. N - 1
Leader == 0
Follower == Server \ {Leader}
Offset == 0 .. Ring
MaxReq == Len(DataLen)

ASSUME LogAssumption ==
    /\ N \in Nat \ {0} /\ Hdr \in Nat \ {0} /\ Clients \in Nat /\ MaxPrunes \in Nat
    /\ Ring \in Nat /\ Ring >= 4 * Hdr
    /\ Start \subseteq 0 .. Ring - Hdr
    /\ DataLen \in Seq(0 .. Ring - Hdr)

VARIABLES
    log,            \* the log of each server: dare_log_t
    cid_offset,     \* config.cid_offset: where poll_config_entries goes on
    rmt,            \* the leader's ctrl_data->log_offsets[]: remote end, commit
    apply_offsets,  \* the leader's ctrl_data->apply_offsets[]
    prev_head,      \* prev_log_entry_head
    on,             \* servers that are ON in the leader's configuration
    prunes,         \* number of times the pruning timer has run
    submitted,      \* number of requests taken from the queue
    committed,      \* history: number of committed requests
    applied         \* history: requests each server handed to its proxy

vars == <<log, cid_offset, rmt, apply_offsets, prev_head, on, prunes, submitted,
          committed, applied>>

Entry == [type : {"CSM"}, len : 0 .. Ring - Hdr, val : 1 .. MaxReq]
         \cup [type : {"CONFIG"}, len : {0}, val : {0}]
         \cup [type : {"HEAD"}, len : {0}, val : Offset]

\* What a reader finds where there is no header: no request has number 0.
Void == [type |-> "CSM", len |-> 0, val |-> 0]

-----------------------------------------------------------------------------
(* Offsets and entries.  The entries of a log are a function m from the    *)
(* offsets where a header was written and not yet covered.                 *)

\* log_offset_end_distance, for a log that ends at e.
Distance(e, o) ==
    IF e = Ring THEN 0 ELSE IF e >= o THEN e - o ELSE Ring - (o - e)

\* log_is_offset_larger: a is closer to the end e than b.
Larger(e, a, b) == Distance(e, a) < Distance(e, b)

\* log_entry_len
EntryLen(e) == Hdr + e.len

\* Mutant: an entry may end one byte after the buffer.
FitsAlmost(o, e) == Ring - o + 1 >= EntryLen(e)

\* log_fit_entry_header, log_fit_entry
FitsHeader(o) == Ring - o >= Hdr
Fits(o, e) == Ring - o >= EntryLen(e)

Header(m, o) == IF o \in DOMAIN m THEN m[o] ELSE Void

\* Mutant: a reader does not know the marker.
AtOffset(m, o) == IF FitsHeader(o) THEN o ELSE 0

\* Where the entry that a reader meets at offset o really is: at 0 when there
\* is no place for a header at o, and at 0 when the header at o is a marker.
At(m, o) ==
    LET p == IF FitsHeader(o) THEN o ELSE 0
    IN  IF Fits(p, Header(m, p)) THEN p ELSE 0

\* Readers of a log go from offset to offset until its end, for as long as Go holds of
\* the offset.  Those that begin at offset a and meet at most k entries: where they stop,
\* the places of the entries they met, in order, and the requests among the entries.
Readings(l, Go) ==
    LET W[k \in Nat] == [a \in Nat |->
          IF k = 0 \/ Distance(l.end, a) = 0 \/ ~Go[a] THEN [off |-> a, met |-> <<>>, csm |-> <<>>]
          ELSE LET p == At(l.mem, a)
                   e == Header(l.mem, p)
                   w == W[k - 1][p + EntryLen(e)]
               IN  [off |-> w.off, met |-> <<p>> \o w.met,
                    csm |-> (IF e.type = "CSM" THEN <<e.val>> ELSE <<>>) \o w.csm]]
    IN  W

\* A reader that begins at offset o.  (Nobody meets more than Ring entries, unless he
\* has lost the way.)
Walk(l, o, Go) == Readings(l, Go)[Ring][o]

ToTheEnd == [o \in Nat |-> TRUE]

\* An entry in memory; it covers what was there.
Put(m, o, e) ==
    [a \in (DOMAIN m \ (o .. o + EntryLen(e) - 1)) \cup {o} |-> IF a = o THEN e ELSE m[a]]

\* log_append_entry: the new log.  A log that ends at Ring counts as empty, and
\* the entry goes to offset 0.  The log is full when the end is at the head: it
\* is left as it is, or with its end at 0 if the header of the entry was put at
\* the end of the buffer before.
Appended(l, type, len, val) ==
    LET e     == [type |-> type, len |-> len, val |-> val]
        at    == IF FitsHeader(l.end) THEN l.end ELSE 0
        mark  == [l EXCEPT !.mem = Put(@, at, e), !.end = 0]
        To(k, o) == [k EXCEPT !.mem = Put(@, o, e), !.reply = {r \in @ : r[1] # o},
                              !.tail = o, !.end = o + EntryLen(e)]
    IN  IF l.end = l.head THEN l
        ELSE IF Fits(at, e) THEN To(l, at)
        ELSE IF l.head = 0 THEN mark ELSE To(mark, 0)

-----------------------------------------------------------------------------
(* All servers.                                                            *)

\* persist_new_entries: the entries from old_end to end.
NewEntries(l) == Walk(l, l.old_end, ToTheEnd)

\* apply_committed_entries: the entries from apply to commit.
ToApply(l) == Walk(l, l.apply, [o \in Nat |-> Larger(l.end, l.commit, o)])

\* All logs are alike and hold one entry, the CONFIG entry of the leader at
\* offset o: it is applied, or the leader has just appended it to an empty log.
Init ==
    \E o \in Start :
      LET end == o + Hdr
          old == [mem |-> [a \in {o} |-> [type |-> "CONFIG", len |-> 0, val |-> 0]], reply |-> {},
                  head |-> o, apply |-> end, commit |-> end, end |-> end, tail |-> o,
                  old_end |-> end]
          new == [old EXCEPT !.apply = 0, !.commit = 0, !.old_end = Ring]
      IN  /\ log = [s \in Server |->
                      IF o > 0 THEN old ELSE IF s = Leader THEN new
                      ELSE [new EXCEPT !.mem = <<>>, !.end = 0, !.tail = Ring]]
          /\ cid_offset = [s \in Server |-> log[s].commit]
          /\ rmt = [s \in Follower |-> [end |-> log[s].end, commit |-> log[s].commit]]
          /\ apply_offsets = [i \in 0 .. N |-> o]
          /\ prev_head = FALSE
          /\ on = Server
          /\ prunes = 0
          /\ submitted = 0
          /\ committed = 0
          /\ applied = [s \in Server |-> <<>>]

L == log[Leader]
Running == 2 * Cardinality(on) > N

-----------------------------------------------------------------------------
(* A follower.                                                             *)

\* poll_config_entries: the HEAD entries among those from cid_offset to end whose
\* offset is not larger than the commit offset; the last one moves the head.  The
\* next call starts from the commit offset, or from the end if that is smaller.
Unpolled(l, o) == Walk(l, o, ToTheEnd)

PolledHead(l, met) ==
    LET heads == {k \in DOMAIN met : /\ Header(l.mem, met[k]).type = "HEAD"
                                     /\ ~Larger(l.end, met[k], l.commit)}
        new == IF heads = {} THEN l.head ELSE l.mem[met[Max(heads)]].val
    IN  IF Larger(l.end, new, l.head) THEN new ELSE l.head

PolledOffset(l, off) == IF Larger(l.end, off, l.commit) THEN l.commit ELSE off

\* Server s meets in its log l what the leader has written, and makes a pass of
\* polling(): the new entries are stored and a reply is written into each of the
\* leader's entries, at the same offset; HEAD entries are looked for; what is
\* committed is handed to the proxy.
FollowerPass(s, l) ==
    LET stored == NewEntries(l)
        todo == ToApply(l)
        polled == Unpolled(l, cid_offset[s])
    IN  /\ log' = [log EXCEPT
             ![s] = [l EXCEPT !.old_end = stored.off, !.head = PolledHead(l, polled.met),
                              !.apply = todo.off],
             ![Leader].reply = @ \cup {<<stored.met[k], s>> : k \in DOMAIN stored.met}]
        /\ cid_offset' = [cid_offset EXCEPT ![s] = PolledOffset(l, polled.off)]
        /\ applied' = [applied EXCEPT ![s] = @ \o todo.csm]

\* What is written to bring a log from one end offset to another: around the
\* ring, in two writes, if need be.
Written(from, to) ==
    IF to > from THEN from .. to - 1 ELSE (from .. Ring - 1) \cup (0 .. to - 1)

\* LR_UPDATE_LOG and LR_UPDATE_END for server s.
UpdateRemoteLog(s) ==
    /\ Running /\ s \in on
    /\ Distance(L.end, rmt[s].end) > 0
    /\ LET written == Written(rmt[s].end, L.end)
       IN  FollowerPass(s, [log[s] EXCEPT
             !.mem = [a \in (DOMAIN @ \ written) \cup (DOMAIN L.mem \cap written) |->
                        IF a \in written THEN L.mem[a] ELSE @[a]],
             !.end = L.end])
    /\ rmt' = [rmt EXCEPT ![s].end = L.end]
    /\ UNCHANGED <<apply_offsets, prev_head, on, prunes, submitted, committed>>

\* The lazy update of a remote commit offset, at most to the remote end.
UpdateRemoteCommit(s) ==
    /\ Running /\ s \in on
    /\ rmt[s].commit \notin {rmt[s].end, L.commit}
    /\ LET c == IF Larger(L.end, L.commit, rmt[s].end) THEN rmt[s].end ELSE L.commit
       IN  /\ rmt' = [rmt EXCEPT ![s].commit = c]
           /\ FollowerPass(s, [log[s] EXCEPT !.commit = c])
    /\ UNCHANGED <<apply_offsets, prev_head, on, prunes, submitted, committed>>

-----------------------------------------------------------------------------
(* Pruning.                                                                *)

\* The server with the smallest of the apply offsets ao, the first of equals.
\* (The smallest is the farthest from the end.)
Slowest(l, ao) ==
    LET far == {i \in Server : \A j \in Server : ~Larger(l.end, ao[i], ao[j])}
    IN  CHOOSE i \in far : \A j \in far : i <= j

\* Mutant: only the leader's own apply offset counts.
OwnApply(l, ao) == l.apply

MinApply(l, ao) ==
    LET a == ao[Slowest(l, ao)] IN IF Larger(l.end, l.apply, a) THEN a ELSE l.apply

\* log_pruning with the log l and the servers up: the head moves to the smallest
\* apply offset that is known, one entry is left in any case, and a HEAD entry
\* tells the others unless the last entry is one.  Then the apply offsets of
\* the others are read for the next time.
LogPruning(l, ao, up, prev) ==
    LET known == [i \in DOMAIN ao |-> IF i \in Server \ up THEN l.apply ELSE ao[i]]
        a     == MinApply(l, known)
        min   == IF Distance(l.end, a) = 0 THEN l.tail ELSE a
        prune == Larger(l.end, min, l.head) /\ ~prev
    IN  /\ log' = [log EXCEPT ![Leader] =
                     IF prune THEN Appended([l EXCEPT !.head = min], "HEAD", 0, min) ELSE l]
        /\ prev_head' = (prev \/ prune)
        /\ apply_offsets' = [i \in DOMAIN ao |->
             IF i = Leader \/ i \in Server \ up THEN l.apply
             ELSE IF i \in up THEN log[i].apply ELSE ao[i]]

\* prune_log_cb: the timer, between two passes.
Prune ==
    /\ Running
    /\ prunes < MaxPrunes
    /\ prunes' = prunes + 1
    /\ LogPruning(L, apply_offsets, on, prev_head)
    /\ UNCHANGED <<cid_offset, rmt, on, submitted, committed, applied>>

\* force_log_pruning: when the log is filled to three quarters, the server with
\* the smallest apply offset is removed, and the log is pruned.  (The offset that
\* is reset after the removal is the one after the last server.)
Crowded(l) == 4 * Distance(l.end, l.head) >= 3 * Ring

ForceLogPruning(l, prev) ==
    LET t == Slowest(l, apply_offsets)
        remove == t \in on \ {Leader} /\ Larger(l.end, l.apply, apply_offsets[t])
        left == IF remove THEN on \ {t} ELSE on
        new == IF remove THEN Appended(l, "CONFIG", 0, 0) ELSE l
        ao == IF remove THEN [apply_offsets EXCEPT ![N] = l.apply] ELSE apply_offsets
    IN  /\ LogPruning(new, ao, left, prev /\ ~remove)
        /\ on' = left

-----------------------------------------------------------------------------
(* The leader.                                                             *)

\* update_remote_logs: the entries that a majority has persisted are committed.
Replied(l, p) == 2 * Cardinality({s \in Server : s = Leader \/ <<p, s>> \in l.reply}) > N

Committed(l) == Walk(l, l.commit, [o \in Nat |-> Replied(l, At(l.mem, o))])

\* A pass of polling(): k = 1 if there is a request in the queue of the client
\* threads.  (check_failure_count: a leader without a majority has shut down.)
LeaderPass ==
    \E k \in 0 .. 1 :
      LET a == IF k = 1 THEN Appended(L, "CSM", DataLen[submitted + 1], submitted + 1) ELSE L
          p == [a EXCEPT !.old_end = NewEntries(a).off]
          done == Committed(p)
          c == [p EXCEPT !.commit = done.off]
          todo == ToApply(c)
          l == [c EXCEPT !.apply = todo.off]
      IN  /\ Running
          /\ k = 1 => /\ submitted < MaxReq
                      /\ submitted - Len(applied[Leader]) < Clients
          /\ submitted' = submitted + k
          /\ cid_offset' = [cid_offset EXCEPT ![Leader] = IF done.met = <<>> THEN @ ELSE done.off]
          /\ committed' = committed + Len(done.csm)
          /\ applied' = [applied EXCEPT ![Leader] = @ \o todo.csm]
          /\ IF Crowded(l) THEN ForceLogPruning(l, prev_head /\ k = 0)
             ELSE /\ log' = [log EXCEPT ![Leader] = l]
                  /\ prev_head' = (prev_head /\ k = 0)
                  /\ UNCHANGED <<apply_offsets, on>>
          /\ UNCHANGED <<rmt, prunes>>

-----------------------------------------------------------------------------
Next ==
    \/ LeaderPass
    \/ Prune
    \/ \E s \in Follower :
         \/ UpdateRemoteLog(s)
         \/ UpdateRemoteCommit(s)

Spec == Init /\ [][Next]_vars

-----------------------------------------------------------------------------
(* Properties.                                                             *)

\* Every variable has its type; in particular no entry ends after the buffer, and no
\* offset of a log, nor one that the leader keeps for another server, leaves it.
TypeOK ==
    /\ \A s \in Server :
         /\ DOMAIN log[s].mem \subseteq 0 .. Ring - 1
         /\ \A a \in DOMAIN log[s].mem : log[s].mem[a] \in Entry
         /\ log[s].reply \subseteq (0 .. Ring - 1) \X Server
         /\ {log[s].head, log[s].apply, log[s].commit, log[s].end, log[s].tail,
             log[s].old_end, cid_offset[s]} \subseteq Offset
    /\ \A s \in Follower : {rmt[s].end, rmt[s].commit} \subseteq Offset
    /\ apply_offsets \in [0 .. N -> Offset]
    /\ prev_head \in BOOLEAN
    /\ Leader \in on /\ on \subseteq Server
    /\ prunes \in 0 .. MaxPrunes /\ submitted \in 0 .. MaxReq

\* The ring is a replicated log: whatever is wrapped, marked, pruned, forced out
\* or still on its way, every server's calls of proxy_do_action (or of
\* proxy_update_state, on the leader) are the committed requests in the order in
\* which the leader took them, none twice, none skipped, none read from bytes
\* that hold something else.
Abstract == INSTANCE ReplicatedLog
                WITH log <- [i \in 1 .. submitted |-> i], delivered <- applied,
                     Value <- 1 .. MaxReq

ImplementsReplicatedLog == Abstract!Spec

\* P1 in log_pruning's comment, in terms of entries: what some server of the
\* group has yet to apply is between the head and the end of the leader's log,
\* neither pruned nor written over nor dropped because the log was full, although
\* the leader prunes by offsets it read a while ago.  (A log whose last entry ends
\* at the end of the buffer counts as empty until the next append.)
Kept == Walk(L, L.head, ToTheEnd).csm

PrunedOnlyIfApplied ==
    Running /\ L.end # Ring =>
      \A s \in on : Len(applied[s]) + 1 .. submitted \subseteq ToSet(Kept)

\* poll_config_entries: "Check only committed entries; thus, the leader's head
\* offset is always >=".  A follower moves its head only for a HEAD entry that
\* lies before its commit offset.
HeadEntriesCommitted ==
    [][\A s \in Follower :
         LET l == log'[s] IN
         l.head # log[s].head =>
           \E p \in DOMAIN l.mem : /\ l.mem[p].type = "HEAD" /\ l.mem[p].val = l.head
                                   /\ Larger(l.end, l.commit, p)]_vars
=============================================================================
