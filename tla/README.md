# APUS / DARE: a TLA+ verification project

APUS replicates an unmodified TCP server. A preloaded library (`spec_hooks.cpp`,
`proxy.c`) hands every socket event of the leader's application to DARE, an
RDMA-based consensus protocol (`src/dare/`), which replicates it in a log that
the leader writes directly into the memory of the other servers. This directory
models DARE's elections, its log replication, the circular log, the proxy and
the way a server joins a group in TLA+, checks them with TLC and proves their safety
with TLAPS: of elections, joining, the circular log and the proxy for groups of any
size, of replication for groups of up to four. Paths below are relative to the
repository's `src/`.

## 1. Inventory

A server is one libev thread (`dare_server.c`) plus the application's threads.
Timer callbacks and `polling()` (one call per loop iteration) run to completion;
between them *other* servers change this server's memory by one-sided RDMA.

| Component | State | Operations | Hard part |
|---|---|---|---|
| SID (`include/dare/dare_server.h`) | one word `[TERM\|L\|IDX]` | set/get macros, comparison of words | order = lexicographic order of the fields |
| Election, heartbeats (`dare_server.c`) | `sid`, `hb[]`, `vote_req[]`, `vote_ack[]`, `prv_data[]`, timers | `hb_receive_cb`, `hb_send_cb`, `to_adjust_cb`, `start_election`, `poll_vote_requests`, `poll_vote_count`, `server_to_follower` | slots written by others at any time, stale HBs and acks, split elections |
| Log fencing (`dare_ibv_rc.c`) | state of every LOG QP (`log_access`) | `rc_revoke_log_access`, `rc_restore_log_access` | an old leader must be unable to write |
| RDMA transport (`dare_ibv_rc.c`, `dare_ibv.c`) | send queues, `ssn`, `posted_sends` | `post_send`, `wait_for_majority`, `wait_for_one`, `handle_work_completion` | late completions, QP errors |
| Log replication (`dare_ibv_rc.c`) | `next_lr_step`, `send_flag`, `log_offsets[]`, reply bytes | `log_adjustment`, `update_remote_logs`, `handle_lr_work_completion`, `rc_send_entries_reply` | truncation, commit of old terms |
| Circular log (`include/dare/dare_log.h`) | `head`, `apply`, `commit`, `end`, `tail`, `old_end` | append, NC buffer, comparison of offsets | wrap-around, full log |
| Apply, persist, prune (`dare_server.c`) | offsets, `last_applied_entry` | `persist_new_entries`, `apply_committed_entries`, `log_pruning` | offsets moved remotely |
| Reconfiguration (`dare_server.c`, `dare_ibv_ud.c`) | `config.cid`, `cid_offset` | join, `check_failure_count`, `poll_config_entries`, `update_cid` | two majorities, removal before commit |
| RC handshake (`dare_ibv_ud.c`) | endpoint, `rc_connected` | `handle_rc_syn`, `_synack`, `_ack` | lost and duplicated datagrams |
| Recovery (`dare_server.c`, `dare_ibv_rc.c`) | `dare_state`, snapshot | replicated vote, SM and log recovery | a restart between vote and use |
| Proxy (`proxy/proxy.c`, `spec_hooks.cpp`) | `cur_rec`, `highest_rec`, hash maps, tail queue | `proxy_on_*`, `leader_handle_submit_req`, `do_action_*` | two threads, leadership lost meanwhile |
| Endpoint database, record store (`dare_ep_db.c`, `db/`) | last request of a machine; stored records | `ep_insert`, `store_record`, `dump_records` | snapshot against apply offset |
| Others | - | KVS, config files, LogGP, device set-up | pure I/O or off the replication path |

Interaction: the proxy thread queues entries, the DARE thread appends them
(`get_tailq_message`), the leader writes logs over LOG QPs that followers opened
when they voted (fencing), and votes, HBs and acks travel over CTRL QPs.
The `hazards` of `PROJECT.json` list what can go wrong, at its line.

## 2. Modules

- **`DareSid`** - the SID as a record, its order, the word and its macros.
  `DareSidProofs` shows that the two orders agree and that the macros recover
  the fields.
- **`DareElection`** - election, heartbeats and fencing. One action per path of a
  handler:

  | Handler | Actions |
  |---|---|
  | `hb_receive_cb` | `HbTimeout` (starts an election), `HbRearm`, `HbFollow` |
  | `to_adjust_cb` | `AdjustTimeout` |
  | `hb_send_cb` | `HbSend`, `HbSendOutranked` |
  | `poll_vote_requests` | `AdoptSupported`, `DropRequests`, `RaiseTerm`, `Vote` |
  | `poll_vote_count` | `BecomeLeader` |
  | `poll_ud`, first election | `Start` |
  | delivery of a CTRL-QP write; failed ack | `Land`; `AckFails` |
  | `get_tailq_message`, log replication | `AppendEntry`, `WriteRemoteLog` (coarse) |
  | a server fails | `Crash` (no restart) |

- **`DareElectionProofs`** - the theorems. **`MCElection`** - the TLC instances.
- **`DareReplication`** - what a leader does to the other logs, and how an entry
  commits. `mem[i]` is the ring of server *i*, a position is an entry; `lr[l][f]` is
  `next_lr_step` with `log_offsets[f]` and `cached_end_offset`; `replies` are the
  reply bytes in flight.

  | Code | Actions |
  |---|---|
  | `log_append_entry` at a leader, then its own `persist_new_entries` | `AppendEntry` |
  | `persist_new_entries`, `rc_send_entries_reply` of a follower | `Persist`; the byte arrives or is lost: `LandReply` |
  | `log_adjustment`, `LR_GET_WRITE` .. `LR_GET_NCE` | `GetEntries` |
  | `log_adjustment`, `LR_SET_END` (`log_find_remote_end_offset`) | `SetEnd` |
  | `update_remote_logs`, `LR_UPDATE_LOG`, `LR_UPDATE_END` | `WriteLog`, `WriteEnd` |
  | `update_remote_logs`, the scan for commits and the commit offsets | `Commit` |
  | an election won by `l` with the votes of `Q` | `Elect` |
  | `server_to_follower` after an HB | `Follow` |

  **`MCReplication`** - its instances: in which terms each server is elected.
  **`DareReplicationProofs`** - its types, for every ring. **`DareReplicationSafety`** -
  its safety properties in groups of up to four servers.
- **`ReplicatedLog`** - the abstract specification: the leader orders requests, a
  prefix is committed, every server delivers a prefix of that. No offsets.
- **`DareLog`** - the circular log under one leader, in bytes: entries of several
  lengths, markers, two-part writes, all offsets of `dare_log_t`. `Abstract` is its
  refinement mapping to `ReplicatedLog`. **`MCLog`** - lengths and first offsets.
  **`DareLogProofs`** - the theorems.

  | Code | Actions |
  |---|---|
  | a pass of `polling` at the leader: `get_tailq_message`, `persist_new_entries`, `commit_new_entries`, `apply_committed_entries`, `force_log_pruning` | `LeaderPass` |
  | `update_remote_logs` for a server, and the pass in which that meets it | `UpdateRemoteLog`, `UpdateRemoteCommit` |
  | `prune_log_cb`, `log_pruning` | `Prune` |

- **`DareProxy`** - application threads, hooks, queue, hash maps and the replay on
  the other servers. Its log *is* the one that `ReplicatedLog` promises, by definition:
  the module is about what lies above it. **`DareProxyProofs`**.

  | Code | Actions |
  |---|---|
  | `accept`, `read`, `close` in `spec_hooks.cpp`, `is_leader()` in `proxy_on_*` | `Hook` |
  | `leader_handle_submit_req` under its lock; with no pair for the descriptor | `Submit`; `SubmitUnknown` |
  | its `while (cur_rec > highest_rec)` | `Released` |
  | `polling` at a leader; `proxy_do_action` elsewhere | `LeaderPass`; `FollowerApply` |
  | an election, as the proxy meets it; a queue read by a server that no longer leads | `Elect`; `AppendStray` |

- **`DareJoin`** - a server joins, or comes back to its slot: `JOIN`, the chain of
  configurations, the datagram handshake, the recovery. **`MCJoin`** - how it begins.
  **`DareJoinProofs`** - the theorems.

  | Code | Actions |
  |---|---|
  | `handle_server_join_request`; `check_failure_count` | `HandleJoin`; `RemoveServer` |
  | `update_remote_logs`, `apply_committed_entries` at the leader | `Replicate`, `UpdateCommit`, `CommitEntries`; `ApplyEntry` |
  | `persist_new_entries`; `poll_config_entries`, `update_cid`, `apply_committed_entries` | `PersistNewEntries`; `PollAndApply` |
  | `join_cluster_cb`, `exchange_rc_info_cb`, `update_rc_info_cb` | `JoinTimer`, `UpdateRcInfo` |
  | `handle_server_join_reply`, `handle_rc_syn`, `_synack`, `_ack`, `poll_ud` | `HandleJoinReply`, `HandleSyn`, `HandleSynackOrAck`, `HandleAtJ` |
  | `get_replicated_vote_cb`, `send_sm_request_cb`, `poll_sm_requests`, `poll_sm_reply`, `recover_log_cb` | `GetReplicatedVote`, `SendSmRequest`, `PollSmRequests`, `PollSmRequestsAgain`, `RecoverSm`, `RecoverLog` |

How they fit together: `DareElection` gives a leader and closes the logs of its
voters to the others; `DareReplication` starts from such a leader; `DareLog`
refines one leader's time to bytes and is shown to keep the promise `ReplicatedLog`;
`DareProxy` begins with that log; `DareJoin` changes the group under one leader.

Abstractions of the election, and why they are sound for the properties stated:

- The group is fixed and fully connected: `CID_IS_SERVER_ON` and `rc_connected`
  hold of every server. Configuration changes are `DareJoin`'s.
- A write is in its QP with the value it had when it was posted (the writes of
  elections are small enough to be inlined), QPs are FIFO, and every write
  lands in one step. At most `MaxPosted` writes wait per QP: `post_send` blocks
  on a full queue.
- The commit offset in a vote ack is reduced to "an ack is there": elections only
  compare the slot with `log->len`.
- `rc_replicate_vote` returns when a majority has the vote; the model writes it to
  all running servers at once. Only recovery reads it.
- The server's own `vote_req` slot is left out: it holds at most its own SID and
  the second loop drops it at once.
- A log is the sequence of its entries' terms; index and term of the last entry
  are all an election compares. A leader that holds an ack and an open QP at
  both ends makes a remote log *some* prefix of its own.
- Timeouts are nondeterministic; the values `recomputed_hb_timeout` etc. are left out.

Abstractions of the replication:

- Posting, execution and completion of a signaled operation are one step.
  `send_flag` allows one operation per server, its remote effect is one RDMA
  access, and its completion only moves `next_lr_step`. An operation on a QP
  that is not open at both ends fails, changes nothing and is posted again.
  Reply bytes and commit offsets are posted unsignaled: their loss is silent.
- The build does not define `TERM_PSN`, so two LOG QPs connect as soon as
  both ends opened them, whatever their terms.
- An election is one step: the servers of a majority `Q` leave their term, the
  voters' logs are not better than the winner's, the voters publish their NC
  buffers, open their logs to the winner and acknowledge. Votes given over time,
  lost acks and split elections are `DareElection`'s; a server that does not vote
  follows by HB.
- `Accurate` states the environment: when it is TRUE, a server stands for
  election only if no running server leads. The code aims at this
  (`to_adjust_cb` raises the timeouts until HBs are rarely missed) and cannot
  guarantee it. The passing runs assume it, `committed_stable` does not.
- Entries have one length and the log is shorter than the ring, so offsets are
  numbers of entries; a walk *around* the ring after a cut is kept. Wrap-around
  of the log itself, pruning and a full log are `DareLog`'s.
- A leader's append includes its own persisting, because `polling` persists
  before it commits; the loop of a follower's `persist_new_entries` is one step.
- Apply offsets and `wait_for_majority` on the way are left out; nothing modelled reads them.

Abstractions of the log:

- Memory is a function from the offsets at which a header was written, and is not
  covered since, to its entry; a reader elsewhere finds `Void`, which is no request,
  so reading what is no entry shows as a deviation from `ReplicatedLog`.
- One leader: no election and no adjustment. The writes of one update, and the pass
  in which the follower meets them, are one step (their interleaving is
  `DareReplication`'s); followers are slow because these steps come late.
- `Clients` threads wait for their requests: a leader has no more requests in its
  log than there are threads (`leader_handle_submit_req` blocks).
- A leader that has forced out a majority has stopped (`Running`), as
  `check_failure_count` shuts it down.

Abstractions of the proxy:

- The payload of an input is its client and its number; a hook's own system call
  (accept, read) is the step in which it returns. A follower's application serves its
  replay connections by threads that run the same hooks.
- The lock of `leader_handle_submit_req` makes `Submit` one step; the test of
  `is_leader()` before it and the spinning after it are steps of their own.
- `Elect` cuts the log to any point that keeps what is committed; more than one
  server may believe that it leads.

Abstractions of joining:

- One leader, no election, no pruning: offsets are numbers of entries and the
  others' logs are prefixes of the leader's. `VotersHaveCommitted` says what an
  election would find.
- A run begins when some requests are served: any majority of the group may have
  them, the machine that then fails and loses them included. A request is known by its
  place in the order. The machine is new, or was a member since the group started, or
  had got in by a JOIN of its own. In the last case the leader's endpoint database has
  its request and the reply (`ep_insert` is never undone, and `request_id` starts with 1
  on every machine), and some members may still wait for the end of the earlier
  handshake.
- The LID that a machine puts into its request (`get_unique_slid`, from the host name)
  is taken to be the one of the work completion, with which
  `handle_server_join_request` compares it.
- A pass of `polling()` is more than one step, but `CommitEntries` and the `ApplyEntry`
  steps after it keep together (`Idle`): one scan commits all entries that have enough
  replies under *one* size, and only then the configuration changes, entry by entry.
- A datagram is a message in a set of at most `MaxNet`: sent again whenever a timer
  runs, lost at any time, received in any order. RDMA succeeds between servers that
  both have connected QPs and run.
- Datagrams and snapshot requests, which `polling` handles before new entries, may
  be handled at any time in the model: more orders than the code has.
- After a failed read of a snapshot the model takes any other reply; the code may
  ignore it (`poll_sm_reply` compares SIDs). The model does more, so its safety
  properties cover the code.
- The pointer that `poll_sm_requests` leaves uninitialized has its old value or ends
  the process.

## 3. Runs

Terms, logs, failures and requests are bounded, so most bounded systems come to
rest: all runs but `proxy` have `CHECK_DEADLOCK FALSE` (in `proxy` the leader's
passes never end). In `DareElection` nobody can win term 1 (every
server starts it as a candidate, and a request of term 1 never beats a SID of
term 1), so two terms are the least in which there is a leader and three the
least in which there is a second one. The runs with three servers therefore
start later, in reachable states: when term 1 is over (`StartedInit`), or when
server 1 leads term 2, server 0 follows it with or without its entry, and server
2 has missed its HBs and is a candidate of term 3 (`ContestedInit`).

| Run | Instance | Shows |
|---|---|---|
| `election_safety` | 3 servers from `ContestedInit`, last terms 4/2/3, one write per QP; 368,000 states | `SidMonotone`, `VoteOncePerTerm`, `NobodyOutranksItsLeader`, `VoterFencesLog` |
| `election_pair` | 2 servers from `Init`, terms up to 3, logs of 2, two writes per QP, one failure | `TypeOK`, `ElectionInv` |
| `election_live` | 3 servers, one of them starts later elections, fairness | `LeaderIsFollowed` |
| `replication_safety` | 3 servers, a leader of term 1 and one of term 2, logs of 3 in a ring of 4, one failure; 731,000 states | `TypeOK`, `CommittedOnMajority`, `LeaderHasCommitted`, `CommittedStable` |
| `replication_live` | 3 servers, one leader, logs of 2, one failure, fairness | `EntryReachesAll` |
| `replication_cut` | 5 servers from `CutInit`, any of them leads term 2, logs of 2 | `AdjustedLogs`, `CommittedStable` |
| `committed_stable` | 3 servers, two leaders, none fails, `Accurate = FALSE` | **violated** |
| `log_ring` | 3 servers, ring of 44 bytes from 3 offsets, 4 requests, 2 runs of the pruning timer; 194,000 states | `TypeOK`, `PrunedOnlyIfApplied`, `ImplementsReplicatedLog` |
| `proxy` | 2 servers, 2 connections of 3 inputs, 2 descriptors, fairness; 37,000 states | `TypeOK`, `InputsAgreed`, `AppliedIsHanded`, `AllServed` |
| `proxy_failover` | 3 servers, a second leader | `AppliedIsHanded` **violated** |
| `join` | slot 2, five ways to begin, one datagram under way; 2,103,000 states | `TypeOK`, `VotersHaveCommitted`, `NoGhost` |
| `join_snapshot` | slot 2, a pair grows while a request comes | `JoinerExact` **violated** |

With three servers, one of them failed, both others take part in an election, so
the winner's log is never shorter than the other's and nothing is ever cut:
`replication_safety` covers a leader's failure at any point, with entries
missing, present, persisted or committed anywhere. To cut a log it takes a
server that does not vote, hence five. `replication_cut` starts in
`CutInit`, reachable states in which the failed leader of term 1 has left an
entry on server 4 alone. Not reached is an entry of an *old* term that a third
leader cuts after a second one committed it: that takes three leaders, two
failures and logs of three, and stays with the plan.

Fairness of `DareElection`: weak fairness of every timer callback and polled handler,
since libev's loop never stops calling them, and of the delivery of a write,
since the transport is a reliable connection. Nothing is assumed of
`to_adjust_cb` (it disarms itself), of failures or of clients.

Fairness of `DareReplication`: weak fairness of `Persist` and `Commit` (called in
every round of `polling`), of the next operation for each server (posted in every
pass; the completion queue is polled by `wait_for_commit`'s loop and by the
pruning timer), of `Follow` (HBs are sent periodically) and of the network.

Fairness of `DareProxy`: weak fairness of every thread of the application (the
operating system runs them, and a spinning thread sees `highest_rec`), of
`FollowerApply` and of a leader's pass that commits what was appended, which is
what `EntryReachesAll` shows; and clients do connect.

The bounds of `log_ring`: with a header of 2 bytes and commands of 5 or 6, the
second entry of a log that begins at 25 leaves no place for a header, one of a log
that begins at 26 ends exactly with the buffer, HEAD entries push a third one over
the end so that its header stays behind as a marker, and four requests that nobody
prunes fill three quarters of the ring, so that a slow server is forced out.

The bounds of `join`: a group of two that grows to three passes all three states of
a configuration; a machine that comes back does so before or after its removal,
having helped to commit a request or not, and having joined before or not. One datagram
under way is enough for a loss, a repetition and an overtaking by a later timer; two
make the run too long. For slot 2 the majorities of two and of three servers are
equally large; the slots for which the old size asks for fewer replies than the new one
(3 growing to 4) are covered by `VotersTheorem`.

What the violations show (quoted in `findings`):

1. `CommittedStable` without `Accurate`: a new leader opens *all* its LOG QPs, also
   to the leader it replaces. While that one still runs and still has its QP
   open, it goes on with `LR_UPDATE_LOG` and writes its entries over committed
   ones of the new leader.
2. `AppliedIsHanded` with a failover: `poll_vote_count` applies the committed entries
   that the new leader has not yet applied, and a leader "applies" by
   `proxy_update_state`, which only counts. Its application never gets these
   inputs, and `highest_rec` is ahead by as many: later threads are let go before
   their own requests are committed (`InputsAgreed` fails then, too).
3. `JoinerExact`: `poll_sm_requests` dumps *all stored* records, and names the last
   *applied* entry. The joining server replays the entries between the two twice.
   The opposite happens with four servers: a commit offset may arrive between
   `persist_new_entries` and `apply_committed_entries`, a follower then applies an
   entry that it has not stored, and a snapshot taken then misses a request
   (found by a search of `DareJoin` with slot 3, not kept as a run).

More properties are stated that the code is known not to have. They have no run;
to see a counterexample, take the named configuration with the property instead:

| Property | Configuration | What happens |
|---|---|---|
| `VotesOfThisElection` | `election_safety` with `StartedSpec`, `MaxTerm <- Three_331`, `MaxLog = 0` | An ack carries no term (`start_election`: "Clear votes from a previous election"): a vote for *t* that is still in the QP counts for *t+1*. |
| `LeaderRenounces` | the same | `hb_send_cb` passes its own SID to `server_update_sid`: a deposed leader still is `IS_LEADER`, although `poll_vote_requests` relies on "a leader renounces its leadership". |
| `LeaderHasAccess` | the same | A losing candidate adopts the winner's SID without `server_to_follower`; its log stays closed and the leader gets no ack from it. |
| `LeaderCommits` | `replication_live` with `Terms_012` | A reply goes to `entry->sender`. An entry that the new leader had persisted as a follower names the failed one; the scan for commits stops at it for good. |
| `CommittedOnMajority` | `replication_cut` with `Five_01200`, `MaxLog = 3`, `Ring = 4` | `LR_SET_END` moves `end` back but not `old_end`; `persist_new_entries` walks on around the ring and replies for entries beyond `end`. |
| `VotersHaveCommitted` | `join` with `SPECIFICATION SpecAgain`, `Slot = 6`, `Start <- StartAgain`, this property alone | A machine that had joined fails and asks again before the leader has noticed. `handle_server_join_request` answers at once ("Case 2"), as no entry has to be committed for it; the machine finishes a handshake that four members never ended, recovers from one that is behind, and is in the majority of seven that can elect a server without a committed request. For slot 2 it cannot happen: of two members, the leader and one other, each either has the request or has ended the earlier handshake. |
| `HeadEntriesCommitted` | `log_ring` | `poll_config_entries` takes a HEAD entry *at* the commit offset ("Check only committed entries"): it is the first that is not committed. Harmless under one leader: `PrunedOnlyIfApplied` holds. |

Met on the way and not stated as properties: when a cut log has been refilled
to `old_end` before the follower looks, the new entries are neither persisted nor
acknowledged by it; zeroed memory names server 0 as its sender, so a walk around
the ring replies to server 0 when that leads; a follower in the middle of an
update when the last entry commits gets its commit offset only with the next
entry (`update_remote_logs` posts it to nobody else), so a follower's commit
offset is not eventually the leader's; `force_log_pruning` may force out one
server after another until no majority is left; a repeated `CFG_REPLY` takes the
timer away from a recovery step, so a recovery may never end.

## 4. Proofs

The theorems hold for every value of the constants that the named assumptions of the
modules allow; the bounds of the runs do not occur in them.

**Elections** (`DareElectionProofs`; `N` from 2 to `MAX_SERVER_COUNT`).

- `TypeCorrect`: `TypeOK`, one step per action.
- `InvCorrect`: `ElectionInv`. The interesting invariants are not inductive: a
  server takes the HB of the server it supports without comparing it with its
  own SID (`AdoptSupported`), so what was sent *earlier* matters. `ElectionInv`
  therefore speaks of every SID kept anywhere (`Kept`: SIDs, slots, cached HBs,
  writes in flight) and every SID a server has shown as its own (`Shown`): each
  kept SID was claimed by the server it names, which has not fallen behind it
  and has shown no vote for another server in its term. The proof is split:
  `NextFlow` says what any action does with SIDs (`SidFlow`, `PostedFlow`,
  `HbFlow`, ...), and `FlowStep` shows that a step of that form preserves the
  invariant.
- From it: `LeaderNotOutranked`, `VoterFenced` (invariants), `SidsGrow`, `VotesOnce`
  (action properties).
- `WordOrder`, `WordFields` (`DareSidProofs`): the SID as a word.

**Joining** (`DareJoinProofs`; any slot and any number of datagrams). `TypeCorrect` and
`NoGhostTheorem` hold for every way to begin, `VotersTheorem` under `NoEarlierJoin`: the
machine had not joined before. The hypothesis is needed (see the table above): without it
the joining server may be answered although nothing has been committed since it lost its
memory. They follow from one inductive invariant:

- `VotersHaveCommitted` says nothing of who *has* the committed entries.
  `CommittedQuorum` does: a majority of the old or of the new group has them, where
  the joining server counts without what it lost until its request is answered - by
  then a CONFIG entry has been committed since, and with it everything before. It is
  answered when that entry is applied, so an entry that is committed and not applied
  counts as an answer (`Answered`). The scan judges all entries by the size it
  began with, an entry behind an EXTENDED one by the old size too; that is enough, as
  only the last entry of a scan matters and *some* majority has it. One
  majority is enough because the group grows by one server: any majority of `Slot`
  servers meets any majority of `Slot + 1`, and also the servers that could elect. This
  needs that no configuration skips a size (`Sizes`) and that only one step of a change
  is not applied at a time (`OneChange`), since otherwise the two sizes that
  `update_remote_logs` chooses from could be further apart.
- `NoGhost` needs `Ghosts`: where a member's QP still goes to the server's earlier
  life, no handshake message of the new life is under way from or to it.
- `Shape`, `Offsets`, `Progress` and `Delivered` are the types, the order of the
  offsets and of the joining server's states.

**Proxy** (`DareProxyProofs`; any number of servers, clients, inputs and descriptors,
one leader that lasts). A thread waits for a *number* (`cur_rec > highest_rec`), not for
its request. That this is enough is the invariant `LeaderInv`: the request that got
number *k* is the *k*-th of log and queue together, the inputs of each client are
there in their order (`Ordered`), and a thread that spins waits for the number of its own
last input (`Waiting`). `Ids` says that a connection has one id and the id one
connection; `FollowerInv` that a follower's application has, or will get, exactly what
the follower has applied, on a socket that its hash map finds.

- `TypeCorrect` needs only the first part, `Basics`, and no hypothesis.
- `InputsTheorem` has the hypothesis `EnoughIds`: `pair_count` is a `uint8_t`, so ids
  repeat after `ConnCount` connections; two connections with one id make a follower
  replay the inputs of one on the other.
- `HandedTheorem` also has `EnoughFds`: a follower without a free descriptor drops a
  CONNECT and all inputs after it. Both hypotheses hold in the `proxy` run.

**Replication** (`DareReplicationProofs`). `TypeCorrect`: for every group, ring and
bound no offset leaves the ring. It rests on lemmas about the scans of `dare_log.h`: a
walk meets positions of the ring (`WalkTypes`), the search for the remote end and the
scan of the reply bytes stop (`PrefixInRange`, `RemoteEndIn`), the order of offsets has
a largest one in every set (`LargestIn`).

`DareReplicationSafety` proves the properties of `replication_safety` and
`replication_cut` themselves, for every ring, length of log, bound on terms and number
of failures, under two hypotheses that are both needed:

- `Accurate`: only a leader that has failed is suspected. Without it `committed_stable`
  loses a committed entry.
- `N <= 4`: with five servers a log may be cut behind `old_end`, its server replies for
  entries that it does not have, and `CommittedOnMajority` fails (see the table above).
  `FirstLeaderSafe` and `NothingCut` say what holds for every `N`.

In such a group at most two leaders follow each other: after two failures there is no
majority. The second is elected by all servers but the first one. So what the first one
committed is in the log of some voter, and by `LogLeq` each voter's log is a prefix of
the winner's. The inductive invariant `IInv` (`Invariance`) says that nobody leads yet
(`NoLeader`) or that there are a first leader *a* and a present one *l* (`Led(a, l)`):

- `Roles`, `Bounds`: who has led which term; commit and `old_end` do not pass `end`;
- `Prefixes`: the logs that *l* works on are prefixes of its own; `Complete`: it has what
  anybody has committed, the failed leader included;
- `RepliesTrue`: a reply byte, in a log or under way, tells of an entry that its server
  has persisted - a byte for an entry that was replaced would be the end of all this;
- `Knowledge`: what *l* has read of a remote log (vote ack, NC buffer, end, cached end)
  is still true when it is used, in each of the steps `get`, `set_end`, `log`, `end`.

From it follow `CommittedByMajority`, `LeaderComplete` and, since no log is ever cut
(`NothingCut`), `CommittedStays`. So nothing is proved of what log adjustment exists
for, a remote log that diverges: that takes five servers, and `replication_cut` is what
speaks of it. TLC checked `IInv` on three servers
before it was proved.

**The circular log** (`DareLogProofs`; any group, ring, lengths of commands, first
offset and number of prunings).

- `TypeCorrect`: no entry ends after the buffer and no offset leaves it, on every ring.
- `NothingNeededIsPruned` (`PrunedOnlyIfApplied`) and `RingImplementsLog`
  (`Spec => ImplementsReplicatedLog`) are about a ring that is long enough, `EnoughRing`.

An offset does not tell the round of the ring it belongs to, so nothing about the
offsets alone is inductive: an apply offset that the leader read long ago and that is
behind by a round looks as if it were ahead. The invariant `Backed` therefore says that
*there is a history* `g` of all entries ever appended (`History`: for each the round, the
offset, the entry, how many requests and how many entries other than HEAD came before)
and positions in it that the state comes from:

- `LeadLog`: the leader's offsets are those of positions *h* (head), *a* (apply), *c*
  (commit) of the history, and its memory holds every entry from *h* on (`Heads`,
  `Holds`: the entry, or its marker and the entry at offset 0). `Tracks` says the same
  of a follower up to the end that the leader knows; `Known` that the apply offsets that
  the leader uses are of entries that are not before *h*.
- Everything from *h* to the end lies within one round (`Near`). Then
  `Distance` orders offsets as the history orders entries (`Distances`,
  `DistanceOrder`), a walk meets exactly the entries of the history (`Reading`,
  `Walking`), and an append overwrites nothing that is held (`Appending`).
- Staying within a round is what the numbers are for. A client has one request that
  is not applied, two HEAD entries have another one between them (`prev_log_entry_head`),
  and a CONFIG entry is added for each server removed (`Counts`); so
  at most `Most` entries follow the leader's apply offset. Either the log was not
  crowded when `force_log_pruning` last looked (`Calm`), or servers have been removed one by
  one since (`Tight`), and each removal leaves room for what the next pass appends. When
  nobody is slower than the leader, pruning moves the head to within `Most` entries of the end.

`EnoughRing` is there because `force_log_pruning` removes *one* server per pass when the
log is three quarters full, while commands still come: with N servers to remove, N
passes must fit in the last quarter, and the entries that are not applied must not fill
three quarters by themselves. `RingOfTheCode` shows that the repository's ring
(`LOG_SIZE`, 64 MiB) is long enough for `MAX_SERVER_COUNT` servers and 177 clients whose
commands are as long as 16 bits can tell; for commands of 4 KiB, about 3000
clients. The hypothesis is sufficient, not necessary.

`RingImplementsLog` adds that requests are only ever added (`OnlyMore`) and that every
server has applied the requests 1, 2, ... up to a number that is at most `committed`
(`InOrder`, from `Backed`): any two of them differ only in how far they are.

Where an argument is by induction (a finite set has a largest number, a client's
inputs are counted, a reader goes from entry to entry), the proof takes a smallest
counterexample, as the library's induction theorems cannot be instantiated.

Only model-checked:

- liveness (`LeaderIsFollowed`, `EntryReachesAll`, `AllServed`): out of the prover's reach;
- replication in groups of five and more: the code does not have
  `CommittedOnMajority` there (see the table above); `replication_cut` shows
  `AdjustedLogs` and `CommittedStable` for five servers within its bounds;
- a machine that comes back after a JOIN of its own, as far as `VotersHaveCommitted` is
  concerned: `join` shows it for slot 2;
- the small ring of `log_ring`: 44 bytes are not `EnoughRing`, so there the run, and on
  long rings the theorems, show that nothing needed is pruned;
- the violations.

## 5. Not modelled, and the plan

Not modelled for good: device set-up, LogGP, config parsing, Berkeley DB and the
red-black tree behind the record store and the endpoint database, the KVS (pure
I/O, or not on the replication path). The initial start-up of a group is where the
models begin.

Left for later, in this order:

1. Elections during a change of the configuration and restarts with the replicated
   vote: the composition of `DareElection` and `DareJoin`.
2. `DareTransport`: `post_send`, `wait_for_majority`, `wait_for_one` and the
   completions, late and failed ones included.
3. Three leaders and entries of old terms in `DareReplication`.
