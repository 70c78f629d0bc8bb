# GRANITE in TLA+

A verification development for GRANITE, a replicated key-value store: a Raft
consensus layer over an LSM-tree storage engine, written in Go. The modules are
translated from the code under `src/`; `PROJECT.json` maps each definition to
the lines it stands for.

## The system

| Part | Code | State | Operations |
|---|---|---|---|
| Leader election | `internal/raft/election.go`, `node.go` | term, vote, role, election timer | `onElectionTimeout`, `HandleRequestVote`, counting votes |
| Log replication | `internal/raft/replication.go`, `node.go` | log, `nextIndex`, `matchIndex`, `commitIndex` | `Propose`, `replicateToPeer`, `HandleAppendEntries`, `maybeAdvanceCommitIndexLocked` |
| Persistent Raft state | `internal/raft/node.go` | `raft_state.bin` | `persistStateLocked`, `loadState` |
| Apply pipeline | `replication.go`, `internal/raft/state_machine.go` | `applyCh`, two `lastApplied` | `applyCommittedEntriesLocked`, `handleApplyMsg` |
| Storage engine | `internal/storage/engine.go` | WAL, MemTable, list of SSTables | `Open`, `Put`, `Get`, `Delete`, flush, `Close` |
| WAL and recovery | `internal/storage/wal.go`, `recovery.go` | `wal.log` | `Append`, `ReadWALRecords`, `Recover` |
| MemTable, SSTable | `internal/storage/memtable.go`, `sstable.go` | skip list; immutable files | put, get, iterate; write, open, search |
| Compaction | `internal/storage/compaction.go` | result channel | `maybeCompact`, `compactFiles` |
| Snapshots | `internal/raft/snapshot.go` | `snapshot.bin`, first log entry | `TakeSnapshot`, `HandleInstallSnapshot` |
| Client service, peer pool | `internal/rpc/server.go`, `client.go` | connections | `Put`, `Get`, `Delete`, RPC wrappers |
| Configuration, commands, protocol | `internal/config`, `cmd`, `proto` | | start-up, benchmark, generated code |

A client's Put or Delete goes to the leader's `Propose`. Raft replicates the
entry, commits it and sends it to `applyCh`; the state machine takes it from
there and writes it to the engine. A Get reads the local engine. After a
restart Raft reads its state file, the engine replays its WAL, and the whole
Raft log is applied again.

What makes this hard: the node's lock is released while an RPC is outstanding;
answers come late and in any order; processes crash between two writes to the
disk; a flush releases the engine's lock half way; the compactor takes no lock
at all; the channel between Raft and the engine can fill up; a Put is answered
without waiting for its own entry. `PROJECT.json`
lists these hazards with the line where each bites and the properties that
cover it.

## Modules

| Module | Models |
|---|---|
| `Raft` | election, replication, commitment, crash and restart of all nodes |
| `CommittedLog` | what Raft promises: one append-only log without gaps |
| `RaftProofs`, `ElectionProofs` | theorems about `Raft` |
| `Engine` | the storage engine with WAL, recovery, flush and compaction |
| `Tables` | the skip list of a MemTable and the SSTable written from it |
| `StateMachine` | the way of committed entries into the engine of one node |
| `Service` | Put, Get and Delete of all clients, on top of `Raft` and the state machines of all nodes |
| `Snapshots` | taking and installing snapshots, on top of `Raft` |
| `MCRaft`, `MCEngine`, `MCStateMachine`, `MCService` | instances for TLC |

### Raft

The variables are the fields of `Node`, one function over the nodes each, plus
`disk` (the state file), four sets of messages, and the history variable
`applied` (all entries ever handed to any state machine). A function that runs
under `Node.mu` is one action. Building a request, serving it and processing
its answer are three, because the lock is released in between.

| Action | Code |
|---|---|
| `OnElectionTimeout` | `onElectionTimeout` and the requests of `startElection` |
| `HandleRequestVote`, `HandleVoteReply`, `BecomeLeader` | `HandleRequestVote`, the goroutines and the counting loop of `startElection` |
| `Propose`, `ReplicateToPeer` | `Propose`, `replicateToPeer` up to the call |
| `HandleAppendEntries`, `HandleAppendReply` | `HandleAppendEntries`, `replicateToPeer` after the call |
| `Restart`, `CrashInHandler` | process end, `NewNode`, `loadState`, `Start`; the second one between the two `persistStateLocked` calls of a handler |

Messages stay in their sets: a call may be served late, out of order or never,
and an AppendEntries request, which every heartbeat repeats, more than once. A
RequestVote call is served at most once. Command data is a model value. The
election timer is one bit, pending or not.

### Engine

A MemTable and an SSTable are functions from keys to slots (absent, put or
tombstone). Lengths are abstracted to zero, so a MemTable's size is the number
of writes it took (the code adds 64 bytes per write and never takes them
back). An SSTable's path is the time in its name, by which names are compared.
The conversions that lose information are kept: an empty value is nil after
recovery, and a nil value is empty after a flush.

| Action | Code |
|---|---|
| `Put`, `Delete` | the same, with `maybeFlushLocked` up to the unlock |
| `WriteSSTable`, `InstallSSTable` | the rest of `maybeFlushLocked`: without the lock, and after relocking |
| `FailedWrite`, `FailedFlush` | error returns of `WAL.Append` and of the flush |
| `StartCompaction`, `FinishCompaction` | `maybeCompact`: reading and merging; naming, writing and sending |
| `ApplyCompactionResult` | `applyCompactionResult` |
| `Crash`, `Open` | process end, `Open` with `Recover` |
| `BeginClose`, `EndClose` | `Close` up to its unlock, and from the rename of the last SSTable on; writers go on in between |

`Get` is an operator. `acked` records what the acknowledged writes made of
each key, `doubt` the later writes that returned an error, and `compacted`
whether a compaction has written a result.

### Tables

`Engine` takes a MemTable and an SSTable for maps; `Tables` looks inside. A
behaviour is the life of one MemTable: writes, each new node with a random
level, then `WriteSSTable`. The search through the levels, the binary search
over the sparse index and the walk along the lowest level are recursive
functions with the loops' own steps. A value is its length, which the size
accounting needs, and an offset is a position. Behind the last record the scan
of the code reads index bytes as records; the result there is the marker
`Misread`, and `TableIsMap` speaks of keys up to the last one of the file.

### StateMachine

One node's way from `commitIndex` to the engine. One round of the loop in
`applyCommittedEntriesLocked` is one action, since the applier runs beside it.
The engine is a map here. `reached` records how far the engine had got before
a restart, `clean` whether this process has met a full channel or a refused
command.

### Service

One key; a command of `Raft` is the value put, or `Deleted`. Each client sends
one request. `Put` proposes and waits; `PutSeen` is the poll that finds an equal
value in the local engine, `PutTimeout` the end of the two seconds, possible at
any time. `Delete` is answered with the proposal. `Get` is an operator on the
local engine. `RaftStep` is any step of `Raft` followed, in the same action, by
what `applyCommittedEntriesLocked` sends; `Apply` is the applier, whose engine may
refuse any command. When a node restarts its engine keeps its content and waiting
calls break.

### Snapshots

`TakeSnapshot` and `HandleInstallSnapshot` change the log that the actions of
`Raft` then work on. Those actions are guarded by their lookups: one behind the
end of the slice is a panic, and what follows it is a restart. Writing
`snapshot.bin` may fail, which `TakeSnapshot` reports and `HandleInstallSnapshot`
ignores, and the process may die between the writes of either
(`CrashInTakeSnapshot`, `CrashInInstallSnapshot`). Nothing in the repository calls
`TakeSnapshot` or sends InstallSnapshot: the module is about a program that uses
both, and `SendSnapshot` offers what a leader with a snapshot would send.

## What TLC checks

All configurations switch the deadlock check off: the bounds end every
behaviour.

| Run | Instance | Properties |
|---|---|---|
| `raft_diverged` | 4 elections in all, 2 entries, 3 requests, 1 crash, from `DivergedInit` or `SplitInit` | `TypeOK`, `IndexIsPosition`, `MatchIndexSound`, `LogMatching`, `StateMachineSafety`, `LeaderCompleteness`, `ElectionInv`, `CommittedNeverTruncated`, `AppliedNeverTruncated`, `ImplementsCommittedLog` |
| `raft_timer` | 2 elections, one entry | `ElectionTimerArmed` is violated |
| `raft_snapshot` | 1 election, 2 entries, 3 requests, 1 crash | `RequestsCarryTheRest` is violated |
| `service` | 3 clients, 2 elections, 2 entries, 3 requests, 1 crash, from `ContestedInit` | `ReadsAreCommitted`, `SeenPutIsCommitted` |
| `service_lost` | the same | `SuccessIsKept` is violated |
| `engine_compaction` | 5 writes, 7 files, 1 crash or Close, compaction from 3 files on | `NoKeyVanishes` |
| `engine_restart` | 4 writes, 5 files, 1 fault, 1 crash or Close | `TypeOK`, `ListedReadable`, `UncompactedReadsLatest`, `RecoveredReadsLatest` |
| `engine_stale` | 5 writes, 6 files | `ReadsLatest` is violated |
| `engine_empty` | 3 writes, 1 crash | `AckedSurvives` is violated |
| `tables` | 6 writes, 6 keys, 3 levels, every 2nd key indexed | `SkipListIsMap`, `SizeCoversContent`, `TableIsMap` |
| `apply` | 4 entries, channel of 2, 1 restart, 1 refused command | `TypeOK`, `CleanProcessFollowsLog`, `EventuallyApplied` |
| `apply_overflow` | 3 entries, channel of 1 | `EngineFollowsLog` is violated |

The bounds. Three nodes are the cluster of the documentation, and the smallest
in which two quorums differ. The dangerous histories with diverged logs take
four elections, so `raft_diverged` starts after three of them; its second start has
a leader and a candidate of one term, so that the candidate forgets its vote and
votes again. `service` starts when the first leader has committed an entry and
proposed another, and a second node campaigns. All starts are reached from the
initial state without a crash, by the steps their comments describe. Two entries
are enough for an entry of the old leader and one of the new to compete for an
index. Different entries applied at one index because an entry of an old term was
counted would take more requests; `LeaderCompleteness` fails before that.

The code compacts from four SSTables on. With three, five writes and a MemTable of
one let compacted files be compacted again, also those that a crash left beside
their merge: right after the restart the replayed WAL, which is never reset, hides
all SSTables, and only the writes and compactions that follow could lose a key.
`engine_restart` compacts from two SSTables
on, so that two flushes, a compaction and a shutdown fit into four writes. It
allows one crash beside its fault: `RecoveredReadsLatest` excepts the
keys with records behind a torn one, which recovery drops although they were
acknowledged, and `acked` is not corrected for that loss.
`UncompactedReadsLatest` stops speaking at the first compaction on purpose:
`engine_stale` shows that the property fails then. While a flush writes its file it
excepts the flushed keys and no others: those the code does miss. Likewise
`CleanProcessFollowsLog` leaves out the process that met the full channel,
about which `apply_overflow` is, and claims that the next one repairs what it
left. Six keys with an index entry for every second give the binary search
three entries and the scan blocks of two.

Fairness is assumed in `apply` only: weak fairness of the hand-over loop,
of the waiting senders together, and of the applier. They are goroutines of a
running process, which the Go scheduler runs; a send gets its turn when the
channel has room. Elections and replication get none: timeouts are random, and
nothing in the code bounds how long calls fail.

What the service promises. `ReadsAreCommitted`: wherever a client reads, it
reads a state of the committed history, perhaps an old one, as soon as the
replay after a restart has caught up. That is a statement about one key; with
several, a node that refused a command would lack it until a restart, which
`CleanProcessFollowsLog` is about. `SeenPutIsCommitted`: a Put that ended
because its poll found a value nobody else writes is committed. A Put that
ended by the timeout may be lost (`service_lost`), a Delete is answered before
any replication, and with equal values the poll may end too early.

What a node's log may lose. `CommittedNeverTruncated`: no step changes a node's
log up to the node's own commit index. `AppliedNeverTruncated`: an entry that any
state machine was given leaves a log only on a node whose term another node has
passed. The exception is needed: a late request of an old leader may still cut the
log of a node that the rest left behind, and that node has not committed the entry.

### Where the code and its documentation disagree

- `raft_timer`: a leader's timer is not re-armed when it fires, and stepping
  down on a refused RequestVote does not arm it.
- `engine_stale`: the merge of the two oldest SSTables gets the newest name;
  overwritten values and deleted keys come back.
- `engine_empty`: a key with an empty value is not found after recovery.
- `apply_overflow`: with a full channel committed entries are applied out of
  order and some are dropped.
- `service_lost`: a Put that timed out is answered with success, and the next
  leader commits another entry in its place. The chaos test, which counts on
  success, waits half a second and `PeerPool.Put` two seconds, so the answer reaches
  only gRPC clients with a longer deadline.
- `raft_snapshot`: after a snapshot the leader looks entries up at positions
  that have moved, and its requests leave out what the peers lack. The server takes
  no snapshots yet; a program that calls `TakeSnapshot` would see this.

## What is proved

TLAPS proves, for every finite cluster with at least two nodes (what
`config.Validate` enforces) and every value of the bounds:

- `StructCorrect`, `TypeCorrect`, `PositionsCorrect`: types; disk and memory
  in step; entries at the position their index names. `StructInv` is inductive:
  positions need the shape of the requests on the way (`LogShape`), since a
  follower appends what a request carries.
- `ElectionCorrect`, `ElectionsAreSafe`, `OneLeader`: no term has two winners
  or two leaders at a time.

The usual argument, that a node votes once per term, does not hold in this code:
a candidate that gets AppendEntries of its own term clears its vote in that
term. `ElectionInv` therefore distinguishes firm votes, cast by a node for
itself or by a node that did not campaign in the term, and says that every
winner has a quorum of firm votes (`WinnerInv`), and that a candidate has
forgotten its vote only when a leader of the term is known (`LeaderInv`,
`VoteInv`). A second winner's quorum would meet the first one's in a node
whose vote is firm. That two quorums meet is proved from cardinalities
(`QuorumsIntersect`).

`ElectionSafety` and `OneLeaderPerTerm` have no run of their own: TLC checks
the invariant they follow from.

Only model-checked so far: `LogMatching`, `StateMachineSafety`,
`LeaderCompleteness`, `MatchIndexSound`, the refinement of `CommittedLog`, and
everything about `Engine`, `Tables`, `StateMachine` and `Service`. Liveness
stays with TLC, as the prover does not handle fairness, and so does what the
recursive functions of `Tables` compute, as it has no induction over data.

## Not modelled

- Errors while writing the Raft state file, and a state file that ends early.
- A Raft node stopped and started again as the same object, which one test does
  and the server does not; Close and reopen of an engine in one process while
  the old compactor still runs.
- Several writers on one engine: only the applier writes in the server.
- Snapshot messages on `applyCh` and in the state machine: nothing triggers them,
  and all they do is move `lastApplied`. `LoadSnapshotFile` has no caller.
- Byte formats and lengths: keys longer than 16 bits of length can say, and the
  bytes the scan of an SSTable meets behind its last record.
- The peer pool's connections, time limits and pings are gRPC I/O; `Raft`
  sees calls that may be late, lost or repeated.
- Validation of durations and names in the configuration; command-line
  programs; generated protocol code.

## Plan

1. Proofs: types and `CleanProcessFollowsLog` of `StateMachine`; `ListedReadable`
   and recovery of `Engine`.
2. Proofs: `LogMatching`, `StateMachineSafety` and the refinement for `Raft`;
   from them `ReadsAreCommitted` of `Service`.
3. Liveness of elections and replication under timeouts that fire.
