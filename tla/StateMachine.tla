---------------------------- MODULE StateMachine ----------------------------
(***************************************************************************)
(* How a committed entry reaches the storage engine of one node:           *)
(* applyCommittedEntriesLocked (replication.go) hands it to the buffered   *)
(* channel applyCh, or to a goroutine of its own when the channel is full; *)
(* StateMachine.runApplier (state_machine.go) takes it from there.         *)
(* commitIndex, lastApplied and StateMachine.lastApplied live in memory;   *)
(* the log and the engine's content survive a restart, after which the     *)
(* whole log is applied again.                                             *)
(*                                                                         *)
(* The log holds the committed entries only; Raft orders them (module      *)
(* Raft).  The engine is a map: module Engine is about its inside.         *)
(***************************************************************************)
EXTENDS Naturals, Sequences, FiniteSets, FiniteSetsExt

CONSTANTS
  Key, Value, Nil,
  Capacity,      \* of applyCh
  MaxLog,        \* bound: committed entries
  MaxRestarts,   \* bound
  MaxErrors      \* bound: commands the engine refuses

ASSUME StateMachineAssumption ==
  /\ Nil \notin Value
  /\ {Capacity, MaxLog, MaxRestarts, MaxErrors} \subseteq Nat

VARIABLES
  log,           \* the committed entries: [key, val], val = Nil for a delete
  commitIndex,
  lastApplied,   \* Node.lastApplied: entries handed over
  applyCh,       \* indexes in the channel
  overflow,      \* indexes held by goroutines that wait to send
  smApplied,     \* StateMachine.lastApplied
  kv,            \* the engine's content
  restarts, errors,
  reached,       \* the highest index applied before the last restart
  clean          \* this process has filled no channel and refused no command

nodeVars == <<commitIndex, lastApplied>>
vars == <<log, nodeVars, applyCh, overflow, smApplied, kv, restarts, errors, reached, clean>>

Command == [key : Key, val : Value \cup {Nil}]

Init ==
  /\ log = <<>>
  /\ commitIndex = 0 /\ lastApplied = 0
  /\ applyCh = <<>> /\ overflow = {}
  /\ smApplied = 0
  /\ kv = [k \in Key |-> Nil]
  /\ restarts = 0 /\ errors = 0 /\ reached = 0 /\ clean = TRUE

\* The cluster commits another entry.
Replicate(cmd) ==
  /\ Len(log) < MaxLog
  /\ log' = Append(log, cmd)
  /\ UNCHANGED <<nodeVars, applyCh, overflow, smApplied, kv, restarts, errors, reached, clean>>

\* The node learns of commitment: a leader by counting, a follower from
\* leaderCommit, which after a restart may jump over many entries at once.  The
\* lock is held until all of them are handed over.
AdvanceCommitIndex ==
  /\ lastApplied = commitIndex
  /\ commitIndex' \in (commitIndex + 1)..Len(log)
  /\ UNCHANGED <<log, lastApplied, applyCh, overflow, smApplied, kv, restarts, errors, reached, clean>>

\* One round of the loop of applyCommittedEntriesLocked.
ApplyCommittedEntry ==
  /\ lastApplied < commitIndex
  /\ lastApplied' = lastApplied + 1
  /\ \/ /\ Len(applyCh) < Capacity
        /\ applyCh' = Append(applyCh, lastApplied + 1)
        /\ UNCHANGED <<overflow, clean>>
     \/ /\ Len(applyCh) >= Capacity
        /\ overflow' = overflow \cup {lastApplied + 1} /\ clean' = FALSE
        /\ UNCHANGED applyCh
  /\ UNCHANGED <<log, commitIndex, smApplied, kv, restarts, errors, reached>>

\* A waiting goroutine gets its message into the channel.
SendOverflow ==
  \E i \in overflow :
    /\ Len(applyCh) < Capacity
    /\ applyCh' = Append(applyCh, i)
    /\ overflow' = overflow \ {i}
    /\ UNCHANGED <<log, nodeVars, smApplied, kv, restarts, errors, reached, clean>>

\* Mutant: the check against StateMachine.lastApplied is off by one.
TooOldByOne(i) == i <= smApplied + 1

TooOld(i) == i <= smApplied

\* applyCommand: decode, and Engine.Put or Engine.Delete.
ApplyCommand(cmd) == kv' = [kv EXCEPT ![cmd.key] = cmd.val]

\* handleApplyMsg.  A command the engine refuses is logged and left behind.
HandleApplyMsg ==
  /\ applyCh # <<>>
  /\ applyCh' = Tail(applyCh)
  /\ LET i == Head(applyCh) IN
     \/ TooOld(i) /\ UNCHANGED <<smApplied, kv, errors, clean>>
     \/ ~TooOld(i) /\ ApplyCommand(log[i]) /\ smApplied' = i /\ UNCHANGED <<errors, clean>>
     \/ /\ ~TooOld(i) /\ errors < MaxErrors
        /\ errors' = errors + 1 /\ clean' = FALSE
        /\ UNCHANGED <<smApplied, kv>>
  /\ UNCHANGED <<log, nodeVars, overflow, restarts, reached>>

\* Mutant: a restart forgets the queue and keeps the counters of the node.
RestartKeepsApplied ==
  /\ restarts < MaxRestarts /\ restarts' = restarts + 1
  /\ reached' = Max({reached, smApplied})
  /\ applyCh' = <<>> /\ overflow' = {} /\ smApplied' = 0 /\ clean' = TRUE
  /\ UNCHANGED <<log, nodeVars, kv, errors>>

\* Mutant: StateMachine.lastApplied outlives the node's counters.
RestartKeepsMachine ==
  /\ restarts < MaxRestarts /\ restarts' = restarts + 1
  /\ reached' = Max({reached, smApplied})
  /\ commitIndex' = 0 /\ lastApplied' = 0
  /\ applyCh' = <<>> /\ overflow' = {} /\ clean' = TRUE
  /\ UNCHANGED <<log, smApplied, kv, errors>>

\* The process restarts: NewNode and NewStateMachine start from zero.
Restart ==
  /\ restarts < MaxRestarts /\ restarts' = restarts + 1
  /\ reached' = Max({reached, smApplied})
  /\ commitIndex' = 0 /\ lastApplied' = 0
  /\ applyCh' = <<>> /\ overflow' = {} /\ clean' = TRUE
  /\ smApplied' = 0
  /\ UNCHANGED <<log, kv, errors>>

Next ==
  \/ \E cmd \in Command : Replicate(cmd)
  \/ AdvanceCommitIndex \/ ApplyCommittedEntry \/ SendOverflow
  \/ HandleApplyMsg \/ Restart

Spec == Init /\ [][Next]_vars

\* The goroutines of a running process are scheduled: the loop goes on, a waiting
\* send gets its turn, the applier takes what is there.
FairSpec ==
  /\ Spec
  /\ WF_vars(ApplyCommittedEntry) /\ WF_vars(SendOverflow) /\ WF_vars(HandleApplyMsg)

-----------------------------------------------------------------------------
\* Every variable has its type; the state machine is never ahead of the node, nor
\* the node of what it knows to be committed.
TypeOK ==
  /\ log \in Seq(Command)
  /\ commitIndex \in 0..Len(log) /\ lastApplied \in 0..commitIndex
  /\ applyCh \in Seq(1..Len(log)) /\ Len(applyCh) <= Capacity
  /\ overflow \subseteq 1..Len(log)
  /\ smApplied \in 0..lastApplied
  /\ kv \in [Key -> Value \cup {Nil}]
  /\ restarts \in 0..MaxRestarts /\ errors \in 0..MaxErrors /\ reached \in 0..Len(log)
  /\ clean \in BOOLEAN

\* The content that the first n entries of the log make, applied in order.
StateAt(n) ==
  [k \in Key |-> LET at == {i \in 1..n : log[i].key = k}
                 IN IF at = {} THEN Nil ELSE log[Max(at)].val]

\* Once the replay after a restart has passed the point the engine had reached
\* before, the engine holds exactly what the log up to
\* StateMachine.lastApplied makes: nothing skipped, nothing out of order.
EngineFollowsLog == smApplied >= reached => kv = StateAt(smApplied)

\* A full channel or a refused command can leave a hole in the engine, and the
\* replay of the next process (NewNode and NewStateMachine start from zero) closes
\* it: the engine follows the log unless this very process had such an accident.
CleanProcessFollowsLog == clean => EngineFollowsLog

\* Entry i has gone through the channel.
Handled(i) == lastApplied >= i /\ i \notin overflow /\ \A j \in 1..Len(applyCh) : applyCh[j] # i

\* Every entry a node knows to be committed gets through the channel, however full
\* it was, and behind StateMachine.lastApplied unless the engine refused a
\* command; only a restart of the process excuses from it.
EventuallyApplied ==
  \A i \in 1..MaxLog :
    (commitIndex >= i) ~> (commitIndex < i \/ (Handled(i) /\ (smApplied >= i \/ errors > 0)))

=============================================================================
