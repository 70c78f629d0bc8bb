----------------------------- MODULE Snapshots -----------------------------
(***************************************************************************)
(* internal/raft/snapshot.go on top of module Raft: TakeSnapshot cuts the  *)
(* applied prefix off a node's log, HandleInstallSnapshot replaces a log   *)
(* by a received snapshot.  Both put a sentinel with the snapshot's index  *)
(* at position 0, while replication.go keeps finding the entry of index i  *)
(* at position i of the slice.                                             *)
(*                                                                         *)
(* A lookup behind the end of the slice panics and ends the process.  The  *)
(* steps below are guarded by their lookups; what follows a panic is the   *)
(* Restart of module Raft, which may happen in every state.                *)
(*                                                                         *)
(* Nothing in the repository calls TakeSnapshot or PeerPool's              *)
(* InstallSnapshot.  TakeSnapshot and SendSnapshot stand for a program     *)
(* that uses what snapshot.go and client.go offer.  The message that an    *)
(* installed snapshot sends to applyCh is left out: the state machine only *)
(* moves its lastApplied, which this module does not have.                 *)
(***************************************************************************)
EXTENDS Raft

VARIABLES
  snapshot,   \* per node: the index up to which the data in snapshot.bin reaches
  snapReqs    \* InstallSnapshot requests ever sent

snapVars == <<snapshot, snapReqs>>
raftRest == <<leaderVars, votesReceived, messages, crashes>>

SnapInit == Init /\ snapshot = [n \in Node |-> 0] /\ snapReqs = {}

\* The entry that stands for everything up to index i.
Base(i, term) == [index |-> i, term |-> term, data |-> Nil]

CutAt(l, p) == <<Base(l[p].index, l[p].term)>> \o SubSeq(l, p + 1, Len(l))

\* The positions of index i in a log; the code takes the first.
PositionsOf(l, i) == {p \in 1..Len(l) : l[p].index = i}

CanSnapshot(n, i) ==
  /\ log[n] # <<>>
  /\ i > log[n][1].index /\ i <= lastApplied[n]
  /\ PositionsOf(log[n], i) # {}

Compacted(n, i) == CutAt(log[n], Min(PositionsOf(log[n], i)))

\* saveSnapshotFileLocked: snapshot.bin reaches up to index i now, or writing it
\* failed and it is as before.
SaveSnapshotFile(n, i) == snapshot' \in {snapshot, [snapshot EXCEPT ![n] = i]}

\* The caller has saved the state machine up to index i.  When the file cannot be
\* written the caller gets an error, and the log is cut all the same.
TakeSnapshot(n, i) ==
  /\ CanSnapshot(n, i)
  /\ log' = [log EXCEPT ![n] = Compacted(n, i)]
  /\ UNCHANGED <<currentTerm, votedFor>>
  /\ PersistState(n)
  /\ SaveSnapshotFile(n, i)
  /\ UNCHANGED <<role, electionTimer, commitVars, raftRest, snapReqs>>

\* A crash after persistStateLocked and before the rename of snapshot.bin.
CrashInTakeSnapshot(n, i) ==
  /\ CanSnapshot(n, i)
  /\ Boot(n, State(currentTerm[n], votedFor[n], Compacted(n, i)))
  /\ UNCHANGED snapVars

\* PeerPool.InstallSnapshot, the data being what the leader has in snapshot.bin.
SendSnapshot(n, p) ==
  /\ role[n] = Leader /\ snapshot[n] > 0
  /\ snapReqs' = snapReqs \cup
       {[term |-> currentTerm[n], to |-> p, lastIncludedIndex |-> log[n][1].index,
         lastIncludedTerm |-> log[n][1].term]}
  /\ UNCHANGED <<vars, snapshot>>

\* The request's term is adopted; a candidate of the same term stays one.  The
\* snapshot is dropped when the node has committed as far, and otherwise
\* replaces the whole log, entries behind it included.
HandleInstallSnapshot(n, m) ==
  /\ m.to = n /\ m.term >= currentTerm[n]
  /\ currentTerm' = [currentTerm EXCEPT ![n] = m.term]
  /\ role' = [role EXCEPT ![n] = IF m.term > currentTerm[n] THEN Follower ELSE @]
  /\ votedFor' = [votedFor EXCEPT ![n] = IF m.term > currentTerm[n] THEN Nil ELSE @]
  /\ electionTimer' = [electionTimer EXCEPT ![n] = TRUE]
  /\ \/ /\ m.lastIncludedIndex <= commitIndex[n]
        /\ UNCHANGED <<log, commitVars, snapshot>>
     \/ /\ m.lastIncludedIndex > commitIndex[n]
        /\ log' = [log EXCEPT ![n] = <<Base(m.lastIncludedIndex, m.lastIncludedTerm)>>]
        /\ commitIndex' = [commitIndex EXCEPT ![n] = m.lastIncludedIndex]
        /\ lastApplied' = [lastApplied EXCEPT ![n] = m.lastIncludedIndex]
        /\ SaveSnapshotFile(n, m.lastIncludedIndex)
        /\ UNCHANGED applied
  /\ PersistState(n)
  /\ UNCHANGED <<raftRest, snapReqs>>

\* A crash after the first persistStateLocked, of the term alone, or after the
\* second, of the log, and before the rename of snapshot.bin.
CrashInInstallSnapshot(n, m) ==
  /\ m.to = n /\ m.term >= currentTerm[n]
  /\ LET vote == IF m.term > currentTerm[n] THEN Nil ELSE votedFor[n] IN
     \/ m.term > currentTerm[n] /\ Boot(n, State(m.term, vote, log[n]))
     \/ /\ m.lastIncludedIndex > commitIndex[n]
        /\ Boot(n, State(m.term, vote, <<Base(m.lastIncludedIndex, m.lastIncludedTerm)>>))
  /\ UNCHANGED snapVars

-----------------------------------------------------------------------------
(* The steps of module Raft on a log that may have been cut.               *)

\* HandleAppendEntries applies n.log[i] up to the new commitIndex.
AppliesInRange(n, m) ==
  m.term >= currentTerm[n] /\ ~PrevMissing(log[n], m) /\ PrevAgrees(log[n], m) =>
    LET l == MergeEntries(log[n], m.prevLogIndex, m.entries)
    IN \/ Min({m.leaderCommit, LastLogIndex(l)}) <= lastApplied[n]
       \/ Min({m.leaderCommit, LastLogIndex(l)}) < Len(l)

\* maybeAdvanceCommitIndexLocked starts at n.log[lastLogIndex].
CountsInRange(n) == LastLogIndex(log[n]) <= commitIndex[n] \/ LastLogIndex(log[n]) < Len(log[n])

\* loadState keeps NewNode's sentinel when the file holds no entry.
Reload(saved) == IF saved.log = <<>> THEN [saved EXCEPT !.log = <<Sentinel>>] ELSE saved

RaftStep(n) ==
  /\ \/ Boot(n, Reload(disk[n]))
     \/ /\ log[n] # <<>>
        /\ \/ OnElectionTimeout(n)
           \/ \E m \in voteReqs : HandleRequestVote(n, m)
           \/ BecomeLeader(n)
           \/ \E v \in Value : Propose(n, v)
           \/ \E m \in appendReplies : (m.success => CountsInRange(n)) /\ HandleAppendReply(n, m)
           \/ CrashInHandler(n)
     \/ \E m \in voteReplies : HandleVoteReply(n, m)
     \/ \E p \in Peers(n) : ReplicateToPeer(n, p)
     \/ \E m \in appendReqs : AppliesInRange(n, m) /\ HandleAppendEntries(n, m)
  /\ UNCHANGED snapVars

SnapNext ==
  \E n \in Node :
    \/ RaftStep(n)
    \/ \E i \in 1..MaxIndex : TakeSnapshot(n, i) \/ CrashInTakeSnapshot(n, i)
    \/ \E p \in Peers(n) : SendSnapshot(n, p)
    \/ \E m \in snapReqs : HandleInstallSnapshot(n, m) \/ CrashInInstallSnapshot(n, m)

SnapSpec == SnapInit /\ [][SnapNext]_<<vars, snapVars>>

-----------------------------------------------------------------------------
\* README.md: snapshots "bound Raft log growth" and replication has "automatic
\* fallback retry".  Whatever has been cut, the next request of a leader carries
\* every entry it holds from the peer's nextIndex on (replicateToPeer).  It is about
\* a program that calls TakeSnapshot, which the repository's own server does not.
RequestsCarryTheRest ==
  \A n \in Node : role[n] = Leader =>
    \A p \in Peers(n) : \A i \in 2..Len(log[n]) :
      log[n][i].index >= NextIdx(n, p) =>
        \E k \in 1..Len(AppendReq(n, p).entries) : AppendReq(n, p).entries[k] = log[n][i]

=============================================================================
