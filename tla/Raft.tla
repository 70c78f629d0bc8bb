-------------------------------- MODULE Raft --------------------------------
(***************************************************************************)
(* The consensus core of the server: internal/raft/node.go, election.go    *)
(* and replication.go.  Every function that runs under Node.mu is one      *)
(* action, because nothing else of that node can interleave with it; the   *)
(* lock is released while an RPC is outstanding, so building a request,    *)
(* serving it and processing its answer are three actions.                 *)
(*                                                                         *)
(* A gRPC call that has been issued stays in one of the four message sets. *)
(* It may be served late, in any order, or never.  Elements are not        *)
(* removed: the leader re-sends the same AppendEntries request at every    *)
(* heartbeat, so an equal request can also be served more than once.       *)
(***************************************************************************)
EXTENDS Integers, Sequences, FiniteSets, FiniteSetsExt

CONSTANTS
  Node,           \* the node ids of the cluster
  Value,          \* the commands clients propose
  Nil,            \* the empty string of votedFor, and the sentinel's data
  MaxElections,   \* bound: elections started, over all nodes and terms
  MaxIndex,       \* bound: no leader proposes beyond this log index
  MaxAppendReqs,  \* bound: distinct AppendEntries requests ever sent
  MaxCrashes      \* bound: process crashes in one behaviour

\* config.Validate refuses a node without peers.
ASSUME NodeAssumption == IsFiniteSet(Node) /\ Nil \notin Node /\ \A n \in Node : Node # {n}
ASSUME BoundAssumption == MaxElections \in Nat /\ MaxIndex \in Nat /\ MaxAppendReqs \in Nat /\ MaxCrashes \in Nat

VARIABLES
  currentTerm, votedFor, log,    \* the persistent fields of Node
  role, commitIndex, lastApplied,
  nextIndex, matchIndex,
  votesReceived,   \* who voted for the node in its latest election
  electionTimer,   \* is an onElectionTimeout callback pending?
  disk,            \* raft_state.bin of every node
  voteReqs, voteReplies, appendReqs, appendReplies,
  crashes,         \* process crashes so far
  applied          \* every entry ever sent to any node's applyCh

persistent == <<currentTerm, votedFor, log, disk>>
leaderVars == <<nextIndex, matchIndex>>
commitVars == <<commitIndex, lastApplied, applied>>
messages   == <<voteReqs, voteReplies, appendReqs, appendReplies>>
vars == <<persistent, role, leaderVars, commitVars, votesReceived, electionTimer, messages,
          crashes>>

Follower  == "Follower"
Candidate == "Candidate"
Leader    == "Leader"
Role == {Follower, Candidate, Leader}

Entry == [index : Nat, term : Nat, data : Value \cup {Nil}]
Sentinel == [index |-> 0, term |-> 0, data |-> Nil]

\* n.log[i] of the code is log[n][i + 1] here: the slice starts with the sentinel.
LastLogIndex(l) == l[Len(l)].index
LastLogTerm(l)  == l[Len(l)].term

\* peerPool.PeerIDs(): every other member of the cluster.
Peers(n) == Node \ {n}

Quorum == Cardinality(Node) \div 2 + 1

HasQuorum(S) == Cardinality(S) >= Quorum

-----------------------------------------------------------------------------
(* Persistence and process start.                                          *)

State(term, vote, l) == [currentTerm |-> term, votedFor |-> vote, log |-> l]

PersistState(n) ==
  disk' = [disk EXCEPT ![n] = State(currentTerm'[n], votedFor'[n], log'[n])]

Init ==
  /\ currentTerm = [n \in Node |-> 0]
  /\ votedFor = [n \in Node |-> Nil]
  /\ log = [n \in Node |-> <<Sentinel>>]
  /\ disk = [n \in Node |-> State(0, Nil, <<Sentinel>>)]
  /\ role = [n \in Node |-> Follower]
  /\ commitIndex = [n \in Node |-> 0]
  /\ lastApplied = [n \in Node |-> 0]
  /\ nextIndex = [n \in Node |-> [p \in Peers(n) |-> 0]]
  /\ matchIndex = [n \in Node |-> [p \in Peers(n) |-> 0]]
  /\ votesReceived = [n \in Node |-> {}]
  /\ electionTimer = [n \in Node |-> TRUE]
  /\ voteReqs = {} /\ voteReplies = {} /\ appendReqs = {} /\ appendReplies = {}
  /\ applied = {} /\ crashes = 0

\* NewNode, loadState and Start on what the crash left on disk.
Boot(n, saved) ==
  /\ crashes < MaxCrashes
  /\ crashes' = crashes + 1
  /\ currentTerm' = [currentTerm EXCEPT ![n] = saved.currentTerm]
  /\ votedFor' = [votedFor EXCEPT ![n] = saved.votedFor]
  /\ log' = [log EXCEPT ![n] = saved.log]
  /\ disk' = [disk EXCEPT ![n] = saved]
  /\ role' = [role EXCEPT ![n] = Follower]
  /\ commitIndex' = [commitIndex EXCEPT ![n] = 0]
  /\ lastApplied' = [lastApplied EXCEPT ![n] = 0]
  /\ nextIndex' = [nextIndex EXCEPT ![n] = [p \in Peers(n) |-> 0]]
  /\ matchIndex' = [matchIndex EXCEPT ![n] = [p \in Peers(n) |-> 0]]
  /\ votesReceived' = [votesReceived EXCEPT ![n] = {}]
  /\ electionTimer' = [electionTimer EXCEPT ![n] = TRUE]
  /\ UNCHANGED <<messages, applied>>

\* Mutant: any node of the term forgets its vote, not only a candidate.
StepsDownForAny(n, m) == m.term >= currentTerm[n]

\* HandleAppendEntries treats the sender as the leader of m.term: any node of an
\* older term, and a candidate of the same term, becomes a follower and forgets
\* its vote.
StepsDownFor(n, m) ==
  \/ m.term > currentTerm[n]
  \/ m.term = currentTerm[n] /\ role[n] = Candidate

Restart(n) == Boot(n, disk[n])

\* A crash inside HandleRequestVote or HandleAppendEntries, after the first
\* persistStateLocked call (the request's term, no vote) and before the second.
CrashInHandler(n) ==
  \E m \in voteReqs \cup appendReqs :
    /\ m.to = n
    /\ \/ m.term > currentTerm[n]
       \/ m \in appendReqs /\ StepsDownFor(n, m)
    /\ Boot(n, State(m.term, Nil, log[n]))

\* An RPC answer with a higher term: step down and re-arm the timer.
StepDown(n, term) ==
  /\ currentTerm' = [currentTerm EXCEPT ![n] = term]
  /\ role' = [role EXCEPT ![n] = Follower]
  /\ votedFor' = [votedFor EXCEPT ![n] = Nil]
  /\ electionTimer' = [electionTimer EXCEPT ![n] = TRUE]
  /\ UNCHANGED log
  /\ PersistState(n)
  /\ UNCHANGED <<leaderVars, commitVars, votesReceived, messages, crashes>>

-----------------------------------------------------------------------------
(* Elections.                                                              *)

\* The elections started so far, each by the candidate that asked for votes.
Campaigns == {<<m.candidateId, m.term>> : m \in voteReqs}

\* The timer fires.  A leader ignores it and does not arm it again; any other
\* node campaigns, and startElection asks every peer for its vote.
OnElectionTimeout(n) ==
  /\ electionTimer[n]
  /\ \/ /\ role[n] = Leader
        /\ electionTimer' = [electionTimer EXCEPT ![n] = FALSE]
        /\ UNCHANGED <<persistent, role, votesReceived, voteReqs>>
     \/ /\ role[n] # Leader
        /\ Cardinality(Campaigns) < MaxElections
        /\ role' = [role EXCEPT ![n] = Candidate]
        /\ currentTerm' = [currentTerm EXCEPT ![n] = @ + 1]
        /\ votedFor' = [votedFor EXCEPT ![n] = n]
        /\ UNCHANGED <<log, electionTimer>>
        /\ PersistState(n)
        /\ votesReceived' = [votesReceived EXCEPT ![n] = {n}]
        /\ voteReqs' = voteReqs \cup
             {[term |-> currentTerm'[n], candidateId |-> n, to |-> p,
               lastLogIndex |-> LastLogIndex(log[n]),
               lastLogTerm |-> LastLogTerm(log[n])] : p \in Peers(n)}
  /\ UNCHANGED <<leaderVars, commitVars, voteReplies, appendReqs, appendReplies, crashes>>

\* The term and the vote of n once lines 130-135 have looked at the request.
VoteBefore(n, m) == IF m.term > currentTerm[n] THEN Nil ELSE votedFor[n]

CanVote(n, m) == VoteBefore(n, m) \in {Nil, m.candidateId}

LogUpToDate(l, m) ==
  \/ m.lastLogTerm > LastLogTerm(l)
  \/ m.lastLogTerm = LastLogTerm(l) /\ m.lastLogIndex >= LastLogIndex(l)

VoteReply(n, m, granted) ==
  [term |-> currentTerm'[n], voteGranted |-> granted, from |-> n,
   to |-> m.candidateId, reqTerm |-> m.term]

\* Each RequestVote call is issued once and served at most once.
Answered(m) ==
  \E r \in voteReplies : r.from = m.to /\ r.to = m.candidateId /\ r.reqTerm = m.term

HandleRequestVote(n, m) ==
  LET granted == m.term >= currentTerm[n] /\ CanVote(n, m) /\ LogUpToDate(log[n], m)
  IN
  /\ m.to = n
  /\ ~Answered(m)
  /\ currentTerm' = [currentTerm EXCEPT ![n] = IF m.term > @ THEN m.term ELSE @]
  /\ role' = [role EXCEPT ![n] = IF m.term > currentTerm[n] THEN Follower ELSE @]
  /\ votedFor' = [votedFor EXCEPT ![n] = IF granted THEN m.candidateId ELSE VoteBefore(n, m)]
  /\ UNCHANGED log
  /\ PersistState(n)
  /\ electionTimer' = [electionTimer EXCEPT ![n] = @ \/ granted]
  /\ voteReplies' = voteReplies \cup {VoteReply(n, m, granted)}
  /\ UNCHANGED <<leaderVars, commitVars, votesReceived, voteReqs, appendReqs, appendReplies, crashes>>

\* The goroutine of startElection that waited for this answer.
HandleVoteReply(n, m) ==
  /\ m.to = n
  /\ \/ /\ m.term > currentTerm[n]
        /\ StepDown(n, m.term)
     \/ /\ m.term <= currentTerm[n]
        /\ role[n] = Candidate /\ currentTerm[n] = m.reqTerm /\ m.voteGranted
        /\ votesReceived' = [votesReceived EXCEPT ![n] = @ \cup {m.from}]
        /\ UNCHANGED <<persistent, role, leaderVars, commitVars, electionTimer, messages, crashes>>

\* The counting loop of startElection reaches the quorum.
BecomeLeader(n) ==
  /\ role[n] = Candidate
  /\ HasQuorum(votesReceived[n])
  /\ role' = [role EXCEPT ![n] = Leader]
  /\ nextIndex' = [nextIndex EXCEPT ![n] = [p \in Peers(n) |-> LastLogIndex(log[n]) + 1]]
  /\ matchIndex' = [matchIndex EXCEPT ![n] = [p \in Peers(n) |-> 0]]
  /\ UNCHANGED <<persistent, commitVars, votesReceived, electionTimer, messages, crashes>>

-----------------------------------------------------------------------------
(* Replication.                                                            *)

\* Node.Propose on the leader; on any other node it returns without effect.
Propose(n, v) ==
  /\ role[n] = Leader
  /\ LastLogIndex(log[n]) < MaxIndex
  /\ log' = [log EXCEPT ![n] = Append(@, [index |-> LastLogIndex(@) + 1,
                                          term |-> currentTerm[n], data |-> v])]
  /\ UNCHANGED <<currentTerm, votedFor>>
  /\ PersistState(n)
  /\ UNCHANGED <<role, leaderVars, commitVars, votesReceived, electionTimer, messages, crashes>>

NextIdx(n, p) == IF nextIndex[n][p] = 0 THEN 1 ELSE nextIndex[n][p]

\* The log suffix from position i on: everything the leader has.
EntriesFrom(l, i) == SubSeq(l, i + 1, Len(l))

AppendReq(n, p) ==
  LET prev == NextIdx(n, p) - 1 IN
  [term |-> currentTerm[n], leaderId |-> n, to |-> p,
   prevLogIndex |-> prev,
   prevLogTerm |-> IF prev < Len(log[n]) THEN log[n][prev + 1].term ELSE 0,
   entries |-> EntriesFrom(log[n], NextIdx(n, p)),
   leaderCommit |-> commitIndex[n]]

\* replicateToPeer up to the RPC: on election, on Propose and at each heartbeat.
ReplicateToPeer(n, p) ==
  /\ role[n] = Leader
  /\ Cardinality(appendReqs) < MaxAppendReqs
  /\ appendReqs' = appendReqs \cup {AppendReq(n, p)}
  /\ UNCHANGED <<persistent, role, leaderVars, commitVars, votesReceived, electionTimer,
                 voteReqs, voteReplies, appendReplies, crashes>>

\* Mutants: truncate after the previous entry even when nothing conflicts; keep
\* the conflicting entry when truncating.
MergeAlwaysTruncates(l, prev, es) == SubSeq(l, 1, prev + 1) \o es

MergeOffByOne(l, prev, es) ==
  LET new == {i \in 1..Len(es) : prev + i >= Len(l) \/ l[prev + i + 1].term # es[i].term}
  IN IF new = {} THEN l
     ELSE SubSeq(l, 1, IF prev + Min(new) < Len(l) THEN prev + Min(new) + 1 ELSE Len(l))
            \o SubSeq(es, Min(new), Len(es))

\* The loop over req.Entries: entries already present with the same term are
\* kept, the first conflict truncates the log, the rest is appended.
MergeEntries(l, prev, es) ==
  LET new == {i \in 1..Len(es) : prev + i >= Len(l) \/ l[prev + i + 1].term # es[i].term}
  IN IF new = {} THEN l
     ELSE SubSeq(l, 1, prev + Min(new)) \o SubSeq(es, Min(new), Len(es))

\* applyCommittedEntriesLocked after commitIndex became c, with log l.
ApplyUpTo(n, c, l) ==
  /\ commitIndex' = [commitIndex EXCEPT ![n] = c]
  /\ lastApplied' = [lastApplied EXCEPT ![n] = IF c > @ THEN c ELSE @]
  /\ applied' = applied \cup {l[i + 1] : i \in (lastApplied[n] + 1)..c}

\* resp.Term is read before the request's term is adopted.
AppendReply(n, m, success) ==
  [term |-> currentTerm[n], success |-> success, from |-> n, to |-> m.leaderId,
   reqTerm |-> m.term,
   lastNewEntryIndex |-> IF m.entries = <<>> THEN 0 ELSE m.entries[Len(m.entries)].index]

\* The leader ignores the successful answer to a heartbeat without entries.
Meaningful(reply) == IF reply.lastNewEntryIndex > 0 THEN {reply} ELSE {}

PrevMissing(l, m) == m.prevLogIndex >= Len(l)
\* Mutant: the previous entry's term is not compared.
PrevAlwaysAgrees(l, m) == TRUE

PrevAgrees(l, m) == l[m.prevLogIndex + 1].term = m.prevLogTerm

RejectStaleAppend(n, m) ==
  /\ m.term < currentTerm[n]
  /\ UNCHANGED <<persistent, role, commitVars, electionTimer>>

\* Lines 130-137: adopt the leader's term and re-arm the timer.
AdoptLeader(n, m) ==
  /\ m.term >= currentTerm[n]
  /\ currentTerm' = [currentTerm EXCEPT ![n] = m.term]
  /\ role' = [role EXCEPT ![n] = IF StepsDownFor(n, m) THEN Follower ELSE @]
  /\ votedFor' = [votedFor EXCEPT ![n] = IF StepsDownFor(n, m) THEN Nil ELSE @]
  /\ electionTimer' = [electionTimer EXCEPT ![n] = TRUE]

HandleAppendEntries(n, m) ==
  /\ m.to = n
  /\ \/ /\ RejectStaleAppend(n, m)
        /\ appendReplies' = appendReplies \cup {AppendReply(n, m, FALSE)}
     \/ /\ AdoptLeader(n, m)
        /\ PrevMissing(log[n], m)
        /\ UNCHANGED <<log, commitVars>>
        /\ PersistState(n)
        /\ appendReplies' = appendReplies \cup {AppendReply(n, m, FALSE)}
     \/ /\ AdoptLeader(n, m)
        /\ ~PrevMissing(log[n], m) /\ ~PrevAgrees(log[n], m)
        /\ log' = [log EXCEPT ![n] = SubSeq(@, 1, m.prevLogIndex)]
        /\ PersistState(n)
        /\ UNCHANGED commitVars
        /\ appendReplies' = appendReplies \cup {AppendReply(n, m, FALSE)}
     \/ /\ AdoptLeader(n, m)
        /\ ~PrevMissing(log[n], m) /\ PrevAgrees(log[n], m)
        /\ log' = [log EXCEPT ![n] = MergeEntries(@, m.prevLogIndex, m.entries)]
        /\ PersistState(n)
        /\ LET last == LastLogIndex(log'[n])
               c == IF m.leaderCommit < last THEN m.leaderCommit ELSE last
           IN \/ m.leaderCommit > commitIndex[n] /\ ApplyUpTo(n, c, log'[n])
              \/ m.leaderCommit <= commitIndex[n] /\ UNCHANGED commitVars
        /\ appendReplies' = appendReplies \cup Meaningful(AppendReply(n, m, TRUE))
  /\ UNCHANGED <<leaderVars, votesReceived, voteReqs, voteReplies, appendReqs, crashes>>

\* Mutant: entries of earlier terms are counted too.
CommittableAnyTerm(n, match) ==
  {N \in (commitIndex[n] + 1)..LastLogIndex(log[n]) :
     Cardinality({p \in Peers(n) : match[p] >= N}) + 1 >= Quorum}

\* maybeAdvanceCommitIndexLocked: the indexes the downward loop would stop at.
Committable(n, match) ==
  {N \in (commitIndex[n] + 1)..LastLogIndex(log[n]) :
     /\ log[n][N + 1].term = currentTerm[n]
     /\ Cardinality({p \in Peers(n) : match[p] >= N}) + 1 >= Quorum}

MaybeAdvanceCommitIndex(n, match) ==
  IF Committable(n, match) = {} THEN UNCHANGED commitVars
  ELSE ApplyUpTo(n, Max(Committable(n, match)), log[n])

\* Mutant: the answer is taken to cover what was proposed since the request.
AckedIndexNow(n, m) == LastLogIndex(log[n])

\* entries[len(entries)-1].Index of the request, not of the log as it is now.
AckedIndex(n, m) == m.lastNewEntryIndex

\* Mutant: nextIndex is decremented without a floor.
CanAlwaysBackUp(n, p) == TRUE

CanBackUp(n, p) == nextIndex[n][p] > 1

\* replicateToPeer once the answer is there.
HandleAppendReply(n, m) ==
  /\ m.to = n
  /\ \/ /\ m.term > currentTerm[n]
        /\ StepDown(n, m.term)
     \/ /\ m.term <= currentTerm[n]
        /\ role[n] = Leader /\ currentTerm[n] = m.reqTerm
        /\ \/ /\ m.success /\ m.lastNewEntryIndex > 0
              /\ matchIndex' = [matchIndex EXCEPT ![n][m.from] = AckedIndex(n, m)]
              /\ nextIndex' = [nextIndex EXCEPT ![n][m.from] = AckedIndex(n, m) + 1]
              /\ MaybeAdvanceCommitIndex(n, matchIndex'[n])
           \/ /\ ~m.success /\ CanBackUp(n, m.from)
              /\ nextIndex' = [nextIndex EXCEPT ![n][m.from] = @ - 1]
              /\ UNCHANGED <<matchIndex, commitVars>>
        /\ UNCHANGED <<persistent, role, votesReceived, electionTimer, messages, crashes>>

-----------------------------------------------------------------------------
Next ==
  \E n \in Node :
    \/ Restart(n)
    \/ CrashInHandler(n)
    \/ OnElectionTimeout(n)
    \/ \E m \in voteReqs : HandleRequestVote(n, m)
    \/ \E m \in voteReplies : HandleVoteReply(n, m)
    \/ BecomeLeader(n)
    \/ \E v \in Value : Propose(n, v)
    \/ \E p \in Peers(n) : ReplicateToPeer(n, p)
    \/ \E m \in appendReqs : HandleAppendEntries(n, m)
    \/ \E m \in appendReplies : HandleAppendReply(n, m)

Spec == Init /\ [][Next]_vars

-----------------------------------------------------------------------------
(* Type correctness.                                                       *)

VoteReq == [term : Nat, candidateId : Node, to : Node, lastLogIndex : Nat, lastLogTerm : Nat]
VoteReplyMsg == [term : Nat, voteGranted : BOOLEAN, from : Node, to : Node, reqTerm : Nat]
AppendReqMsg == [term : Nat, leaderId : Node, to : Node, prevLogIndex : Nat,
                 prevLogTerm : Nat, entries : Seq(Entry), leaderCommit : Nat]
AppendReplyMsg == [term : Nat, success : BOOLEAN, from : Node, to : Node,
                   reqTerm : Nat, lastNewEntryIndex : Nat]

\* Every field of every node and message has the type its Go declaration gives
\* it, and no log is ever empty: lastLogIndexLocked would index position -1.
TypeOK ==
  /\ currentTerm \in [Node -> Nat]
  /\ votedFor \in [Node -> Node \cup {Nil}]
  /\ log \in [Node -> Seq(Entry) \ {<<>>}]
  /\ disk \in [Node -> [currentTerm : Nat, votedFor : Node \cup {Nil},
                        log : Seq(Entry) \ {<<>>}]]
  /\ role \in [Node -> Role]
  /\ commitIndex \in [Node -> Nat] /\ lastApplied \in [Node -> Nat]
  /\ \A n \in Node : nextIndex[n] \in [Peers(n) -> Nat] /\ matchIndex[n] \in [Peers(n) -> Nat]
  /\ DOMAIN nextIndex = Node /\ DOMAIN matchIndex = Node
  /\ votesReceived \in [Node -> SUBSET Node]
  /\ electionTimer \in [Node -> BOOLEAN]
  /\ voteReqs \subseteq VoteReq /\ voteReplies \subseteq VoteReplyMsg
  /\ appendReqs \subseteq AppendReqMsg /\ appendReplies \subseteq AppendReplyMsg
  /\ applied \subseteq Entry /\ crashes \in Nat

-----------------------------------------------------------------------------
(* Safety.                                                                 *)

Campaigned(n, t) == \E m \in voteReqs : m.candidateId = n /\ m.term = t

Granted == {r \in voteReplies : r.voteGranted}

\* c itself and the nodes that granted c their vote in term t.
VotesFor(c, t) ==
  {v \in Node : v = c \/ \E r \in Granted : r.from = v /\ r.to = c /\ r.reqTerm = t}

Won(c, t) == Campaigned(c, t) /\ HasQuorum(VotesFor(c, t))

\* At most one node ever gathers a quorum in a term, over all crashes and late
\* messages, although HandleAppendEntries lets a candidate that meets the leader
\* of its term forget its vote and vote a second time in that term.
ElectionSafety ==
  \A l, m \in voteReqs :
    l.term = m.term /\ Won(l.candidateId, l.term) /\ Won(m.candidateId, m.term)
      => l.candidateId = m.candidateId

\* At no time do two nodes act as leader of one term (startElection).
OneLeaderPerTerm ==
  \A m, n \in Node :
    role[m] = Leader /\ role[n] = Leader /\ currentTerm[m] = currentTerm[n] => m = n

\* The code finds the entry with index i at position i of the slice: in every
\* log, however it was truncated, merged or reloaded (n.log[N], n.log[idx]).
IndexIsPosition ==
  \A n \in Node : \A i \in 1..Len(log[n]) : log[n][i].index = i - 1

\* Two logs with an entry of the same index and term agree up to it: what the
\* one-entry check on PrevLogTerm in HandleAppendEntries is trusted for.
LogMatching ==
  \A m, n \in Node : \A i \in 1..Len(log[m]) :
    i <= Len(log[n]) /\ log[m][i].term = log[n][i].term
      => SubSeq(log[m], 1, i) = SubSeq(log[n], 1, i)

Has(l, e) == e.index < Len(l) /\ l[e.index + 1] = e

\* No two nodes ever hand different commands to their state machines for the
\* same index, restarts included (applyCommittedEntriesLocked).
StateMachineSafety ==
  \A d, e \in applied : d.index = e.index => d = e

\* The leader of the latest term holds every entry that was ever applied
\* anywhere: the log comparison in HandleRequestVote keeps others from winning.
LeaderCompleteness ==
  \A n \in Node :
    role[n] = Leader /\ (\A m \in Node : currentTerm[m] <= currentTerm[n])
      => \A e \in applied : Has(log[n], e)

\* While a peer has not moved to a later term its log agrees with the leader's
\* up to the matchIndex the leader counts for it, although answers are
\* processed in any order and matchIndex is overwritten, not maximised.
MatchIndexSound ==
  \A n \in Node : role[n] = Leader =>
    \A p \in Peers(n) : currentTerm[p] <= currentTerm[n] =>
      \A i \in 1..(matchIndex[n][p] + 1) : i <= Len(log[p]) /\ log[p][i] = log[n][i]

\* No step, late request or crash changes a node's log up to the node's own commit
\* index (the truncations in HandleAppendEntries).
CommittedNeverTruncated ==
  [][\A n \in Node : \A i \in 1..(commitIndex[n] + 1) :
       i <= Len(log'[n]) /\ log'[n][i] = log[n][i]]_vars

\* An entry that some state machine has been given is removed from a log only on a
\* node that the rest of the cluster has left behind, by the late request of a
\* leader whose term another node has left (HandleAppendEntries).
AppliedNeverTruncated ==
  [][\A n \in Node : \A e \in applied :
       Has(log[n], e) /\ ~Has(log'[n], e) => \E m \in Node : currentTerm[m] > currentTerm'[n]]_vars

\* Whatever crashes and late messages do, the entries handed to the state
\* machines of all nodes together form one append-only log without gaps.
CL == INSTANCE CommittedLog WITH chosen <- applied
ImplementsCommittedLog == CL!Spec

\* docs/architecture.md: elections trigger on timeouts.  Every node that is not
\* the leader waits on an election timer.
ElectionTimerArmed == \A n \in Node : role[n] # Leader => electionTimer[n]

-----------------------------------------------------------------------------
(* The invariant behind ElectionSafety, IndexIsPosition and TypeOK.        *)

\* What a handler answers is on disk before the answer leaves.
DiskInSync == \A n \in Node : disk[n] = State(currentTerm[n], votedFor[n], log[n])

\* The sentinel stays at the head of every log, and requests carry entries whose
\* indexes continue their PrevLogIndex.
LogShape ==
  /\ \A n \in Node : log[n][1].term = 0
  /\ \A m \in appendReqs :
       /\ m.prevLogIndex = 0 => m.prevLogTerm = 0
       /\ \A i \in 1..Len(m.entries) : m.entries[i].index = m.prevLogIndex + i

StructInv == TypeOK /\ DiskInSync /\ LogShape /\ IndexIsPosition

LeaderKnown(t) == \E m \in appendReqs : m.term = t

\* The votes for c in t that came from nodes which did not campaign in t: only
\* those nodes cannot forget their vote before the term is over.
FirmVotes(c, t) == {v \in VotesFor(c, t) : v = c \/ ~Campaigned(v, t)}

CampaignInv ==
  /\ \A m \in voteReqs : m.term <= currentTerm[m.candidateId] /\ m.to # m.candidateId
  /\ \A n \in Node : \A t \in {currentTerm[n]} :
       /\ role[n] # Follower => Campaigned(n, t) /\ votedFor[n] = n
       /\ Campaigned(n, t) /\ votedFor[n] # n => LeaderKnown(t)

VoteInv ==
  \A r \in Granted :
    /\ r.reqTerm <= currentTerm[r.from]
    /\ r.from # r.to
    /\ Campaigned(r.to, r.reqTerm)
    /\ Campaigned(r.from, r.reqTerm) => LeaderKnown(r.reqTerm)
    /\ ~Campaigned(r.from, r.reqTerm) =>
         /\ currentTerm[r.from] = r.reqTerm => votedFor[r.from] = r.to
         /\ \A s \in Granted : s.from = r.from /\ s.reqTerm = r.reqTerm => s.to = r.to

LeaderInv ==
  /\ \A m \in appendReqs : m.to # m.leaderId /\ Won(m.leaderId, m.term)
  /\ \A n \in Node : \A t \in {currentTerm[n]} :
       /\ role[n] = Leader => Won(n, t)
       /\ role[n] = Candidate => votesReceived[n] \subseteq VotesFor(n, t)

WinnerInv ==
  \A m \in voteReqs : Won(m.candidateId, m.term) =>
    /\ HasQuorum(FirmVotes(m.candidateId, m.term))
    /\ currentTerm[m.candidateId] = m.term => votedFor[m.candidateId] = m.candidateId
    /\ \A r \in Granted : ~(r.from = m.candidateId /\ r.reqTerm = m.term)

\* The conjuncts of the inductive invariant that are about elections.
ElectionInv == CampaignInv /\ VoteInv /\ LeaderInv /\ WinnerInv

=============================================================================
