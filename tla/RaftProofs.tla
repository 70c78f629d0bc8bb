----------------------------- MODULE RaftProofs -----------------------------
(* Theorems about Raft, for every cluster, value set and bound.            *)
EXTENDS Raft, FiniteSetTheorems, SequenceTheorems, TLAPS

(***************************************************************************)
(* Quorums.                                                                *)
(***************************************************************************)

\* config.Quorum is a majority: any two quorums share a node.
LEMMA QuorumsIntersect ==
  ASSUME NEW S \in SUBSET Node, NEW T \in SUBSET Node, HasQuorum(S), HasQuorum(T)
  PROVE  S \cap T # {}
<1>1. Cardinality(Node) \in Nat
  BY NodeAssumption, FS_CardinalityType
<1>2. Cardinality(S) \in Nat /\ Cardinality(T) \in Nat
  BY NodeAssumption, FS_Subset, FS_CardinalityType
<1>3. Cardinality(S) + Cardinality(T) > Cardinality(Node)
  BY <1>1, <1>2 DEF HasQuorum, Quorum
<1> QED
  BY <1>3, NodeAssumption, FS_MajoritiesIntersect

\* More votes never lose a quorum.
LEMMA QuorumGrows ==
  ASSUME NEW T \in SUBSET Node, NEW S \in SUBSET T, HasQuorum(S)
  PROVE  HasQuorum(T)
<1>1. IsFiniteSet(T) /\ Cardinality(T) \in Nat
  BY NodeAssumption, FS_Subset, FS_CardinalityType
<1>2. Cardinality(S) \in Nat /\ Cardinality(S) <= Cardinality(T)
  BY <1>1, FS_Subset, FS_CardinalityType
<1>3. Quorum \in Nat
  BY NodeAssumption, FS_CardinalityType DEF Quorum
<1> QED
  BY <1>1, <1>2, <1>3 DEF HasQuorum

(***************************************************************************)
(* Logs.                                                                   *)
(***************************************************************************)

\* A non-empty set of positions has a smallest element.  The strict subset order
\* on finite sets is well-founded: take the shortest of the intervals 1..i.
LEMMA MinOfPositions ==
  ASSUME NEW S \in SUBSET Nat, S # {}
  PROVE  Min(S) \in S /\ \A i \in S : Min(S) <= i
<1> DEFINE T == {1..i : i \in S}
<1>1. T \subseteq FiniteSubsetsOf(Nat)
  BY FS_Interval DEF FiniteSubsetsOf
<1>2. PICK X \in T : \A Y \in T : ~(<<Y, X>> \in StrictSubsetOrdering(Nat))
  <2>1. IsWellFoundedOn(StrictSubsetOrdering(Nat), FiniteSubsetsOf(Nat))
    BY FS_StrictSubsetOrderingWellFounded
  <2>2. T # {}
    OBVIOUS
  <2> HIDE DEF T
  <2> QED BY <1>1, <2>1, <2>2, WFMin
<1>3. PICK i \in S : X = 1..i
  BY <1>2
<1>4. ASSUME NEW j \in S, j < i PROVE FALSE
  <2>1. 1..j \subseteq 1..i /\ 1..j # 1..i
    BY <1>4
  <2>2. <<1..j, X>> \in StrictSubsetOrdering(Nat)
    BY <1>3, <2>1 DEF StrictSubsetOrdering
  <2> QED BY <1>2, <2>2
<1>5. \A j \in S : i <= j
  BY <1>4
<1> QED BY <1>5 DEF Min

\* A non-empty bounded set of indexes has a largest element.
LEMMA MaxOfIndexes ==
  ASSUME NEW k \in Nat, NEW S \in SUBSET (0..k), S # {}
  PROVE  Max(S) \in S /\ \A i \in S : Max(S) >= i
<1> DEFINE D == {k - i : i \in S}
<1>1. D \in SUBSET Nat /\ D # {}
  OBVIOUS
<1>2. Min(D) \in D /\ \A d \in D : Min(D) <= d
  BY <1>1, MinOfPositions
<1>3. PICK i \in S : Min(D) = k - i
  BY <1>2
<1>4. ASSUME NEW j \in S PROVE i >= j
  <2>1. k - j \in D
    OBVIOUS
  <2>2. k - i <= k - j
    BY <1>2, <1>3, <2>1
  <2> QED BY <2>2
<1> QED BY <1>4 DEF Max

Positioned(l) == \A i \in 1..Len(l) : l[i].index = i - 1

\* The merge loop of HandleAppendEntries keeps the log up to PrevLogIndex, and
\* leaves every entry at the position its index names.
LEMMA MergeEntriesOK ==
  ASSUME NEW l \in Seq(Entry), NEW es \in Seq(Entry),
         NEW prev \in Nat, prev < Len(l)
  PROVE  LET r == MergeEntries(l, prev, es) IN
         /\ r \in Seq(Entry)
         /\ Len(r) >= prev + 1
         /\ \A i \in 1..(prev + 1) : r[i] = l[i]
         /\ Positioned(l) /\ (\A i \in 1..Len(es) : es[i].index = prev + i) => Positioned(r)
<1> DEFINE new == {i \in 1..Len(es) : prev + i >= Len(l) \/ l[prev + i + 1].term # es[i].term}
           r == MergeEntries(l, prev, es)
<1>1. CASE new = {}
  <2>1. r = l
    BY <1>1 DEF MergeEntries
  <2> HIDE DEF r
  <2>2. Len(r) >= prev + 1
    BY <2>1, LenProperties
  <2> QED BY <2>1, <2>2 DEF r
<1>2. CASE new # {}
  <2> DEFINE k == Min(new)
             head == SubSeq(l, 1, prev + k)
             tail == SubSeq(es, k, Len(es))
  <2>1. k \in new /\ \A i \in new : k <= i
    <3>1. new \in SUBSET Nat
      OBVIOUS
    <3> HIDE DEF new
    <3> QED BY <1>2, <3>1, MinOfPositions
  <2>2. k \in 1..Len(es) /\ Len(es) \in Nat /\ Len(l) \in Nat
    BY <2>1, LenProperties
  <2> HIDE DEF k
  <2>3. prev + k <= Len(l)
    <3>1. CASE k = 1
      BY <3>1
    <3>2. CASE k > 1
      <4>1. k - 1 \notin new /\ k - 1 \in 1..Len(es)
        <5> HIDE DEF new
        <5> QED BY <2>1, <2>2, <3>2
      <4> QED BY <4>1, <2>2
    <3> QED BY <2>2, <3>1, <3>2
  <2>4. r = head \o tail
    BY <1>2 DEF MergeEntries, k
  <2> HIDE DEF new, r
  <2>5. /\ head \in Seq(Entry) /\ Len(head) = prev + k
        /\ \A i \in 1..(prev + k) : head[i] = l[i]
    BY <2>2, <2>3
  <2>6. /\ tail \in Seq(Entry) /\ Len(tail) = Len(es) - k + 1
        /\ \A i \in 1..(Len(es) - k + 1) : tail[i] = es[k + i - 1]
    BY <2>2
  <2> HIDE DEF head, tail
  <2>7. /\ r \in Seq(Entry) /\ Len(r) = prev + Len(es) + 1
        /\ \A i \in 1..Len(r) : r[i] = IF i <= prev + k THEN l[i] ELSE es[i - prev - 1]
    <3>1. /\ r \in Seq(Entry) /\ Len(r) = Len(head) + Len(tail)
          /\ \A i \in 1..Len(r) : r[i] = IF i <= Len(head) THEN head[i] ELSE tail[i - Len(head)]
      <4>1. head \in Seq(Entry) /\ tail \in Seq(Entry)
        BY <2>5, <2>6
      <4>2. /\ head \o tail \in Seq(Entry) /\ Len(head \o tail) = Len(head) + Len(tail)
            /\ \A i \in 1..(Len(head) + Len(tail)) : (head \o tail)[i] =
                 IF i <= Len(head) THEN head[i] ELSE tail[i - Len(head)]
        BY <4>1, ConcatProperties
      <4> QED BY <2>4, <4>2
    <3>2. Len(r) = prev + Len(es) + 1
      BY <3>1, <2>2, <2>5, <2>6
    <3>3. ASSUME NEW i \in 1..Len(r), i > prev + k
          PROVE  tail[i - Len(head)] = es[i - prev - 1]
      <4>1. i - (prev + k) \in 1..(Len(es) - k + 1)
        BY <3>2, <3>3, <2>2
      <4>2. k + (i - (prev + k)) - 1 = i - prev - 1
        BY <2>2
      <4> QED BY <4>1, <4>2, <2>5, <2>6
    <3>4. ASSUME NEW i \in 1..Len(r)
          PROVE  r[i] = IF i <= prev + k THEN l[i] ELSE es[i - prev - 1]
      <4>1. CASE i <= prev + k
        BY <3>1, <4>1, <2>2, <2>5
      <4>2. CASE i > prev + k
        <5>1. ~(i <= Len(head))
          BY <3>2, <4>2, <2>2, <2>5
        <5>2. r[i] = tail[i - Len(head)]
          BY <3>1, <5>1
        <5>3. ~(i <= prev + k)
          BY <5>1, <2>5
        <5> QED BY <3>3, <4>2, <5>2, <5>3
      <4> QED BY <4>1, <4>2, <2>2, <3>2
    <3> QED BY <3>1, <3>2, <3>4
  <2>8. Len(r) >= prev + 1 /\ \A i \in 1..(prev + 1) : r[i] = l[i]
    BY <2>2, <2>7
  <2>9. ASSUME Positioned(l), \A i \in 1..Len(es) : es[i].index = prev + i
        PROVE  Positioned(r)
    <3> SUFFICES ASSUME NEW i \in 1..Len(r) PROVE r[i].index = i - 1
      BY DEF Positioned
    <3>1. CASE i <= prev + k
      <4>1. i \in 1..Len(l)
        BY <3>1, <2>2, <2>3
      <4>2. r[i] = l[i]
        BY <3>1, <2>7
      <4> QED BY <4>1, <4>2, <2>9 DEF Positioned
    <3>2. CASE i > prev + k
      <4>1. i - prev - 1 \in 1..Len(es) /\ prev + (i - prev - 1) = i - 1 /\ ~(i <= prev + k)
        BY <3>2, <2>2, <2>7
      <4>2. r[i] = es[i - prev - 1]
        BY <2>7, <4>1
      <4> QED BY <2>9, <4>1, <4>2
    <3> QED BY <3>1, <3>2, <2>2, <2>7
  <2> QED BY <2>7, <2>8, <2>9 DEF r
<1> QED BY <1>1, <1>2

(***************************************************************************)
(* Types, persistence and log positions.                                   *)
(***************************************************************************)

\* The last entry of a log that is not empty has an index and a term.
LEMMA LastOfLog ==
  ASSUME NEW l \in Seq(Entry) \ {<<>>}
  PROVE  /\ Len(l) \in Nat \ {0} /\ l[Len(l)] \in Entry /\ l[1] \in Entry
         /\ LastLogIndex(l) \in Nat /\ LastLogTerm(l) \in Nat
<1>1. Len(l) \in Nat \ {0}
  BY EmptySeq
<1>2. l[Len(l)] \in Entry /\ l[1] \in Entry
  BY <1>1, ElementOfSeq
<1> QED BY <1>1, <1>2 DEF LastLogIndex, LastLogTerm, Entry

\* In a well-formed state the last index of a log is its length minus the
\* sentinel, as lastLogIndexLocked and the loops over n.log take for granted.
LEMMA LogOK ==
  ASSUME StructInv, NEW n \in Node
  PROVE  /\ log[n] \in Seq(Entry) \ {<<>>} /\ Len(log[n]) \in Nat \ {0}
         /\ LastLogIndex(log[n]) = Len(log[n]) - 1
         /\ LastLogIndex(log[n]) \in Nat /\ LastLogTerm(log[n]) \in Nat
         /\ \A i \in 1..Len(log[n]) : log[n][i] \in Entry
<1>1. log[n] \in Seq(Entry) \ {<<>>}
  BY DEF StructInv, TypeOK
<1>2. /\ Len(log[n]) \in Nat \ {0}
      /\ LastLogIndex(log[n]) \in Nat /\ LastLogTerm(log[n]) \in Nat
  BY <1>1, LastOfLog
<1>3. LastLogIndex(log[n]) = Len(log[n]) - 1
  BY <1>2 DEF StructInv, IndexIsPosition, LastLogIndex
<1>4. \A i \in 1..Len(log[n]) : log[n][i] \in Entry
  BY <1>1, ElementOfSeq
<1> QED BY <1>1, <1>2, <1>3, <1>4

\* A cluster that starts without state files is well-formed (NewNode).
LEMMA InitStruct == Init => StructInv
<1> SUFFICES ASSUME Init PROVE StructInv
  OBVIOUS
<1>1. Sentinel \in Entry /\ <<Sentinel>> \in Seq(Entry) \ {<<>>}
  BY DEF Sentinel, Entry
<1>2. TypeOK
  BY <1>1 DEF Init, TypeOK, State, Role, Follower
<1>3. DiskInSync
  BY DEF Init, DiskInSync
<1>4. LogShape /\ IndexIsPosition
  BY DEF Init, LogShape, IndexIsPosition, Sentinel
<1> QED BY <1>2, <1>3, <1>4 DEF StructInv

\* A node that starts from a well-formed state file is well-formed.
LEMMA BootStruct ==
  ASSUME StructInv, NEW n \in Node,
         NEW term \in Nat, NEW vote \in Node \cup {Nil},
         Boot(n, State(term, vote, log[n]))
  PROVE  StructInv'
<1>1. TypeOK'
  BY SMTT(40) DEF StructInv, TypeOK, Boot, State, messages, Role, Follower
<1>2. DiskInSync'
  BY DEF StructInv, TypeOK, DiskInSync, Boot, State
<1>3. log' = log /\ appendReqs' = appendReqs
  BY DEF StructInv, TypeOK, Boot, State, messages
<1>4. LogShape' /\ IndexIsPosition'
  BY <1>3 DEF StructInv, LogShape, IndexIsPosition
<1> QED BY <1>1, <1>2, <1>4 DEF StructInv

\* Stepping down on an answer with a higher term keeps the node well-formed.
LEMMA StepDownStruct ==
  ASSUME StructInv, NEW n \in Node, NEW term \in Nat, StepDown(n, term)
  PROVE  StructInv'
<1>1. TypeOK'
  BY DEF StructInv, TypeOK, StepDown, PersistState, State, messages, leaderVars, commitVars,
         Role, Follower
<1>2. DiskInSync'
  BY DEF StructInv, TypeOK, DiskInSync, StepDown, PersistState
<1>3. LogShape' /\ IndexIsPosition'
  BY DEF StructInv, LogShape, IndexIsPosition, StepDown, messages
<1> QED BY <1>1, <1>2, <1>3 DEF StructInv

\* onElectionTimeout and the requests of startElection are well-formed.
LEMMA ElectionTimeoutStruct ==
  ASSUME StructInv, NEW n \in Node, OnElectionTimeout(n)
  PROVE  StructInv'
<1> USE DEF StructInv
<1>1. CASE role[n] = Leader
  <2>1. TypeOK'
    BY <1>1 DEF TypeOK, OnElectionTimeout, persistent, leaderVars, commitVars
  <2> QED
    BY <1>1, <2>1 DEF OnElectionTimeout, DiskInSync, LogShape, IndexIsPosition, persistent
<1>2. CASE role[n] # Leader
  <2> DEFINE Request(t, p) == [term |-> t, candidateId |-> n, to |-> p,
                               lastLogIndex |-> LastLogIndex(log[n]),
                               lastLogTerm |-> LastLogTerm(log[n])]
  <2>1. LastLogIndex(log[n]) \in Nat /\ LastLogTerm(log[n]) \in Nat
    BY LogOK
  <2>2. /\ role' = [role EXCEPT ![n] = Candidate]
        /\ currentTerm' = [currentTerm EXCEPT ![n] = @ + 1]
        /\ votedFor' = [votedFor EXCEPT ![n] = n]
        /\ votesReceived' = [votesReceived EXCEPT ![n] = {n}]
        /\ PersistState(n)
        /\ voteReqs' = voteReqs \cup {Request(currentTerm'[n], p) : p \in Peers(n)}
        /\ UNCHANGED <<log, electionTimer, leaderVars, commitVars, voteReplies, appendReqs,
                       appendReplies, crashes>>
    BY <1>2 DEF OnElectionTimeout
  <2>3. voteReqs' \subseteq VoteReq
    <3>1. currentTerm \in [Node -> Nat] /\ voteReqs \subseteq VoteReq
      BY DEF TypeOK
    <3>2. currentTerm'[n] \in Nat
      BY <2>2, <3>1
    <3>3. \A t \in Nat : \A p \in Node : Request(t, p) \in VoteReq
      BY <2>1 DEF VoteReq
    <3>4. Peers(n) \subseteq Node
      BY DEF Peers
    <3> HIDE DEF Request
    <3> QED BY <2>2, <3>1, <3>2, <3>3, <3>4
  <2>4. TypeOK'
    <3>1. /\ currentTerm' \in [Node -> Nat] /\ votedFor' \in [Node -> Node \cup {Nil}]
          /\ votesReceived' \in [Node -> SUBSET Node]
      BY <2>2 DEF TypeOK
    <3>2. role' \in [Node -> Role]
      BY <2>2 DEF TypeOK, Role, Candidate
    <3>3. State(currentTerm'[n], votedFor'[n], log'[n]) \in
            [currentTerm : Nat, votedFor : Node \cup {Nil}, log : Seq(Entry) \ {<<>>}]
      BY <2>2, <3>1 DEF TypeOK, State
    <3>4. disk' \in [Node -> [currentTerm : Nat, votedFor : Node \cup {Nil},
                              log : Seq(Entry) \ {<<>>}]]
      BY <2>2, <3>3 DEF TypeOK, PersistState
    <3> QED BY <2>2, <2>3, <3>1, <3>2, <3>4 DEF TypeOK, leaderVars, commitVars
  <2>5. DiskInSync'
    BY <2>2 DEF TypeOK, DiskInSync, PersistState
  <2>6. LogShape' /\ IndexIsPosition'
    BY <2>2 DEF LogShape, IndexIsPosition
  <2> QED BY <2>4, <2>5, <2>6
<1> QED BY <1>1, <1>2

\* HandleRequestVote persists the term and the vote its answer speaks of.
LEMMA RequestVoteStruct ==
  ASSUME StructInv, NEW n \in Node, NEW m \in voteReqs, HandleRequestVote(n, m)
  PROVE  StructInv'
<1> USE DEF StructInv
<1>1. m \in VoteReq
  BY DEF TypeOK
<1> DEFINE granted == m.term >= currentTerm[n] /\ CanVote(n, m) /\ LogUpToDate(log[n], m)
<1>2. granted \in BOOLEAN /\ VoteBefore(n, m) \in Node \cup {Nil}
  BY <1>1 DEF TypeOK, VoteBefore, VoteReq, CanVote, LogUpToDate
<1> HIDE DEF granted
<1>3. /\ currentTerm' = [currentTerm EXCEPT ![n] = IF m.term > @ THEN m.term ELSE @]
      /\ role' = [role EXCEPT ![n] = IF m.term > currentTerm[n] THEN Follower ELSE @]
      /\ votedFor' = [votedFor EXCEPT ![n] = IF granted THEN m.candidateId ELSE VoteBefore(n, m)]
      /\ UNCHANGED log
      /\ PersistState(n)
      /\ electionTimer' = [electionTimer EXCEPT ![n] = @ \/ granted]
      /\ voteReplies' = voteReplies \cup {VoteReply(n, m, granted)}
      /\ UNCHANGED <<leaderVars, commitVars, votesReceived, voteReqs, appendReqs,
                     appendReplies, crashes>>
  BY DEF HandleRequestVote, granted
<1>4. VoteReply(n, m, granted) \in VoteReplyMsg
  BY <1>1, <1>2, <1>3 DEF VoteReply, VoteReplyMsg, VoteReq, TypeOK
<1>5. TypeOK'
  BY <1>1, <1>2, <1>3, <1>4 DEF TypeOK, PersistState, State, leaderVars, commitVars, VoteReq,
                                Role, Follower
<1>6. DiskInSync'
  BY <1>3 DEF TypeOK, DiskInSync, PersistState
<1>7. LogShape' /\ IndexIsPosition'
  BY <1>3 DEF LogShape, IndexIsPosition
<1> QED BY <1>5, <1>6, <1>7

\* Counting an answer in startElection changes no persistent field.
LEMMA VoteReplyStruct ==
  ASSUME StructInv, NEW n \in Node, NEW m \in voteReplies, HandleVoteReply(n, m)
  PROVE  StructInv'
<1>1. m \in VoteReplyMsg
  BY DEF StructInv, TypeOK
<1>2. CASE m.term > currentTerm[n]
  <2>1. currentTerm[n] \in Nat /\ m.term \in Nat
    BY <1>1 DEF StructInv, TypeOK, VoteReplyMsg
  <2>2. StepDown(n, m.term)
    BY <1>2, <2>1 DEF HandleVoteReply
  <2> QED BY <2>1, <2>2, StepDownStruct
<1>3. CASE ~(m.term > currentTerm[n])
  <2>1. /\ votesReceived' = [votesReceived EXCEPT ![n] = @ \cup {m.from}]
        /\ UNCHANGED <<persistent, role, leaderVars, commitVars, electionTimer, messages, crashes>>
    BY <1>3 DEF HandleVoteReply
  <2>2. TypeOK'
    BY <1>1, <2>1 DEF StructInv, TypeOK, VoteReplyMsg, persistent, leaderVars, commitVars, messages
  <2> QED
    BY <2>1, <2>2 DEF StructInv, DiskInSync, LogShape, IndexIsPosition, persistent, messages
<1> QED BY <1>2, <1>3

\* A new leader starts with nextIndex one past its log (startElection 90-111).
LEMMA BecomeLeaderStruct ==
  ASSUME StructInv, NEW n \in Node, BecomeLeader(n)
  PROVE  StructInv'
<1>1. LastLogIndex(log[n]) \in Nat
  BY LastOfLog DEF StructInv, TypeOK
<1>2. TypeOK'
  BY <1>1 DEF StructInv, TypeOK, BecomeLeader, persistent, commitVars, messages, Role, Leader
<1> QED
  BY <1>2 DEF BecomeLeader, StructInv, DiskInSync, LogShape, IndexIsPosition, persistent, messages

\* Propose appends the entry at the position its index names, and persists it.
LEMMA ProposeStruct ==
  ASSUME StructInv, NEW n \in Node, NEW v \in Value, Propose(n, v)
  PROVE  StructInv'
<1> USE DEF StructInv
<1> DEFINE e == [index |-> LastLogIndex(log[n]) + 1, term |-> currentTerm[n], data |-> v]
<1>1. log[n] \in Seq(Entry) \ {<<>>} /\ LastLogIndex(log[n]) = Len(log[n]) - 1
  BY LogOK
<1>2. e \in Entry /\ e.index = Len(log[n]) /\ Len(log[n]) \in Nat \ {0}
  <2>1. Len(log[n]) \in Nat \ {0} /\ LastLogIndex(log[n]) \in Nat
    BY LogOK
  <2>2. LastLogIndex(log[n]) + 1 = Len(log[n])
    BY <1>1, <2>1
  <2>3. currentTerm[n] \in Nat
    BY DEF TypeOK
  <2> HIDE DEF StructInv
  <2> QED BY <2>1, <2>2, <2>3 DEF Entry
<1>3. log' = [log EXCEPT ![n] = Append(log[n], e)]
  BY DEF Propose
<1> HIDE DEF e
<1>4. /\ Append(log[n], e) \in Seq(Entry) \ {<<>>}
      /\ Len(Append(log[n], e)) = Len(log[n]) + 1
      /\ \A i \in 1..Len(log[n]) : Append(log[n], e)[i] = log[n][i]
      /\ Append(log[n], e)[Len(log[n]) + 1] = e
  <2> HIDE DEF StructInv
  <2>1. log[n] \in Seq(Entry) /\ e \in Entry
    BY <1>1, <1>2
  <2>2. Append(log[n], e) \in Seq(Entry) /\ Append(log[n], e) # <<>>
    BY <2>1, AppendProperties
  <2>3. Len(Append(log[n], e)) = Len(log[n]) + 1
    BY <2>1, AppendProperties
  <2>4. \A i \in 1..Len(log[n]) : Append(log[n], e)[i] = log[n][i]
    BY <2>1, AppendProperties
  <2>5. Append(log[n], e)[Len(log[n]) + 1] = e
    BY <2>1, AppendProperties
  <2> QED BY <2>2, <2>3, <2>4, <2>5
<1>5. TypeOK'
  <2>1. log' \in [Node -> Seq(Entry) \ {<<>>}]
    BY <1>3, <1>4 DEF TypeOK
  <2>2. /\ UNCHANGED <<currentTerm, votedFor>>
        /\ disk' = [disk EXCEPT ![n] = State(currentTerm'[n], votedFor'[n], log'[n])]
    BY DEF Propose, PersistState
  <2>3. State(currentTerm'[n], votedFor'[n], log'[n]) \in
          [currentTerm : Nat, votedFor : Node \cup {Nil}, log : Seq(Entry) \ {<<>>}]
    BY <2>1, <2>2 DEF TypeOK, State
  <2>4. disk' \in [Node -> [currentTerm : Nat, votedFor : Node \cup {Nil},
                            log : Seq(Entry) \ {<<>>}]]
    BY <2>2, <2>3 DEF TypeOK
  <2> QED BY <2>1, <2>2, <2>4 DEF TypeOK, Propose, leaderVars, commitVars, messages
<1>6. DiskInSync'
  BY <1>3 DEF TypeOK, DiskInSync, Propose, PersistState
<1>7. LogShape'
  <2>1. appendReqs' = appendReqs
    BY DEF Propose, messages
  <2>2. ASSUME NEW k \in Node PROVE log'[k][1].term = 0
    <3>1. log[k][1].term = 0
      BY DEF LogShape
    <3>2. CASE k = n
      <4>1. log'[k] = Append(log[n], e)
        BY <1>3, <3>2 DEF TypeOK
      <4>2. 1 \in 1..Len(log[n])
        BY <1>1
      <4> QED BY <1>4, <3>1, <3>2, <4>1, <4>2
    <3>3. CASE k # n
      BY <1>3, <3>1, <3>3 DEF TypeOK
    <3> QED BY <3>2, <3>3
  <2> QED BY <2>1, <2>2 DEF LogShape
<1>8. IndexIsPosition'
  <2> SUFFICES ASSUME NEW k \in Node, NEW i \in 1..Len(log'[k])
               PROVE  log'[k][i].index = i - 1
    BY DEF IndexIsPosition
  <2>1. CASE k # n
    BY <1>3, <2>1 DEF TypeOK, IndexIsPosition
  <2>2. CASE k = n
    <3>1. log'[n] = Append(log[n], e)
      BY <1>3 DEF TypeOK
    <3>2. CASE i = Len(log[n]) + 1
      BY <1>2, <1>4, <2>2, <3>1, <3>2
    <3>3. CASE i # Len(log[n]) + 1
      <4>1. i \in 1..Len(log[n]) /\ log'[n][i] = log[n][i]
        BY <1>2, <1>4, <2>2, <3>1, <3>3
      <4> QED BY <2>2, <4>1 DEF IndexIsPosition
    <3> QED BY <3>2, <3>3
  <2> QED BY <2>1, <2>2
<1> QED BY <1>5, <1>6, <1>7, <1>8

\* replicateToPeer sends entries whose indexes continue PrevLogIndex, and never
\* asks for a previous entry other than the sentinel at index 0.
LEMMA ReplicateStruct ==
  ASSUME StructInv, NEW n \in Node, NEW p \in Peers(n), ReplicateToPeer(n, p)
  PROVE  StructInv'
<1> USE DEF StructInv
<1> DEFINE i == NextIdx(n, p)
           q == AppendReq(n, p)
           L == log[n]
<1>1. i \in Nat \ {0} /\ p \in Node
  <2>1. nextIndex[n] \in [Peers(n) -> Nat]
    BY DEF TypeOK
  <2>2. nextIndex[n][p] \in Nat
    BY <2>1
  <2>3. i \in Nat \ {0}
    BY <2>2 DEF NextIdx
  <2> QED BY <2>3 DEF Peers
<1>2. L \in Seq(Entry) \ {<<>>} /\ Len(L) \in Nat \ {0} /\ \A j \in 1..Len(L) : L[j] \in Entry
  BY LogOK
<1>3. /\ q.entries = SubSeq(L, i + 1, Len(L)) /\ q.prevLogIndex = i - 1
      /\ q.prevLogTerm = IF i - 1 < Len(L) THEN L[i - 1 + 1].term ELSE 0
  BY DEF AppendReq, EntriesFrom
<1>4. L[1].term = 0 /\ \A j \in 1..Len(L) : L[j].index = j - 1
  BY DEF LogShape, IndexIsPosition
<1>5. /\ q.entries \in Seq(Entry)
      /\ Len(q.entries) = IF i + 1 <= Len(L) THEN Len(L) - i ELSE 0
      /\ \A j \in 1..Len(q.entries) : q.entries[j] = L[i + j]
  <2> HIDE DEF q, i, L
  <2>1. CASE i + 1 <= Len(L)
    <3>1. /\ SubSeq(L, i + 1, Len(L)) \in Seq(Entry)
          /\ Len(SubSeq(L, i + 1, Len(L))) = Len(L) - (i + 1) + 1
          /\ \A j \in 1..(Len(L) - (i + 1) + 1) : SubSeq(L, i + 1, Len(L))[j] = L[i + 1 + j - 1]
      BY <1>1, <1>2, <2>1, SubSeqProperties
    <3> QED BY <1>1, <1>2, <1>3, <2>1, <3>1
  <2>2. CASE ~(i + 1 <= Len(L))
    BY <1>1, <1>2, <1>3, <2>2
  <2> QED BY <2>1, <2>2
<1>6. \A j \in 1..Len(q.entries) : q.entries[j].index = q.prevLogIndex + j
  <2> HIDE DEF q, i, L
  <2> QED BY <1>1, <1>2, <1>3, <1>4, <1>5
<1>7. q.prevLogIndex = 0 => q.prevLogTerm = 0
  <2> HIDE DEF q, i, L
  <2>1. q.prevLogIndex = 0 => i - 1 + 1 = 1
    BY <1>1, <1>3
  <2> QED BY <1>1, <1>2, <1>3, <1>4, <2>1
<1>8. q.prevLogTerm \in Nat /\ q.prevLogIndex \in Nat
  <2> HIDE DEF q, i, L
  <2>1. CASE i - 1 < Len(L)
    <3>1. i - 1 + 1 \in 1..Len(L)
      BY <1>1, <1>2, <2>1
    <3> QED BY <1>1, <1>2, <1>3, <2>1, <3>1 DEF Entry
  <2>2. CASE ~(i - 1 < Len(L))
    BY <1>1, <1>3, <2>2
  <2> QED BY <2>1, <2>2
<1>9. q \in AppendReqMsg
  <2>1. q = [term |-> currentTerm[n], leaderId |-> n, to |-> p, prevLogIndex |-> q.prevLogIndex,
             prevLogTerm |-> q.prevLogTerm, entries |-> q.entries, leaderCommit |-> commitIndex[n]]
    BY DEF AppendReq
  <2>2. currentTerm[n] \in Nat /\ commitIndex[n] \in Nat /\ p \in Node
    BY <1>1 DEF TypeOK
  <2> HIDE DEF q
  <2> QED BY <1>5, <1>8, <2>1, <2>2 DEF AppendReqMsg
<1> HIDE DEF q, i, L
<1>10. /\ appendReqs' = appendReqs \cup {q}
       /\ UNCHANGED <<persistent, role, leaderVars, commitVars, votesReceived, electionTimer,
                      voteReqs, voteReplies, appendReplies, crashes>>
  BY DEF ReplicateToPeer, q
<1>11. TypeOK'
  BY <1>9, <1>10 DEF TypeOK, persistent, leaderVars, commitVars
<1>12. DiskInSync' /\ IndexIsPosition'
  BY <1>10 DEF DiskInSync, IndexIsPosition, persistent
<1>13. LogShape'
  BY <1>6, <1>7, <1>10 DEF LogShape, persistent
<1> QED BY <1>11, <1>12, <1>13

\* applyCommittedEntriesLocked hands over entries of the log it is given.
LEMMA ApplyUpToOK ==
  ASSUME TypeOK, NEW n \in Node, NEW l \in Seq(Entry), NEW c \in Nat, c < Len(l),
         ApplyUpTo(n, c, l)
  PROVE  /\ commitIndex' \in [Node -> Nat] /\ lastApplied' \in [Node -> Nat]
         /\ applied' \subseteq Entry
<1>1. \A j \in (lastApplied[n] + 1)..c : j + 1 \in 1..Len(l)
  <2>1. lastApplied[n] \in Nat
    BY DEF TypeOK
  <2>2. Len(l) \in Nat
    BY LenProperties
  <2> QED BY <2>1, <2>2
<1>2. {l[j + 1] : j \in (lastApplied[n] + 1)..c} \subseteq Entry
  BY <1>1, ElementOfSeq
<1>3. applied' \subseteq Entry
  BY <1>2 DEF TypeOK, ApplyUpTo
<1>4. commitIndex' \in [Node -> Nat] /\ lastApplied' \in [Node -> Nat]
  BY DEF TypeOK, ApplyUpTo
<1> QED BY <1>3, <1>4

\* Every accepting or rejecting path of HandleAppendEntries after line 137: the
\* request's term is adopted and some well-formed log is persisted.
LEMMA AdoptStruct ==
  ASSUME StructInv, NEW n \in Node, NEW m \in AppendReqMsg, AdoptLeader(n, m),
         NEW l \in Seq(Entry) \ {<<>>}, Positioned(l), l[1].term = 0,
         log' = [log EXCEPT ![n] = l], PersistState(n),
         appendReplies' \subseteq AppendReplyMsg,
         commitIndex' \in [Node -> Nat], lastApplied' \in [Node -> Nat], applied' \subseteq Entry,
         UNCHANGED <<leaderVars, votesReceived, voteReqs, voteReplies, appendReqs, crashes>>
  PROVE  StructInv'
<1> USE DEF StructInv
<1>1. /\ currentTerm' = [currentTerm EXCEPT ![n] = m.term]
      /\ role' = [role EXCEPT ![n] = IF StepsDownFor(n, m) THEN Follower ELSE @]
      /\ votedFor' = [votedFor EXCEPT ![n] = IF StepsDownFor(n, m) THEN Nil ELSE @]
      /\ electionTimer' = [electionTimer EXCEPT ![n] = TRUE]
  BY DEF AdoptLeader
<1>2. m.term \in Nat
  BY DEF AppendReqMsg
<1>3. TypeOK'
  BY <1>1, <1>2 DEF TypeOK, PersistState, State, leaderVars, Role, Follower
<1>4. DiskInSync'
  BY <1>1 DEF TypeOK, DiskInSync, PersistState
<1>5. LogShape' /\ IndexIsPosition'
  BY DEF TypeOK, LogShape, IndexIsPosition, Positioned
<1> QED BY <1>3, <1>4, <1>5

\* Every answer of HandleAppendEntries is well-formed.
LEMMA AppendReplyOK ==
  ASSUME TypeOK, NEW n \in Node, NEW m \in AppendReqMsg, NEW ok \in BOOLEAN
  PROVE  AppendReply(n, m, ok) \in AppendReplyMsg
<1>1. m.term \in Nat /\ m.leaderId \in Node /\ m.entries \in Seq(Entry) /\ currentTerm[n] \in Nat
  BY DEF TypeOK, AppendReqMsg
<1>2. (IF m.entries = <<>> THEN 0 ELSE m.entries[Len(m.entries)].index) \in Nat
  BY <1>1, LastOfLog DEF Entry
<1> QED BY <1>1, <1>2 DEF AppendReply, AppendReplyMsg

\* HandleAppendEntries never truncates the sentinel away: index 0 always agrees.
LEMMA AppendEntriesStruct ==
  ASSUME StructInv, NEW n \in Node, NEW m \in appendReqs, HandleAppendEntries(n, m)
  PROVE  StructInv'
<1> DEFINE prev == m.prevLogIndex
           L == log[n]
           rest == UNCHANGED <<leaderVars, votesReceived, voteReqs, voteReplies, appendReqs,
                               crashes>>
<1>1. /\ m \in AppendReqMsg /\ prev \in Nat /\ m.entries \in Seq(Entry) /\ m.leaderCommit \in Nat
      /\ TypeOK
  BY DEF StructInv, TypeOK, AppendReqMsg
<1>2. L \in Seq(Entry) \ {<<>>} /\ Len(L) \in Nat \ {0} /\ Positioned(L) /\ L[1].term = 0
  BY LogOK DEF StructInv, IndexIsPosition, LogShape, Positioned
<1>3. /\ prev = 0 => m.prevLogTerm = 0
      /\ \A i \in 1..Len(m.entries) : m.entries[i].index = prev + i
  BY DEF StructInv, LogShape
<1>4. AppendReply(n, m, TRUE) \in AppendReplyMsg /\ AppendReply(n, m, FALSE) \in AppendReplyMsg
  BY <1>1, AppendReplyOK
<1>5. rest
  BY DEF HandleAppendEntries
<1>6. CASE RejectStaleAppend(n, m) /\ appendReplies' = appendReplies \cup {AppendReply(n, m, FALSE)}
  <2>1. TypeOK'
    BY <1>1, <1>4, <1>5, <1>6 DEF RejectStaleAppend, TypeOK, persistent, leaderVars, commitVars
  <2> QED
    BY <1>5, <1>6, <2>1 DEF RejectStaleAppend, StructInv, DiskInSync, LogShape, IndexIsPosition,
                           persistent
<1>7. CASE /\ AdoptLeader(n, m) /\ PrevMissing(L, m)
           /\ UNCHANGED <<log, commitVars>> /\ PersistState(n)
           /\ appendReplies' = appendReplies \cup {AppendReply(n, m, FALSE)}
  <2>1. log' = [log EXCEPT ![n] = L]
    BY <1>1, <1>7 DEF TypeOK
  <2>2. /\ commitIndex' \in [Node -> Nat] /\ lastApplied' \in [Node -> Nat]
        /\ applied' \subseteq Entry /\ appendReplies' \subseteq AppendReplyMsg
    BY <1>1, <1>4, <1>7 DEF TypeOK, commitVars
  <2> HIDE DEF L
  <2> QED BY <1>1, <1>2, <1>5, <1>7, <2>1, <2>2, AdoptStruct
<1>8. CASE /\ AdoptLeader(n, m) /\ ~PrevMissing(L, m) /\ ~PrevAgrees(L, m)
           /\ log' = [log EXCEPT ![n] = SubSeq(@, 1, prev)] /\ PersistState(n)
           /\ UNCHANGED commitVars
           /\ appendReplies' = appendReplies \cup {AppendReply(n, m, FALSE)}
  <2> DEFINE l == SubSeq(L, 1, prev)
  <2>1. log' = [log EXCEPT ![n] = l]
    BY <1>8
  <2>2. prev # 0 /\ prev < Len(L)
    <3>1. ~(m.prevLogIndex >= Len(L)) /\ L[m.prevLogIndex + 1].term # m.prevLogTerm
      BY <1>8, Zenon DEF PrevMissing, PrevAgrees
    <3> HIDE DEF L
    <3>2. prev < Len(L)
      BY <1>1, <1>2, <3>1
    <3>3. prev # 0
      BY <1>2, <1>3, <3>1
    <3> QED BY <3>2, <3>3
  <2>3. /\ l \in Seq(Entry) /\ Len(l) = prev /\ \A i \in 1..prev : l[i] = L[i]
    <3> HIDE DEF L, prev
    <3> QED BY <1>1, <1>2, <2>2, SubSeqProperties
  <2> HIDE DEF l
  <2>4. l \in Seq(Entry) \ {<<>>} /\ Positioned(l) /\ l[1].term = 0
    <3>1. 1 \in 1..prev /\ prev \in Nat /\ \A i \in 1..prev : i \in 1..Len(L)
      BY <1>1, <1>2, <2>2
    <3>2. l # <<>>
      BY <2>2, <2>3
    <3>3. l[1].term = 0
      BY <1>2, <2>3, <3>1
    <3>4. Positioned(l)
      <4> HIDE DEF L, prev
      <4> QED BY <1>2, <2>3, <3>1 DEF Positioned
    <3> QED BY <2>3, <3>2, <3>3, <3>4
  <2>5. /\ commitIndex' \in [Node -> Nat] /\ lastApplied' \in [Node -> Nat]
        /\ applied' \subseteq Entry /\ appendReplies' \subseteq AppendReplyMsg
    BY <1>1, <1>4, <1>8 DEF TypeOK, commitVars
  <2> QED BY <1>1, <1>5, <1>8, <2>1, <2>4, <2>5, AdoptStruct
<1> DEFINE l == MergeEntries(L, prev, m.entries)
           last == LastLogIndex(log'[n])
           c == IF m.leaderCommit < last THEN m.leaderCommit ELSE last
<1>9. CASE /\ AdoptLeader(n, m) /\ ~PrevMissing(L, m) /\ PrevAgrees(L, m)
           /\ log' = [log EXCEPT ![n] = l] /\ PersistState(n)
           /\ \/ m.leaderCommit > commitIndex[n] /\ ApplyUpTo(n, c, log'[n])
              \/ m.leaderCommit <= commitIndex[n] /\ UNCHANGED commitVars
           /\ appendReplies' = appendReplies \cup Meaningful(AppendReply(n, m, TRUE))
  <2>1. prev < Len(L)
    <3>1. ~(m.prevLogIndex >= Len(L))
      BY <1>9, Zenon DEF PrevMissing
    <3> HIDE DEF L
    <3> QED BY <1>1, <1>2, <3>1
  <2>2. l \in Seq(Entry) /\ Len(l) >= prev + 1 /\ l[1] = L[1] /\ Positioned(l)
    <3> HIDE DEF L, prev
    <3>1. /\ l \in Seq(Entry) /\ Len(l) >= prev + 1
          /\ \A i \in 1..(prev + 1) : l[i] = L[i]
          /\ Positioned(L) /\ (\A i \in 1..Len(m.entries) : m.entries[i].index = prev + i)
               => Positioned(l)
      BY <1>1, <1>2, <2>1, MergeEntriesOK
    <3> HIDE DEF l
    <3>2. 1 \in 1..(prev + 1)
      BY <1>1
    <3>3. Positioned(l)
      BY <1>2, <1>3, <3>1
    <3> QED BY <3>1, <3>2, <3>3
  <2> HIDE DEF l, c, last
  <2>3. l \in Seq(Entry) \ {<<>>} /\ l[1].term = 0
    BY <1>1, <1>2, <2>2
  <2>4. log'[n] = l
    BY <1>1, <1>9 DEF TypeOK
  <2>5. last = Len(l) - 1 /\ Len(l) \in Nat \ {0}
    <3>1. last = l[Len(l)].index
      BY <2>4 DEF LastLogIndex, last
    <3>2. Len(l) \in Nat \ {0} /\ Len(l) \in 1..Len(l)
      BY <2>3, LenProperties, EmptySeq
    <3> QED BY <2>2, <3>1, <3>2 DEF Positioned
  <2>6. c \in Nat /\ c < Len(l)
    BY <1>1, <2>5 DEF c
  <2>7. commitIndex' \in [Node -> Nat] /\ lastApplied' \in [Node -> Nat] /\ applied' \subseteq Entry
    <3>1. CASE ApplyUpTo(n, c, l)
      BY <1>1, <2>2, <2>6, <3>1, ApplyUpToOK
    <3>2. CASE UNCHANGED commitVars
      BY <1>1, <3>2 DEF TypeOK, commitVars
    <3> QED BY <1>9, <2>4, <3>1, <3>2
  <2>8. appendReplies' \subseteq AppendReplyMsg
    BY <1>1, <1>4, <1>9 DEF Meaningful, TypeOK
  <2> QED BY <1>1, <1>5, <1>9, <2>2, <2>3, <2>7, <2>8, AdoptStruct
<1> QED
  BY <1>6, <1>7, <1>8, <1>9 DEF HandleAppendEntries

\* replicateToPeer never takes nextIndex below 1, nor commitIndex beyond the log.
LEMMA AppendReplyStruct ==
  ASSUME StructInv, NEW n \in Node, NEW m \in appendReplies, HandleAppendReply(n, m)
  PROVE  StructInv'
<1>1. /\ m.term \in Nat /\ m.from \in Node /\ m.lastNewEntryIndex \in Nat
      /\ currentTerm[n] \in Nat /\ TypeOK
  BY DEF StructInv, TypeOK, AppendReplyMsg
<1>2. nextIndex[n] \in [Peers(n) -> Nat] /\ matchIndex[n] \in [Peers(n) -> Nat]
  BY DEF StructInv, TypeOK
<1>3. CASE m.term > currentTerm[n]
  BY <1>1, <1>3, StepDownStruct DEF HandleAppendReply
<1>4. CASE ~(m.term > currentTerm[n])
  <2> DEFINE index(f, k) == [f EXCEPT ![n][m.from] = k]
  <2>1. UNCHANGED <<persistent, role, votesReceived, electionTimer, messages, crashes>>
    BY <1>4 DEF HandleAppendReply
  <2>2. ASSUME NEW f, DOMAIN f = Node, \A k \in Node : f[k] \in [Peers(k) -> Nat], NEW x \in Nat
        PROVE  /\ DOMAIN index(f, x) = Node
               /\ \A k \in Node : index(f, x)[k] \in [Peers(k) -> Nat]
    <3>1. index(f, x)[n] \in [Peers(n) -> Nat]
      BY <2>2
    <3>2. \A k \in Node : k # n => index(f, x)[k] = f[k]
      BY <2>2
    <3> QED BY <2>2, <3>1, <3>2
  <2> DEFINE goal == /\ DOMAIN nextIndex' = Node /\ DOMAIN matchIndex' = Node
                     /\ \A k \in Node : /\ nextIndex'[k] \in [Peers(k) -> Nat]
                                       /\ matchIndex'[k] \in [Peers(k) -> Nat]
                     /\ commitIndex' \in [Node -> Nat] /\ lastApplied' \in [Node -> Nat]
                     /\ applied' \subseteq Entry
  <2>3. ASSUME matchIndex' = index(matchIndex, AckedIndex(n, m)),
               nextIndex' = index(nextIndex, AckedIndex(n, m) + 1),
               MaybeAdvanceCommitIndex(n, matchIndex'[n])
        PROVE  goal
    <3> DEFINE S == Committable(n, matchIndex'[n])
    <3>1. /\ DOMAIN nextIndex' = Node /\ DOMAIN matchIndex' = Node
          /\ \A k \in Node : nextIndex'[k] \in [Peers(k) -> Nat] /\ matchIndex'[k] \in [Peers(k) -> Nat]
      <4>1. AckedIndex(n, m) \in Nat /\ AckedIndex(n, m) + 1 \in Nat
        BY <1>1 DEF AckedIndex
      <4>2. /\ DOMAIN nextIndex = Node /\ DOMAIN matchIndex = Node
            /\ \A k \in Node : nextIndex[k] \in [Peers(k) -> Nat]
            /\ \A k \in Node : matchIndex[k] \in [Peers(k) -> Nat]
        BY <1>1 DEF TypeOK
      <4> HIDE DEF index
      <4>3. DOMAIN nextIndex' = Node /\ \A k \in Node : nextIndex'[k] \in [Peers(k) -> Nat]
        BY <2>2, <2>3, <4>1, <4>2
      <4>4. DOMAIN matchIndex' = Node /\ \A k \in Node : matchIndex'[k] \in [Peers(k) -> Nat]
        BY <2>2, <2>3, <4>1, <4>2
      <4> QED BY <4>3, <4>4
    <3>2. CASE S = {}
      BY <1>1, <2>3, <3>1, <3>2 DEF MaybeAdvanceCommitIndex, TypeOK, commitVars
    <3>3. CASE S # {}
      <4> DEFINE k == Len(log[n]) - 1
      <4>1. /\ log[n] \in Seq(Entry) /\ LastLogIndex(log[n]) = k /\ k \in Nat
            /\ Len(log[n]) \in Nat
        BY LogOK
      <4>2. S \in SUBSET (0..k)
        <5>1. commitIndex[n] \in Nat
          BY <1>1 DEF TypeOK
        <5>2. S \subseteq (commitIndex[n] + 1)..LastLogIndex(log[n])
          BY DEF Committable
        <5> HIDE DEF S, k
        <5> QED BY <4>1, <5>1, <5>2
      <4>3. Max(S) \in S
        <5> HIDE DEF S, k
        <5> QED BY <3>3, <4>1, <4>2, MaxOfIndexes
      <4>4. Max(S) \in Nat /\ Max(S) < Len(log[n])
        <5>1. Max(S) \in 0..k
          BY <4>2, <4>3
        <5> HIDE DEF S
        <5> QED BY <4>1, <5>1
      <4>5. ApplyUpTo(n, Max(S), log[n])
        BY <2>3, <3>3 DEF MaybeAdvanceCommitIndex
      <4> HIDE DEF S
      <4> QED BY <1>1, <3>1, <4>1, <4>4, <4>5, ApplyUpToOK
    <3> QED BY <3>2, <3>3
  <2>4. ASSUME CanBackUp(n, m.from),
               nextIndex' = [nextIndex EXCEPT ![n][m.from] = @ - 1],
               UNCHANGED <<matchIndex, commitVars>>
        PROVE  goal
    <3>1. nextIndex'[n] \in [Peers(n) -> Nat]
      <4>1. nextIndex'[n] = [nextIndex[n] EXCEPT ![m.from] = @ - 1]
        BY <1>1, <2>4 DEF TypeOK
      <4>2. CASE m.from \in Peers(n)
        <5>1. nextIndex[n][m.from] - 1 \in Nat
          BY <1>2, <2>4, <4>2 DEF CanBackUp
        <5> QED BY <1>2, <4>1, <5>1
      <4>3. CASE m.from \notin Peers(n)
        BY <1>2, <4>1, <4>3
      <4> QED BY <4>2, <4>3
    <3>2. DOMAIN nextIndex' = Node /\ \A k \in Node : k # n => nextIndex'[k] = nextIndex[k]
      BY <1>1, <2>4 DEF TypeOK
    <3>3. \A k \in Node : nextIndex'[k] \in [Peers(k) -> Nat]
      BY <1>1, <3>1, <3>2 DEF TypeOK
    <3> QED BY <1>1, <2>4, <3>2, <3>3 DEF TypeOK, commitVars
  <2>5. goal
    BY <1>4, <2>3, <2>4 DEF HandleAppendReply
  <2>6. TypeOK'
    BY <1>1, <2>1, <2>5 DEF TypeOK, persistent, messages
  <2> QED
    BY <2>1, <2>6 DEF StructInv, DiskInSync, LogShape, IndexIsPosition, persistent, messages
<1> QED BY <1>3, <1>4

\* A node killed at any moment comes back well-formed (persistStateLocked).
LEMMA CrashStruct ==
  ASSUME StructInv, NEW n \in Node, Restart(n) \/ CrashInHandler(n)
  PROVE  StructInv'
<1>1. CASE Restart(n)
  <2>1. Boot(n, State(currentTerm[n], votedFor[n], log[n]))
    BY <1>1 DEF Restart, StructInv, DiskInSync
  <2>2. currentTerm[n] \in Nat /\ votedFor[n] \in Node \cup {Nil}
    BY DEF StructInv, TypeOK
  <2> QED BY <2>1, <2>2, BootStruct
<1>2. CASE CrashInHandler(n)
  <2>1. PICK m \in voteReqs \cup appendReqs : Boot(n, State(m.term, Nil, log[n]))
    BY <1>2 DEF CrashInHandler
  <2>2. m.term \in Nat
    BY DEF StructInv, TypeOK, VoteReq, AppendReqMsg
  <2> QED BY <2>1, <2>2, BootStruct
<1> QED BY <1>1, <1>2

\* Every step of every node, crashes included, keeps types, disk and positions.
LEMMA NextStruct == StructInv /\ [Next]_vars => StructInv'
<1> SUFFICES ASSUME StructInv, [Next]_vars PROVE StructInv'
  OBVIOUS
<1>1. CASE UNCHANGED vars
  BY <1>1 DEF vars, persistent, leaderVars, commitVars, messages,
              StructInv, TypeOK, DiskInSync, LogShape, IndexIsPosition
<1>2. ASSUME NEW n \in Node, Restart(n) \/ CrashInHandler(n)
      PROVE  StructInv'
  BY <1>2, CrashStruct
<1>3. ASSUME NEW n \in Node, OnElectionTimeout(n)
      PROVE  StructInv'
  BY <1>3, ElectionTimeoutStruct
<1>4. ASSUME NEW n \in Node, NEW m \in voteReqs, HandleRequestVote(n, m)
      PROVE  StructInv'
  BY <1>4, RequestVoteStruct
<1>5. ASSUME NEW n \in Node, NEW m \in voteReplies, HandleVoteReply(n, m)
      PROVE  StructInv'
  BY <1>5, VoteReplyStruct
<1>6. ASSUME NEW n \in Node, BecomeLeader(n)
      PROVE  StructInv'
  BY <1>6, BecomeLeaderStruct
<1>7. ASSUME NEW n \in Node, NEW v \in Value, Propose(n, v)
      PROVE  StructInv'
  BY <1>7, ProposeStruct
<1>8. ASSUME NEW n \in Node, NEW p \in Peers(n), ReplicateToPeer(n, p)
      PROVE  StructInv'
  BY <1>8, ReplicateStruct
<1>9. ASSUME NEW n \in Node, NEW m \in appendReqs, HandleAppendEntries(n, m)
      PROVE  StructInv'
  BY <1>9, AppendEntriesStruct
<1>10. ASSUME NEW n \in Node, NEW m \in appendReplies, HandleAppendReply(n, m)
       PROVE  StructInv'
  BY <1>10, AppendReplyStruct
<1> QED
  BY <1>1, <1>2, <1>3, <1>4, <1>5, <1>6, <1>7, <1>8, <1>9, <1>10 DEF Next

\* Types, persistence and log positions hold in every reachable state.
THEOREM StructCorrect == Spec => []StructInv
BY InitStruct, NextStruct, PTL DEF Spec

\* No field of a node or message ever leaves its Go type and no log becomes
\* empty, in clusters of any size (node.go, election.go, replication.go).
THEOREM TypeCorrect == Spec => []TypeOK
<1>1. StructInv => TypeOK
  BY DEF StructInv
<1> QED BY <1>1, StructCorrect, PTL

\* In clusters and logs of any size the entry with index i is at position i of
\* its slice, through every truncation, merge and restart.
THEOREM PositionsCorrect == Spec => []IndexIsPosition
<1>1. StructInv => IndexIsPosition
  BY DEF StructInv
<1> QED BY <1>1, StructCorrect, PTL

=============================================================================
