--------------------------- MODULE ElectionProofs ---------------------------
(* At most one leader per term, for every cluster and every bound.         *)
EXTENDS RaftProofs

\* Two winners of one term are one node: their quorums of votes that cannot be
\* taken back share a voter.
LEMMA OneWinner ==
  ASSUME StructInv, VoteInv, WinnerInv,
         NEW c \in Node, NEW d \in Node, NEW t, Won(c, t), Won(d, t)
  PROVE  c = d
<1>1. PICK m \in voteReqs : m.candidateId = c /\ m.term = t
  BY DEF Won, Campaigned
<1>2. PICK k \in voteReqs : k.candidateId = d /\ k.term = t
  BY DEF Won, Campaigned
<1>3. HasQuorum(FirmVotes(c, t)) /\ HasQuorum(FirmVotes(d, t))
  BY <1>1, <1>2 DEF WinnerInv
<1>4. FirmVotes(c, t) \in SUBSET Node /\ FirmVotes(d, t) \in SUBSET Node
  BY DEF FirmVotes, VotesFor
<1>5. PICK v \in Node : v \in FirmVotes(c, t) /\ v \in FirmVotes(d, t)
  BY <1>3, <1>4, QuorumsIntersect
<1>6. \A r \in Granted : /\ ~(r.from = c /\ r.reqTerm = t)
                         /\ ~(r.from = d /\ r.reqTerm = t)
  BY <1>1, <1>2 DEF WinnerInv
<1>7. /\ v = c \/ \E r \in Granted : r.from = v /\ r.to = c /\ r.reqTerm = t
      /\ v = d \/ \E r \in Granted : r.from = v /\ r.to = d /\ r.reqTerm = t
      /\ v = c \/ ~Campaigned(v, t)
  BY <1>5 DEF FirmVotes, VotesFor
<1>8. CASE v = c \/ v = d
  BY <1>6, <1>7, <1>8
<1>9. CASE v # c /\ v # d
  <2>1. PICK r \in Granted : r.from = v /\ r.to = c /\ r.reqTerm = t
    BY <1>7, <1>9
  <2>2. PICK s \in Granted : s.from = v /\ s.to = d /\ s.reqTerm = t
    BY <1>7, <1>9
  <2> QED BY <1>7, <1>9, <2>1, <2>2 DEF VoteInv
<1> QED BY <1>8, <1>9

\* Before the first timeout nobody has campaigned, voted or led.
LEMMA InitElection == Init => ElectionInv
<1> SUFFICES ASSUME Init PROVE ElectionInv
  OBVIOUS
<1>1. voteReqs = {} /\ Granted = {} /\ appendReqs = {}
  BY DEF Init, Granted
<1>2. \A n \in Node : role[n] = Follower
  BY DEF Init
<1>3. \A n, t : ~Campaigned(n, t)
  BY <1>1 DEF Campaigned
<1> QED BY <1>1, <1>2, <1>3 DEF ElectionInv, CampaignInv, VoteInv, LeaderInv, WinnerInv,
                                Follower, Candidate, Leader

\* What the invariant is made of depends on the messages only.
LEMMA SameElections ==
  ASSUME voteReqs' = voteReqs, Granted' = Granted
  PROVE  /\ \A k, t : Campaigned(k, t)' = Campaigned(k, t)
         /\ \A k, t : VotesFor(k, t)' = VotesFor(k, t)
         /\ \A k, t : FirmVotes(k, t)' = FirmVotes(k, t)
         /\ \A k, t : Won(k, t)' = Won(k, t)
<1>1. \A k, t : Campaigned(k, t)' = Campaigned(k, t)
  BY DEF Campaigned
<1>2. \A k, t : VotesFor(k, t)' = VotesFor(k, t)
  BY DEF VotesFor
<1>3. \A k, t : FirmVotes(k, t)' = FirmVotes(k, t)
  BY <1>1, <1>2 DEF FirmVotes
<1>4. \A k, t : Won(k, t)' = Won(k, t)
  BY <1>1, <1>2 DEF Won, HasQuorum
<1> QED BY <1>1, <1>2, <1>3, <1>4

\* A step of n that casts no vote, starts no election and sends no entries.  Its
\* vote is kept, or dropped with a later term, or dropped by a candidate that
\* heard from the leader of its term (HandleAppendEntries lines 130-133).
LEMMA FollowerStep ==
  ASSUME StructInv, ElectionInv, NEW n \in Node, NEW T \in Nat, NEW v, NEW r,
         voteReqs' = voteReqs, Granted' = Granted, appendReqs' = appendReqs,
         currentTerm' = [currentTerm EXCEPT ![n] = T],
         votedFor' = [votedFor EXCEPT ![n] = v],
         role' = [role EXCEPT ![n] = r],
         \A k \in Node \ {n} : votesReceived'[k] = votesReceived[k],
         \/ r = Follower
         \/ /\ r = role[n] /\ v = votedFor[n] /\ T = currentTerm[n]
            /\ votesReceived'[n] = votesReceived[n],
         \/ T > currentTerm[n] /\ v = Nil
         \/ T = currentTerm[n] /\ v = votedFor[n]
         \/ /\ T = currentTerm[n] /\ v = Nil /\ role[n] = Candidate
            /\ \E q \in appendReqs : q.term = T /\ q.to = n
  PROVE  ElectionInv'
<1>1. /\ \A k, t : Campaigned(k, t)' = Campaigned(k, t)
      /\ \A k, t : VotesFor(k, t)' = VotesFor(k, t)
      /\ \A k, t : FirmVotes(k, t)' = FirmVotes(k, t)
      /\ \A k, t : Won(k, t)' = Won(k, t)
  BY SameElections
<1>2. \A t : LeaderKnown(t)' = LeaderKnown(t)
  BY DEF LeaderKnown
<1>3. /\ \A k \in Node : currentTerm[k] \in Nat /\ currentTerm'[k] \in Nat
      /\ \A k \in Node : k # n => /\ currentTerm'[k] = currentTerm[k] /\ votedFor'[k] = votedFor[k]
                                  /\ role'[k] = role[k]
      /\ currentTerm'[n] = T /\ votedFor'[n] = v /\ role'[n] = r
      /\ \A k \in Node : currentTerm[k] <= currentTerm'[k]
  BY DEF StructInv, TypeOK
<1>4. /\ \A m \in voteReqs : m.candidateId \in Node /\ m.term \in Nat
      /\ \A s \in Granted : s.from \in Node /\ s.to \in Node /\ s.reqTerm \in Nat
      /\ \A q \in appendReqs : q.leaderId \in Node
  BY DEF StructInv, TypeOK, VoteReq, Granted, VoteReplyMsg, AppendReqMsg
<1>5. \A k \in Node, t \in Nat : Campaigned(k, t) => t <= currentTerm[k]
  BY <1>4 DEF ElectionInv, CampaignInv, Campaigned
<1>6. CampaignInv'
  <2>1. \A m \in voteReqs : m.term <= currentTerm'[m.candidateId] /\ m.to # m.candidateId
    BY <1>3, <1>4 DEF ElectionInv, CampaignInv
  <2>2. role'[n] # Follower => Campaigned(n, T) /\ votedFor'[n] = n
    BY <1>3 DEF ElectionInv, CampaignInv
  <2>3. Campaigned(n, T) /\ votedFor'[n] # n => LeaderKnown(T)
    BY <1>3, <1>5 DEF ElectionInv, CampaignInv, LeaderKnown
  <2>4. \A k \in Node : k # n => \A t \in {currentTerm'[k]} :
          /\ role'[k] # Follower => Campaigned(k, t) /\ votedFor'[k] = k
          /\ Campaigned(k, t) /\ votedFor'[k] # k => LeaderKnown(t)
    BY <1>3 DEF ElectionInv, CampaignInv
  <2> QED BY <1>1, <1>2, <1>3, <2>1, <2>2, <2>3, <2>4 DEF CampaignInv
<1>7. VoteInv'
  <2> SUFFICES ASSUME NEW s \in Granted
               PROVE  /\ s.reqTerm <= currentTerm'[s.from]
                      /\ ~Campaigned(s.from, s.reqTerm) =>
                           (currentTerm'[s.from] = s.reqTerm => votedFor'[s.from] = s.to)
    BY <1>1, <1>2 DEF ElectionInv, VoteInv
  <2>1. s.reqTerm <= currentTerm[s.from] /\ s.from \in Node /\ s.reqTerm \in Nat
    BY <1>4 DEF ElectionInv, VoteInv
  <2>2. s.reqTerm <= currentTerm'[s.from]
    BY <1>3, <2>1
  <2>3. ASSUME ~Campaigned(s.from, s.reqTerm), currentTerm'[s.from] = s.reqTerm
        PROVE  votedFor'[s.from] = s.to
    <3>1. currentTerm[s.from] = s.reqTerm
      BY <1>3, <2>1, <2>3
    <3>2. votedFor[s.from] = s.to
      BY <2>3, <3>1 DEF ElectionInv, VoteInv
    <3>3. role[s.from] # Candidate
      BY <2>1, <2>3, <3>1 DEF ElectionInv, CampaignInv, Follower, Candidate
    <3> QED BY <1>3, <2>1, <2>3, <3>1, <3>2, <3>3
  <2> QED BY <2>2, <2>3
<1>8. LeaderInv'
  <2>1. \A k \in Node : \A t \in {currentTerm'[k]} :
          /\ role'[k] = Leader => Won(k, t)
          /\ role'[k] = Candidate => votesReceived'[k] \subseteq VotesFor(k, t)
    BY <1>3 DEF ElectionInv, LeaderInv, Follower, Candidate, Leader
  <2> QED BY <1>1, <2>1 DEF ElectionInv, LeaderInv
<1>9. WinnerInv'
  <2> SUFFICES ASSUME NEW m \in voteReqs, Won(m.candidateId, m.term),
                      currentTerm'[m.candidateId] = m.term
               PROVE  votedFor'[m.candidateId] = m.candidateId
    BY <1>1 DEF ElectionInv, WinnerInv, HasQuorum
  <2>1. m.candidateId \in Node /\ m.term \in Nat /\ m.term <= currentTerm[m.candidateId]
    BY <1>4 DEF ElectionInv, CampaignInv
  <2>2. currentTerm[m.candidateId] = m.term
    BY <1>3, <2>1
  <2>3. votedFor[m.candidateId] = m.candidateId
    BY <2>2 DEF ElectionInv, WinnerInv
  <2>4. ASSUME m.candidateId = n, NEW q \in appendReqs, q.term = T, q.to = n
        PROVE  FALSE
    <3>1. Won(q.leaderId, T) /\ q.leaderId # n /\ q.leaderId \in Node
      BY <1>4, <2>4 DEF ElectionInv, LeaderInv
    <3>2. Won(n, T)
      BY <1>3, <2>4
    <3> QED BY <3>1, <3>2, OneWinner DEF ElectionInv
  <2> QED BY <1>3, <2>1, <2>2, <2>3, <2>4
<1> QED BY <1>6, <1>7, <1>8, <1>9 DEF ElectionInv

\* A step that no election sees: nothing of what the invariant is about changes.
LEMMA ElectionStutter ==
  ASSUME StructInv, ElectionInv, voteReqs' = voteReqs, Granted' = Granted,
         appendReqs' = appendReqs, UNCHANGED <<currentTerm, votedFor, role, votesReceived>>
  PROVE  ElectionInv'
<1>1. /\ \A k, t : Campaigned(k, t)' = Campaigned(k, t)
      /\ \A k, t : VotesFor(k, t)' = VotesFor(k, t)
      /\ \A k, t : FirmVotes(k, t)' = FirmVotes(k, t)
      /\ \A k, t : Won(k, t)' = Won(k, t)
  BY SameElections
<1>2. \A t : LeaderKnown(t)' = LeaderKnown(t)
  BY DEF LeaderKnown
<1>3. CampaignInv' /\ VoteInv'
  BY <1>1, <1>2 DEF ElectionInv, CampaignInv, VoteInv
<1>4. LeaderInv' /\ WinnerInv'
  BY <1>1 DEF ElectionInv, LeaderInv, WinnerInv, HasQuorum
<1> QED BY <1>3, <1>4 DEF ElectionInv

\* The answers of higher terms in startElection and replicateToPeer.
LEMMA StepDownElection ==
  ASSUME StructInv, ElectionInv, NEW n \in Node, NEW term \in Nat, term > currentTerm[n],
         StepDown(n, term)
  PROVE  ElectionInv'
<1>1. voteReqs' = voteReqs /\ Granted' = Granted /\ appendReqs' = appendReqs
  BY DEF StepDown, messages, Granted
<1>2. /\ currentTerm' = [currentTerm EXCEPT ![n] = term]
      /\ votedFor' = [votedFor EXCEPT ![n] = Nil]
      /\ role' = [role EXCEPT ![n] = Follower]
      /\ votesReceived' = votesReceived
  BY DEF StepDown
<1> QED BY <1>1, <1>2, FollowerStep

\* A restart finds the vote of the current term on disk; a crash inside a
\* handler loses it only as the handler itself would have.
LEMMA CrashElection ==
  ASSUME StructInv, ElectionInv, NEW n \in Node, Restart(n) \/ CrashInHandler(n)
  PROVE  ElectionInv'
<1>1. ASSUME NEW term \in Nat, NEW vote, Boot(n, State(term, vote, log[n])),
             \/ term > currentTerm[n] /\ vote = Nil
             \/ term = currentTerm[n] /\ vote = votedFor[n]
             \/ /\ term = currentTerm[n] /\ vote = Nil /\ role[n] = Candidate
                /\ \E q \in appendReqs : q.term = term /\ q.to = n
      PROVE  ElectionInv'
  <2>1. voteReqs' = voteReqs /\ Granted' = Granted /\ appendReqs' = appendReqs
    BY <1>1 DEF Boot, messages, Granted
  <2>2. /\ currentTerm' = [currentTerm EXCEPT ![n] = term]
        /\ votedFor' = [votedFor EXCEPT ![n] = vote]
        /\ role' = [role EXCEPT ![n] = Follower]
        /\ \A k \in Node \ {n} : votesReceived'[k] = votesReceived[k]
    BY <1>1 DEF Boot, State, StructInv, TypeOK
  <2> QED BY <1>1, <2>1, <2>2, FollowerStep
<1>2. CASE Restart(n)
  <2>1. Boot(n, State(currentTerm[n], votedFor[n], log[n])) /\ currentTerm[n] \in Nat
    BY <1>2 DEF Restart, StructInv, TypeOK, DiskInSync
  <2> QED BY <1>1, <2>1
<1>3. CASE CrashInHandler(n)
  <2>1. PICK m \in voteReqs \cup appendReqs :
           /\ m.to = n
           /\ m.term > currentTerm[n] \/ (m \in appendReqs /\ StepsDownFor(n, m))
           /\ Boot(n, State(m.term, Nil, log[n]))
    BY <1>3 DEF CrashInHandler
  <2>2. m.term \in Nat
    BY DEF StructInv, TypeOK, VoteReq, AppendReqMsg
  <2> QED BY <1>1, <2>1, <2>2 DEF StepsDownFor
<1> QED BY <1>2, <1>3

\* startElection counts only votes granted in the candidate's own current term.
LEMMA VoteReplyElection ==
  ASSUME StructInv, ElectionInv, NEW n \in Node, NEW m \in voteReplies, HandleVoteReply(n, m)
  PROVE  ElectionInv'
<1>1. m.term \in Nat /\ m.from \in Node /\ currentTerm[n] \in Nat /\ m.voteGranted \in BOOLEAN
  BY DEF StructInv, TypeOK, VoteReplyMsg
<1>2. CASE m.term > currentTerm[n]
  BY <1>1, <1>2, StepDownElection DEF HandleVoteReply
<1>3. CASE ~(m.term > currentTerm[n])
  <2>1. /\ m.to = n /\ role[n] = Candidate /\ currentTerm[n] = m.reqTerm /\ m.voteGranted
        /\ votesReceived' = [votesReceived EXCEPT ![n] = @ \cup {m.from}]
        /\ UNCHANGED <<persistent, role, messages>>
    BY <1>3 DEF HandleVoteReply
  <2>2. /\ voteReqs' = voteReqs /\ Granted' = Granted /\ appendReqs' = appendReqs
        /\ UNCHANGED <<currentTerm, votedFor, role>>
    BY <2>1 DEF messages, persistent, Granted
  <2>3. /\ \A k, t : Campaigned(k, t)' = Campaigned(k, t)
        /\ \A k, t : VotesFor(k, t)' = VotesFor(k, t)
        /\ \A k, t : FirmVotes(k, t)' = FirmVotes(k, t)
        /\ \A k, t : Won(k, t)' = Won(k, t)
    BY <2>2, SameElections
  <2>4. \A t : LeaderKnown(t)' = LeaderKnown(t)
    BY <2>2 DEF LeaderKnown
  <2>5. CampaignInv' /\ VoteInv' /\ WinnerInv'
    BY <2>2, <2>3, <2>4 DEF ElectionInv, CampaignInv, VoteInv, WinnerInv, HasQuorum
  <2>6. m.from \in VotesFor(n, currentTerm[n])
    BY <1>1, <2>1 DEF VotesFor, Granted
  <2>7. /\ \A k \in Node : k # n => votesReceived'[k] = votesReceived[k]
        /\ votesReceived'[n] = votesReceived[n] \cup {m.from}
    BY <2>1 DEF StructInv, TypeOK
  <2>8. LeaderInv'
    BY <2>2, <2>3, <2>6, <2>7 DEF ElectionInv, LeaderInv
  <2> QED BY <2>5, <2>8 DEF ElectionInv
<1> QED BY <1>2, <1>3

\* startElection makes a candidate leader only on a quorum of real votes.
LEMMA BecomeLeaderElection ==
  ASSUME StructInv, ElectionInv, NEW n \in Node, BecomeLeader(n)
  PROVE  ElectionInv'
<1>1. /\ role[n] = Candidate /\ HasQuorum(votesReceived[n])
      /\ role' = [role EXCEPT ![n] = Leader]
      /\ UNCHANGED <<persistent, votesReceived, messages>>
  BY DEF BecomeLeader
<1>2. /\ voteReqs' = voteReqs /\ Granted' = Granted /\ appendReqs' = appendReqs
      /\ UNCHANGED <<currentTerm, votedFor, votesReceived>>
  BY <1>1 DEF messages, persistent, Granted
<1>3. /\ \A k, t : Campaigned(k, t)' = Campaigned(k, t)
      /\ \A k, t : VotesFor(k, t)' = VotesFor(k, t)
      /\ \A k, t : FirmVotes(k, t)' = FirmVotes(k, t)
      /\ \A k, t : Won(k, t)' = Won(k, t)
  BY <1>2, SameElections
<1>4. \A t : LeaderKnown(t)' = LeaderKnown(t)
  BY <1>2 DEF LeaderKnown
<1>5. role'[n] = Leader /\ \A k \in Node : k # n => role'[k] = role[k]
  BY <1>1 DEF StructInv, TypeOK
<1>6. CampaignInv'
  BY <1>1, <1>2, <1>3, <1>4, <1>5 DEF ElectionInv, CampaignInv, Follower, Candidate
<1>7. VoteInv' /\ WinnerInv'
  BY <1>2, <1>3, <1>4 DEF ElectionInv, VoteInv, WinnerInv, HasQuorum
<1>8. Won(n, currentTerm[n])
  <2>1. votesReceived[n] \subseteq VotesFor(n, currentTerm[n])
    BY <1>1 DEF ElectionInv, LeaderInv
  <2>2. VotesFor(n, currentTerm[n]) \in SUBSET Node
    BY DEF VotesFor
  <2>3. HasQuorum(VotesFor(n, currentTerm[n]))
    BY <1>1, <2>1, <2>2, QuorumGrows
  <2>4. Campaigned(n, currentTerm[n])
    BY <1>1 DEF ElectionInv, CampaignInv, Follower, Candidate
  <2> QED BY <2>3, <2>4 DEF Won
<1>9. LeaderInv'
  BY <1>2, <1>3, <1>5, <1>8 DEF ElectionInv, LeaderInv, Leader, Candidate
<1> QED BY <1>6, <1>7, <1>9 DEF ElectionInv

\* Only a node that won its term sends entries (replicateToPeer lines 31-34).
LEMMA ReplicateElection ==
  ASSUME StructInv, ElectionInv, NEW n \in Node, NEW p \in Peers(n), ReplicateToPeer(n, p)
  PROVE  ElectionInv'
<1> DEFINE q == AppendReq(n, p)
<1>1. /\ role[n] = Leader /\ appendReqs' = appendReqs \cup {q}
      /\ UNCHANGED <<currentTerm, votedFor, role, votesReceived, voteReqs, voteReplies>>
  BY DEF ReplicateToPeer, persistent
<1>2. voteReqs' = voteReqs /\ Granted' = Granted
  BY <1>1 DEF Granted
<1>3. /\ \A k, t : Campaigned(k, t)' = Campaigned(k, t)
      /\ \A k, t : VotesFor(k, t)' = VotesFor(k, t)
      /\ \A k, t : FirmVotes(k, t)' = FirmVotes(k, t)
      /\ \A k, t : Won(k, t)' = Won(k, t)
  BY <1>2, SameElections
<1>4. \A t : LeaderKnown(t) => LeaderKnown(t)'
  BY <1>1 DEF LeaderKnown
<1>5. q.leaderId = n /\ q.to # n /\ q.term = currentTerm[n]
  BY DEF AppendReq, Peers
<1> HIDE DEF q
<1>6. CampaignInv'
  BY <1>1, <1>2, <1>3, <1>4 DEF ElectionInv, CampaignInv
<1>7. VoteInv'
  BY <1>1, <1>2, <1>3, <1>4 DEF ElectionInv, VoteInv
<1>8. WinnerInv'
  BY <1>1, <1>2, <1>3 DEF ElectionInv, WinnerInv, HasQuorum
<1>9. LeaderInv'
  <2>1. Won(n, currentTerm[n])
    BY <1>1 DEF ElectionInv, LeaderInv
  <2> QED BY <1>1, <1>3, <1>5, <2>1 DEF ElectionInv, LeaderInv
<1> QED BY <1>6, <1>7, <1>8, <1>9 DEF ElectionInv

\* HandleAppendEntries may forget a vote, but never one that could still count.
LEMMA AppendEntriesElection ==
  ASSUME StructInv, ElectionInv, NEW n \in Node, NEW m \in appendReqs, HandleAppendEntries(n, m)
  PROVE  ElectionInv'
<1>1. /\ m.to = n /\ UNCHANGED <<votesReceived, voteReqs, voteReplies, appendReqs>>
      /\ RejectStaleAppend(n, m) \/ AdoptLeader(n, m)
  BY DEF HandleAppendEntries
<1>2. voteReqs' = voteReqs /\ Granted' = Granted /\ appendReqs' = appendReqs
  BY <1>1 DEF Granted
<1>3. CASE RejectStaleAppend(n, m)
  <2>1. UNCHANGED <<currentTerm, votedFor, role, votesReceived>>
    BY <1>1, <1>3 DEF RejectStaleAppend, persistent
  <2> QED BY <1>2, <2>1, ElectionStutter
<1>4. CASE AdoptLeader(n, m)
  <2> DEFINE v == IF StepsDownFor(n, m) THEN Nil ELSE votedFor[n]
             r == IF StepsDownFor(n, m) THEN Follower ELSE role[n]
  <2>1. m.term \in Nat /\ currentTerm[n] \in Nat
    BY DEF StructInv, TypeOK, AppendReqMsg
  <2>2. /\ m.term >= currentTerm[n]
        /\ currentTerm' = [currentTerm EXCEPT ![n] = m.term]
        /\ votedFor' = [votedFor EXCEPT ![n] = v]
        /\ role' = [role EXCEPT ![n] = r]
    BY <1>4 DEF AdoptLeader
  <2>3. /\ \/ r = Follower
           \/ /\ r = role[n] /\ v = votedFor[n] /\ m.term = currentTerm[n]
              /\ votesReceived'[n] = votesReceived[n]
        /\ \/ m.term > currentTerm[n] /\ v = Nil
           \/ m.term = currentTerm[n] /\ v = votedFor[n]
           \/ /\ m.term = currentTerm[n] /\ v = Nil /\ role[n] = Candidate
              /\ \E q \in appendReqs : q.term = m.term /\ q.to = n
    <3>1. CASE ~StepsDownFor(n, m)
      <4>1. r = role[n] /\ v = votedFor[n]
        BY <3>1
      <4>2. m.term = currentTerm[n]
        BY <3>1, <2>1, <2>2 DEF StepsDownFor
      <4> HIDE DEF r, v
      <4> QED BY <1>1, <4>1, <4>2
    <3>2. CASE StepsDownFor(n, m)
      <4>1. r = Follower /\ v = Nil
        BY <3>2
      <4>2. m.term > currentTerm[n] \/ (m.term = currentTerm[n] /\ role[n] = Candidate)
        BY <3>2 DEF StepsDownFor
      <4> HIDE DEF r, v
      <4> QED BY <1>1, <4>1, <4>2
    <3> QED BY <3>1, <3>2
  <2>4. \A k \in Node \ {n} : votesReceived'[k] = votesReceived[k]
    BY <1>1
  <2> HIDE DEF v, r
  <2> QED BY <1>2, <2>1, <2>2, <2>3, <2>4, FollowerStep
<1> QED BY <1>1, <1>3, <1>4

\* The answers replicateToPeer processes touch an election only by stepping down.
LEMMA AppendReplyElection ==
  ASSUME StructInv, ElectionInv, NEW n \in Node, NEW m \in appendReplies, HandleAppendReply(n, m)
  PROVE  ElectionInv'
<1>1. m.term \in Nat /\ currentTerm[n] \in Nat
  BY DEF StructInv, TypeOK, AppendReplyMsg
<1>2. CASE m.term > currentTerm[n]
  BY <1>1, <1>2, StepDownElection DEF HandleAppendReply
<1>3. CASE ~(m.term > currentTerm[n])
  <2>1. UNCHANGED <<persistent, role, votesReceived, messages>>
    BY <1>3 DEF HandleAppendReply
  <2> QED BY <2>1, ElectionStutter DEF persistent, messages, Granted
<1> QED BY <1>2, <1>3

\* A new candidate is alone in its term: nobody has voted for it, and it has not
\* voted for anybody (onElectionTimeout lines 19-26).
LEMMA ElectionTimeoutElection ==
  ASSUME StructInv, ElectionInv, NEW n \in Node, OnElectionTimeout(n)
  PROVE  ElectionInv'
<1>1. CASE role[n] = Leader
  <2>1. UNCHANGED <<currentTerm, votedFor, role, votesReceived, voteReqs, voteReplies, appendReqs>>
    BY <1>1 DEF OnElectionTimeout, persistent
  <2> QED BY <2>1, ElectionStutter DEF Granted
<1>2. CASE role[n] # Leader
  <2>0. PICK T \in Nat : T = currentTerm[n] + 1
    <3>1. currentTerm[n] \in Nat
      BY DEF StructInv, TypeOK
    <3> QED BY <3>1
  <2> DEFINE new == {[term |-> currentTerm'[n], candidateId |-> n, to |-> p,
                      lastLogIndex |-> LastLogIndex(log[n]),
                      lastLogTerm |-> LastLogTerm(log[n])] : p \in Peers(n)}
  <2>1. /\ role' = [role EXCEPT ![n] = Candidate]
        /\ currentTerm' = [currentTerm EXCEPT ![n] = T]
        /\ votedFor' = [votedFor EXCEPT ![n] = n]
        /\ votesReceived' = [votesReceived EXCEPT ![n] = {n}]
        /\ voteReqs' = voteReqs \cup new
        /\ voteReplies' = voteReplies /\ appendReqs' = appendReqs
    BY <1>2, <2>0 DEF OnElectionTimeout
  <2>2. /\ currentTerm[n] \in Nat /\ T \in Nat /\ T > currentTerm[n]
        /\ currentTerm'[n] = T /\ votedFor'[n] = n /\ role'[n] = Candidate /\ votesReceived'[n] = {n}
        /\ \A k \in Node : k # n => /\ currentTerm'[k] = currentTerm[k] /\ votedFor'[k] = votedFor[k]
                                    /\ role'[k] = role[k] /\ votesReceived'[k] = votesReceived[k]
    <3>1. /\ currentTerm \in [Node -> Nat] /\ votedFor \in [Node -> Node \cup {Nil}]
          /\ role \in [Node -> Role] /\ votesReceived \in [Node -> SUBSET Node]
      BY DEF StructInv, TypeOK
    <3>2. currentTerm[n] \in Nat /\ T > currentTerm[n]
      BY <2>0, <3>1
    <3>3. currentTerm'[n] = T /\ \A k \in Node : k # n => currentTerm'[k] = currentTerm[k]
      BY <2>1, <3>1
    <3>4. votedFor'[n] = n /\ \A k \in Node : k # n => votedFor'[k] = votedFor[k]
      BY <2>1, <3>1
    <3>5. role'[n] = Candidate /\ \A k \in Node : k # n => role'[k] = role[k]
      BY <2>1, <3>1
    <3>6. votesReceived'[n] = {n} /\ \A k \in Node : k # n => votesReceived'[k] = votesReceived[k]
      BY <2>1, <3>1
    <3> QED BY <3>2, <3>3, <3>4, <3>5, <3>6
  <2>3. /\ \A m \in new : m.candidateId = n /\ m.term = T /\ m.to # n
        /\ new # {}
    <3>1. Peers(n) # {} /\ n \notin Peers(n)
      BY NodeAssumption DEF Peers
    <3>2. \A m \in new : m.candidateId = n /\ m.term = currentTerm'[n] /\ m.to # n
      <4> SUFFICES ASSUME NEW m \in new
                   PROVE  m.candidateId = n /\ m.term = currentTerm'[n] /\ m.to # n
        OBVIOUS
      <4>1. PICK p \in Peers(n) :
              m = [term |-> currentTerm'[n], candidateId |-> n, to |-> p,
                   lastLogIndex |-> LastLogIndex(log[n]), lastLogTerm |-> LastLogTerm(log[n])]
        OBVIOUS
      <4>2. p # n
        BY <3>1
      <4> HIDE DEF new
      <4> QED BY <4>1, <4>2
    <3>3. new # {}
      BY <3>1
    <3> HIDE DEF new
    <3> QED BY <2>2, <3>2, <3>3
  <2> HIDE DEF new
  <2>4. /\ \A m \in voteReqs : m.candidateId \in Node /\ m.term \in Nat
        /\ \A s \in Granted : s.from \in Node /\ s.to \in Node /\ s.reqTerm \in Nat
        /\ \A q \in appendReqs : q.leaderId \in Node
        /\ \A k \in Node : currentTerm[k] \in Nat
    BY DEF StructInv, TypeOK, VoteReq, Granted, VoteReplyMsg, AppendReqMsg
  <2>5. \A k, t : Campaigned(k, t)' <=> (Campaigned(k, t) \/ (k = n /\ t = T))
    BY <2>1, <2>3 DEF Campaigned
  <2>6. Granted' = Granted /\ \A k, t : VotesFor(k, t)' = VotesFor(k, t)
    BY <2>1 DEF Granted, VotesFor
  <2>7. \A t : LeaderKnown(t)' = LeaderKnown(t)
    BY <2>1 DEF LeaderKnown
  <2>8. /\ ~Campaigned(n, T)
        /\ \A s \in Granted : ~(s.from = n /\ s.reqTerm = T) /\ ~(s.to = n /\ s.reqTerm = T)
    <3>1. ~Campaigned(n, T)
      <4>1. \A m \in voteReqs : m.term <= currentTerm[m.candidateId]
        BY DEF ElectionInv, CampaignInv
      <4>2. \A m \in voteReqs : ~(m.candidateId = n /\ m.term = T)
        BY <2>2, <4>1
      <4> QED BY <4>2 DEF Campaigned
    <3>2. \A s \in Granted : ~(s.from = n /\ s.reqTerm = T)
      <4>1. \A s \in Granted : s.reqTerm <= currentTerm[s.from]
        BY DEF ElectionInv, VoteInv
      <4> QED BY <2>2, <4>1
    <3>3. \A s \in Granted : ~(s.to = n /\ s.reqTerm = T)
      BY <3>1 DEF ElectionInv, VoteInv
    <3> QED BY <3>1, <3>2, <3>3
  <2>9. \A k, t : FirmVotes(k, t)' = FirmVotes(k, t)
    BY <2>5, <2>6, <2>8 DEF FirmVotes, VotesFor
  <2>10. \A k, t : Won(k, t) => Won(k, t)'
    BY <2>5, <2>6 DEF Won, HasQuorum
  <2>11. \A k, t : Won(k, t)' => Won(k, t) \/ (k = n /\ t = T)
    BY <2>5, <2>6 DEF Won, HasQuorum
  <2>12. CampaignInv'
    <3>1. \A m \in voteReqs' : m.term <= currentTerm'[m.candidateId] /\ m.to # m.candidateId
      <4>1. ASSUME NEW m \in voteReqs
            PROVE  m.term <= currentTerm'[m.candidateId] /\ m.to # m.candidateId
        <5>1. m.term <= currentTerm[m.candidateId] /\ m.to # m.candidateId
          BY DEF ElectionInv, CampaignInv
        <5>2. /\ m.candidateId \in Node /\ m.term \in Nat
              /\ currentTerm[m.candidateId] \in Nat
          BY <2>4
        <5>3. CASE m.candidateId = n
          BY <2>2, <5>1, <5>2, <5>3
        <5>4. CASE m.candidateId # n
          BY <2>2, <5>1, <5>2, <5>4
        <5> QED BY <5>3, <5>4
      <4>2. ASSUME NEW m \in new
            PROVE  m.term <= currentTerm'[m.candidateId] /\ m.to # m.candidateId
        BY <2>2, <2>3
      <4> QED BY <2>1, <4>1, <4>2
    <3>2. \A k \in Node : \A t \in {currentTerm'[k]} :
            /\ role'[k] # Follower => Campaigned(k, t)' /\ votedFor'[k] = k
            /\ Campaigned(k, t)' /\ votedFor'[k] # k => LeaderKnown(t)
      <4> SUFFICES ASSUME NEW k \in Node, NEW t, t = currentTerm'[k]
                   PROVE  /\ role'[k] # Follower => Campaigned(k, t)' /\ votedFor'[k] = k
                          /\ Campaigned(k, t)' /\ votedFor'[k] # k => LeaderKnown(t)
        OBVIOUS
      <4>1. CASE k = n
        BY <2>2, <2>5, <4>1
      <4>2. CASE k # n
        <5>1. currentTerm'[k] = currentTerm[k] /\ votedFor'[k] = votedFor[k] /\ role'[k] = role[k]
          BY <2>2, <4>2
        <5>2. t \in {currentTerm[k]}
          BY <5>1
        <5>3. /\ role[k] # Follower => Campaigned(k, t) /\ votedFor[k] = k
              /\ Campaigned(k, t) /\ votedFor[k] # k => LeaderKnown(t)
          BY <5>2 DEF ElectionInv, CampaignInv
        <5>4. Campaigned(k, t)' <=> Campaigned(k, t)
          BY <2>5, <4>2
        <5> QED BY <5>1, <5>3, <5>4
      <4> QED BY <4>1, <4>2
    <3> QED BY <2>7, <3>1, <3>2 DEF CampaignInv
  <2>13. VoteInv'
    <3>1. \A s \in Granted : /\ Campaigned(s.from, s.reqTerm)' <=> Campaigned(s.from, s.reqTerm)
                             /\ Campaigned(s.to, s.reqTerm)' <=> Campaigned(s.to, s.reqTerm)
      BY <2>5, <2>8
    <3>2. \A s \in Granted : /\ s.reqTerm <= currentTerm'[s.from]
                             /\ currentTerm'[s.from] = s.reqTerm =>
                                  /\ currentTerm[s.from] = s.reqTerm
                                  /\ votedFor'[s.from] = votedFor[s.from]
      <4> SUFFICES ASSUME NEW s \in Granted
                   PROVE  /\ s.reqTerm <= currentTerm'[s.from]
                          /\ currentTerm'[s.from] = s.reqTerm =>
                               /\ currentTerm[s.from] = s.reqTerm
                               /\ votedFor'[s.from] = votedFor[s.from]
        OBVIOUS
      <4>1. s.reqTerm <= currentTerm[s.from]
        BY DEF ElectionInv, VoteInv
      <4>2. s.from \in Node /\ s.reqTerm \in Nat /\ currentTerm[s.from] \in Nat
        BY <2>4
      <4>3. CASE s.from = n
        <5>1. s.reqTerm # T
          BY <2>8, <4>3
        <5>2. currentTerm'[s.from] = T /\ T > currentTerm[s.from]
          BY <2>2, <4>3
        <5> QED BY <2>2, <4>1, <4>2, <5>1, <5>2
      <4>4. CASE s.from # n
        <5>1. currentTerm'[s.from] = currentTerm[s.from] /\ votedFor'[s.from] = votedFor[s.from]
          BY <2>2, <4>2, <4>4
        <5> QED BY <4>1, <5>1
      <4> QED BY <4>3, <4>4
    <3> QED BY <2>6, <2>7, <3>1, <3>2 DEF ElectionInv, VoteInv
  <2>14. LeaderInv'
    <3>1. n \in VotesFor(n, T)'
      BY <2>6 DEF VotesFor
    <3>2. \A m \in appendReqs' : m.to # m.leaderId /\ Won(m.leaderId, m.term)'
      BY <2>1, <2>10 DEF ElectionInv, LeaderInv
    <3>3. ASSUME NEW k \in Node, NEW t, t = currentTerm'[k]
          PROVE  /\ role'[k] = Leader => Won(k, t)'
                 /\ role'[k] = Candidate => votesReceived'[k] \subseteq VotesFor(k, t)'
      <4>1. CASE k = n
        <5>1. role'[k] # Leader /\ votesReceived'[k] \subseteq VotesFor(k, t)'
          BY <2>2, <3>1, <3>3, <4>1 DEF Candidate, Leader
        <5> QED BY <5>1
      <4>2. CASE k # n
        <5>1. /\ t = currentTerm[k] /\ role'[k] = role[k]
              /\ votesReceived'[k] = votesReceived[k]
          BY <2>2, <3>3, <4>2
        <5>2. /\ role[k] = Leader => Won(k, t)
              /\ role[k] = Candidate => votesReceived[k] \subseteq VotesFor(k, t)
          BY <5>1 DEF ElectionInv, LeaderInv
        <5> QED BY <2>6, <2>10, <5>1, <5>2
      <4> QED BY <4>1, <4>2
    <3> QED BY <3>2, <3>3 DEF LeaderInv
  <2>15. WinnerInv'
    <3> SUFFICES ASSUME NEW m \in voteReqs', Won(m.candidateId, m.term)'
                 PROVE  /\ HasQuorum(FirmVotes(m.candidateId, m.term))
                        /\ currentTerm'[m.candidateId] = m.term => votedFor'[m.candidateId] = m.candidateId
                        /\ \A s \in Granted : ~(s.from = m.candidateId /\ s.reqTerm = m.term)
      BY <2>6, <2>9 DEF WinnerInv, HasQuorum
    <3>1. CASE m.candidateId = n /\ m.term = T
      <4>1. FirmVotes(n, T) = VotesFor(n, T)
        BY <2>8 DEF FirmVotes, VotesFor
      <4>2. HasQuorum(FirmVotes(n, T))
        BY <2>6, <3>1, <4>1 DEF Won, HasQuorum
      <4> QED BY <2>2, <2>8, <3>1, <4>2
    <3>2. CASE ~(m.candidateId = n /\ m.term = T)
      <4>1. m \in voteReqs /\ Won(m.candidateId, m.term)
        <5>1. m \in voteReqs
          BY <2>1, <2>3, <3>2
        <5>2. Won(m.candidateId, m.term)
          BY <2>11, <3>2, Zenon
        <5> QED BY <5>1, <5>2
      <4>2. /\ HasQuorum(FirmVotes(m.candidateId, m.term))
            /\ currentTerm[m.candidateId] = m.term => votedFor[m.candidateId] = m.candidateId
            /\ \A s \in Granted : ~(s.from = m.candidateId /\ s.reqTerm = m.term)
        BY <4>1 DEF ElectionInv, WinnerInv
      <4> QED BY <2>2, <2>4, <4>1, <4>2
    <3> QED BY <3>1, <3>2
  <2> QED BY <2>12, <2>13, <2>14, <2>15 DEF ElectionInv
<1> QED BY <1>1, <1>2

\* What the comparisons of terms in HandleRequestVote exclude.
LEMMA TermOrder ==
  ASSUME NEW s \in Nat, NEW t \in Nat
  PROVE  s <= s /\ (s <= t => ~(s > t))
OBVIOUS

\* A vote that HandleRequestVote grants is the only one of its term, unless the
\* voter is a candidate that already knows the leader of that term; then the new
\* vote cannot complete a second quorum.
LEMMA GrantElection ==
  ASSUME StructInv, ElectionInv, NEW n \in Node, NEW m \in voteReqs, NEW rr, NEW T, NEW c,
         m.to = n, T = m.term, c = m.candidateId, T >= currentTerm[n], CanVote(n, m),
         rr.from = n, rr.to = c, rr.reqTerm = T,
         Granted' = Granted \cup {rr},
         voteReqs' = voteReqs, appendReqs' = appendReqs, votesReceived' = votesReceived,
         currentTerm' = [currentTerm EXCEPT ![n] = T],
         votedFor' = [votedFor EXCEPT ![n] = c],
         role' = [role EXCEPT ![n] = IF T > currentTerm[n] THEN Follower ELSE @]
  PROVE  ElectionInv'
<1>1. /\ \A k \in voteReqs : k.candidateId \in Node /\ k.term \in Nat
      /\ \A s \in Granted : s.from \in Node /\ s.to \in Node /\ s.reqTerm \in Nat
      /\ \A q \in appendReqs : q.leaderId \in Node
      /\ \A k \in Node : currentTerm[k] \in Nat /\ k # Nil
  BY NodeAssumption DEF StructInv, TypeOK, VoteReq, Granted, VoteReplyMsg, AppendReqMsg
<1>2. c \in Node /\ T \in Nat /\ c # n /\ Campaigned(c, T)
  <2>1. c \in Node /\ T \in Nat
    BY <1>1
  <2>2. m.to # m.candidateId
    BY DEF ElectionInv, CampaignInv
  <2>3. Campaigned(c, T)
    BY DEF Campaigned
  <2> QED BY <2>1, <2>2, <2>3
<1>3. T > currentTerm[n] \/ (T = currentTerm[n] /\ votedFor[n] \in {Nil, c})
  <2>1. T \in Nat /\ currentTerm[n] \in Nat
    BY <1>1, <1>2
  <2>2. ~(T > currentTerm[n]) => votedFor[n] \in {Nil, c}
    BY DEF CanVote, VoteBefore
  <2> QED BY <2>1, <2>2
<1>4. /\ currentTerm'[n] = T /\ votedFor'[n] = c
      /\ \A k \in Node : k # n => /\ currentTerm'[k] = currentTerm[k] /\ votedFor'[k] = votedFor[k]
                                  /\ role'[k] = role[k]
      /\ role'[n] = IF T > currentTerm[n] THEN Follower ELSE role[n]
  BY DEF StructInv, TypeOK
<1>5. role'[n] = Follower
  BY <1>1, <1>2, <1>3, <1>4 DEF ElectionInv, CampaignInv
<1>6. /\ \A k, t : Campaigned(k, t)' <=> Campaigned(k, t)
      /\ \A t : LeaderKnown(t)' <=> LeaderKnown(t)
  BY DEF Campaigned, LeaderKnown
<1>7. /\ \A k, t : VotesFor(k, t) \subseteq VotesFor(k, t)'
      /\ \A k, t : ~(k = c /\ t = T) => VotesFor(k, t)' = VotesFor(k, t)
  BY DEF VotesFor
<1>8. /\ \A k, t : FirmVotes(k, t) \subseteq FirmVotes(k, t)' /\ FirmVotes(k, t)' \in SUBSET Node
      /\ \A k, t : ~(k = c /\ t = T) => FirmVotes(k, t)' = FirmVotes(k, t)
  <2>1. \A k, t : FirmVotes(k, t)' = {v \in VotesFor(k, t)' : v = k \/ ~Campaigned(v, t)}
    BY <1>6 DEF FirmVotes
  <2>2. \A k, t : VotesFor(k, t)' \in SUBSET Node
    BY DEF VotesFor
  <2>3. \A k, t : FirmVotes(k, t) = {v \in VotesFor(k, t) : v = k \/ ~Campaigned(v, t)}
    BY DEF FirmVotes
  <2>4. ASSUME NEW k, NEW t
        PROVE  FirmVotes(k, t) \subseteq FirmVotes(k, t)' /\ FirmVotes(k, t)' \in SUBSET Node
    <3>1. VotesFor(k, t) \subseteq VotesFor(k, t)' /\ VotesFor(k, t)' \in SUBSET Node
      BY <1>7, <2>2
    <3> QED BY <2>1, <2>3, <3>1
  <2>5. ASSUME NEW k, NEW t, ~(k = c /\ t = T)
        PROVE  FirmVotes(k, t)' = FirmVotes(k, t)
    <3>1. VotesFor(k, t)' = VotesFor(k, t)
      BY <1>7, <2>5
    <3> QED BY <2>1, <2>3, <3>1
  <2> QED BY <2>4, <2>5
<1>9. \A k, t : Won(k, t) => Won(k, t)'
  <2> SUFFICES ASSUME NEW k, NEW t, Won(k, t) PROVE Won(k, t)'
    OBVIOUS
  <2>1. VotesFor(k, t)' \in SUBSET Node /\ VotesFor(k, t) \in SUBSET VotesFor(k, t)'
    BY <1>7 DEF VotesFor
  <2>2. HasQuorum(VotesFor(k, t)')
    BY <2>1, QuorumGrows DEF Won
  <2> QED BY <1>6, <2>2 DEF Won, HasQuorum
<1>10. Campaigned(n, T) => LeaderKnown(T) /\ ~Won(n, T)
  <2> SUFFICES ASSUME Campaigned(n, T) PROVE LeaderKnown(T) /\ ~Won(n, T)
    OBVIOUS
  <2>1. PICK k \in voteReqs : k.candidateId = n /\ k.term = T
    BY DEF Campaigned
  <2>2. T <= currentTerm[n]
    BY <2>1 DEF ElectionInv, CampaignInv
  <2>3. T = currentTerm[n] /\ votedFor[n] # n
    <3>1. T \in Nat /\ currentTerm[n] \in Nat /\ n # Nil /\ n # c
      BY <1>1, <1>2
    <3>2. T = currentTerm[n] /\ votedFor[n] \in {Nil, c}
      BY <1>3, <2>2, <3>1, TermOrder, Zenon
    <3> QED BY <3>1, <3>2
  <2> QED BY <2>1, <2>3 DEF ElectionInv, CampaignInv, WinnerInv
<1>11. CampaignInv'
  <2>1. \A k \in voteReqs : k.term <= currentTerm'[k.candidateId] /\ k.to # k.candidateId
    <3> SUFFICES ASSUME NEW k \in voteReqs
                 PROVE  k.term <= currentTerm'[k.candidateId] /\ k.to # k.candidateId
      OBVIOUS
    <3>1. k.term <= currentTerm[k.candidateId] /\ k.to # k.candidateId
      BY DEF ElectionInv, CampaignInv
    <3>2. k.candidateId \in Node /\ k.term \in Nat /\ currentTerm[k.candidateId] \in Nat
      BY <1>1
    <3>3. currentTerm[k.candidateId] <= currentTerm'[k.candidateId]
      <4>1. CASE k.candidateId = n
        BY <1>4, <4>1
      <4>2. CASE k.candidateId # n
        <5>1. currentTerm'[k.candidateId] = currentTerm[k.candidateId]
          BY <1>4, <3>2, <4>2
        <5> QED BY <3>2, <5>1
      <4> QED BY <4>1, <4>2
    <3>4. currentTerm'[k.candidateId] \in Nat
      <4>1. CASE k.candidateId = n
        BY <1>2, <1>4, <4>1
      <4>2. CASE k.candidateId # n
        BY <1>4, <3>2, <4>2
      <4> QED BY <4>1, <4>2
    <3> QED BY <3>1, <3>2, <3>3, <3>4
  <2>2. \A k \in Node : \A t \in {currentTerm'[k]} :
          /\ role'[k] # Follower => Campaigned(k, t) /\ votedFor'[k] = k
          /\ Campaigned(k, t) /\ votedFor'[k] # k => LeaderKnown(t)
    <3> SUFFICES ASSUME NEW k \in Node, NEW t, t = currentTerm'[k]
                 PROVE  /\ role'[k] # Follower => Campaigned(k, t) /\ votedFor'[k] = k
                        /\ Campaigned(k, t) /\ votedFor'[k] # k => LeaderKnown(t)
      OBVIOUS
    <3>1. CASE k = n
      BY <1>4, <1>5, <1>10, <3>1
    <3>2. CASE k # n
      <4>1. currentTerm'[k] = currentTerm[k] /\ votedFor'[k] = votedFor[k] /\ role'[k] = role[k]
        BY <1>4, <3>2
      <4>2. t \in {currentTerm[k]}
        BY <4>1
      <4>3. /\ role[k] # Follower => Campaigned(k, t) /\ votedFor[k] = k
            /\ Campaigned(k, t) /\ votedFor[k] # k => LeaderKnown(t)
        BY <4>2 DEF ElectionInv, CampaignInv
      <4> QED BY <4>1, <4>3
    <3> QED BY <3>1, <3>2
  <2>3. \A k \in Node : \A t \in {currentTerm'[k]} :
          /\ role'[k] # Follower => Campaigned(k, t)' /\ votedFor'[k] = k
          /\ Campaigned(k, t)' /\ votedFor'[k] # k => LeaderKnown(t)'
    <3> SUFFICES ASSUME NEW k \in Node, NEW t \in {currentTerm'[k]}
                 PROVE  /\ role'[k] # Follower => Campaigned(k, t)' /\ votedFor'[k] = k
                        /\ Campaigned(k, t)' /\ votedFor'[k] # k => LeaderKnown(t)'
      OBVIOUS
    <3>1. (Campaigned(k, t)' <=> Campaigned(k, t)) /\ (LeaderKnown(t)' <=> LeaderKnown(t))
      BY <1>6
    <3>2. /\ role'[k] # Follower => Campaigned(k, t) /\ votedFor'[k] = k
          /\ Campaigned(k, t) /\ votedFor'[k] # k => LeaderKnown(t)
      BY <2>2
    <3> QED BY <3>1, <3>2
  <2>4. voteReqs' = voteReqs
    OBVIOUS
  <2> QED BY <2>1, <2>3, <2>4 DEF CampaignInv
<1>12. VoteInv'
  <2>1. ASSUME NEW s \in Granted, s.from = n, s.reqTerm = T, ~Campaigned(n, T)
        PROVE  s.to = c
    <3>1. /\ s.reqTerm <= currentTerm[s.from]
          /\ ~Campaigned(s.from, s.reqTerm) =>
               (currentTerm[s.from] = s.reqTerm => votedFor[s.from] = s.to)
      BY DEF ElectionInv, VoteInv
    <3>2. T <= currentTerm[n] /\ (currentTerm[n] = T => votedFor[n] = s.to)
      BY <2>1, <3>1
    <3>3. T = currentTerm[n] /\ votedFor[n] \in {Nil, c}
      <4>1. T \in Nat /\ currentTerm[n] \in Nat
        BY <1>1, <1>2
      <4> QED BY <1>3, <3>2, <4>1, TermOrder, Zenon
    <3>4. s.to # Nil
      BY <1>1
    <3> QED BY <3>2, <3>3, <3>4
  <2>2. /\ rr.reqTerm <= currentTerm'[rr.from] /\ rr.from # rr.to /\ Campaigned(rr.to, rr.reqTerm)
        /\ Campaigned(rr.from, rr.reqTerm) => LeaderKnown(rr.reqTerm)
        /\ ~Campaigned(rr.from, rr.reqTerm) =>
             /\ currentTerm'[rr.from] = rr.reqTerm => votedFor'[rr.from] = rr.to
             /\ \A s \in Granted' : s.from = rr.from /\ s.reqTerm = rr.reqTerm => s.to = rr.to
    <3>1. Campaigned(rr.from, rr.reqTerm) <=> Campaigned(n, T)
      OBVIOUS
    <3>2. currentTerm'[rr.from] = T /\ votedFor'[rr.from] = rr.to
      BY <1>4
    <3>3. rr.reqTerm <= currentTerm'[rr.from] /\ rr.from # rr.to /\ Campaigned(rr.to, rr.reqTerm)
      <4>1. rr.from # rr.to /\ Campaigned(rr.to, rr.reqTerm)
        BY <1>2
      <4>2. rr.reqTerm <= currentTerm'[rr.from]
        <5>1. T <= T
          BY <1>2, TermOrder
        <5> QED BY <3>2, <5>1, Zenon
      <4> QED BY <4>1, <4>2
    <3>4. Campaigned(rr.from, rr.reqTerm) => LeaderKnown(rr.reqTerm)
      BY <1>10, <3>1
    <3>5. ASSUME ~Campaigned(n, T), NEW s \in Granted', s.from = n, s.reqTerm = T
          PROVE  s.to = c
      <4>1. CASE s = rr
        BY <4>1
      <4>2. CASE s \in Granted
        BY <2>1, <3>5, <4>2
      <4> QED BY <4>1, <4>2
    <3> QED BY <3>1, <3>2, <3>3, <3>4, <3>5
  <2>3. ASSUME NEW r \in Granted
        PROVE  /\ r.reqTerm <= currentTerm'[r.from] /\ r.from # r.to /\ Campaigned(r.to, r.reqTerm)
               /\ Campaigned(r.from, r.reqTerm) => LeaderKnown(r.reqTerm)
               /\ ~Campaigned(r.from, r.reqTerm) =>
                    /\ currentTerm'[r.from] = r.reqTerm => votedFor'[r.from] = r.to
                    /\ \A s \in Granted' : s.from = r.from /\ s.reqTerm = r.reqTerm => s.to = r.to
    <3>1. /\ r.reqTerm <= currentTerm[r.from] /\ r.from # r.to /\ Campaigned(r.to, r.reqTerm)
          /\ Campaigned(r.from, r.reqTerm) => LeaderKnown(r.reqTerm)
          /\ ~Campaigned(r.from, r.reqTerm) =>
               /\ currentTerm[r.from] = r.reqTerm => votedFor[r.from] = r.to
               /\ \A s \in Granted : s.from = r.from /\ s.reqTerm = r.reqTerm => s.to = r.to
      BY DEF ElectionInv, VoteInv
    <3>2. r.reqTerm <= currentTerm'[r.from]
      <4>1. CASE r.from = n
        <5>1. currentTerm'[r.from] = T /\ r.reqTerm <= currentTerm[n]
          BY <1>4, <3>1, <4>1
        <5>2. r.reqTerm \in Nat /\ currentTerm[n] \in Nat /\ T \in Nat
          BY <1>1, <1>2
        <5> QED BY <1>3, <5>1, <5>2
      <4>2. CASE r.from # n
        <5>1. r.from \in Node
          BY <1>1
        <5>2. currentTerm'[r.from] = currentTerm[r.from]
          BY <1>4, <4>2, <5>1
        <5> QED BY <3>1, <5>2
      <4> QED BY <4>1, <4>2
    <3>3. ASSUME ~Campaigned(r.from, r.reqTerm), currentTerm'[r.from] = r.reqTerm
          PROVE  votedFor'[r.from] = r.to
      <4>1. CASE r.from = n
        <5>1. r.reqTerm = T /\ votedFor'[n] = c
          BY <1>4, <3>3, <4>1
        <5>2. r.to = c
          BY <2>1, <3>3, <4>1, <5>1
        <5> QED BY <4>1, <5>1, <5>2
      <4>2. CASE r.from # n
        <5>1. r.from \in Node
          BY <1>1
        <5>2. currentTerm'[r.from] = currentTerm[r.from] /\ votedFor'[r.from] = votedFor[r.from]
          BY <1>4, <4>2, <5>1
        <5> QED BY <3>1, <3>3, <5>2
      <4> QED BY <4>1, <4>2
    <3> QED BY <2>1, <3>1, <3>2, <3>3
  <2>4. \A r \in Granted' :
          /\ r.reqTerm <= currentTerm'[r.from] /\ r.from # r.to /\ Campaigned(r.to, r.reqTerm)
          /\ Campaigned(r.from, r.reqTerm) => LeaderKnown(r.reqTerm)
          /\ ~Campaigned(r.from, r.reqTerm) =>
               /\ currentTerm'[r.from] = r.reqTerm => votedFor'[r.from] = r.to
               /\ \A s \in Granted' : s.from = r.from /\ s.reqTerm = r.reqTerm => s.to = r.to
    BY <2>2, <2>3
  <2> QED BY <1>6, <2>4, ZenonT(60) DEF VoteInv
<1>13. LeaderInv'
  <2>1. \A k \in Node : \A t \in {currentTerm'[k]} :
          /\ role'[k] = Leader => Won(k, t)
          /\ role'[k] = Candidate => votesReceived'[k] \subseteq VotesFor(k, t)
    BY <1>4, <1>5 DEF ElectionInv, LeaderInv, Follower, Candidate, Leader
  <2>2. \A k \in Node : \A t \in {currentTerm'[k]} :
          /\ role'[k] = Leader => Won(k, t)'
          /\ role'[k] = Candidate => votesReceived'[k] \subseteq VotesFor(k, t)'
    BY <1>7, <1>9, <2>1
  <2>3. \A q \in appendReqs : q.to # q.leaderId /\ Won(q.leaderId, q.term)'
    BY <1>9 DEF ElectionInv, LeaderInv
  <2> QED BY <2>2, <2>3 DEF LeaderInv
<1>14. WinnerInv'
  <2> SUFFICES ASSUME NEW k \in voteReqs, Won(k.candidateId, k.term)'
               PROVE  /\ HasQuorum(FirmVotes(k.candidateId, k.term)')
                      /\ currentTerm'[k.candidateId] = k.term => votedFor'[k.candidateId] = k.candidateId
                      /\ \A s \in Granted' : ~(s.from = k.candidateId /\ s.reqTerm = k.term)
    BY DEF WinnerInv, HasQuorum
  <2>1. ASSUME Won(k.candidateId, k.term)
        PROVE  /\ HasQuorum(FirmVotes(k.candidateId, k.term)')
               /\ currentTerm'[k.candidateId] = k.term => votedFor'[k.candidateId] = k.candidateId
               /\ \A s \in Granted' : ~(s.from = k.candidateId /\ s.reqTerm = k.term)
    <3>1. /\ HasQuorum(FirmVotes(k.candidateId, k.term))
          /\ currentTerm[k.candidateId] = k.term => votedFor[k.candidateId] = k.candidateId
          /\ \A s \in Granted : ~(s.from = k.candidateId /\ s.reqTerm = k.term)
      BY <2>1 DEF ElectionInv, WinnerInv
    <3>2. ~(k.candidateId = n /\ k.term = T)
      BY <1>10, <2>1 DEF Won
    <3>3. HasQuorum(FirmVotes(k.candidateId, k.term)')
      BY <1>8, <3>1, QuorumGrows
    <3> QED BY <1>1, <1>4, <3>1, <3>2, <3>3
  <2>2. CASE ~(k.candidateId = c /\ k.term = T)
    <3>1. Won(k.candidateId, k.term)
      BY <1>6, <1>7, <2>2 DEF Won, HasQuorum
    <3> QED BY <2>1, <3>1
  <2>3. CASE k.candidateId = c /\ k.term = T /\ ~LeaderKnown(T)
    <3>1. \A s \in Granted' : s.reqTerm = T => ~Campaigned(s.from, T)
      BY <1>6, <1>12, <2>3 DEF VoteInv
    <3>2. FirmVotes(c, T)' = VotesFor(c, T)'
      BY <1>6, <3>1 DEF FirmVotes, VotesFor
    <3>3. HasQuorum(FirmVotes(c, T)')
      BY <2>3, <3>2 DEF Won, HasQuorum
    <3>4. currentTerm'[c] = T => votedFor'[c] = c
      <4>1. \A t \in {currentTerm'[c]} : Campaigned(c, t)' /\ votedFor'[c] # c => LeaderKnown(t)'
        BY <1>2, <1>11 DEF CampaignInv
      <4>2. Campaigned(c, T)' /\ ~LeaderKnown(T)'
        BY <1>2, <1>6, <2>3
      <4> QED BY <4>1, <4>2
    <3> QED BY <1>2, <2>3, <3>1, <3>3, <3>4
  <2>4. CASE k.candidateId = c /\ k.term = T /\ LeaderKnown(T)
    <3>1. PICK q \in appendReqs : q.term = T
      BY <2>4 DEF LeaderKnown
    <3> DEFINE w == q.leaderId
    <3>2. w \in Node /\ Won(w, T)
      BY <1>1, <3>1 DEF ElectionInv, LeaderInv
    <3>3. CASE w = c
      BY <2>1, <2>4, <3>2, <3>3
    <3>4. CASE w # c
      <4> HIDE DEF w
      <4>1. PICK h \in voteReqs : h.candidateId = w /\ h.term = T
        BY <3>2 DEF Won, Campaigned
      <4>2. HasQuorum(FirmVotes(w, T)) /\ \A s \in Granted : ~(s.from = w /\ s.reqTerm = T)
        BY <3>2, <4>1 DEF ElectionInv, WinnerInv
      <4>3. HasQuorum(VotesFor(c, T)')
        BY <2>4 DEF Won, HasQuorum
      <4>4. VotesFor(c, T)' \in SUBSET Node /\ FirmVotes(w, T) \in SUBSET Node
        BY DEF VotesFor, FirmVotes
      <4>5. PICK v \in Node : v \in FirmVotes(w, T) /\ v \in VotesFor(c, T)'
        BY <4>2, <4>3, <4>4, QuorumsIntersect
      <4>6. /\ v = w \/ ~Campaigned(v, T)
            /\ v = w \/ \E s \in Granted : s.from = v /\ s.to = w /\ s.reqTerm = T
            /\ v = c \/ \E s \in Granted' : s.from = v /\ s.to = c /\ s.reqTerm = T
        BY <4>5 DEF FirmVotes, VotesFor
      <4>7. v # w
        <5>1. n # w
          BY <1>10, <3>2 DEF Won
        <5> QED BY <3>4, <4>2, <4>6, <5>1
      <4>8. v # c
        BY <1>2, <4>6, <4>7
      <4>9. PICK s \in Granted : s.from = v /\ s.to = w /\ s.reqTerm = T
        BY <4>6, <4>7
      <4>10. PICK r \in Granted' : r.from = v /\ r.to = c /\ r.reqTerm = T
        BY <4>6, <4>8
      <4>11. s \in Granted' /\ ~Campaigned(v, T)'
        BY <1>6, <4>6, <4>7, <4>9
      <4>12. ~Campaigned(r.from, r.reqTerm)' =>
               \A x \in Granted' : x.from = r.from /\ x.reqTerm = r.reqTerm => x.to = r.to
        BY <1>12 DEF VoteInv
      <4>13. ~Campaigned(r.from, r.reqTerm)'
        BY <1>6, <4>10, <4>11
      <4>14. s.to = r.to
        BY <4>9, <4>10, <4>11, <4>12, <4>13
      <4> QED BY <3>4, <4>9, <4>10, <4>14
    <3> QED BY <3>3, <3>4
  <2> QED BY <2>2, <2>3, <2>4
<1> QED BY <1>11, <1>12, <1>13, <1>14 DEF ElectionInv

\* HandleRequestVote, granting or refusing, keeps the election invariant.
LEMMA RequestVoteElection ==
  ASSUME StructInv, ElectionInv, NEW n \in Node, NEW m \in voteReqs, HandleRequestVote(n, m)
  PROVE  ElectionInv'
<1> DEFINE granted == m.term >= currentTerm[n] /\ CanVote(n, m) /\ LogUpToDate(log[n], m)
           rr == VoteReply(n, m, granted)
<1>1. m.term \in Nat /\ currentTerm[n] \in Nat
  BY DEF StructInv, TypeOK, VoteReq
<1>2. /\ m.to = n
      /\ currentTerm' = [currentTerm EXCEPT ![n] = IF m.term > @ THEN m.term ELSE @]
      /\ role' = [role EXCEPT ![n] = IF m.term > currentTerm[n] THEN Follower ELSE @]
      /\ votedFor' = [votedFor EXCEPT ![n] = IF granted THEN m.candidateId ELSE VoteBefore(n, m)]
      /\ voteReplies' = voteReplies \cup {rr}
      /\ UNCHANGED <<votesReceived, voteReqs, appendReqs>>
  BY DEF HandleRequestVote
<1>3. rr.voteGranted = granted /\ rr.from = n /\ rr.to = m.candidateId /\ rr.reqTerm = m.term
  BY DEF VoteReply
<1>4. CASE granted
  <2>1. m.term >= currentTerm[n] /\ CanVote(n, m)
    BY <1>4
  <2> HIDE DEF rr, granted
  <2>2. Granted' = Granted \cup {rr}
    BY <1>2, <1>3, <1>4 DEF Granted
  <2>3. currentTerm' = [currentTerm EXCEPT ![n] = m.term]
    <3>1. (IF m.term > currentTerm[n] THEN m.term ELSE currentTerm[n]) = m.term
      BY <1>1, <2>1
    <3> QED BY <1>2, <3>1
  <2>4. votedFor' = [votedFor EXCEPT ![n] = m.candidateId]
    BY <1>2, <1>4
  <2> QED BY <1>2, <1>3, <2>1, <2>2, <2>3, <2>4, GrantElection
<1>5. CASE ~granted
  <2> HIDE DEF rr, granted
  <2>1. Granted' = Granted
    BY <1>2, <1>3, <1>5 DEF Granted
  <2>2. CASE m.term > currentTerm[n]
    <3>1. /\ currentTerm' = [currentTerm EXCEPT ![n] = m.term]
          /\ votedFor' = [votedFor EXCEPT ![n] = Nil]
          /\ role' = [role EXCEPT ![n] = Follower]
      BY <1>1, <1>2, <1>5, <2>2 DEF VoteBefore
    <3>2. \A k \in Node \ {n} : votesReceived'[k] = votesReceived[k]
      BY <1>2
    <3>3. voteReqs' = voteReqs /\ appendReqs' = appendReqs
      BY <1>2
    <3> QED BY <1>1, <2>1, <2>2, <3>1, <3>2, <3>3, FollowerStep
  <2>3. CASE ~(m.term > currentTerm[n])
    <3>1. UNCHANGED <<currentTerm, votedFor, role>>
      BY <1>1, <1>2, <1>5, <2>3 DEF VoteBefore, StructInv, TypeOK
    <3> QED BY <1>2, <2>1, <3>1, ElectionStutter
  <2> QED BY <2>2, <2>3
<1> QED BY <1>4, <1>5

\* Every step of every node, crashes included, keeps the election invariant.
LEMMA NextElection == StructInv /\ ElectionInv /\ [Next]_vars => ElectionInv'
<1> SUFFICES ASSUME StructInv, ElectionInv, [Next]_vars PROVE ElectionInv'
  OBVIOUS
<1>1. CASE UNCHANGED vars
  BY <1>1, ElectionStutter DEF vars, persistent, messages, Granted
<1>2. ASSUME NEW n \in Node, Restart(n) \/ CrashInHandler(n)
      PROVE  ElectionInv'
  BY <1>2, CrashElection
<1>3. ASSUME NEW n \in Node, OnElectionTimeout(n)
      PROVE  ElectionInv'
  BY <1>3, ElectionTimeoutElection
<1>4. ASSUME NEW n \in Node, NEW m \in voteReqs, HandleRequestVote(n, m)
      PROVE  ElectionInv'
  BY <1>4, RequestVoteElection
<1>5. ASSUME NEW n \in Node, NEW m \in voteReplies, HandleVoteReply(n, m)
      PROVE  ElectionInv'
  BY <1>5, VoteReplyElection
<1>6. ASSUME NEW n \in Node, BecomeLeader(n)
      PROVE  ElectionInv'
  BY <1>6, BecomeLeaderElection
<1>7. ASSUME NEW n \in Node, NEW v \in Value, Propose(n, v)
      PROVE  ElectionInv'
  <2>1. UNCHANGED <<currentTerm, votedFor, role, votesReceived, messages>>
    BY <1>7 DEF Propose
  <2> QED BY <2>1, ElectionStutter DEF messages, Granted
<1>8. ASSUME NEW n \in Node, NEW p \in Peers(n), ReplicateToPeer(n, p)
      PROVE  ElectionInv'
  BY <1>8, ReplicateElection
<1>9. ASSUME NEW n \in Node, NEW m \in appendReqs, HandleAppendEntries(n, m)
      PROVE  ElectionInv'
  BY <1>9, AppendEntriesElection
<1>10. ASSUME NEW n \in Node, NEW m \in appendReplies, HandleAppendReply(n, m)
       PROVE  ElectionInv'
  BY <1>10, AppendReplyElection
<1> QED
  BY <1>1, <1>2, <1>3, <1>4, <1>5, <1>6, <1>7, <1>8, <1>9, <1>10 DEF Next

\* The election invariant holds in every reachable state.
THEOREM ElectionCorrect == Spec => []ElectionInv
BY InitElection, NextElection, StructCorrect, PTL DEF Spec

\* In clusters of any size and under any number of crashes, late and lost
\* messages, at most one candidate of a term gathers a quorum (startElection,
\* HandleRequestVote, HandleAppendEntries).
THEOREM ElectionsAreSafe == Spec => []ElectionSafety
<1>1. StructInv /\ ElectionInv => ElectionSafety
  <2> SUFFICES ASSUME StructInv, ElectionInv, NEW l \in voteReqs, NEW m \in voteReqs,
                      l.term = m.term, Won(l.candidateId, l.term), Won(m.candidateId, m.term)
               PROVE  l.candidateId = m.candidateId
    BY DEF ElectionSafety
  <2>1. l.candidateId \in Node /\ m.candidateId \in Node
    BY DEF StructInv, TypeOK, VoteReq
  <2> QED BY <2>1, OneWinner DEF ElectionInv
<1> QED BY <1>1, StructCorrect, ElectionCorrect, PTL

\* No two nodes are in the role Leader with the same current term.
THEOREM OneLeader == Spec => []OneLeaderPerTerm
<1>1. StructInv /\ ElectionInv => OneLeaderPerTerm
  <2> SUFFICES ASSUME StructInv, ElectionInv, NEW m \in Node, NEW n \in Node,
                      role[m] = Leader, role[n] = Leader, currentTerm[m] = currentTerm[n]
               PROVE  m = n
    BY DEF OneLeaderPerTerm
  <2>1. Won(m, currentTerm[m]) /\ Won(n, currentTerm[m])
    BY DEF ElectionInv, LeaderInv
  <2> QED BY <2>1, OneWinner DEF ElectionInv
<1> QED BY <1>1, StructCorrect, ElectionCorrect, PTL

=============================================================================
