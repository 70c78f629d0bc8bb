----------------------------- MODULE MCService -----------------------------
(***************************************************************************)
(* Instances of Service for TLC.                                           *)
(***************************************************************************)
EXTENDS Service, TLC

CONSTANTS n1, n2, n3, c0, c1, c2, x1, x2

Symmetry == Permutations(Value \ {Deleted})

-----------------------------------------------------------------------------
(***************************************************************************)
(* A later start, reached from ServiceInit without a crash.  n1 has won    *)
(* term 1 with the votes of both others.  Client c0 has deleted the key;   *)
(* n2 has the entry, and n1 has committed and applied it.  The request of  *)
(* client c1, a Put or a Delete, is in n1's log only.  The timers of both  *)
(* nodes have fired: that of the leader for the last time, and n2          *)
(* campaigns in term 2, its requests for votes being on the way.           *)
(***************************************************************************)
First == [index |-> 1, term |-> 1, data |-> Deleted]

VoteReqs(n, term, index, lastTerm) ==
  {[term |-> term, candidateId |-> n, to |-> p, lastLogIndex |-> index,
    lastLogTerm |-> lastTerm] : p \in Peers(n)}

Vote(from, to) ==
  [term |-> 1, voteGranted |-> TRUE, from |-> from, to |-> to, reqTerm |-> 1]

ContestedInit ==
  \E second \in {[index |-> 2, term |-> 1, data |-> v] : v \in Value} :
  /\ currentTerm = (n1 :> 1 @@ n2 :> 2 @@ n3 :> 1)
  /\ votedFor = (n1 :> n1 @@ n2 :> n2 @@ n3 :> n1)
  /\ log = (n1 :> <<Sentinel, First, second>> @@ n2 :> <<Sentinel, First>> @@ n3 :> <<Sentinel>>)
  /\ disk = [n \in Node |-> State(currentTerm[n], votedFor[n], log[n])]
  /\ role = (n1 :> Leader @@ n2 :> Candidate @@ n3 :> Follower)
  /\ commitIndex = (n1 :> 1 @@ n2 :> 0 @@ n3 :> 0) /\ lastApplied = commitIndex
  /\ nextIndex = [n \in Node |-> [p \in Peers(n) |-> IF n = n1 THEN (IF p = n2 THEN 2 ELSE 1) ELSE 0]]
  /\ matchIndex = [n \in Node |-> [p \in Peers(n) |-> IF n = n1 /\ p = n2 THEN 1 ELSE 0]]
  /\ votesReceived = (n1 :> Node @@ n2 :> {n2} @@ n3 :> {})
  /\ electionTimer = [n \in Node |-> n # n1]
  /\ voteReqs = VoteReqs(n1, 1, 0, 0) \cup VoteReqs(n2, 2, 1, 1)
  /\ voteReplies = {Vote(p, n1) : p \in Peers(n1)}
  /\ appendReqs = {[term |-> 1, leaderId |-> n1, to |-> n2, prevLogIndex |-> 0, prevLogTerm |-> 0,
                    entries |-> <<First>>, leaderCommit |-> 0]}
  /\ appendReplies = {[term |-> 1, success |-> TRUE, from |-> n2, to |-> n1, reqTerm |-> 1,
                       lastNewEntryIndex |-> 1]}
  /\ applied = {First} /\ crashes = 0
  /\ applyCh = [n \in Node |-> <<>>] /\ reached = [n \in Node |-> 0]
  /\ smApplied = commitIndex /\ kv = [n \in Node |-> Nil]
  /\ call = (c0 :> Accepted(Proposed, n1, First)
          @@ c1 :> Accepted(IF second.data = Deleted THEN Proposed ELSE Waiting, n1, second)
          @@ c2 :> [status |-> Idle])

ContestedSpec == ContestedInit /\ [][ServiceNext]_allVars

=============================================================================
