------------------------------- MODULE MCRaft -------------------------------
(* Small instances of Raft for TLC.                                        *)
EXTENDS Raft, TLC

CONSTANTS n1, n2, n3, x1   \* three nodes and a command

Symmetry == Permutations(Node)

-----------------------------------------------------------------------------
(***************************************************************************)
(* A later start, for the histories that need four elections; one more     *)
(* follows.  The state is reached from Init without a crash.  n1 wins term *)
(* 1 with all votes and appends x1.  n2 campaigns, wins term 2 with n3's   *)
(* vote and appends x1; n1 hears of term 2 and refuses.  n1 wins term 3    *)
(* with n3's vote; n2 hears of it and refuses.  n3 has answered n1's first *)
(* AppendEntries: it misses the entry before.  n1's timer has fired.       *)
(***************************************************************************)
Req(from, to, term, index, lastTerm) ==
  [term |-> term, candidateId |-> from, to |-> to, lastLogIndex |-> index, lastLogTerm |-> lastTerm]

Vote(from, to, term, granted) ==
  [term |-> term, voteGranted |-> granted, from |-> from, to |-> to, reqTerm |-> term]

DivergedInit ==
  /\ currentTerm = [n \in Node |-> 3]
  /\ votedFor = (n1 :> n1 @@ n2 :> Nil @@ n3 :> n1)
  /\ log = (n1 :> <<Sentinel, [index |-> 1, term |-> 1, data |-> x1]>>
         @@ n2 :> <<Sentinel, [index |-> 1, term |-> 2, data |-> x1]>>
         @@ n3 :> <<Sentinel>>)
  /\ disk = [n \in Node |-> State(currentTerm[n], votedFor[n], log[n])]
  /\ role = (n1 :> Leader @@ n2 :> Follower @@ n3 :> Follower)
  /\ commitIndex = [n \in Node |-> 0]
  /\ lastApplied = [n \in Node |-> 0]
  /\ nextIndex = (n1 :> (n2 :> 2 @@ n3 :> 1) @@ n2 :> [p \in Peers(n2) |-> 1]
                  @@ n3 :> [p \in Peers(n3) |-> 0])
  /\ matchIndex = [n \in Node |-> [p \in Peers(n) |-> 0]]
  /\ votesReceived = (n1 :> {n1, n3} @@ n2 :> {n2, n3} @@ n3 :> {})
  /\ electionTimer = [n \in Node |-> n # n1]
  /\ voteReqs = {Req(n1, n2, 1, 0, 0), Req(n1, n3, 1, 0, 0), Req(n2, n1, 2, 0, 0),
                 Req(n2, n3, 2, 0, 0), Req(n1, n2, 3, 1, 1), Req(n1, n3, 3, 1, 1)}
  /\ voteReplies = {Vote(n2, n1, 1, TRUE), Vote(n3, n1, 1, TRUE), Vote(n1, n2, 2, FALSE),
                    Vote(n3, n2, 2, TRUE), Vote(n2, n1, 3, FALSE), Vote(n3, n1, 3, TRUE)}
  /\ appendReqs = {[term |-> 3, leaderId |-> n1, to |-> n3, prevLogIndex |-> 1,
                    prevLogTerm |-> 1, entries |-> <<>>, leaderCommit |-> 0]}
  /\ appendReplies = {[term |-> 3, success |-> FALSE, from |-> n3, to |-> n1,
                       reqTerm |-> 3, lastNewEntryIndex |-> 0]}
  /\ applied = {} /\ crashes = 0

(***************************************************************************)
(* Another one, with a leader and a candidate of one term.  n1 and n2      *)
(* campaign in term 1 and refuse each other; n3 votes for n1, but its      *)
(* answer is late: both timers fire again.  n1 wins term 2 with n3's vote, *)
(* and its timer has fired once more.  n2, a candidate of term 2, has not  *)
(* heard of it, and the requests of the two for each other's vote are on   *)
(* the way.                                                                *)
(***************************************************************************)
SplitInit ==
  /\ currentTerm = [n \in Node |-> 2]
  /\ votedFor = (n1 :> n1 @@ n2 :> n2 @@ n3 :> n1)
  /\ log = [n \in Node |-> <<Sentinel>>]
  /\ disk = [n \in Node |-> State(currentTerm[n], votedFor[n], log[n])]
  /\ role = (n1 :> Leader @@ n2 :> Candidate @@ n3 :> Follower)
  /\ commitIndex = [n \in Node |-> 0]
  /\ lastApplied = [n \in Node |-> 0]
  /\ nextIndex = [n \in Node |-> [p \in Peers(n) |-> IF n = n1 THEN 1 ELSE 0]]
  /\ matchIndex = [n \in Node |-> [p \in Peers(n) |-> 0]]
  /\ votesReceived = (n1 :> {n1, n3} @@ n2 :> {n2} @@ n3 :> {})
  /\ electionTimer = [n \in Node |-> n # n1]
  /\ voteReqs = UNION {{Req(c, p, t, 0, 0) : p \in Peers(c)} : c \in {n1, n2}, t \in {1, 2}}
  /\ voteReplies = {Vote(n2, n1, 1, FALSE), Vote(n3, n1, 1, TRUE), Vote(n1, n2, 1, FALSE),
                    Vote(n3, n2, 1, FALSE), Vote(n3, n1, 2, TRUE)}
  /\ appendReqs = {} /\ appendReplies = {}
  /\ applied = {} /\ crashes = 0

LateSpec == (DivergedInit \/ SplitInit) /\ [][Next]_vars

=============================================================================
