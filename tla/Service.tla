------------------------------ MODULE Service ------------------------------
(***************************************************************************)
(* The client service of the cluster: Put, Get and Delete of               *)
(* internal/rpc/server.go on top of replication (module Raft) and of the   *)
(* state machine of every node (state_machine.go).  A handler proposes a   *)
(* command and does not wait for that command: Put polls the local engine  *)
(* until it finds an equal value and gives up after two seconds with       *)
(* success, Delete answers at once, Get reads the local engine.            *)
(*                                                                         *)
(* The store is one key.  A command of Raft is the value put, or Deleted.  *)
(* The channel between node and state machine never fills here; module     *)
(* StateMachine is about a full one, and about several keys, where what a  *)
(* refused command leaves out can be seen.  The two seconds are not        *)
(* measured: the timeout may happen at any time.                           *)
(***************************************************************************)
EXTENDS Raft

CONSTANTS
  Client,    \* each sends one request
  Deleted    \* the command that deletes the key

ASSUME ServiceAssumption == Deleted \in Value /\ Nil \notin Value

VARIABLES
  applyCh,     \* per node: the entries handed over, not yet taken
  smApplied,   \* per node: StateMachine.lastApplied
  kv,          \* per node: what the engine holds for the key
  reached,     \* per node: the highest index applied before its last restart
  call         \* per client: its request and the answer

machineVars == <<applyCh, smApplied, kv, reached>>
serviceVars == <<machineVars, call>>
allVars == <<vars, serviceVars>>

Waiting  == "waiting"    \* Put polls the engine
Seen     == "seen"       \* success: the poll found the value
TimedOut == "timed out"  \* success: two seconds are over
Proposed == "proposed"   \* success of a Delete
Failed   == "failed"     \* the node died before it answered
Idle     == "idle"

\* The request of a client that reached the leader n: the entry Propose made of it.
Accepted(status, n, entry) == [status |-> status, node |-> n, entry |-> entry]

ServiceInit ==
  /\ Init
  /\ applyCh = [n \in Node |-> <<>>]
  /\ smApplied = [n \in Node |-> 0] /\ reached = [n \in Node |-> 0]
  /\ kv = [n \in Node |-> Nil]
  /\ call = [c \in Client |-> [status |-> Idle]]

-----------------------------------------------------------------------------
(* A node and its state machine.                                           *)

\* applyCommittedEntriesLocked sends what the step of n committed.
Deliver(n) ==
  applyCh' = [applyCh EXCEPT ![n] = @ \o SubSeq(log'[n], lastApplied[n] + 2, lastApplied'[n] + 1)]

RaftStep(n) ==
  /\ \/ OnElectionTimeout(n)
     \/ \E m \in voteReqs : HandleRequestVote(n, m)
     \/ \E m \in voteReplies : HandleVoteReply(n, m)
     \/ BecomeLeader(n)
     \/ \E p \in Peers(n) : ReplicateToPeer(n, p)
     \/ \E m \in appendReqs : HandleAppendEntries(n, m)
     \/ \E m \in appendReplies : HandleAppendReply(n, m)
  /\ Deliver(n)
  /\ UNCHANGED <<smApplied, kv, reached, call>>

\* What Engine.Get finds after the command.
Content(v) == IF v = Deleted THEN Nil ELSE v

\* Mutant: StateMachine.lastApplied moves on although the engine refused.
ApplyOrRefuse(n) ==
  /\ applyCh[n] # <<>>
  /\ applyCh' = [applyCh EXCEPT ![n] = Tail(@)]
  /\ smApplied' = [smApplied EXCEPT ![n] = Head(applyCh[n]).index]
  /\ kv' \in {kv, [kv EXCEPT ![n] = Content(Head(applyCh[n]).data)]}
  /\ UNCHANGED <<vars, reached, call>>

\* handleApplyMsg: an index that is not beyond lastApplied is dropped, and so is a
\* command that the engine refuses, which moves neither lastApplied nor the engine.
Apply(n) ==
  /\ applyCh[n] # <<>>
  /\ applyCh' = [applyCh EXCEPT ![n] = Tail(@)]
  /\ LET e == Head(applyCh[n]) IN
     \/ e.index <= smApplied[n] /\ UNCHANGED <<smApplied, kv>>
     \/ e.index > smApplied[n] /\ UNCHANGED <<smApplied, kv>>
     \/ /\ e.index > smApplied[n]
        /\ smApplied' = [smApplied EXCEPT ![n] = e.index]
        /\ kv' = [kv EXCEPT ![n] = Content(e.data)]
  /\ UNCHANGED <<vars, reached, call>>

\* The process restarts: the engine keeps its content, callers lose their answer.
RestartNode(n) ==
  /\ Restart(n) \/ CrashInHandler(n)
  /\ applyCh' = [applyCh EXCEPT ![n] = <<>>]
  /\ smApplied' = [smApplied EXCEPT ![n] = 0]
  /\ reached' = [reached EXCEPT ![n] = Max({@, smApplied[n]})]
  /\ call' = [c \in Client |-> IF call[c].status = Waiting /\ call[c].node = n
                               THEN [call[c] EXCEPT !.status = Failed] ELSE call[c]]
  /\ UNCHANGED kv

-----------------------------------------------------------------------------
(* The handlers of the service.                                            *)

\* encodeCommand and Propose; the handler goes on with status.  On a node that is
\* not, or no longer, the leader the handler returns an error without effect.
Submit(c, n, v, status) ==
  /\ call[c].status = Idle
  /\ Propose(n, v)
  /\ call' = [call EXCEPT ![c] = Accepted(status, n, log'[n][Len(log'[n])])]
  /\ UNCHANGED machineVars

Put(c, n) == \E v \in Value \ {Deleted} : Submit(c, n, v, Waiting)

\* Delete returns success as soon as the entry is in the leader's log.
Delete(c, n) == Submit(c, n, Deleted, Proposed)

\* Server.Get on node n.
Get(n) == kv[n]

\* Mutant: the poll ends when the index of the entry has been applied, whoever
\* proposed what stands there.
FindsIndex(c) == smApplied[call[c].node] >= call[c].entry.index

\* The poll compares values, not entries.
Finds(c) == Get(call[c].node) = call[c].entry.data

Answer(c, status) ==
  /\ call' = [call EXCEPT ![c].status = status]
  /\ UNCHANGED <<vars, machineVars>>

PutSeen(c) == call[c].status = Waiting /\ Finds(c) /\ Answer(c, Seen)

\* Two seconds are over; the last poll may be ten milliseconds old.
PutTimeout(c) == call[c].status = Waiting /\ Answer(c, TimedOut)

ServiceNext ==
  \/ \E n \in Node : RaftStep(n) \/ Apply(n) \/ RestartNode(n)
  \/ \E c \in Client : \E n \in Node : Put(c, n) \/ Delete(c, n)
  \/ \E c \in Client : PutSeen(c) \/ PutTimeout(c)

ServiceSpec == ServiceInit /\ [][ServiceNext]_allVars

-----------------------------------------------------------------------------
(* What clients may rely on.                                               *)

\* The replay after a restart has passed what the engine had before.
Replayed(n) == smApplied[n] >= reached[n]

\* The entry committed at index i, whichever node handed it over first.
CommittedAt(i) == CHOOSE e \in applied : e.index = i

\* Wherever a client reads, it reads a state of the one committed history: Get on
\* any node, deposed leader or lagging follower, returns what the entry at that
\* node's StateMachine.lastApplied made, so nodes that applied equally far agree.
\* That is said of one key: every command overwrites what a refused one left out.
\* With several keys nodes that applied equally far would agree only if neither
\* had refused a command (CleanProcessFollowsLog of StateMachine).
ReadsAreCommitted ==
  \A n \in Node : Replayed(n) =>
    Get(n) = IF smApplied[n] = 0 THEN Nil ELSE Content(CommittedAt(smApplied[n]).data)

\* No other request writes the value of client c.
Unmistakable(c) ==
  \A d \in Client \ {c} : "entry" \in DOMAIN call[d] => call[d].entry.data # call[c].entry.data

\* A Put that ends because its poll found the value, which nobody else writes, is
\* committed whatever leaders follow, and the node that answered serves it.
SeenPutIsCommitted ==
  \A c \in Client : call[c].status = Seen /\ Unmistakable(c) =>
    LET n == call[c].node IN
    /\ call[c].entry \in applied
    /\ Replayed(n) => smApplied[n] >= call[c].entry.index

\* internal/raft/chaos_test.go counts a Put with Success among the committed keys
\* and expects all of them later: the command of a Put that was answered with
\* success never loses its place in the committed log to another one.  The success
\* of the timeout comes after two seconds: the test gives up after half a second and
\* PeerPool.Put after two, so it reaches a gRPC client with a longer deadline.
SuccessIsKept ==
  \A c \in Client : call[c].status \in {Seen, TimedOut} =>
    \A e \in applied : e.index = call[c].entry.index => e = call[c].entry

=============================================================================
