---------------------------- MODULE CommittedLog ----------------------------
(***************************************************************************)
(* What the consensus layer promises the state machines: one log for the   *)
(* whole cluster that only ever grows at its end.                          *)
(***************************************************************************)
EXTENDS Integers, FiniteSets

VARIABLE chosen   \* the entries [index, term, data] handed out so far

\* One entry per index, no index missing, terms in log order.
IsLog(S) ==
  /\ {e.index : e \in S} = 1..Cardinality(S)
  /\ \A d, e \in S : d.index < e.index => d.term <= e.term

Init == chosen = {}

Extend ==
  /\ chosen \subseteq chosen'
  /\ IsLog(chosen')

Spec == Init /\ [][Extend]_chosen

=============================================================================
