------------------------- MODULE DependencyStore -------------------------
(***************************************************************************)
(* What internal/dependencies promises its users: a set of edges to which  *)
(* one is added only if it closes no cycle, in one step.  How Graph.Add    *)
(* finds that out is in DependencySearch, who calls it in MergeWhenReady;  *)
(* both implement this.                                                    *)
(***************************************************************************)
EXTENDS DependencyGraph

VARIABLE edges

Init == edges \in Graphs

AddOne ==
  \E p, q \in PRs : CanAdd(edges, p, q) /\ edges' = Add(edges, p, q)

RemoveOne ==
  \E p, q \in PRs : edges' = Remove(edges, p, q)

ForgetSome ==
  \E S \in SUBSET PRs : edges' = Forget(edges, S)

Next == AddOne \/ RemoveOne \/ ForgetSome

Spec == Init /\ [][Next]_edges
==========================================================================
