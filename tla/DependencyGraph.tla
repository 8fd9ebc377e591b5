------------------------- MODULE DependencyGraph -------------------------
(***************************************************************************)
(* The PR dependency graph of internal/dependencies: which pull requests   *)
(* must merge before which.  The code keeps a map from a waiting PR's key  *)
(* to the keys it waits on; here a graph is its set of edges, and <<p, q>> *)
(* says that p waits on q.  The order in which the edges were added only   *)
(* affects how they are listed, so it is left out.                         *)
(***************************************************************************)

CONSTANT PRs      \* the keys ("owner/repo#12") a graph may mention

Graphs == SUBSET (PRs \X PRs)

WaitsOn(G, p)    == {q \in PRs : <<p, q>> \in G}
RequiredBy(G, p) == {q \in PRs : <<q, p>> \in G}
Targets(G)       == {q \in PRs : \E p \in PRs : <<p, q>> \in G}

Closed(G, C) == \A p, q \in PRs : <<p, q>> \in G /\ p \in C => q \in C

(* start waits on target, directly or through others: every set that holds *)
(* start and is closed under "waits on" holds target.  The code decides it *)
(* by a depth-first search: see DependencySearch.                          *)
Reaches(G, start, target) ==
  \A C \in SUBSET PRs : start \in C /\ Closed(G, C) => target \in C

(* A mutant of CanAdd: it does not search for a cycle.                      *)
CanAddUnsearched(G, from, to) == from # to /\ <<from, to>> \notin G

(* Graph.Add refuses a self-loop, an edge it has, and an edge that would   *)
(* close a cycle.                                                          *)
CanAdd(G, from, to) ==
  /\ from # to
  /\ <<from, to>> \notin G
  /\ ~ Reaches(G, to, from)

Add(G, from, to)    == G \cup {<<from, to>>}
Remove(G, from, to) == G \ {<<from, to>>}

(* A mutant of Forget: it drops what waits on the PRs.                      *)
ForgetTargets(G, S) == {e \in G : e[2] \notin S}

(* Forget drops everything the PRs of S wait on, never what waits on them. *)
Forget(G, S) == {e \in G : e[1] \notin S}

(***************************************************************************)
(* No PR waits, through any chain, on itself: a cycle is a set of PRs none *)
(* of which could ever merge.                                              *)
(***************************************************************************)
Acyclic(G) == \A p, q \in PRs : <<p, q>> \in G => ~ Reaches(G, q, p)
==========================================================================
