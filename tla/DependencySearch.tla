------------------------- MODULE DependencySearch -------------------------
(***************************************************************************)
(* Graph of internal/dependencies as the code has it: a map from a waiting *)
(* PR to the list of PRs it waits on, and the depth-first search with a    *)
(* stack of its own by which Add decides that an edge closes no cycle, one *)
(* turn of its loop at a time.  The map is read from state.json, which a   *)
(* person may have edited, so it may hold a cycle to begin with: the       *)
(* search has to end all the same.                                         *)
(***************************************************************************)
EXTENDS DependencyGraph, Naturals, Sequences

CONSTANT Saved    \* the maps state.json may hold when the backend starts

Distinct(list) == \A i, j \in 1..Len(list) : list[i] = list[j] => i = j

(* A list names a PR once: Add refuses what it has.                         *)
Lists == {list \in Seq(PRs) : Distinct(list)}

ASSUME SavedAssumption == Saved \subseteq [PRs -> Lists]

VARIABLES
  graph,     \* the map; no entry is an empty list
  adding,    \* the edge Add(from, to) is about, or an empty sequence
  seen,      \* reaches: the keys it has visited
  pending    \* reaches: its stack, the top last

searchVars == <<graph, adding, seen, pending>>

Elements(list) == {list[i] : i \in 1..Len(list)}

(* slices.Delete of the i-th.                                              *)
Without(list, i) ==
  [k \in 1..(Len(list) - 1) |-> IF k < i THEN list[k] ELSE list[k + 1]]

Edges == {e \in PRs \X PRs : e[2] \in Elements(graph[e[1]])}

Searching == adding # <<>>

From == adding[1]
To   == adding[2]

Top == pending[Len(pending)]
Rest == [i \in 1..(Len(pending) - 1) |-> pending[i]]

SearchInit ==
  /\ graph \in Saved
  /\ adding = <<>> /\ seen = {} /\ pending = <<>>

(* Add, up to its call of reaches(to, from).                                *)
BeginAdd(p, q) ==
  /\ ~ Searching
  /\ p # q /\ q \notin Elements(graph[p])
  /\ adding' = <<p, q>> /\ seen' = {} /\ pending' = <<q>>
  /\ UNCHANGED graph

(* The search came to the PR that is to wait: the edge is refused.          *)
Refuse ==
  /\ Searching /\ pending # <<>>
  /\ Top = From
  /\ adding' = <<>> /\ seen' = {} /\ pending' = <<>>
  /\ UNCHANGED graph

(* A mutant of Skip: it drops whatever else is on the stack.                *)
SkipRest ==
  /\ Searching /\ pending # <<>>
  /\ Top # From /\ Top \in seen
  /\ pending' = <<>>
  /\ UNCHANGED <<graph, adding, seen>>

Skip ==
  /\ Searching /\ pending # <<>>
  /\ Top # From /\ Top \in seen
  /\ pending' = Rest
  /\ UNCHANGED <<graph, adding, seen>>

(* A mutant of Visit: it does not remember where it has been.               *)
VisitAgain ==
  /\ Searching /\ pending # <<>>
  /\ Top # From /\ Top \notin seen
  /\ pending' = Rest \o graph[Top]
  /\ UNCHANGED <<graph, adding, seen>>

Visit ==
  /\ Searching /\ pending # <<>>
  /\ Top # From /\ Top \notin seen
  /\ seen' = seen \cup {Top}
  /\ pending' = Rest \o graph[Top]
  /\ UNCHANGED <<graph, adding>>

(* A mutant of RecordEdge: it puts the edge in the other PR's list.         *)
RecordEdgeBackwards ==
  /\ Searching /\ pending = <<>>
  /\ graph' = [graph EXCEPT ![To] = Append(@, From)]
  /\ adding' = <<>> /\ seen' = {}
  /\ UNCHANGED pending

(* Nothing left to visit: the edge closes no cycle.                         *)
RecordEdge ==
  /\ Searching /\ pending = <<>>
  /\ graph' = [graph EXCEPT ![From] = Append(@, To)]
  /\ adding' = <<>> /\ seen' = {}
  /\ UNCHANGED pending

RemoveEdge(p, i) ==
  /\ ~ Searching
  /\ graph' = [graph EXCEPT ![p] = Without(@, i)]
  /\ UNCHANGED <<adding, seen, pending>>

ForgetKey(p) ==
  /\ ~ Searching
  /\ graph' = [graph EXCEPT ![p] = <<>>]
  /\ UNCHANGED <<adding, seen, pending>>

SearchNext ==
  \/ \E p, q \in PRs : BeginAdd(p, q)
  \/ Refuse \/ Skip \/ Visit \/ RecordEdge
  \/ \E p \in PRs : ForgetKey(p) \/ \E i \in 1..Len(graph[p]) : RemoveEdge(p, i)

SearchSpec == SearchInit /\ [][SearchNext]_searchVars

(* The loop of reaches runs on once it has begun.                           *)
SearchFairSpec == SearchSpec /\ WF_searchVars(Refuse \/ Skip \/ Visit \/ RecordEdge)

----------------------------------------------------------------------------
SearchTypeOK ==
  /\ graph \in [PRs -> Lists]
  /\ adding \in {<<>>} \cup (PRs \X PRs)
  /\ seen \in SUBSET PRs
  /\ pending \in Seq(PRs)

(* What a search has found so far: everything on the stack and everything  *)
(* visited can be reached from the PR to wait on, nothing is lost on the    *)
(* way from a visited PR, and the PR that is to wait was not met yet.       *)
SearchOK ==
  Searching =>
    /\ From # To /\ To \notin Elements(graph[From])
    /\ To \in seen \cup Elements(pending)
    /\ From \notin seen
    /\ \A p \in seen \cup Elements(pending) : Reaches(Edges, To, p)
    /\ \A p \in seen : WaitsOn(Edges, p) \subseteq seen \cup Elements(pending)

(* The search answers as the graph's promise says, whatever the graph: an  *)
(* edge is added exactly when it is new and closes no cycle, and Remove and *)
(* Forget drop just what they name.                                         *)
Atomic == INSTANCE DependencyStore WITH edges <- Edges

Implements == Atomic!Spec

(* An edge is refused only if it really would close a cycle.                *)
RefusalsJustified ==
  [][Refuse => ~ CanAdd(Edges, From, To)]_searchVars

(* The search ends, even on a graph that already holds a cycle.             *)
SearchEnds == Searching ~> ~ Searching
==========================================================================
