--------------------------- MODULE MCRepoWatch ---------------------------
(* Small instances of RepoWatch: a list holds one PR.                       *)
EXTENDS RepoWatch

MCPRs == {1, 2, 3}

(* Where each PR is at the start, which is muted and which is set to retry. *)
Begins(open, quiet, retried) ==
  /\ muted = quiet
  /\ retry = [p \in PRs |-> IF p \in retried THEN 0 ELSE None]
  /\ gh = [p \in PRs |-> [state    |-> IF p \in open THEN "OPEN" ELSE "NEW",
                          head     |-> 0,
                          checks   |-> IF p \in Newest(open, PRLimit) THEN "running"
                                       ELSE "passed",
                          attempts |-> 0]]

(* One PR is open, and muted; or three, of which the oldest is muted and    *)
(* set to retry, and the list stays cut off when one of them closes.        *)
MCInit ==
  /\ \/ Begins({1}, {1}, {})
     \/ Begins({1, 2, 3}, {1}, {1})
  /\ Init

MCSpec == MCInit /\ [][Next]_vars

MCFairSpec == MCSpec /\ Fairness
==========================================================================
