------------------------ MODULE MCMergeWhenReady ------------------------
(* Small instances of MergeWhenReady: a PR of a monitored repo and one it  *)
(* may wait on, in the same repo or in another.                            *)
EXTENDS MergeWhenReady, TLC

CONSTANTS acme, lib        \* the repos

MCPRs == {1, 2}
OneRepo  == [p \in MCPRs |-> acme]
TwoRepos == [p \in MCPRs |-> IF p = 1 THEN acme ELSE lib]

(* PRs 3 and 4 are in the repo of PR 1, whose list they cut off.            *)
CrowdedPRs  == 1..4
CrowdedRepo == [p \in CrowdedPRs |-> IF p = 2 THEN lib ELSE acme]

(* PR 1 may wait on PR 2, which can merge at once: what is ready and what   *)
(* is not shows on PR 1.  Others are only there, with something kept about  *)
(* PR 1, or are not: one of them cuts the list off until PR 1 closes, two   *)
(* for ever.                                                               *)
Others == {p \in PRs \ MCPRs : gh[p].state = "OPEN"}

MCInit ==
  /\ monitored = {acme} /\ deps \in {{}, {<<1, 2>>}}
  /\ gh \in {G \in [PRs -> {g \in OnGitHub : g.head = 0 /\ g.state # "MERGED"}] :
             /\ G[1].state = "OPEN" /\ G[2].state = "OPEN" /\ G[2].ready
             /\ \A p \in PRs \ MCPRs : ~ G[p].ready}
  /\ Init
  /\ armed \subseteq MCPRs
  /\ Others # {} => 4 \in Others /\ armed = {1} /\ deps # {}

ThreadSymmetry == Permutations(Threads)

MCSpec == MCInit /\ [][Next]_vars

MCFairSpec == MCSpec /\ Fairness
=========================================================================
