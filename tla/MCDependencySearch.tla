----------------------- MODULE MCDependencySearch -----------------------
(* Three PRs and every map over them, cyclic ones included.                *)
EXTENDS DependencySearch

MCPRs == {1, 2, 3}

MCSaved ==
  LET lists == {list \in UNION {[1..n -> MCPRs] : n \in 0..2} : Distinct(list)}
  IN [MCPRs -> lists]
=========================================================================
