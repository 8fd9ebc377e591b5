------------------------ MODULE MCPullRequestRules ------------------------
(***************************************************************************)
(* One pull request for TLC.  GitHub's fields come in the combinations it  *)
(* reports: a draft's merge state says so unless it is being recomputed or *)
(* conflicts, and the rollup follows from the checks, some of them not     *)
(* shown.                                                                  *)
(***************************************************************************)
EXTENDS PullRequestRules

Run(result) == [result |-> result, run |-> TRUE]
Other(result) == [result |-> result, run |-> FALSE]

Merges ==
  {<<FALSE, <<"MERGEABLE", state>>>> : state \in {"CLEAN", "UNSTABLE", "BEHIND", "BLOCKED", "NEWER"}}
  \cup {<<TRUE, <<"MERGEABLE", "DRAFT">>>>}
  \cup {<<d, m>> : d \in BOOLEAN, m \in {<<"CONFLICTING", "DIRTY">>, <<"UNKNOWN", "UNKNOWN">>}}

ChecksSeen ==
  {<<"SUCCESS", {Run("passed")}, FALSE>>, <<"FAILURE", {Run("passed")}, TRUE>>,
   <<"FAILURE", {Run("failed")}, FALSE>>, <<"FAILURE", {Other("failed"), Run("pending")}, FALSE>>,
   <<"PENDING", {Run("pending")}, FALSE>>, <<None, {}, FALSE>>}

MCFields ==
  {[draft |-> m[1], merge |-> m[2], rollup |-> c[1], checks |-> c[2], hidden |-> c[3],
    review |-> r[1], canBypass |-> r[2], auto |-> a] :
     m \in Merges, c \in ChecksSeen, r \in {<<None, TRUE>>, <<"REVIEW_REQUIRED", FALSE>>}, a \in BOOLEAN}

MCInputs ==
  {{"depend", "arm_merge"},
   {"depend", "force_merge", "merge", "auto_merge_on"},
   {"mute", "unmute", "restart"},
   {"seen", "close", "auto_merge_off"},
   {"mark_ready", "convert_to_draft", "update", "rerun_checks"},
   {"auto_retry_on", "auto_retry_off", "arm_merge", "disarm_merge"}}

MCAspects == {{"draft", "merge"}, {"rollup", "checks", "hidden"}}

MCSettings ==
  {[methods |-> TRUE, auto |-> TRUE, wanted |-> TRUE, drafts |-> FALSE,
    events |-> {"NEW", "READY", "FAILING", "BLOCKED"}],
   [methods |-> TRUE, auto |-> FALSE, wanted |-> TRUE, drafts |-> TRUE, events |-> {"READY", "PENDING"}],
   [methods |-> FALSE, auto |-> TRUE, wanted |-> FALSE, drafts |-> TRUE, events |-> {"NEW"}]}

MCDependencies == {{}, {"MERGED"}, {"OPEN"}, {"MERGED", "CLOSED"}}
=============================================================================
