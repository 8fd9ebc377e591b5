---------------------------- MODULE Readiness ----------------------------
(***************************************************************************)
(* What pr-mon makes of a pull request's fields: its status and why        *)
(* (internal/readiness), the actions its menu offers (internal/actions)    *)
(* and which of them it takes (performAction).                             *)
(*                                                                         *)
(* A PR is a record of GitHub's fields and of what the backend adds:       *)
(* waitsOn is the set of states of the PRs it waits on.  A reason is what  *)
(* it is about and its level; texts, labels and notes are left out.        *)
(***************************************************************************)

Statuses == {"DRAFT", "CHECKING", "CONFLICT", "FAILING", "PENDING", "EARLY_FAIL",
             "BEHIND", "BLOCKED", "WAITING", "READY"}
Alerts == {"CONFLICT", "FAILING", "BLOCKED"}

ReadyStates == {"CLEAN", "HAS_HOOKS", "UNSTABLE"}
KnownStates == ReadyStates \cup {"BEHIND", "BLOCKED", "DIRTY", "DRAFT", "UNKNOWN"}

Check == [result : {"failed", "pending", "passed"}, run : BOOLEAN]
HasCheck(pr, result) == \E check \in pr.checks : check.result = result

Computing(pr) == pr.mergeable = "UNKNOWN" \/ pr.mergeState = "UNKNOWN"
Conflicts(pr) == pr.mergeable = "CONFLICTING" \/ pr.mergeState = "DIRTY"

PRStatus(pr) ==
  CASE pr.draft -> "DRAFT"
    [] ~ pr.draft /\ Computing(pr) -> "CHECKING"
    [] ~ pr.draft /\ ~ Computing(pr) /\ Conflicts(pr) -> "CONFLICT"
    [] OTHER ->
       IF pr.rollup = "FAILURE" /\ pr.mergeState # "UNSTABLE"
       THEN IF HasCheck(pr, "pending") THEN "EARLY_FAIL" ELSE "FAILING"
       ELSE IF pr.rollup = "PENDING" THEN "PENDING"
       ELSE IF pr.mergeState = "BEHIND" THEN "BEHIND"
       ELSE IF pr.mergeState \in ReadyStates THEN "READY" ELSE "BLOCKED"

(* Safe to merge unattended: no check fails, required or not.               *)
IsStrictlyReady(pr) ==
  /\ PRStatus(pr) = "READY" /\ pr.mergeState \in {"CLEAN", "HAS_HOOKS"}
  /\ pr.rollup # "FAILURE" /\ ~ HasCheck(pr, "failed")

Because(holds, what, level) == IF holds THEN {[what |-> what, level |-> level]} ELSE {}
IsProblem(reason) == reason.level # "info"

PRReasons(pr) ==
  LET found ==
        Because(pr.draft, "draft", "info")
        \cup Because(Computing(pr), "computing", "info")
        \cup Because(Conflicts(pr), "conflicts", "error")
        \cup Because(HasCheck(pr, "failed"), "check failed",
                     IF pr.mergeState = "UNSTABLE" THEN "warning" ELSE "error")
        \cup Because(pr.hidden, "more checks", "info")
        \cup Because(HasCheck(pr, "pending"), "checks pending", "warning")
        \cup Because(pr.review = "CHANGES_REQUESTED", "changes requested", "error")
        \cup Because(pr.review = "REVIEW_REQUIRED", "review required", "warning")
        \cup Because(pr.mergeState = "BEHIND", "behind", "warning")
        \cup Because(pr.mergeState \notin KnownStates, "merge state", "warning")
  IN found \cup Because(/\ pr.mergeState \in KnownStates /\ PRStatus(pr) = "BLOCKED"
                        /\ ~ \E reason \in found : IsProblem(reason), "protection", "error")

Waiting(pr) == pr.waitsOn \ {"MERGED"} # {}

(* Assess, and Wait: a PR that waits on others is not ready, whatever GitHub *)
(* says about it.                                                          *)
Status(pr) ==
  IF ~ (Waiting(pr) /\ PRStatus(pr) = "READY") THEN PRStatus(pr)
  ELSE IF "CLOSED" \in pr.waitsOn THEN "BLOCKED" ELSE "WAITING"

StrictlyReady(pr) == IsStrictlyReady(pr) /\ ~ Waiting(pr)

Reasons(pr) ==
  PRReasons(pr)
  \cup Because("CLOSED" \in pr.waitsOn, "closed unmerged", "error")
  \cup Because(pr.waitsOn \ {"MERGED", "CLOSED"} # {}, "waiting", "warning")

-----------------------------------------------------------------------------
(* The menu.  repo says whether it allows a merge method and GitHub's own   *)
(* auto-merge.                                                             *)

Offer(kind, available) == [kind |-> kind, available |-> available]

CanForce(repo, pr) ==
  pr.canBypass /\ repo.methods /\ ~ pr.draft /\ ~ Waiting(pr) /\ ~ Conflicts(pr) /\ ~ Computing(pr)

MergeOption(repo, pr) ==
  IF Status(pr) = "READY" /\ repo.methods THEN Offer("merge", TRUE)
  ELSE IF CanForce(repo, pr) THEN Offer("force_merge", TRUE) ELSE Offer("merge", FALSE)

(* A mutant of AutoMergeOption: GitHub's auto-merge for a PR that waits too. *)
AutoMergeOptionNative(repo, pr, armed) ==
  IF pr.auto THEN Offer("auto_merge_off", TRUE)
  ELSE IF armed THEN Offer("disarm_merge", TRUE)
  ELSE Offer(IF repo.auto THEN "auto_merge_on" ELSE "arm_merge",
             repo.methods /\ ~ pr.draft /\ Status(pr) # "READY")

(* GitHub's auto-merge where the repo allows it, else pr-mon's: GitHub would *)
(* merge a PR that waits without waiting.                                   *)
AutoMergeOption(repo, pr, armed) ==
  IF pr.auto THEN Offer("auto_merge_off", TRUE)
  ELSE IF armed THEN Offer("disarm_merge", TRUE)
  ELSE Offer(IF repo.auto /\ ~ Waiting(pr) THEN "auto_merge_on" ELSE "arm_merge",
             repo.methods /\ ~ pr.draft /\ Status(pr) # "READY")

FailedRuns(pr) == {check \in pr.checks : check.run /\ check.result = "failed"}

(* Available: the whole menu.                                              *)
Menu(repo, pr, armed) ==
  {MergeOption(repo, pr), AutoMergeOption(repo, pr, armed),
   Offer(IF pr.draft THEN "mark_ready" ELSE "convert_to_draft", TRUE),
   Offer(IF pr.muted THEN "unmute" ELSE "mute", TRUE)}
  \cup (IF pr.mergeState = "BEHIND" THEN {Offer("update", TRUE)} ELSE {})
  \cup (IF FailedRuns(pr) # {} THEN {Offer("rerun_checks", TRUE)} ELSE {})
  \cup (IF pr.retry THEN {Offer("auto_retry_off", TRUE)}
        ELSE IF \E check \in pr.checks : check.run THEN {Offer("auto_retry_on", TRUE)} ELSE {})

-----------------------------------------------------------------------------
(* performAction: what it makes of an action of that kind, and whether it     *)
(* refuses it before it does anything (a client sends any kind at any time).  *)

Kinds == {"merge", "force_merge", "auto_merge_on", "auto_merge_off", "arm_merge", "disarm_merge",
          "update", "mark_ready", "convert_to_draft", "rerun_checks",
          "auto_retry_on", "auto_retry_off", "mute", "unmute"}

Taken(pr, kind) == IF Waiting(pr) /\ kind = "auto_merge_on" THEN "arm_merge" ELSE kind

Refused(pr, kind) ==
  \/ Waiting(pr) /\ kind \in {"merge", "force_merge"}
  \/ kind = "force_merge" /\ ~ pr.canBypass
  \/ kind = "rerun_checks" /\ FailedRuns(pr) = {}
==========================================================================
