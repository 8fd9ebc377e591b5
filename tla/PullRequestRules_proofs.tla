---------------------- MODULE PullRequestRules_proofs ----------------------
(***************************************************************************)
(* What the menu offers the backend takes, and each change of a pull       *)
(* request is announced once: for whatever GitHub may say of it, known     *)
(* merge states or new ones, any settings and any dependencies.            *)
(*                                                                         *)
(* The rules are proved as facts about any record pr; the history needs    *)
(* one invariant, that the tracker has recorded the last real status.      *)
(***************************************************************************)
EXTENDS PullRequestRules, TLAPS

----------------------------------------------------------------------------
(* The rules.                                                              *)

LEMMA StatusIsOne ==
  ASSUME NEW pr
  PROVE  PRStatus(pr) \in Statuses /\ Status(pr) \in Statuses
<1>1. PRStatus(pr) \in Statuses
  BY DEF PRStatus, Statuses
<1> QED
  BY <1>1 DEF Status, Statuses

(* A PR that waits is never ready.                                          *)
LEMMA ReadyWaitsNot ==
  ASSUME NEW pr, Status(pr) = "READY"
  PROVE  PRStatus(pr) = "READY" /\ ~ Waiting(pr)
BY DEF Status

(* What is offered is what happens: no offer is refused, none means another.*)
LEMMA OffersTaken ==
  ASSUME NEW settings, NEW pr, NEW isArmed, NEW offer \in Menu(settings, pr, isArmed),
         offer.available
  PROVE  ~ Refused(pr, offer.kind) /\ Taken(pr, offer.kind) = offer.kind
<1>1. CASE offer = MergeOption(settings, pr)
  <2>1. CASE Status(pr) = "READY" /\ settings.methods
    BY <1>1, <2>1, ReadyWaitsNot DEF MergeOption, Offer, Refused, Taken
  <2>2. CASE ~ (Status(pr) = "READY" /\ settings.methods) /\ CanForce(settings, pr)
    BY <1>1, <2>2 DEF MergeOption, Offer, Refused, Taken, CanForce
  <2>3. CASE ~ (Status(pr) = "READY" /\ settings.methods) /\ ~ CanForce(settings, pr)
    BY <1>1, <2>3 DEF MergeOption, Offer
  <2> QED
    BY <2>1, <2>2, <2>3
<1>2. CASE offer = AutoMergeOption(settings, pr, isArmed)
  <2>1. /\ offer.kind \in {"auto_merge_off", "disarm_merge", "auto_merge_on", "arm_merge"}
        /\ offer.kind = "auto_merge_on" => ~ Waiting(pr)
    BY <1>2 DEF AutoMergeOption, Offer
  <2> QED
    BY <2>1 DEF Refused, Taken
<1>3. CASE offer = Offer("rerun_checks", TRUE) /\ FailedRuns(pr) # {}
  BY <1>3 DEF Offer, Refused, Taken
<1>4. CASE offer \in {Offer(kind, TRUE) :
                        kind \in {"mark_ready", "convert_to_draft", "unmute", "mute", "update",
                                  "auto_retry_off", "auto_retry_on"}}
  BY <1>4 DEF Offer, Refused, Taken
<1> QED
  <2>1. \/ offer = MergeOption(settings, pr) \/ offer = AutoMergeOption(settings, pr, isArmed)
        \/ offer = Offer(IF pr.draft THEN "mark_ready" ELSE "convert_to_draft", TRUE)
        \/ offer = Offer(IF pr.muted THEN "unmute" ELSE "mute", TRUE)
        \/ offer = Offer("update", TRUE)
        \/ offer = Offer("rerun_checks", TRUE) /\ FailedRuns(pr) # {}
        \/ offer = Offer("auto_retry_off", TRUE) \/ offer = Offer("auto_retry_on", TRUE)
    BY DEF Menu
  <2> QED
    BY <1>1, <1>2, <1>3, <1>4, <2>1

LEMMA StrictlyReadyIsOffered ==
  ASSUME NEW settings, NEW pr, NEW isArmed, StrictlyReady(pr), settings.methods
  PROVE  Offer("merge", TRUE) \in Menu(settings, pr, isArmed)
<1>1. Status(pr) = "READY"
  BY DEF StrictlyReady, IsStrictlyReady, Status
<1> QED
  BY <1>1 DEF Menu, MergeOption

LEMMA BecauseHas ==
  ASSUME NEW holds, NEW what, NEW level, holds
  PROVE  [what |-> what, level |-> level] \in Because(holds, what, level)
BY DEF Because

LEMMA HasProblem ==
  ASSUME NEW pr, NEW what, NEW level \in {"error", "warning"},
         [what |-> what, level |-> level] \in Reasons(pr)
  PROVE  \E reason \in Reasons(pr) : IsProblem(reason)
<1> DEFINE r == [what |-> what, level |-> level]
<1>1. IsProblem(r)
  BY DEF IsProblem
<1>2. r \in Reasons(pr)
  OBVIOUS
<1> HIDE DEF r
<1> QED
  BY <1>1, <1>2

(* A PR that does not get on says why: at least one of its reasons is a      *)
(* problem.                                                                *)
LEMMA StuckHasProblem ==
  ASSUME NEW pr, Status(pr) \notin {"READY", "PENDING", "DRAFT", "CHECKING", "FAILING"}
  PROVE  \E reason \in Reasons(pr) : IsProblem(reason)
<1> DEFINE found ==
        Because(pr.draft, "draft", "info")
        \cup Because(Computing(pr), "computing", "info")
        \cup Because(Conflicts(pr), "conflicts", "error")
        \cup Because(HasCheck(pr, "failed"), "check failed",
                     IF pr.mergeState = "UNSTABLE" THEN "warning" ELSE "error")
        \cup Because(pr.hidden, "more checks", "info")
        \cup Because(HasCheck(pr, "pending"), "checks pending", "warning")
        \cup Because(pr.review = "CHANGES_REQUESTED", "changes requested", "error")
        \cup Because(pr.review = "REVIEW_REQUIRED", "review required", "warning")
        \cup Because(pr.mergeState = "BEHIND", "behind", "warning")
        \cup Because(pr.mergeState \notin KnownStates, "merge state", "warning")
<1> DEFINE nothing == /\ pr.mergeState \in KnownStates /\ PRStatus(pr) = "BLOCKED"
                      /\ ~ \E reason \in found : IsProblem(reason)
<1>1. Reasons(pr) = (found \cup Because(nothing, "protection", "error"))
                    \cup Because("CLOSED" \in pr.waitsOn, "closed unmerged", "error")
                    \cup Because(pr.waitsOn \ {"MERGED", "CLOSED"} # {}, "waiting", "warning")
  BY DEF Reasons, PRReasons
<1>2. CASE Waiting(pr) /\ PRStatus(pr) = "READY"
  <2>1. CASE "CLOSED" \in pr.waitsOn
    <3>1. [what |-> "closed unmerged", level |-> "error"] \in Reasons(pr)
      BY <1>1, <2>1, BecauseHas
    <3> QED
      BY <3>1, HasProblem
  <2>2. CASE "CLOSED" \notin pr.waitsOn
    <3>1. pr.waitsOn \ {"MERGED", "CLOSED"} # {}
      BY <1>2, <2>2 DEF Waiting
    <3>2. [what |-> "waiting", level |-> "warning"] \in Reasons(pr)
      BY <1>1, <3>1, BecauseHas
    <3> QED
      BY <3>2, HasProblem
  <2> QED
    BY <2>1, <2>2
<1>3. CASE ~ (Waiting(pr) /\ PRStatus(pr) = "READY")
  <2>1. PRStatus(pr) \in {"CONFLICT", "EARLY_FAIL", "BEHIND", "BLOCKED", "WAITING"}
    BY <1>3, StatusIsOne DEF Status, Statuses
  <2>2. CASE PRStatus(pr) = "CONFLICT"
    <3>1. Conflicts(pr)
      BY <2>2 DEF PRStatus
    <3>2. [what |-> "conflicts", level |-> "error"] \in Reasons(pr)
      BY <1>1, <3>1, BecauseHas
    <3> QED
      BY <3>2, HasProblem
  <2>3. CASE PRStatus(pr) = "EARLY_FAIL"
    <3>1. HasCheck(pr, "pending")
      BY <2>3 DEF PRStatus
    <3>2. [what |-> "checks pending", level |-> "warning"] \in Reasons(pr)
      BY <1>1, <3>1, BecauseHas
    <3> QED
      BY <3>2, HasProblem
  <2>4. CASE PRStatus(pr) = "BEHIND"
    <3>1. pr.mergeState = "BEHIND"
      BY <2>4 DEF PRStatus
    <3>2. [what |-> "behind", level |-> "warning"] \in Reasons(pr)
      BY <1>1, <3>1, BecauseHas
    <3> QED
      BY <3>2, HasProblem
  <2>5. CASE PRStatus(pr) = "BLOCKED"
    <3>1. CASE pr.mergeState \notin KnownStates
      <4>1. [what |-> "merge state", level |-> "warning"] \in Reasons(pr)
        BY <1>1, <3>1, BecauseHas
      <4> QED
        BY <4>1, HasProblem
    <3>2. CASE pr.mergeState \in KnownStates
      <4>1. nothing \/ \E reason \in found : IsProblem(reason)
        BY <2>5, <3>2
      <4> HIDE DEF found, nothing
      <4>2. nothing => [what |-> "protection", level |-> "error"] \in Because(nothing, "protection", "error")
        BY BecauseHas
      <4>3. CASE nothing
        BY <1>1, <4>2, <4>3, HasProblem
      <4> QED
        BY <1>1, <4>1, <4>3
    <3> QED
      BY <3>1, <3>2
  <2>6. PRStatus(pr) # "WAITING"
    BY DEF PRStatus
  <2> QED
    BY <2>1, <2>2, <2>3, <2>4, <2>5, <2>6
<1> QED
  BY <1>2, <1>3

(* Whatever GitHub says of a PR and whatever it waits on, the backend takes   *)
(* each action its menu offers, pr-mon merges alone only what the menu offers *)
(* to merge, and a PR that does not get on has a problem to show             *)
(* (actions.Available, performAction, readiness.Assess).                    *)
THEOREM MenuSound == Spec => []MenuAgrees
<1>1. MenuAgrees
  BY OffersTaken, StrictlyReadyIsOffered, StuckHasProblem DEF MenuAgrees
<1> QED
  BY <1>1, PTL

----------------------------------------------------------------------------
(* The history.                                                            *)

(* The tracker has recorded the last real status, and holds nothing else     *)
(* that counts as one: a recompute is recorded only where nothing was.       *)
Recorded == real = Old

IInv == TypeOK /\ Recorded

LEMMA InitHolds == Init => IInv
<1> SUFFICES ASSUME Init PROVE IInv
  OBVIOUS
<1>1. TypeOK
  BY DEF Init, TypeOK
<1>2. Recorded
  BY DEF Init, Recorded, Old
<1> QED
  BY <1>1, <1>2 DEF IInv

(* Update keeps what Changes compares with.                                 *)
LEMMA UpdateRecords ==
  ASSUME TypeOK, NEW status \in Statuses, Update(status)
  PROVE  /\ record' \in [status : Statuses, seen : BOOLEAN]
         /\ Old' = IF status = "CHECKING" THEN Old ELSE status
<1> DEFINE event == \/ record = None
                    \/ /\ status # record.status
                       /\ status = "READY" \/ (status \in Alerts /\ record.status \notin Alerts)
<1> DEFINE seen == record # None /\ record.seen /\ ~ event
<1>1. None \notin [status : Statuses, seen : BOOLEAN]
  BY ConstantsAssumption
<1>2. CASE record # None /\ status = "CHECKING"
  <2>1. record \in [status : Statuses, seen : BOOLEAN]
    BY <1>2 DEF TypeOK
  <2>2. record' = record
    BY <1>2 DEF Update
  <2> QED
    BY <1>2, <2>1, <2>2 DEF Old
<1>3. CASE ~ (record # None /\ status = "CHECKING")
  <2>1. record' = [status |-> status, seen |-> seen]
    BY <1>3 DEF Update
  <2>2. seen \in BOOLEAN
    OBVIOUS
  <2> HIDE DEF seen
  <2>3. record' \in [status : Statuses, seen : BOOLEAN] /\ record'.status = status
    BY <2>1, <2>2
  <2>4. record' # None
    BY <1>1, <2>3
  <2>5. status = "CHECKING" => Old = ""
    BY <1>3 DEF Old
  <2> QED
    BY <2>3, <2>4, <2>5 DEF Old
<1> QED
  BY <1>2, <1>3

LEMMA AppliesKeeps ==
  ASSUME IInv, NEW f \in Fields, Applies(f)
  PROVE  /\ fetched' \in Fields /\ loaded' = TRUE /\ real' \in Statuses \cup {""}
         /\ record' \in [status : Statuses, seen : BOOLEAN] /\ record' # None
         /\ sent' \in Statuses \cup {"NEW", None}
         /\ Recorded'
<1> DEFINE status == Status(Decorated(f))
<1>1. status \in Statuses
  BY StatusIsOne
<1>2. fetched' = f /\ loaded' = TRUE /\ Update(status)
  BY DEF Applies
<1>3. real' = IF status = "CHECKING" THEN real ELSE status
  BY DEF Applies
<1>4. Selected(Decorated(f)) \in Statuses \cup {"NEW", None}
  BY <1>1 DEF Selected
<1>5. sent' \in Statuses \cup {"NEW", None}
  BY <1>4 DEF Applies
<1> HIDE DEF status
<1>6. record' \in [status : Statuses, seen : BOOLEAN] /\ Old' = IF status = "CHECKING" THEN Old ELSE status
  BY <1>1, <1>2, UpdateRecords DEF IInv
<1>7. Recorded' /\ real' \in Statuses \cup {""}
  BY <1>1, <1>3, <1>6 DEF IInv, Recorded, TypeOK
<1> QED
  BY <1>2, <1>5, <1>6, <1>7, ConstantsAssumption

LEMMA DropsKeeps ==
  ASSUME IInv, Drops, UNCHANGED <<inputs, repo>>
  PROVE  IInv'
BY DEF IInv, TypeOK, Recorded, Old, Drops

LEMMA AppliesHolds ==
  ASSUME IInv, NEW f \in Fields, Applies(f), UNCHANGED <<inputs, repo, kept>>
  PROVE  IInv'
BY AppliesKeeps DEF IInv, TypeOK, kept

LEMMA NextHolds == IInv /\ [Next]_vars => IInv'
<1> SUFFICES ASSUME IInv, [Next]_vars PROVE IInv'
  OBVIOUS
<1>1. CASE Poll
  BY <1>1, AppliesHolds DEF Poll, kept
<1>2. CASE Close
  BY <1>2, DropsKeeps DEF Close
<1>3. CASE Perform
  <2>1. fetched \in Fields
    BY <1>3 DEF Perform, IInv, TypeOK
  <2>2. PICK kind \in Kinds \cap inputs :
          \/ Keeps(Taken(Shown, kind))
          \/ Calls(Taken(Shown, kind))
    BY <1>3 DEF Perform
  <2> DEFINE taken == Taken(Shown, kind)
  <2>3. UNCHANGED <<inputs, repo>>
    BY <1>3 DEF Perform
  <2> HIDE DEF taken
  <2>4. CASE Keeps(taken)
    BY <2>3, <2>4 DEF Keeps, IInv, TypeOK, Recorded, Old
  <2>5. CASE Calls(taken)
    <3>1. CASE Drops
      BY <2>3, <3>1, DropsKeeps
    <3>2. CASE (\E f \in Result(taken) \cup {fetched} : Applies(f)) /\ UNCHANGED kept
      <4>1. Result(taken) \subseteq Fields
        BY DEF Result
      <4>2. PICK f \in Fields : Applies(f)
        BY <2>1, <3>2, <4>1
      <4> QED
        BY <2>3, <3>2, <4>2, AppliesHolds DEF kept
    <3> QED
      BY <2>5, <3>1, <3>2 DEF Calls
  <2> QED
    BY <2>2, <2>4, <2>5 DEF taken
<1>4. CASE Depend
  BY <1>4 DEF Depend, IInv, TypeOK, Recorded, Old
<1>5. CASE MarkSeen
  <2>1. /\ record \in [status : Statuses, seen : BOOLEAN] /\ record' = [record EXCEPT !.seen = TRUE]
        /\ UNCHANGED <<inputs, repo, fetched, kept, loaded, real>> /\ sent' = None
    BY <1>5 DEF MarkSeen, IInv, TypeOK
  <2>2. record' \in [status : Statuses, seen : BOOLEAN] /\ record'.status = record.status
    BY <2>1
  <2>3. record' # None /\ record # None
    BY <2>1, <2>2, ConstantsAssumption
  <2> QED
    BY <2>1, <2>2, <2>3 DEF IInv, TypeOK, Recorded, Old, kept
<1>6. CASE Restart
  BY <1>6 DEF Restart, IInv, TypeOK, Recorded, Old, kept
<1>7. CASE UNCHANGED vars
  BY <1>7 DEF vars, kept, IInv, TypeOK, Recorded, Old
<1> QED
  BY <1>1, <1>2, <1>3, <1>4, <1>5, <1>6, <1>7 DEF Next

LEMMA Holds == Spec => []IInv
BY InitHolds, NextHolds, PTL DEF Spec

(* AnnouncedOnce, of the steps that apply a list with the PR.                *)
LEMMA AppliesAnnounces ==
  ASSUME IInv, NEW f \in Fields, Applies(f), UNCHANGED repo
  PROVE  /\ sent' # None => fetched' # None /\ real' # real /\ (sent' = "NEW" <=> real = "")
         /\ /\ loaded /\ real' # real
            /\ ~ muted /\ repo.wanted /\ (fetched'.draft => repo.drafts)
            => IF real = "" THEN "NEW" \in repo.events => sent' = "NEW"
               ELSE real' \in repo.events => sent' = real'
<1> DEFINE pr == Decorated(f)
           status == Status(pr)
           state == IF real = "" THEN "NEW" ELSE status
<1>1. status \in Statuses /\ "NEW" \notin Statuses /\ "" \notin Statuses
  BY StatusIsOne DEF Statuses
<1>2. pr.draft = f.draft
  BY DEF Decorated
<1>3. fetched' = f /\ fetched' # None
  BY ConstantsAssumption DEF Applies
<1>4. real' = IF status = "CHECKING" THEN real ELSE status
  BY DEF Applies
<1>5. real = Old
  BY DEF IInv, Recorded
<1>6. Selected(pr) = IF /\ status # "CHECKING" /\ status # real /\ repo.wanted
                        /\ (f.draft => repo.drafts) /\ state \in repo.events
                     THEN state ELSE None
  BY <1>2, <1>5 DEF Selected, Changed
<1>7. sent' = IF loaded /\ ~ muted THEN Selected(pr) ELSE None
  BY DEF Applies
<1> HIDE DEF pr, status
<1> QED
  BY <1>1, <1>3, <1>4, <1>6, <1>7

(* Over any history of polls, actions and restarts a status is notified      *)
(* about when it is first seen and when it differs from the last real one, as *)
(* NEW exactly once, and no recompute hides a change (Update, Changes, Select,*)
(* Monitor.apply).                                                         *)
THEOREM StatusAnnouncedOnce == Spec => AnnouncedOnce
<1> DEFINE Good ==
        /\ sent' # None => fetched' # None /\ real' # real /\ (sent' = "NEW" <=> real = "")
        /\ /\ loaded /\ fetched' # None /\ real' # real
           /\ ~ muted /\ repo.wanted /\ (fetched'.draft => repo.drafts)
           => IF real = "" THEN "NEW" \in repo.events => sent' = "NEW"
              ELSE real' \in repo.events => sent' = real'
<1>1. ASSUME IInv, [Next]_vars PROVE [Good]_vars
  <2>1. ASSUME NEW f \in Fields, Applies(f), UNCHANGED repo PROVE Good
    BY <1>1, <2>1, AppliesAnnounces
  <2>2. ASSUME sent' = None, fetched' = None \/ UNCHANGED real PROVE Good
    BY <2>2
  <2> HIDE DEF Good
  <2>3. CASE Poll
    BY <2>1, <2>3 DEF Poll
  <2>4. CASE Close
    BY <2>2, <2>4 DEF Close, Drops
  <2>5. CASE Perform
    <3>1. fetched \in Fields /\ UNCHANGED repo
      BY <1>1, <2>5 DEF Perform, IInv, TypeOK
    <3>2. PICK kind \in Kinds \cap inputs :
            \/ Keeps(Taken(Shown, kind))
            \/ Calls(Taken(Shown, kind))
      BY <2>5 DEF Perform
    <3>3. Result(Taken(Shown, kind)) \subseteq Fields
      BY DEF Result
    <3> QED
      BY <2>1, <2>2, <3>1, <3>2, <3>3 DEF Keeps, Calls, Drops
  <2>6. CASE Depend
    BY <2>2, <2>6 DEF Depend
  <2>7. CASE MarkSeen
    BY <2>2, <2>7 DEF MarkSeen
  <2>8. CASE Restart
    BY <2>2, <2>8 DEF Restart
  <2> QED
    BY <1>1, <2>3, <2>4, <2>5, <2>6, <2>7, <2>8 DEF Next
<1> QED
  BY <1>1, Holds, PTL DEF Spec, AnnouncedOnce
=============================================================================
