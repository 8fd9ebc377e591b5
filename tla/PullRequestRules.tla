------------------------- MODULE PullRequestRules -------------------------
(***************************************************************************)
(* One pull request through the backend: polls bring its fields, Readiness *)
(* says what they mean, the tracker compares with what it recorded, and    *)
(* notifications say what changed (Monitor.apply, internal/tracker,        *)
(* notify.Select), while its people change it on GitHub, use its menu and  *)
(* the backend restarts.                                                   *)
(*                                                                         *)
(* Its repo has notification settings, whose skip lists and NotifyFor      *)
(* decide once and for all whether this PR's author and branch notify.     *)
(* A step is a section under Monitor.mutex; an action that calls GitHub is *)
(* one with the refresh that follows it.                                   *)
(***************************************************************************)
EXTENDS Readiness, FiniteSets, Naturals

CONSTANTS
  None,        \* no value
  Fields,      \* what GitHub may say of the PR
  Aspects,     \* sets of fields one of which changes between two polls
  Settings,    \* the repo and its notification settings
  Dependencies, \* what it may wait on: sets of states
  Inputs       \* bound: sets of what is done to it in one behaviour

ASSUME ConstantsAssumption ==
  /\ None \notin Fields \cup [status : Statuses, seen : BOOLEAN]
  /\ \A f \in Fields : f.checks \subseteq Check
  /\ \A s \in Settings : s.events \subseteq Statuses \cup {"NEW"}
  /\ \A s \in Inputs : s \subseteq Kinds \cup {"close", "depend", "seen", "restart"}
  /\ \A s \in Dependencies : s \subseteq {"OPEN", "MERGED", "CLOSED", "UNKNOWN"}

VARIABLES
  inputs,   \* what is done in this behaviour
  repo,     \* the repo's settings
  fetched,  \* the PR as last fetched, None if not in the list
  waitsOn, armed, retry, muted,  \* what the backend keeps about it
  record,   \* the tracker's
  loaded,   \* the repo has been fetched since the backend started
  sent,     \* what the last step notified about
  real      \* its last status that was not CHECKING, "" while it had none

kept == <<waitsOn, armed, retry, muted>>
vars == <<inputs, repo, fetched, kept, record, loaded, sent, real>>

(* decorateLocked: GitHub's fields and what the backend adds.               *)
Decorated(f) ==
  [draft |-> f.draft, mergeable |-> f.merge[1], mergeState |-> f.merge[2], rollup |-> f.rollup,
   checks |-> f.checks, hidden |-> f.hidden, review |-> f.review, canBypass |-> f.canBypass,
   auto |-> f.auto, waitsOn |-> waitsOn, retry |-> retry, muted |-> muted]

Shown == Decorated(fetched)

-----------------------------------------------------------------------------
(* The tracker. *)

(* Changes, for one PR: what it had before, "" if no real status yet.       *)
Old == IF record = None \/ record.status = "CHECKING" THEN "" ELSE record.status
Changed(status) == status # "CHECKING" /\ status # Old

(* A mutant of Update: a recompute is recorded like any other status.       *)
UpdateChecking(status) ==
  LET event == \/ record = None
               \/ /\ status # record.status
                  /\ status = "READY" \/ (status \in Alerts /\ record.status \notin Alerts)
  IN record' = [status |-> status, seen |-> record # None /\ record.seen /\ ~ event]

(* Update: while GitHub recomputes, the last real status stays.  A PR that is *)
(* new, gets ready or needs its people is unseen again.                      *)
Update(status) ==
  LET event == \/ record = None
               \/ /\ status # record.status
                  /\ status = "READY" \/ (status \in Alerts /\ record.status \notin Alerts)
  IN IF record # None /\ status = "CHECKING" THEN UNCHANGED record
     ELSE record' = [status |-> status, seen |-> record # None /\ record.seen /\ ~ event]

MarkSeen ==
  /\ "seen" \in inputs /\ record # None /\ ~ record.seen
  /\ record' = [record EXCEPT !.seen = TRUE]
  /\ sent' = None
  /\ UNCHANGED <<inputs, repo, fetched, kept, loaded, real>>

-----------------------------------------------------------------------------
(* Select: a change the settings ask to hear of, as NEW if it is the first.   *)
Selected(pr) ==
  LET state == IF Old = "" THEN "NEW" ELSE Status(pr)
  IN IF /\ Changed(Status(pr)) /\ repo.wanted /\ (pr.draft => repo.drafts) /\ state \in repo.events
     THEN state ELSE None

(* apply, of a list that has the PR as f says: nothing is sent of what the     *)
(* first fetch after a start finds, nor of a muted PR.                        *)
Applies(f) ==
  LET pr == Decorated(f)
  IN /\ fetched' = f /\ loaded' = TRUE
     /\ Update(Status(pr))
     /\ sent' = IF loaded /\ ~ muted THEN Selected(pr) ELSE None
     /\ real' = IF Status(pr) = "CHECKING" THEN real ELSE Status(pr)

(* Of a list without it: the tracker, checkArmed, checkAutoRetry and           *)
(* pruneMutedLocked forget it, and what it waits on goes with it.              *)
Drops ==
  /\ fetched' = None /\ loaded' = TRUE /\ record' = None /\ sent' = None /\ real' = ""
  /\ waitsOn' = {} /\ armed' = FALSE /\ retry' = FALSE /\ muted' = FALSE

(* GitHub: what moved between two polls.                                     *)
Moves(f, g) == \E aspect \in Aspects : \A x \in DOMAIN f \ aspect : g[x] = f[x]

Poll ==
  \E f \in Fields :
    /\ fetched # None => Moves(fetched, f)
    /\ Applies(f)
    /\ UNCHANGED <<inputs, repo, kept>>

Close == "close" \in inputs /\ fetched # None /\ Drops /\ UNCHANGED <<inputs, repo>>

-----------------------------------------------------------------------------
(* The menu's actions and what the backend is told otherwise. *)

(* arm, disarm, setMuted and setAutoRetry: the copy is rebuilt at once.        *)
Keeps(kind) ==
  /\ armed' = IF kind \in {"arm_merge", "disarm_merge"} THEN kind = "arm_merge" ELSE armed
  /\ muted' = IF kind \in {"mute", "unmute"} THEN kind = "mute" ELSE muted
  /\ retry' = IF kind \in {"auto_retry_on", "auto_retry_off"} THEN kind = "auto_retry_on" ELSE retry
  /\ UNCHANGED <<waitsOn, fetched, record, loaded, real>>
  /\ sent' = None

(* runAction: what GitHub then says of the PR, if it takes the call.           *)
Result(kind) ==
  {f \in Fields :
     LET same(xs) == \A x \in DOMAIN f \ xs : f[x] = fetched[x]
     IN \/ kind = "auto_merge_on" /\ same({"auto"}) /\ f.auto
        \/ kind = "auto_merge_off" /\ same({"auto"}) /\ ~ f.auto
        \/ kind = "mark_ready" /\ same({"draft", "merge"}) /\ ~ f.draft
        \/ kind = "convert_to_draft" /\ same({"draft", "merge"}) /\ f.draft
        \/ kind = "update" /\ same({"merge"}) /\ f.merge[2] # "BEHIND"
        \/ kind = "rerun_checks" /\ same({"checks", "rollup"}) /\ f.rollup = "PENDING"}

(* A call GitHub refuses changes nothing; the refresh finds the same PR.       *)
Calls(kind) ==
  \/ kind \in {"merge", "force_merge"} /\ Drops
  \/ /\ \E f \in Result(kind) \cup {fetched} : Applies(f)
     /\ UNCHANGED kept

Perform ==
  /\ fetched # None
  /\ \E kind \in Kinds \cap inputs :
       LET taken == Taken(Shown, kind)
       IN /\ ~ Refused(Shown, kind)
          /\ IF taken \in {"arm_merge", "disarm_merge", "mute", "unmute", "auto_retry_on", "auto_retry_off"}
             THEN Keeps(taken) ELSE Calls(taken)
  /\ UNCHANGED <<inputs, repo>>

(* A dependency is added or removed, or a lookup finds what became of one.     *)
Depend ==
  /\ "depend" \in inputs /\ fetched # None
  /\ waitsOn' \in Dependencies /\ waitsOn' # waitsOn
  /\ sent' = None
  /\ UNCHANGED <<inputs, repo, fetched, armed, retry, muted, record, loaded, real>>

(* The backend restarts: what it saved stays.                                *)
Restart ==
  /\ "restart" \in inputs /\ loaded /\ loaded' = FALSE /\ fetched' = None /\ sent' = None
  /\ UNCHANGED <<inputs, repo, kept, record, real>>

-----------------------------------------------------------------------------
Init ==
  /\ repo \in Settings /\ inputs \in Inputs
  /\ fetched = None /\ waitsOn = {} /\ armed = FALSE /\ retry = FALSE /\ muted = FALSE
  /\ record = None /\ loaded = FALSE /\ sent = None /\ real = ""

Next == Poll \/ Close \/ Perform \/ Depend \/ MarkSeen \/ Restart

Spec == Init /\ [][Next]_vars

-----------------------------------------------------------------------------
(* Types; the tracker knows a PR whose repo was ever fetched with it.        *)
TypeOK ==
  /\ inputs \in Inputs /\ repo \in Settings /\ fetched \in Fields \cup {None}
  /\ waitsOn \in Dependencies \cup {{}} /\ {armed, retry, muted, loaded} \subseteq BOOLEAN
  /\ record \in [status : Statuses, seen : BOOLEAN] \cup {None}
  /\ fetched # None => record # None
  /\ sent \in Statuses \cup {"NEW", None} /\ real \in Statuses \cup {""}

(* The backend takes every action a menu offers, and does that and nothing    *)
(* else; and what pr-mon would merge by itself is what the menu offers to     *)
(* merge without force (internal/actions, internal/readiness, performAction). *)
MenuAgrees ==
  fetched # None =>
    LET menu == Menu(repo, Shown, armed)
    IN /\ \A offer \in menu : offer.available =>
            ~ Refused(Shown, offer.kind) /\ Taken(Shown, offer.kind) = offer.kind
       /\ StrictlyReady(Shown) /\ repo.methods => Offer("merge", TRUE) \in menu
       /\ Status(Shown) \notin {"READY", "PENDING", "DRAFT", "CHECKING", "FAILING"} =>
            \E reason \in Reasons(Shown) : IsProblem(reason)

(* A status is notified about when it is first seen and when it is another    *)
(* than the last real one: a PR is NEW once, a recompute announces nothing    *)
(* and hides nothing (Changes, Update, Select).                             *)
AnnouncedOnce ==
  [][/\ sent' # None => fetched' # None /\ real' # real /\ (sent' = "NEW" <=> real = "")
     /\ /\ loaded /\ fetched' # None /\ real' # real
        /\ ~ muted /\ repo.wanted /\ (fetched'.draft => repo.drafts)
        => IF real = "" THEN "NEW" \in repo.events => sent' = "NEW"
           ELSE real' \in repo.events => sent' = real']_vars
=============================================================================
