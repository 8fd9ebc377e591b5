---------------------------- MODULE RepoWatch ----------------------------
(***************************************************************************)
(* How the backend keeps its copy of one monitored repository up to date:  *)
(* internal/service/poll.go, with the full fetch of service.go, automatic  *)
(* retry (retry.go) and muting (muted.go), which are pruned by what a      *)
(* refresh shows.                                                          *)
(*                                                                         *)
(* A look starts with conditional requests: GitHub says whether the list   *)
(* of open PRs and the base branch are as they were when their ETags were  *)
(* handed out.  Only PRs whose updated_at moved are then fetched, and the  *)
(* repo is put together from those and the copies at hand.  PRs in flight  *)
(* are fetched alone; now and then the repo is fetched in full.  Several   *)
(* of these run at once, each with a copy of its own: a thread is a        *)
(* goroutine, a step one section under Monitor.mutex or one call to        *)
(* GitHub.                                                                 *)
(*                                                                         *)
(* An ETag stands for the answer it came with, so here it is that answer.  *)
(* A push moves a PR's updated_at and a run of its checks does not, so its *)
(* head stands for updated_at too.  Removing and adding repos, merging and *)
(* dependencies are in MergeWhenReady.                                     *)
(***************************************************************************)
EXTENDS Naturals, FiniteSets

CONSTANTS
  PRs,          \* PR numbers
  Threads,      \* goroutines that can run at once
  None,         \* no value: a PR not in a list, an empty ETag, not loaded
  PRLimit,      \* how many PRs a list holds: the newest (github.PRLimit)
  ActiveLimit,  \* how many PRs in flight are looked at (activeLimit)
  MaxEdits,     \* bound: edits on GitHub, commands, failures in a behaviour
  Inputs        \* which of those happen

VARIABLES
  gh,        \* external: each PR on GitHub
  base,      \* external: commits on the base branch
  fetched,   \* m.fetched and m.repos: the copy of each PR in the list
  total,     \* its PRTotal; None until the repo is loaded
  watch,     \* m.watches: the ETags, and updated_at of each PR as last fetched
  paused,    \* m.pausedUntil is to come: a rate limit is in force
  limited,   \* m.status.RateLimitedUntil is set: clients are told of one
  failed,    \* m.errs has an error for the repo
  muted,     \* state.json: state.Muted
  retry,     \* state.json: state.Retry, the head it was switched on for
  reruns,    \* goroutines that are to ask GitHub to re-run the PR's jobs
  job,       \* what each thread is doing
  switches,  \* how often retry was switched on for each PR
  opened,    \* a PR was opened, for the properties only
  edits      \* inputs so far, for the bound only

github  == <<gh, base, opened>>
loads   == <<fetched, total>>
status  == <<paused, limited, failed>>
kept    == <<muted, retry>>
counts  == <<reruns, switches>>
vars    == <<github, loads, watch, status, kept, counts, job, edits>>

CheckStates == {"running", "failed", "passed"}

(* attempts counts the re-runs GitHub took.                                *)
OnGitHub == [state : {"NEW", "OPEN", "CLOSED"}, head : Nat,
             checks : CheckStates, attempts : Nat]

Copy == [head : Nat, checks : CheckStates, base : Nat]

Copies == [PRs -> Copy \cup {None}]

Listing == [PRs -> Nat \cup {None}]

ASSUME ConstantsAssumption ==
  /\ PRs \subseteq Nat /\ IsFiniteSet(PRs)
  /\ None \notin PRs \cup Nat \cup Copy \cup Listing
  /\ PRLimit \in Nat \ {0} /\ ActiveLimit \in Nat \ {0} /\ MaxEdits \in Nat

NoCopies == [p \in PRs |-> None]

Watch == [list : Listing \cup {None}, base : Nat \cup {None}, updated : Listing]

NoWatch == [list |-> None, base |-> None, updated |-> NoCopies]

In(list) == {p \in PRs : list[p] # None}

----------------------------------------------------------------------------
(* GitHub, external.                                                       *)

OpenPRs == {p \in PRs : gh[p].state = "OPEN"}

Newest(S, n) == {p \in S : Cardinality({q \in S : q > p}) < n}

Listed == Newest(OpenPRs, PRLimit)

(* What ListOpenPRs answers: the open PRs and their updated_at.             *)
ListNow == [p \in PRs |-> IF p \in Listed THEN gh[p].head ELSE None]

(* What FetchRepo and FetchPRs answer for the PRs of S.  How a PR merges     *)
(* depends on its base branch too.                                         *)
Details(S) ==
  [p \in PRs |-> IF p \in S
                 THEN [head |-> gh[p].head, checks |-> gh[p].checks, base |-> base]
                 ELSE None]

Input(kind) ==
  /\ kind \in Inputs
  /\ edits < MaxEdits
  /\ edits' = edits + 1

Unseen == UNCHANGED <<loads, watch, status, kept, counts, job>>

Open(p) ==
  /\ Input("open") /\ gh[p].state = "NEW"
  /\ \A q \in PRs : q < p => gh[q].state # "NEW"
  /\ gh' = [gh EXCEPT ![p].state = "OPEN"]
  /\ opened' = TRUE
  /\ UNCHANGED base /\ Unseen

Push(p) ==
  /\ Input("push") /\ gh[p].state = "OPEN"
  /\ gh' = [gh EXCEPT ![p].head = @ + 1, ![p].checks = "running"]
  /\ UNCHANGED <<base, opened>> /\ Unseen

Close(p) ==
  /\ Input("close") /\ gh[p].state = "OPEN"
  /\ gh' = [gh EXCEPT ![p].state = "CLOSED"]
  /\ UNCHANGED <<base, opened>> /\ Unseen

BaseMoves ==
  /\ Input("base moves")
  /\ base' = base + 1
  /\ UNCHANGED <<gh, opened>> /\ Unseen

ChecksEnd(p) ==
  /\ gh[p].checks = "running" /\ gh[p].state # "NEW"
  /\ \E how \in {"failed", "passed"} : gh' = [gh EXCEPT ![p].checks = how]
  /\ UNCHANGED <<base, opened, edits>> /\ Unseen

----------------------------------------------------------------------------
(* Jobs.                                                                   *)

Calls == {"fetch", "list", "base", "relist", "details", "part"}

Commands == {"mute", "unmute", "retry on", "retry off"}

Steps == {"idle", "mark", "apply", "retry", "sync list", "sync base", "sync",
          "fresh", "note", "renote", "copy", "splice", "replace", "own"}
         \cup Calls \cup Commands

Job == [at     : Steps,
        back   : {"idle", "sync list", "fresh"},  \* what follows apply
        copy   : Copies,                   \* the local repo, ...
        total  : Nat \cup {None},          \* ... its PRTotal
        list   : Listing \cup {None},      \* the ETag sent, then the list got
        base   : Nat \cup {None},          \* the same of the base branch
        moved  : BOOLEAN,
        wanted : SUBSET PRs,               \* the PRs to fetch
        got    : Copies,                   \* what was fetched of them
        pr     : PRs \cup {None},          \* the PR of a command, ...
        head   : Nat \cup {None}]          \* ... and its head in the copy

Idle == [at |-> "idle", back |-> "idle", copy |-> NoCopies, total |-> None,
         list |-> None, base |-> None, moved |-> FALSE, wanted |-> {},
         got |-> NoCopies, pr |-> None, head |-> None]

At(t, step) == job[t].at = step

(* Thread t goes on as j.                                                  *)
Becomes(t, j) == job' = [job EXCEPT ![t] = j]

Goto(t, step) == Becomes(t, [job[t] EXCEPT !.at = step])

(* A mutant of Truncated: a list that holds all there is counts as cut off. *)
TruncatedFull(j) == j.total >= Cardinality(In(j.copy))

(* The list was cut off at the newest PRLimit when PRTotal exceeds it.      *)
Truncated(j) == j.total > Cardinality(In(j.copy))

----------------------------------------------------------------------------
(* A full fetch: RefreshRepo.                                              *)

(* A mutant of LookFull: only a repo that is not loaded is fetched in full. *)
LookFullOnce(t) ==
  /\ At(t, "idle") /\ ~ paused /\ total = None
  /\ Becomes(t, [Idle EXCEPT !.at = "fetch"])
  /\ UNCHANGED <<github, loads, watch, status, kept, counts, edits>>

(* The look of a repo that is not loaded, or was last fetched in full        *)
(* github.Stale ago, which is any time.  Polling all repos does it too.     *)
LookFull(t) ==
  /\ At(t, "idle") /\ ~ paused
  /\ Becomes(t, [Idle EXCEPT !.at = "fetch"])
  /\ UNCHANGED <<github, loads, watch, status, kept, counts, edits>>

(* A command ends with a refresh, rate limit or not.                       *)
RefreshAfterCommand(t) ==
  /\ Input("refresh")
  /\ At(t, "idle") /\ total # None
  /\ Becomes(t, [Idle EXCEPT !.at = "fetch"])
  /\ UNCHANGED <<github, loads, watch, status, kept, counts>>

(* handleFetchError, whichever call it was: a rate limit pauses everything, *)
(* and anything else is shown with the repo.                               *)
CallFails(t) ==
  /\ job[t].at \in Calls
  /\ \/ Input("call fails") /\ failed' = TRUE /\ UNCHANGED <<paused, limited>>
     \/ Input("rate limit") /\ paused' = TRUE /\ limited' = TRUE /\ UNCHANGED failed
  /\ Becomes(t, Idle)
  /\ UNCHANGED <<github, loads, watch, kept, counts>>

FetchFull(t) ==
  /\ At(t, "fetch")
  /\ Becomes(t, [Idle EXCEPT !.at = "mark", !.copy = Details(Listed),
                             !.total = Cardinality(OpenPRs)])
  /\ UNCHANGED <<github, loads, watch, status, kept, counts, edits>>

Mark(t) ==
  /\ At(t, "mark")
  /\ failed' = FALSE
  /\ Becomes(t, [job[t] EXCEPT !.at = "apply", !.back = "sync list"])
  /\ UNCHANGED <<github, loads, watch, paused, limited, kept, counts, edits>>

(* A mutant of Prune: a PR beyond the cut-off counts as closed.             *)
PruneCutOff(j) == muted \cap In(j.copy)

(* pruneMutedLocked: only a list that is not cut off shows what closed.      *)
Prune(j) == IF Truncated(j) THEN muted ELSE muted \cap In(j.copy)

(* The locked part of apply.                                               *)
Apply(t) ==
  /\ At(t, "apply")
  /\ fetched' = job[t].copy
  /\ total' = job[t].total
  /\ muted' = Prune(job[t])
  /\ Goto(t, "retry")
  /\ UNCHANGED <<github, watch, status, retry, counts, edits>>

(* checkAutoRetry judges the job's own copy: a retry is spent on a run that *)
(* failed, and dropped when the PR has closed or has another head.          *)
Spent(j) ==
  {p \in PRs : retry[p] # None /\ j.copy[p] # None
               /\ j.copy[p].head = retry[p] /\ j.copy[p].checks = "failed"}

Dropped(j) ==
  {p \in PRs : /\ retry[p] # None
               /\ IF j.copy[p] = None THEN ~ Truncated(j)
                  ELSE j.copy[p].head # retry[p]}

(* A mutant of CheckRetry: what it re-runs stays switched on.               *)
CheckRetryAgain(t) ==
  /\ At(t, "retry")
  /\ LET j == job[t]
     IN /\ retry' = [p \in PRs |-> IF p \in Dropped(j) THEN None ELSE retry[p]]
        /\ reruns' = [p \in PRs |-> IF p \in Spent(j) THEN reruns[p] + 1 ELSE reruns[p]]
        /\ Becomes(t, IF j.back = "idle" THEN Idle
                      ELSE [Idle EXCEPT !.at = j.back])
  /\ UNCHANGED <<github, loads, watch, status, muted, switches, edits>>

CheckRetry(t) ==
  /\ At(t, "retry")
  /\ LET j == job[t]
     IN /\ retry' = [p \in PRs |-> IF p \in Dropped(j) \cup Spent(j) THEN None ELSE retry[p]]
        /\ reruns' = [p \in PRs |-> IF p \in Spent(j) THEN reruns[p] + 1 ELSE reruns[p]]
        /\ Becomes(t, IF j.back = "idle" THEN Idle
                      ELSE [Idle EXCEPT !.at = j.back])
  /\ UNCHANGED <<github, loads, watch, status, muted, switches, edits>>

(* RerunFailedJobs, in a goroutine of its own: GitHub takes it for a run    *)
(* that failed, unless the call fails.                                     *)
Rerun(p) ==
  /\ reruns[p] > 0
  /\ reruns' = [reruns EXCEPT ![p] = @ - 1]
  /\ \/ /\ gh[p].checks = "failed"
        /\ gh' = [gh EXCEPT ![p].checks = "running", ![p].attempts = @ + 1]
     \/ UNCHANGED gh
  /\ UNCHANGED <<base, opened, loads, watch, status, kept, switches, job, edits>>

(* syncList: what the list looks like now, for the next conditional look.   *)
(* When a call fails, nothing is recorded.                                 *)
SyncList(t) ==
  /\ At(t, "sync list")
  /\ \/ Becomes(t, [job[t] EXCEPT !.at = "sync base", !.list = ListNow]) /\ UNCHANGED edits
     \/ Input("call fails") /\ Becomes(t, [Idle EXCEPT !.at = "fresh"])
  /\ UNCHANGED <<github, loads, watch, status, kept, counts>>

SyncBase(t) ==
  /\ At(t, "sync base")
  /\ \/ Becomes(t, [job[t] EXCEPT !.at = "sync", !.base = base]) /\ UNCHANGED edits
     \/ Input("call fails") /\ Becomes(t, [Idle EXCEPT !.at = "fresh"])
  /\ UNCHANGED <<github, loads, watch, status, kept, counts>>

Sync(t) ==
  /\ At(t, "sync")
  /\ watch' = [list |-> job[t].list, base |-> job[t].base, updated |-> job[t].list]
  /\ Becomes(t, [Idle EXCEPT !.at = "fresh"])
  /\ UNCHANGED <<github, loads, status, kept, counts, edits>>

(* noteFresh                                                               *)
Fresh(t) ==
  /\ At(t, "fresh")
  /\ failed' = FALSE /\ limited' = FALSE
  /\ Becomes(t, Idle)
  /\ UNCHANGED <<github, loads, watch, paused, kept, counts, edits>>

----------------------------------------------------------------------------
(* A conditional look: Look, applyChanged.                                 *)

Look(t) ==
  /\ At(t, "idle") /\ ~ paused
  /\ total # None
  /\ Becomes(t, [Idle EXCEPT !.at = "list", !.list = watch.list, !.base = watch.base])
  /\ UNCHANGED <<github, loads, watch, status, kept, counts, edits>>

(* 304 Not Modified leaves no list.                                        *)
AskList(t) ==
  /\ At(t, "list")
  /\ Becomes(t, [job[t] EXCEPT !.at = "base",
                               !.list = IF @ = ListNow THEN None ELSE ListNow])
  /\ UNCHANGED <<github, loads, watch, status, kept, counts, edits>>

AskBase(t) ==
  /\ At(t, "base")
  /\ Becomes(t, [job[t] EXCEPT !.at = "note", !.base = base, !.moved = job[t].base # base])
  /\ UNCHANGED <<github, loads, watch, status, kept, counts, edits>>

(* The ETags are kept before what they stand for was fetched.  When only    *)
(* the base branch moved, the list is asked for again, unconditionally.     *)
Note(t) ==
  /\ At(t, "note")
  /\ LET j == job[t]
     IN /\ watch' = [watch EXCEPT !.base = j.base,
                                  !.list = IF j.list # None THEN j.list ELSE @]
        /\ Becomes(t, IF j.list # None THEN [j EXCEPT !.at = "copy"]
                      ELSE IF j.moved THEN [j EXCEPT !.at = "relist"]
                      ELSE [Idle EXCEPT !.at = "fresh"])
  /\ UNCHANGED <<github, loads, status, kept, counts, edits>>

Relist(t) ==
  /\ At(t, "relist")
  /\ Becomes(t, [job[t] EXCEPT !.at = "renote", !.list = ListNow])
  /\ UNCHANGED <<github, loads, watch, status, kept, counts, edits>>

Renote(t) ==
  /\ At(t, "renote")
  /\ watch' = [watch EXCEPT !.list = job[t].list]
  /\ Goto(t, "copy")
  /\ UNCHANGED <<github, loads, status, kept, counts, edits>>

(* What applyChanged fetches: what moved since it was last fetched, or all. *)
Wanted(j) == {p \in In(j.list) : j.moved \/ watch.updated[p] # j.list[p]}

CopyRepo(t) ==
  /\ At(t, "copy")
  /\ LET wanted == Wanted(job[t])
     IN Becomes(t, [job[t] EXCEPT !.at = IF wanted = {} THEN "splice" ELSE "details",
                                  !.base = None, !.moved = FALSE,
                                  !.copy = fetched, !.total = total, !.wanted = wanted])
  /\ UNCHANGED <<github, loads, watch, status, kept, counts, edits>>

(* FetchPRs leaves out what is no longer open.                              *)
FetchDetails(t) ==
  /\ At(t, "details") \/ At(t, "part")
  /\ Becomes(t, [job[t] EXCEPT !.at = IF @ = "details" THEN "splice" ELSE "replace",
                               !.wanted = IF job[t].at = "details" THEN {} ELSE @,
                               !.got = Details(job[t].wanted \cap OpenPRs)])
  /\ UNCHANGED <<github, loads, watch, status, kept, counts, edits>>

(* A list shorter than the limit is everything that is open.                *)
Total(j) == IF Cardinality(In(j.list)) < PRLimit THEN Cardinality(In(j.list)) ELSE j.total

(* The second locked part of applyChanged.  The repo it writes back is the   *)
(* copy it took before it fetched.                                         *)
Splice(t) ==
  /\ At(t, "splice")
  /\ LET j == job[t]
         prs == [p \in PRs |-> IF j.list[p] = None THEN None
                               ELSE IF j.got[p] # None THEN j.got[p] ELSE j.copy[p]]
         updated == [p \in PRs |-> IF j.list[p] = None THEN None
                                   ELSE IF j.got[p] # None THEN j.list[p] ELSE watch.updated[p]]
     IN /\ watch' = [watch EXCEPT !.updated = updated]
        /\ Becomes(t, [Idle EXCEPT !.at = "apply", !.back = "fresh", !.copy = prs,
                                   !.total = Total(j)])
  /\ UNCHANGED <<github, loads, status, kept, counts, edits>>

----------------------------------------------------------------------------
(* PRs in flight: RefreshInFlight, refreshPRs.                              *)

(* It picks the PRs set to retry, and those that are armed, in a client's    *)
(* focus or have fresh checks running, which are any.                      *)
LookInFlight(t) ==
  /\ At(t, "idle") /\ ~ paused
  /\ \E others \in SUBSET In(fetched) :
       LET moving == others \cup {p \in In(fetched) : retry[p] # None}
       IN /\ moving # {}
          /\ Becomes(t, [Idle EXCEPT !.at = "part", !.wanted = Newest(moving, ActiveLimit)])
  /\ UNCHANGED <<github, loads, watch, status, kept, counts, edits>>

(* The fetched PRs take the place of the copies at hand and those that are   *)
(* no longer open go, but PRTotal stays.  If nothing changed, the repo is   *)
(* not applied.                                                            *)
Replace(t) ==
  /\ At(t, "replace")
  /\ LET j == job[t]
         closed == {p \in In(fetched) \cap j.wanted : j.got[p] = None}
         prs == [p \in PRs |-> IF fetched[p] = None \/ p \in closed THEN None
                               ELSE IF j.got[p] # None THEN j.got[p] ELSE fetched[p]]
     IN /\ watch' = [watch EXCEPT !.updated =
                       [p \in PRs |-> IF p \in closed THEN None ELSE @[p]]]
        /\ Becomes(t, IF prs = fetched THEN Idle
                      ELSE [Idle EXCEPT !.at = "apply", !.copy = prs, !.total = total])
  /\ UNCHANGED <<github, loads, status, kept, counts, edits>>

----------------------------------------------------------------------------
(* Commands about one PR, which is in the list when the command comes.      *)

Command(t, p, kind) ==
  /\ Input(kind)
  /\ At(t, "idle") /\ fetched[p] # None
  /\ Becomes(t, [Idle EXCEPT !.at = kind, !.pr = p, !.head = fetched[p].head])
  /\ UNCHANGED <<github, loads, watch, status, kept, counts>>

SetMuted(t, p) ==
  /\ At(t, "mute") \/ At(t, "unmute")
  /\ job[t].pr = p
  /\ muted' = IF At(t, "mute") THEN muted \cup {p} ELSE muted \ {p}
  /\ Becomes(t, Idle)
  /\ UNCHANGED <<github, loads, watch, status, retry, counts, edits>>

SetAutoRetry(t, p) ==
  /\ At(t, "retry on") \/ At(t, "retry off")
  /\ job[t].pr = p
  /\ IF At(t, "retry on")
     THEN retry' = [retry EXCEPT ![p] = job[t].head]
          /\ switches' = [switches EXCEPT ![p] = @ + 1]
     ELSE retry' = [retry EXCEPT ![p] = None] /\ UNCHANGED switches
  /\ Goto(t, "own")
  /\ UNCHANGED <<github, loads, watch, status, muted, reruns, edits>>

(* It then runs checkAutoRetry on m.Repo.                                  *)
CopyOwn(t) ==
  /\ At(t, "own")
  /\ Becomes(t, IF total = None THEN Idle
                ELSE [Idle EXCEPT !.at = "retry", !.copy = fetched, !.total = total])
  /\ UNCHANGED <<github, loads, watch, status, kept, counts, edits>>

----------------------------------------------------------------------------
(* Time passes the end of the rate limit.                                  *)
LimitEnds ==
  /\ paused
  /\ paused' = FALSE
  /\ UNCHANGED <<github, loads, watch, limited, failed, kept, counts, job, edits>>

(* A crash loses memory and every goroutine; state.json stays.              *)
Crash ==
  /\ Input("crash")
  /\ fetched' = NoCopies /\ total' = None /\ watch' = NoWatch
  /\ paused' = FALSE /\ limited' = FALSE /\ failed' = FALSE
  /\ reruns' = [p \in PRs |-> 0]
  /\ job' = [t \in Threads |-> Idle]
  /\ UNCHANGED <<github, kept, switches>>

Init ==
  /\ gh \in [PRs -> [state : {"NEW", "OPEN"}, head : {0}, checks : CheckStates,
                   attempts : {0}]]
  /\ \A p, q \in PRs : p < q /\ gh[q].state = "OPEN" => gh[p].state = "OPEN"
  /\ base = 0 /\ opened = FALSE
  /\ fetched = NoCopies /\ total = None /\ watch = NoWatch
  /\ paused = FALSE /\ limited = FALSE /\ failed = FALSE
  /\ muted \in SUBSET OpenPRs
  /\ retry \in [PRs -> {None, 0}] /\ \A p \in PRs \ OpenPRs : retry[p] = None
  /\ switches = [p \in PRs |-> IF retry[p] = None THEN 0 ELSE 1]
  /\ reruns = [p \in PRs |-> 0]
  /\ job = [t \in Threads |-> Idle]
  /\ edits = 0

Step(t) ==
  \/ CallFails(t)
  \/ FetchFull(t) \/ Mark(t) \/ Apply(t) \/ CheckRetry(t)
  \/ SyncList(t) \/ SyncBase(t) \/ Sync(t) \/ Fresh(t)
  \/ AskList(t) \/ AskBase(t) \/ Note(t) \/ Relist(t) \/ Renote(t)
  \/ CopyRepo(t) \/ FetchDetails(t) \/ Splice(t) \/ Replace(t)
  \/ \E p \in PRs : SetMuted(t, p) \/ SetAutoRetry(t, p)
  \/ CopyOwn(t)

Start(t) ==
  \/ LookFull(t) \/ RefreshAfterCommand(t) \/ Look(t) \/ LookInFlight(t)
  \/ \E p \in PRs, kind \in Commands : Command(t, p, kind)

Next ==
  \/ \E p \in PRs : Open(p) \/ Push(p) \/ Close(p) \/ ChecksEnd(p) \/ Rerun(p)
  \/ BaseMoves \/ LimitEnds \/ Crash
  \/ \E t \in Threads : Step(t) \/ Start(t)

Spec == Init /\ [][Next]_vars

----------------------------------------------------------------------------
TypeOK ==
  /\ gh \in [PRs -> OnGitHub] /\ base \in Nat /\ opened \in BOOLEAN
  /\ fetched \in Copies /\ total \in Nat \cup {None}
  /\ watch \in Watch
  /\ paused \in BOOLEAN /\ limited \in BOOLEAN /\ failed \in BOOLEAN
  /\ muted \in SUBSET PRs /\ retry \in [PRs -> Nat \cup {None}]
  /\ reruns \in [PRs -> Nat] /\ switches \in [PRs -> Nat]
  /\ job \in [Threads -> Job]
  /\ edits \in 0..MaxEdits

(* Switching retry on is good for one re-run of the PR's failed jobs: what  *)
(* GitHub ran again, what is being asked of it and what is still switched  *)
(* on never add up to more, however many refreshes see the failure.         *)
RetriesOnce ==
  \A p \in PRs :
    gh[p].attempts + reruns[p] + (IF retry[p] # None THEN 1 ELSE 0) <= switches[p]

(* As long as no PR is opened, nobody is unmuted by a refresh while the PR   *)
(* is open, and a retry is not dropped for a PR that is open and missing    *)
(* from a list: what a list cut off at the limit leaves out is not closed.  *)
KeptWhileOpen ==
  [][\A p \in PRs : gh[p].state = "OPEN" /\ ~ opened' =>
       /\ p \in muted /\ p \notin muted' =>
            \E t \in Threads : At(t, "unmute") /\ job[t].pr = p
       /\ \A t \in Threads :
            At(t, "retry") /\ job'[t] # job[t] /\ job[t].copy[p] = None =>
              retry'[p] = retry[p]]_vars

Fairness ==
  /\ \A t \in Threads : WF_vars(Step(t))
  /\ \A p \in PRs : WF_vars(Rerun(p))
  /\ WF_vars(LimitEnds)
  /\ SF_vars(\E t \in Threads : LookFull(t))

FairSpec == Spec /\ Fairness

(* Once nothing more happens on GitHub, what clients are shown settles on    *)
(* what GitHub has, and no error or rate limit is shown for ever: an ETag   *)
(* that was kept although its details were not fetched, a copy written back *)
(* over a newer one and a PR dropped from the list are all made good.       *)
ShowsGitHub ==
  <>[](/\ fetched = Details(Listed)
       /\ total = Cardinality(OpenPRs)
       /\ ~ failed /\ ~ limited)

(* What is kept about a PR goes when it has closed, and a retry when its     *)
(* run has failed or the PR has another head.  While more PRs are open than *)
(* the list holds, no list proves that one has closed: what is kept about   *)
(* it stays until they have become fewer.                                  *)
Outdated(p) ==
  \/ /\ gh[p].state = "CLOSED" /\ Listed = OpenPRs
     /\ p \in muted \/ retry[p] # None
  \/ /\ p \in Listed /\ retry[p] # None
     /\ gh[p].head # retry[p] \/ gh[p].checks = "failed"

OutdatedForgotten == \A p \in PRs : []<> ~ Outdated(p)
==========================================================================
