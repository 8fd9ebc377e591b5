-------------------------- MODULE MergeWhenReady --------------------------
(***************************************************************************)
(* Merge when ready, dependencies and manual merges: the part of           *)
(* internal/service that decides when a pull request is merged.            *)
(*                                                                         *)
(* GitHub (variable gh) is external: people push, close, reopen and merge  *)
(* there while pr-mon works from copies.  The monitor keeps state.json and *)
(* config.toml (monitored, armed, deps: written under the mutex with every *)
(* change, so they survive a crash) and memory (everything else).          *)
(*                                                                         *)
(* Every goroutine is a thread with a job: the Go function it runs, the    *)
(* step it is at, and its local variables.  A step is one section under    *)
(* Monitor.mutex, or one call to GitHub; between two steps any other       *)
(* thread may run, which is where copies go stale.                         *)
(*                                                                         *)
(* Data is cut down to what merging depends on: a head is a number, ready  *)
(* stands for everything GitHub and readiness.IsStrictlyReady look at, the *)
(* merge method, branch deletion, toasts and notifications are left out.   *)
(***************************************************************************)
EXTENDS DependencyGraph, Naturals, FiniteSets

CONSTANTS
  Repos,     \* repositories on GitHub, monitored or not
  RepoOf,    \* the repository each PR is in
  Threads,   \* goroutines that can run at once
  None,      \* no value (a nil pointer, a PR not in a list)
  PRLimit,   \* how many PRs a fetch lists: the newest ones (github.PRLimit)
  MaxHead,   \* bound: pushes to one PR
  MaxEdits,  \* bound: commands, edits on GitHub and crashes in a behaviour
  Inputs     \* which commands, edits on GitHub and failures happen

ASSUME ConstantsAssumption ==
  /\ PRs \subseteq Nat
  /\ RepoOf \in [PRs -> Repos]
  /\ None \notin PRs /\ None \notin Repos /\ None \notin 0..MaxHead
  /\ None # "MERGED"
  /\ PRLimit \in Nat /\ MaxHead \in Nat /\ MaxEdits \in Nat

VARIABLES
  gh,          \* external: each PR on GitHub
  monitored,   \* config.toml: config.Repos
  armed,       \* state.json: state.Armed
  deps,        \* state.json: state.Dependencies
  view,        \* m.repos, and m.fetched under it: each loaded PR, decorated
  loaded,      \* the repos in m.repos
  cut,         \* loaded repos whose list was cut off: PRTotal > len(PRs)
  waitedOn,    \* m.waitedOn: last known state of PRs something waits on
  merging,     \* m.merging: claims on a merge
  holding,     \* m.holding
  holdFailed,  \* m.holdFailed
  job,         \* what each thread is doing
  spawned,     \* goroutines started and not yet running
  edits        \* inputs so far, for the bound only

saved  == <<monitored, armed, deps>>
loads  == <<view, loaded, cut>>
holds  == <<holding, holdFailed>>
vars   == <<gh, saved, loads, waitedOn, merging, holds, job, spawned, edits>>

PRsOf(r) == {p \in PRs : RepoOf[p] = r}

----------------------------------------------------------------------------
(* A PR as GitHub has it, and as a fetched and decorated copy.  waitsOn is *)
(* what the PR waited on when it was decorated, merged the ones of those   *)
(* that pr-mon knew had merged.                                            *)

PRStates == {"OPEN", "MERGED", "CLOSED"}

Heads == 0..MaxHead

OnGitHub == [state : PRStates, head : Heads, ready : BOOLEAN, auto : BOOLEAN]

Entry == [head : Heads, ready : BOOLEAN, auto : BOOLEAN,
          waitsOn : SUBSET PRs, merged : SUBSET PRs]

ASSUME EntryAssumption == None \notin Entry

View == [PRs -> Entry \cup {None}]

NoView == [p \in PRs |-> None]

Waiting(entry) == ~ (entry.waitsOn \subseteq entry.merged)

StrictlyReady(entry) == entry.ready /\ ~ Waiting(entry)

(* A mutant of Decorate: a closed target no longer holds the PR back either. *)
DecorateClosedToo(p, entry, G, known) ==
  [entry EXCEPT !.waitsOn = WaitsOn(G, p),
                !.merged  = {q \in WaitsOn(G, p) : known[q] \in {"MERGED", "CLOSED"}}]

(* decorateLocked, for one PR.  refLocked lets a merge seen by a lookup win *)
(* over everything else it knows, and only a merged target stops holding   *)
(* the PR back.                                                            *)
Decorate(p, entry, G, known) ==
  [entry EXCEPT !.waitsOn = WaitsOn(G, p),
                !.merged  = {q \in WaitsOn(G, p) : known[q] = "MERGED"}]

(* rebuildLocked of the repos rs, when the graph is G and waitedOn is known. *)
Rebuilt(rs, G, known) ==
  [p \in PRs |-> IF RepoOf[p] \in rs /\ view[p] # None
                 THEN Decorate(p, view[p], G, known)
                 ELSE view[p]]

----------------------------------------------------------------------------
(* Jobs.  fn is the Go function a goroutine runs, at the step it does next *)
(* and back the step it goes on with after a call: RefreshRepo, checkArmed *)
(* and disarm are called from several places.                              *)

Functions == {"none", "RefreshRepo", "autoMerge", "hold", "arm", "merge",
              "setAutoMerge", "AddDependency", "RemoveDependency", "AddRepo",
              "PollOnce", "RefreshDependencyStates"}

Returns == {"idle", "record", "waiting", "others", "release", "unhold", "scan",
            "judgeEach"}

Steps == Returns \cup
         {"fetch", "apply", "hold", "armed", "judge", "copy", "autoMerge", "disarm",
          "claim", "merge", "arm", "turnOff", "turnOn", "off", "add", "store",
          "rebuild", "addRepo"}

(* A looked-up target: not one of those looked up, or the lookup of its     *)
(* repo failed, or its state on GitHub.                                    *)
Answers == {"not wanted", "failed"} \cup PRStates

Job == [fn    : Functions,
        at    : Steps,
        back  : Returns,
        pr    : PRs \cup {None},     \* the PR the function is about
        peer  : PRs \cup {None},     \* AddDependency: what it is to wait on
        repo  : Repos \cup {None},   \* the repo in the local variable repo
        copy  : View,                \* its PRs
        cut   : BOOLEAN,             \* whether that list was cut off
        todo  : SUBSET PRs,          \* PRs a loop has still to visit
        stuck : SUBSET PRs,          \* PRs holdForDependencies has still to visit
        rest  : SUBSET Repos,        \* repos a loop has still to visit
        seen  : Entry \cup {None},   \* autoMerge: its argument pr
        pin   : Heads \cup {None},   \* a merge: expectedHead, None when ""
        found : [PRs -> Answers],    \* a lookup's answers
        claim : BOOLEAN]             \* whether it must delete merging[pr]

NotFound == [p \in PRs |-> "not wanted"]

Idle == [fn |-> "none", at |-> "idle", back |-> "idle", pr |-> None,
         peer |-> None, repo |-> None, copy |-> NoView, cut |-> FALSE, todo |-> {},
         stuck |-> {}, rest |-> {}, seen |-> None, pin |-> None,
         found |-> NotFound, claim |-> FALSE]

At(t, step) == job[t].at = step

IsIdle(t) == At(t, "idle")

Goto(j, step) == IF step = "idle" THEN Idle ELSE [j EXCEPT !.at = step]

Call(j, step, back) == [j EXCEPT !.at = step, !.back = back]

Return(j) == Goto([j EXCEPT !.back = "idle"], j.back)

(* Drop the local repo once no step needs it.                              *)
Forgotten(j) == [j EXCEPT !.repo = None, !.copy = NoView, !.cut = FALSE, !.todo = {}]

(* A goroutine spawned for autoMerge or hold, with its arguments.           *)
Spawn == [fn : {"autoMerge"}, pr : PRs, seen : Entry]
         \cup [fn : {"hold"}, pr : PRs, seen : {None}]

JobOf(s) ==
  IF s.fn = "autoMerge"
  THEN [Idle EXCEPT !.fn = "autoMerge", !.at = "autoMerge", !.pr = s.pr,
                    !.seen = s.seen, !.pin = s.seen.head, !.claim = TRUE]
  ELSE [Idle EXCEPT !.fn = "hold", !.at = "turnOff", !.pr = s.pr]

----------------------------------------------------------------------------
(* GitHub, external.                                                       *)

OpenPRs(r) == {p \in PRsOf(r) : gh[p].state = "OPEN"}

(* What FetchRepo lists: the newest PRLimit open PRs, the newer numbered    *)
(* higher.                                                                 *)
Listed(r) == {p \in OpenPRs(r) : Cardinality({q \in OpenPRs(r) : q > p}) < PRLimit}

CutOff(r) == Listed(r) # OpenPRs(r)

Fetched(r) ==
  [p \in PRs |-> IF p \in Listed(r)
                 THEN [head |-> gh[p].head, ready |-> gh[p].ready, auto |-> gh[p].auto,
                       waitsOn |-> {}, merged |-> {}]
                 ELSE None]

(* Job j with the repo r just fetched in full.                             *)
WithFetch(j, r) ==
  [j EXCEPT !.at = "apply", !.repo = r, !.copy = Fetched(r), !.cut = CutOff(r)]

(* One more input of this kind, while the bound allows.                    *)
Input(kind) ==
  /\ kind \in Inputs
  /\ edits < MaxEdits
  /\ edits' = edits + 1

GitHubEdit(kind, p, when, to) ==
  /\ Input(kind)
  /\ when
  /\ gh' = [gh EXCEPT ![p] = to]
  /\ UNCHANGED <<saved, loads, waitedOn, merging, holds, job, spawned>>

Push(p) ==
  /\ gh[p].head < MaxHead
  /\ \E ready \in BOOLEAN :
       GitHubEdit("push", p, gh[p].state = "OPEN",
                  [gh[p] EXCEPT !.head = @ + 1, !.ready = ready])

Recheck(p) ==
  GitHubEdit("recheck", p, gh[p].state = "OPEN", [gh[p] EXCEPT !.ready = ~ @])

Close(p) ==
  GitHubEdit("close", p, gh[p].state = "OPEN",
             [gh[p] EXCEPT !.state = "CLOSED", !.auto = FALSE])

Reopen(p) ==
  GitHubEdit("reopen", p, gh[p].state = "CLOSED", [gh[p] EXCEPT !.state = "OPEN"])

MergeElsewhere(p) ==
  GitHubEdit("merge elsewhere", p, gh[p].state = "OPEN" /\ gh[p].ready,
             [gh[p] EXCEPT !.state = "MERGED", !.auto = FALSE])

ToggleAutoElsewhere(p) ==
  GitHubEdit("auto elsewhere", p, gh[p].state = "OPEN", [gh[p] EXCEPT !.auto = ~ @])

(* GitHub's own auto-merge.                                                *)
NativeMerge(p) ==
  /\ gh[p].state = "OPEN" /\ gh[p].auto /\ gh[p].ready
  /\ gh' = [gh EXCEPT ![p].state = "MERGED", ![p].auto = FALSE]
  /\ UNCHANGED <<saved, loads, waitedOn, merging, holds, job, spawned, edits>>

(* A mutant of Accepts: the call does not say which head was judged.        *)
AcceptsAnyHead(t, p) == gh[p].state = "OPEN"

(* GitHub takes a merge of p from thread t: the PR is open and, when the    *)
(* call names a head, that is still its head.                              *)
Accepts(t, p) ==
  /\ gh[p].state = "OPEN"
  /\ job[t].pin \in {gh[p].head, None}

MergedOnGitHub(p) == [gh EXCEPT ![p].state = "MERGED", ![p].auto = FALSE]

----------------------------------------------------------------------------
(* Refreshing a repo.                                                      *)

(* A scheduled or requested RefreshRepo: FetchRepo reads GitHub.           *)
Poll(t, r) ==
  /\ IsIdle(t) /\ r \in monitored
  /\ job' = [job EXCEPT ![t] = WithFetch([Idle EXCEPT !.fn = "RefreshRepo"], r)]
  /\ UNCHANGED <<gh, saved, loads, waitedOn, merging, holds, spawned, edits>>

(* A RefreshRepo of the PR's own repo inside a longer function.  When the   *)
(* fetch fails, RefreshRepo returns and the function goes on.              *)
Fetch(t) ==
  /\ At(t, "fetch")
  /\ \/ job' = [job EXCEPT ![t] = WithFetch(@, RepoOf[@.pr])]
     \/ /\ "fetch fails" \in Inputs
        /\ job' = [job EXCEPT ![t] = Return(@)]
  /\ UNCHANGED <<gh, saved, loads, waitedOn, merging, holds, spawned, edits>>

(* The PRs of the copy that a full list shows to have merged or closed.     *)
Gone(t) ==
  IF job[t].cut THEN {} ELSE {p \in PRsOf(job[t].repo) : job[t].copy[p] = None}

(* A mutant of Judging: a PR beyond the cut-off counts as closed.           *)
JudgingCutOff(j, r, list, listCut) ==
  LET ready == {p \in PRsOf(r) : list[p] # None /\ StrictlyReady(list[p])}
      gone  == {p \in PRsOf(r) : list[p] = None}
  IN [j EXCEPT !.copy = [p \in PRs |-> IF p \in ready THEN list[p] ELSE None],
               !.cut = FALSE, !.repo = None, !.todo = ready \cup gone]

(* checkArmed on a list of repo r's PRs concerns the ones that are gone or  *)
(* strictly ready; the job goes on with those, or past checkArmed if there  *)
(* is none.                                                                *)
Judging(j, r, list, listCut) ==
  LET ready == {p \in PRsOf(r) : list[p] # None /\ StrictlyReady(list[p])}
      gone  == IF listCut THEN {} ELSE {p \in PRsOf(r) : list[p] = None}
  IN [j EXCEPT !.copy = [p \in PRs |-> IF p \in ready THEN list[p] ELSE None],
               !.cut = FALSE, !.repo = None, !.todo = ready \cup gone]

(* The locked part of apply: prune the dependencies of PRs that are gone,  *)
(* decorate the copy and make it the repo clients and checkArmed see.      *)
Apply(t) ==
  /\ At(t, "apply") /\ job[t].repo \in monitored
  /\ LET r == job[t].repo
         G == Forget(deps, Gone(t))
         decorated == [p \in PRs |->
           IF job[t].copy[p] = None THEN None
           ELSE Decorate(p, job[t].copy[p], G, waitedOn)]
     IN /\ deps' = G
        /\ view' = [p \in PRs |-> IF RepoOf[p] = r THEN decorated[p] ELSE view[p]]
        /\ loaded' = loaded \cup {r}
        /\ cut' = IF job[t].cut THEN cut \cup {r} ELSE cut \ {r}
        /\ job' = [job EXCEPT ![t] =
             [Judging(@, r, decorated, @.cut) EXCEPT !.at = "scan", !.repo = r]]
  /\ UNCHANGED <<gh, monitored, armed, waitedOn, merging, holds, spawned, edits>>

(* A repo removed while it was being fetched: apply returns at once.        *)
ApplyUnmonitored(t) ==
  /\ At(t, "apply") /\ job[t].repo \notin monitored
  /\ job' = [job EXCEPT ![t] = Return(Forgotten(@))]
  /\ UNCHANGED <<gh, saved, loads, waitedOn, merging, holds, spawned, edits>>

(* AddDependency ends with holdForDependencies, apply with checkArmed.      *)
AfterHolding(j) == Goto(j, IF j.fn = "AddDependency" THEN "idle" ELSE "armed")

(* holdForDependencies copies m.Repo and goes through its waiting PRs that  *)
(* GitHub would merge, ...                                                 *)
Scan(t) ==
  /\ At(t, "scan")
  /\ LET stuck == {p \in PRsOf(job[t].repo) :
                     view[p] # None /\ view[p].auto /\ Waiting(view[p])}
         next  == [job[t] EXCEPT !.repo = None, !.stuck = stuck]
     IN job' = [job EXCEPT ![t] = IF stuck = {} THEN AfterHolding(next) ELSE Goto(next, "hold")]
  /\ UNCHANGED <<gh, saved, loads, waitedOn, merging, holds, spawned, edits>>

(* ... claims each, unless it is being moved already or that failed before, *)
(* and spawns hold for it.                                                 *)
HoldNext(t, p) ==
  /\ At(t, "hold") /\ p \in job[t].stuck
  /\ IF p \in holding \cup holdFailed
     THEN UNCHANGED <<holding, spawned>>
     ELSE /\ holding' = holding \cup {p}
          /\ spawned' = spawned \cup {[fn |-> "hold", pr |-> p, seen |-> None]}
  /\ LET next == [job[t] EXCEPT !.stuck = @ \ {p}]
     IN job' = [job EXCEPT ![t] = IF next.stuck = {} THEN AfterHolding(next) ELSE next]
  /\ UNCHANGED <<gh, saved, loads, waitedOn, merging, holdFailed, edits>>

(* checkArmed reads Armed once, before its loop.                            *)
ReadArmed(t) ==
  /\ At(t, "armed")
  /\ LET some == armed \cap job[t].todo
     IN job' = [job EXCEPT ![t] =
          IF some = {} THEN Return(Forgotten(@))
          ELSE [@ EXCEPT !.at = "judge", !.todo = some,
                         !.copy = [p \in PRs |-> IF p \in some THEN job[t].copy[p] ELSE None]]]
  /\ UNCHANGED <<gh, saved, loads, waitedOn, merging, holds, spawned, edits>>

(* The loop has visited p.                                                 *)
Judged(j, p) ==
  IF j.todo = {p} THEN Return(Forgotten(j))
  ELSE [j EXCEPT !.todo = @ \ {p}, !.copy[p] = None]

(* A PR the list should hold and does not: it closed, so disarm it.         *)
JudgeGone(t, p) ==
  /\ At(t, "judge") /\ p \in job[t].todo
  /\ job[t].copy[p] = None
  /\ armed' = armed \ {p}
  /\ view' = Rebuilt({RepoOf[p]}, deps, waitedOn)
  /\ job' = [job EXCEPT ![t] = Judged(@, p)]
  /\ UNCHANGED <<gh, monitored, deps, loaded, cut, waitedOn, merging, holds, spawned, edits>>

(* A mutant of JudgeReady: it does not look whether the merge is claimed.   *)
JudgeReadyTwice(t, p) ==
  /\ At(t, "judge") /\ p \in job[t].todo
  /\ job[t].copy[p] # None
  /\ p \in armed
  /\ merging' = merging \cup {p}
  /\ spawned' = spawned \cup
       {[fn |-> "autoMerge", pr |-> p, seen |-> job[t].copy[p]]}
  /\ job' = [job EXCEPT ![t] = Judged(@, p)]
  /\ UNCHANGED <<gh, saved, loads, waitedOn, holds, edits>>

(* The check under the lock: still armed and nobody merging it.  Readiness  *)
(* is the copy's, and autoMerge gets the copy too.                         *)
JudgeReady(t, p) ==
  /\ At(t, "judge") /\ p \in job[t].todo
  /\ job[t].copy[p] # None
  /\ p \in armed /\ p \notin merging
  /\ merging' = merging \cup {p}
  /\ spawned' = spawned \cup
       {[fn |-> "autoMerge", pr |-> p, seen |-> job[t].copy[p]]}
  /\ job' = [job EXCEPT ![t] = Judged(@, p)]
  /\ UNCHANGED <<gh, saved, loads, waitedOn, holds, edits>>

JudgeNothing(t, p) ==
  /\ At(t, "judge") /\ p \in job[t].todo
  /\ job[t].copy[p] # None
  /\ p \notin armed \/ p \in merging
  /\ job' = [job EXCEPT ![t] = Judged(@, p)]
  /\ UNCHANGED <<gh, saved, loads, waitedOn, merging, holds, spawned, edits>>

Judge(t) ==
  \E p \in job[t].todo : JudgeGone(t, p) \/ JudgeReady(t, p) \/ JudgeNothing(t, p)

(* A spawned goroutine starts to run.                                      *)
Begin(t, s) ==
  /\ IsIdle(t) /\ s \in spawned
  /\ job' = [job EXCEPT ![t] = JobOf(s)]
  /\ spawned' = spawned \ {s}
  /\ UNCHANGED <<gh, saved, loads, waitedOn, merging, holds, edits>>

----------------------------------------------------------------------------
(* autoMerge.                                                              *)

(* GitHub merges the head that was judged.  When the answer is lost after   *)
(* that, pr-mon takes it for a failure.                                    *)
AutoMergeDone(t) ==
  /\ At(t, "autoMerge")
  /\ LET p == job[t].pr
     IN /\ Accepts(t, p) /\ gh[p].ready
        /\ gh' = MergedOnGitHub(p)
  /\ \/ job' = [job EXCEPT ![t] = Call(@, "disarm", "record")]
     \/ /\ "answer lost" \in Inputs
        /\ job' = [job EXCEPT ![t] = Call(@, "disarm", "release")]
  /\ UNCHANGED <<saved, loads, waitedOn, merging, holds, spawned, edits>>

(* "Head branch was modified" or "Base branch was modified": stays armed.   *)
AutoMergeRetryable(t) ==
  /\ At(t, "autoMerge")
  /\ LET p == job[t].pr
     IN gh[p].state = "OPEN" /\ (~ Accepts(t, p) \/ "base moves" \in Inputs)
  /\ job' = [job EXCEPT ![t] = Goto(@, "release")]
  /\ UNCHANGED <<gh, saved, loads, waitedOn, merging, holds, spawned, edits>>

(* A mutant of AutoMergeRefused: it returns without giving its claim up.    *)
AutoMergeRefusedClaimed(t) ==
  /\ At(t, "autoMerge")
  /\ LET p == job[t].pr
     IN gh[p].state # "OPEN" \/ ~ gh[p].ready \/ "merge fails" \in Inputs
  /\ job' = [job EXCEPT ![t] = Call(@, "disarm", "idle")]
  /\ UNCHANGED <<gh, saved, loads, waitedOn, merging, holds, spawned, edits>>

(* Any other refusal: disarm it and say so (MERGE_FAILED).                  *)
AutoMergeRefused(t) ==
  /\ At(t, "autoMerge")
  /\ LET p == job[t].pr
     IN gh[p].state # "OPEN" \/ ~ gh[p].ready \/ "merge fails" \in Inputs
  /\ job' = [job EXCEPT ![t] = Call(@, "disarm", "release")]
  /\ UNCHANGED <<gh, saved, loads, waitedOn, merging, holds, spawned, edits>>

Disarm(t) ==
  /\ At(t, "disarm")
  /\ armed' = armed \ {job[t].pr}
  /\ view' = Rebuilt({RepoOf[job[t].pr]}, deps, waitedOn)
  /\ job' = [job EXCEPT ![t] = Return(@)]
  /\ UNCHANGED <<gh, monitored, deps, loaded, cut, waitedOn, merging, holds, spawned, edits>>

(* merged: anything waiting on the PR can go ahead without another lookup.  *)
(* autoMerge refreshes the merged PR's own repo next, performAction last.  *)
Record(t) ==
  /\ At(t, "record")
  /\ LET p == job[t].pr
     IN waitedOn' = IF waitedOn[p] # None \/ RequiredBy(deps, p) # {}
                    THEN [waitedOn EXCEPT ![p] = "MERGED"] ELSE waitedOn
  /\ job' = [job EXCEPT ![t] = IF @.fn = "autoMerge" THEN Call(@, "fetch", "waiting")
                               ELSE Goto(@, "waiting")]
  /\ UNCHANGED <<gh, saved, loads, merging, holds, spawned, edits>>

(* refreshWaiting: the repos of the PRs that waited on the merged one, ...  *)
ReadWaiting(t) ==
  /\ At(t, "waiting")
  /\ LET rs == {RepoOf[p] : p \in RequiredBy(deps, job[t].pr)}
     IN job' = [job EXCEPT ![t] =
          IF rs = {} THEN Goto(@, "release") ELSE [@ EXCEPT !.at = "others", !.rest = rs]]
  /\ UNCHANGED <<gh, saved, loads, waitedOn, merging, holds, spawned, edits>>

(* ... each refreshed in turn.  PollOnce refreshes every repo too, at the    *)
(* same time: here in any order, in one thread.                            *)
RefreshNext(t, r) ==
  /\ At(t, "others") /\ r \in job[t].rest
  /\ LET next == [job[t] EXCEPT !.rest = @ \ {r}]
         back == IF next.rest # {} THEN "others"
                 ELSE IF next.fn = "PollOnce" THEN "idle" ELSE "release"
     IN \/ job' = [job EXCEPT ![t] = [WithFetch(next, r) EXCEPT !.back = back]]
        \/ /\ "fetch fails" \in Inputs
           /\ job' = [job EXCEPT ![t] = Goto(next, back)]
  /\ UNCHANGED <<gh, saved, loads, waitedOn, merging, holds, spawned, edits>>

(* The end of a merge: the claim it took goes, if it took one.              *)
Release(t) ==
  /\ At(t, "release")
  /\ merging' = IF job[t].claim THEN merging \ {job[t].pr} ELSE merging
  /\ job' = [job EXCEPT ![t] = IF @.fn = "merge"
                               THEN [Call(@, "fetch", "idle") EXCEPT !.claim = FALSE]
                               ELSE Idle]
  /\ UNCHANGED <<gh, saved, loads, waitedOn, holds, spawned, edits>>

----------------------------------------------------------------------------
(* hold: a waiting PR goes from GitHub's auto-merge to pr-mon's.            *)

TurnedOffOnGitHub(p) == [gh EXCEPT ![p].auto = FALSE]

(* The call fails; or so it seems, as only the answer was lost.             *)
TurnOffFails(t) ==
  /\ At(t, "turnOff")
  /\ LET p == job[t].pr
     IN /\ \/ /\ gh[p].state # "OPEN" \/ ~ gh[p].auto \/ "hold fails" \in Inputs
              /\ UNCHANGED gh
           \/ /\ gh[p].state = "OPEN" /\ "answer lost" \in Inputs
              /\ gh' = TurnedOffOnGitHub(p)
        /\ holdFailed' = holdFailed \cup {p}
  /\ job' = [job EXCEPT ![t] = Goto(@, "unhold")]
  /\ UNCHANGED <<saved, loads, waitedOn, merging, holding, spawned, edits>>

TurnOffDone(t) ==
  /\ At(t, "turnOff")
  /\ gh[job[t].pr].state = "OPEN"
  /\ gh' = TurnedOffOnGitHub(job[t].pr)
  /\ job' = [job EXCEPT ![t] = Goto(@, "arm")]
  /\ UNCHANGED <<saved, loads, waitedOn, merging, holds, spawned, edits>>

TurnOff(t) == TurnOffDone(t) \/ TurnOffFails(t)

Arm(t) ==
  /\ At(t, "arm")
  /\ armed' = armed \cup {job[t].pr}
  /\ view' = Rebuilt({RepoOf[job[t].pr]}, deps, waitedOn)
  /\ job' = [job EXCEPT ![t] = IF @.fn = "hold" THEN Call(@, "fetch", "unhold")
                               ELSE Goto(@, "copy")]
  /\ UNCHANGED <<gh, monitored, deps, loaded, cut, waitedOn, merging, holds, spawned, edits>>

Unhold(t) ==
  /\ At(t, "unhold")
  /\ holding' = holding \ {job[t].pr}
  /\ job' = [job EXCEPT ![t] = Idle]
  /\ UNCHANGED <<gh, saved, loads, waitedOn, merging, holdFailed, spawned, edits>>

----------------------------------------------------------------------------
(* Commands.  performAction first finds the PR in m.Repo; what it does then *)
(* works from that copy.                                                   *)

Command(kind, t, p, start) ==
  /\ Input(kind)
  /\ IsIdle(t) /\ view[p] # None
  /\ job' = [job EXCEPT ![t] = start]
  /\ UNCHANGED <<gh, saved, loads, waitedOn, merging, holds, spawned>>

(* arm_merge, and auto_merge_on for a waiting PR.                           *)
ArmMerge(t, p) ==
  Command("arm", t, p, [Idle EXCEPT !.fn = "arm", !.at = "arm", !.pr = p])

DisarmMerge(p) ==
  /\ Input("disarm")
  /\ view[p] # None
  /\ armed' = armed \ {p}
  /\ view' = Rebuilt({RepoOf[p]}, deps, waitedOn)
  /\ UNCHANGED <<gh, monitored, deps, loaded, cut, waitedOn, merging, holds, job, spawned>>

(* merge and force_merge, refused while the PR waits.  A menu does not pin  *)
(* the head, a tap pins the one its message showed.                        *)
ManualMerge(t, p) ==
  /\ view[p] # None /\ ~ Waiting(view[p])
  /\ \E pin \in {None} \cup 0..gh[p].head :
       Command("merge", t, p,
               [Idle EXCEPT !.fn = "merge", !.at = "claim", !.pr = p, !.pin = pin])

(* It claims the merge if nobody has, and goes on either way.               *)
ClaimMerge(t) ==
  /\ At(t, "claim")
  /\ LET p == job[t].pr
     IN /\ merging' = merging \cup {p}
        /\ job' = [job EXCEPT ![t] = [@ EXCEPT !.at = "merge", !.claim = p \notin merging]]
  /\ UNCHANGED <<gh, saved, loads, waitedOn, holds, spawned, edits>>

(* GitHub takes it or refuses it, whatever the copy said; an answer that is *)
(* lost is a failure again.                                                *)
MergeCall(t) ==
  /\ At(t, "merge")
  /\ \/ /\ Accepts(t, job[t].pr)
        /\ gh' = MergedOnGitHub(job[t].pr)
        /\ \/ job' = [job EXCEPT ![t] = Goto(@, "record")]
           \/ /\ "answer lost" \in Inputs
              /\ job' = [job EXCEPT ![t] = Goto(@, "release")]
     \/ /\ UNCHANGED gh
        /\ job' = [job EXCEPT ![t] = Goto(@, "release")]
  /\ UNCHANGED <<saved, loads, waitedOn, merging, holds, spawned, edits>>

(* auto_merge_on (a waiting PR is armed instead) and auto_merge_off.        *)
AutoMergeOn(t, p) ==
  /\ view[p] # None /\ ~ Waiting(view[p])
  /\ Command("auto on", t, p, [Idle EXCEPT !.fn = "setAutoMerge", !.at = "turnOn", !.pr = p])

AutoMergeOff(t, p) ==
  Command("auto off", t, p, [Idle EXCEPT !.fn = "setAutoMerge", !.at = "off", !.pr = p])

(* GitHub refuses to turn it on for a PR that can be merged already.        *)
SetAutoMerge(t, step, on) ==
  /\ At(t, step)
  /\ LET p == job[t].pr
     IN \/ /\ gh[p].state = "OPEN" /\ (on => ~ gh[p].ready)
           /\ gh' = [gh EXCEPT ![p].auto = on]
        \/ UNCHANGED gh
  /\ job' = [job EXCEPT ![t] = Call(@, "fetch", "idle")]
  /\ UNCHANGED <<saved, loads, waitedOn, merging, holds, spawned, edits>>

(* arm ends with checkArmed on m.Repo, as RemoveDependency does.            *)
CopyRepo(t) ==
  /\ At(t, "copy")
  /\ LET r == RepoOf[job[t].pr]
     IN job' = [job EXCEPT ![t] =
          IF r \in loaded THEN [Judging(@, r, view, r \in cut) EXCEPT !.at = "armed"]
          ELSE Idle]
  /\ UNCHANGED <<gh, saved, loads, waitedOn, merging, holds, spawned, edits>>

(* AddDependency: p is open as far as pr-mon knows and q is open on GitHub  *)
(* when it asks.  The look at its own copy of p and the one at q on GitHub  *)
(* are one step: nothing is done with the first before the second.         *)
AddDependency(t, p, q) ==
  /\ gh[q].state = "OPEN"
  /\ Command("add dependency", t, p,
             [Idle EXCEPT !.fn = "AddDependency", !.at = "add", !.pr = p, !.peer = q,
                          !.repo = RepoOf[p],
                          !.back = IF view[p].auto THEN "scan" ELSE "idle"])

AddEdge(t) ==
  /\ At(t, "add")
  /\ LET p == job[t].pr
         q == job[t].peer
         G == Add(deps, p, q)
         known == [waitedOn EXCEPT ![q] = "OPEN"]
     IN IF CanAdd(deps, p, q)
        THEN /\ deps' = G
             /\ waitedOn' = known
             /\ view' = Rebuilt({RepoOf[p], RepoOf[q]}, G, known)
             /\ job' = [job EXCEPT ![t] = Return(@)]
        ELSE /\ job' = [job EXCEPT ![t] = Idle]
             /\ UNCHANGED <<deps, waitedOn, view>>
  /\ UNCHANGED <<gh, monitored, armed, loaded, cut, merging, holds, spawned, edits>>

RemoveDependency(t, p, q) ==
  /\ Input("remove dependency")
  /\ IsIdle(t) /\ <<p, q>> \in deps
  /\ LET G == Remove(deps, p, q)
     IN /\ deps' = G
        /\ view' = Rebuilt({RepoOf[p], RepoOf[q]}, G, waitedOn)
  /\ job' = [job EXCEPT ![t] = [Idle EXCEPT !.fn = "RemoveDependency", !.at = "copy", !.pr = p]]
  /\ UNCHANGED <<gh, monitored, armed, loaded, cut, waitedOn, merging, holds, spawned>>

(* RemoveRepo forgets everything it kept about the repo's PRs.              *)
RemoveRepo(r) ==
  /\ Input("remove repo")
  /\ r \in monitored
  /\ monitored' = monitored \ {r}
  /\ armed' = armed \ PRsOf(r)
  /\ deps' = Forget(deps, PRsOf(r))
  /\ view' = [p \in PRs |-> IF RepoOf[p] = r THEN None ELSE view[p]]
  /\ loaded' = loaded \ {r}
  /\ cut' = cut \ {r}
  /\ UNCHANGED <<gh, waitedOn, merging, holds, job, spawned>>

AddRepo(t, r) ==
  /\ Input("add repo")
  /\ IsIdle(t) /\ r \notin monitored
  /\ job' = [job EXCEPT ![t] = [WithFetch([Idle EXCEPT !.fn = "AddRepo"], r) EXCEPT !.at = "addRepo"]]
  /\ UNCHANGED <<gh, saved, loads, waitedOn, merging, holds, spawned>>

AddFetched(t) ==
  /\ At(t, "addRepo")
  /\ monitored' = monitored \cup {job[t].repo}
  /\ job' = [job EXCEPT ![t] = IF job[t].repo \in monitored THEN Idle ELSE Goto(@, "apply")]
  /\ UNCHANGED <<gh, armed, deps, loads, waitedOn, merging, holds, spawned, edits>>

----------------------------------------------------------------------------
(* Looking up what PRs wait on.                                            *)

(* One query per repo, answered together here; a repo's query may fail, for *)
(* all of its PRs.                                                         *)
Lookup(t, fn, rest) ==
  \E failed \in SUBSET (IF "lookup fails" \in Inputs THEN Repos ELSE {}) :
    /\ IsIdle(t)
    /\ LET answer(q) == IF q \notin Targets(deps) THEN "not wanted"
                        ELSE IF RepoOf[q] \in failed THEN "failed" ELSE gh[q].state
       IN job' = [job EXCEPT ![t] =
            [Idle EXCEPT !.fn = fn, !.at = "store", !.rest = rest,
                         !.found = [q \in PRs |-> answer(q)]]]
    /\ UNCHANGED <<gh, saved, loads, waitedOn, merging, holds, spawned>>

(* PollOnce: the lookups, then every repo; the names are read first.        *)
PollOnce(t) ==
  /\ Input("poll all")
  /\ monitored # {}
  /\ Lookup(t, "PollOnce", monitored)

(* RefreshDependencyStates, which the scheduler runs while PRs wait.        *)
RefreshDependencyStates(t) ==
  /\ deps # {}
  /\ Lookup(t, "RefreshDependencyStates", {})
  /\ UNCHANGED edits

(* A mutant of Store: a state once known is never looked at again.          *)
StoreOnce(t) ==
  /\ At(t, "store")
  /\ waitedOn' = [q \in PRs |-> IF job[t].found[q] = "not wanted" THEN None
                                ELSE IF waitedOn[q] # None THEN waitedOn[q]
                                ELSE IF job[t].found[q] = "failed" THEN None
                                ELSE job[t].found[q]]
  /\ job' = [job EXCEPT ![t].found = NotFound,
                         ![t].at = IF job[t].fn = "PollOnce" THEN "others" ELSE "rebuild"]
  /\ UNCHANGED <<gh, saved, loads, merging, holds, spawned, edits>>

(* The end of refreshWaitedOn.  It drops what it did not look up, even what *)
(* was added since it read the graph.                                      *)
Store(t) ==
  /\ At(t, "store")
  /\ waitedOn' = [q \in PRs |-> CASE job[t].found[q] = "not wanted" -> None
                                  [] job[t].found[q] = "failed" -> waitedOn[q]
                                  [] OTHER -> job[t].found[q]]
  /\ job' = [job EXCEPT ![t].found = NotFound,
                         ![t].at = IF job[t].fn = "PollOnce" THEN "others" ELSE "rebuild"]
  /\ UNCHANGED <<gh, saved, loads, merging, holds, spawned, edits>>

Rebuild(t) ==
  /\ At(t, "rebuild")
  /\ LET rs == {RepoOf[e[1]] : e \in deps}
     IN /\ view' = Rebuilt(rs, deps, waitedOn)
        /\ job' = [job EXCEPT ![t] = IF rs = {} THEN Idle
                                     ELSE [@ EXCEPT !.at = "judgeEach", !.rest = rs]]
  /\ UNCHANGED <<gh, saved, loaded, cut, waitedOn, merging, holds, spawned, edits>>

(* It then checks the armed PRs of each repo with waiting PRs.              *)
JudgeNext(t, r) ==
  /\ At(t, "judgeEach") /\ r \in job[t].rest
  /\ LET next == [job[t] EXCEPT !.rest = @ \ {r}]
         back == IF next.rest = {} THEN "idle" ELSE "judgeEach"
     IN job' = [job EXCEPT ![t] =
          IF r \in loaded THEN Call(Judging(next, r, view, r \in cut), "armed", back)
          ELSE Goto(next, back)]
  /\ UNCHANGED <<gh, saved, loads, waitedOn, merging, holds, spawned, edits>>

----------------------------------------------------------------------------
(* A crash loses memory and every goroutine; the next start reads the files *)
(* back.                                                                   *)
Crash ==
  /\ Input("crash")
  /\ view' = NoView /\ loaded' = {} /\ cut' = {}
  /\ waitedOn' = [p \in PRs |-> None]
  /\ merging' = {} /\ holding' = {} /\ holdFailed' = {}
  /\ job' = [t \in Threads |-> Idle] /\ spawned' = {}
  /\ UNCHANGED <<gh, saved>>

----------------------------------------------------------------------------
(* The backend starts with whatever state.json and config.toml an earlier   *)
(* one left: PRs of monitored repos armed, and dependencies without cycles. *)
(* Since then PRs may have merged or closed.                               *)
Init ==
  /\ gh \in [PRs -> {g \in OnGitHub : g.head = 0 /\ ~ g.auto}]
  /\ monitored \in SUBSET Repos
  /\ armed \in SUBSET {p \in PRs : RepoOf[p] \in monitored}
  /\ deps \in {G \in Graphs : Acyclic(G) /\ \A e \in G : RepoOf[e[1]] \in monitored}
  /\ view = NoView /\ loaded = {} /\ cut = {}
  /\ waitedOn = [p \in PRs |-> None]
  /\ merging = {} /\ holding = {} /\ holdFailed = {}
  /\ job = [t \in Threads |-> Idle] /\ spawned = {}
  /\ edits = 0

EditOnGitHub(p) ==
  \/ Push(p) \/ Recheck(p) \/ Close(p) \/ Reopen(p)
  \/ MergeElsewhere(p) \/ ToggleAutoElsewhere(p)

(* What a thread does next.                                                *)
Step(t) ==
  \/ Fetch(t) \/ Apply(t) \/ ApplyUnmonitored(t) \/ Scan(t)
  \/ \E p \in job[t].stuck : HoldNext(t, p)
  \/ ReadArmed(t) \/ Judge(t)
  \/ AutoMergeDone(t) \/ AutoMergeRetryable(t) \/ AutoMergeRefused(t)
  \/ Disarm(t) \/ Record(t) \/ ReadWaiting(t)
  \/ \E r \in job[t].rest : RefreshNext(t, r) \/ JudgeNext(t, r)
  \/ Release(t)
  \/ TurnOff(t) \/ Arm(t) \/ Unhold(t)
  \/ ClaimMerge(t) \/ MergeCall(t)
  \/ SetAutoMerge(t, "turnOn", TRUE) \/ SetAutoMerge(t, "off", FALSE)
  \/ CopyRepo(t) \/ AddEdge(t) \/ AddFetched(t) \/ Store(t) \/ Rebuild(t)

(* What makes an idle thread run: the scheduler and clients.                *)
Start(t) ==
  \/ \E r \in Repos : Poll(t, r) \/ AddRepo(t, r)
  \/ \E p \in PRs : \/ ArmMerge(t, p) \/ ManualMerge(t, p)
                    \/ AutoMergeOn(t, p) \/ AutoMergeOff(t, p)
  \/ \E p, q \in PRs : AddDependency(t, p, q) \/ RemoveDependency(t, p, q)
  \/ PollOnce(t) \/ RefreshDependencyStates(t)

Next ==
  \/ \E p \in PRs : EditOnGitHub(p) \/ NativeMerge(p) \/ DisarmMerge(p)
  \/ \E r \in Repos : RemoveRepo(r)
  \/ \E t \in Threads : Step(t) \/ Start(t) \/ \E s \in spawned : Begin(t, s)
  \/ Crash

Spec == Init /\ [][Next]_vars

----------------------------------------------------------------------------
(* Properties.                                                             *)

TypeOK ==
  /\ gh \in [PRs -> OnGitHub]
  /\ monitored \in SUBSET Repos
  /\ armed \in SUBSET PRs
  /\ deps \in Graphs
  /\ view \in View /\ loaded \in SUBSET Repos /\ cut \in SUBSET Repos
  /\ waitedOn \in [PRs -> PRStates \cup {None}]
  /\ merging \in SUBSET PRs
  /\ holding \in SUBSET PRs /\ holdFailed \in SUBSET PRs
  /\ job \in [Threads -> Job]
  /\ spawned \in SUBSET Spawn
  /\ edits \in Nat

(* Claims on a merge.  m.merging holds exactly the PRs some goroutine still  *)
(* has to give up, each claimed by one goroutine, and autoMerge never calls *)
(* GitHub without the claim: two refreshes that both find a PR ready start  *)
(* one merge.                                                              *)
Claims(p) ==
  \/ \E t \in Threads : job[t].claim /\ job[t].pr = p
  \/ \E s \in spawned : s.fn = "autoMerge" /\ s.pr = p

ClaimsExact == \A p \in PRs : p \in merging <=> Claims(p)

ClaimsExclusive ==
  /\ \A t, u \in Threads :
       job[t].claim /\ job[u].claim /\ job[t].pr = job[u].pr => t = u
  /\ \A s \in spawned : s.fn = "autoMerge" =>
       /\ \A t \in Threads : job[t].claim => job[t].pr # s.pr
       /\ \A r \in spawned : r.fn = "autoMerge" /\ r.pr = s.pr => r = s

AutoMergesClaimed == \A t \in Threads : At(t, "autoMerge") => job[t].claim

OneAutoMergeAtATime == ClaimsExact /\ ClaimsExclusive /\ AutoMergesClaimed

(* What pr-mon takes for merged has merged, in m.waitedOn, in the copies    *)
(* clients see and in the copies goroutines carry.                         *)
MergedFor(entry) == entry # None => \A q \in entry.merged : gh[q].state = "MERGED"

KnownMergesAreReal ==
  /\ \A q \in PRs : waitedOn[q] = "MERGED" => gh[q].state = "MERGED"
  /\ \A p \in PRs : MergedFor(view[p])
  /\ \A s \in spawned : MergedFor(s.seen)
  /\ \A t \in Threads :
       /\ MergedFor(job[t].seen)
       /\ \A p \in PRs : /\ MergedFor(job[t].copy[p])
                         /\ job[t].found[p] = "MERGED" => gh[p].state = "MERGED"

(* Thread t's call merges a PR on GitHub.                                  *)
Merges(t) ==
  /\ At(t, "autoMerge") \/ At(t, "merge")
  /\ gh'[job[t].pr].state # gh[job[t].pr].state
  /\ job'[t] # job[t]

(* What pr-mon merges unattended is the very commit it judged, judged ready *)
(* for it, and everything the PR waited on when it was judged has merged,   *)
(* however old the judgement is by then.                                   *)
AutoMergeJustified ==
  [][\A t \in Threads : Merges(t) /\ At(t, "autoMerge") =>
       LET entry == job[t].seen
       IN /\ gh[job[t].pr].head = entry.head
          /\ entry.ready
          /\ \A q \in entry.waitsOn : gh[q].state = "MERGED"]_vars

(* Saved dependencies never form a cycle: PRs in one could never merge.     *)
NoDeadlockedPRs == Acyclic(deps)

(* The steps of AddDependency, Apply, RemoveRepo and the rest change the    *)
(* dependencies only as their store allows, for all that the state of what *)
(* is to be waited on was read from GitHub long before the lock was taken.  *)
Order == INSTANCE DependencyStore WITH edges <- deps

DependenciesKept == Order!Spec

(* A PR that somebody set to merge by itself stays set, on GitHub or in     *)
(* pr-mon or on its way from one to the other, until it is no longer open,  *)
(* a person turned it off, or pr-mon reported that its merge failed.  The   *)
(* move from GitHub to pr-mon can lose it in two ways and no other: by a    *)
(* crash between hold's two steps, and when GitHub has turned its           *)
(* auto-merge off and hold does not hear of it.                            *)
InHand(p) == \E t \in Threads : job[t].pr = p /\ job[t].fn = "hold" /\ At(t, "arm")

Promised(p) == p \in armed \/ gh[p].auto \/ InHand(p)

TurnedOff(p) ==
  \/ DisarmMerge(p) \/ RemoveRepo(RepoOf[p]) \/ ToggleAutoElsewhere(p)
  \/ \E t \in Threads : job[t].pr = p /\ (At(t, "off") \/ At(t, "disarm")) /\ job'[t] # job[t]

LostInTheMove(p) ==
  \/ InHand(p) /\ Crash
  \/ \E t \in Threads : job[t].pr = p /\ TurnOffFails(t) /\ gh' # gh

PromiseKept ==
  [][\A p \in PRs : Promised(p) /\ ~ Promised(p)' =>
       gh'[p].state # "OPEN" \/ TurnedOff(p) \/ LostInTheMove(p)]_vars

----------------------------------------------------------------------------
(* Fairness.  A running goroutine goes on, a spawned one gets to run, and    *)
(* the scheduler's tickers fire for ever.  The last two are strong because  *)
(* Threads is a bound of the model: Go has a goroutine for every spawn and  *)
(* every tick, so none of them waits behind the others.                    *)
BeginFor(p) == \E t \in Threads, s \in spawned : s.pr = p /\ Begin(t, s)

Fairness ==
  /\ \A t \in Threads : WF_vars(Step(t))
  /\ \A p \in PRs : SF_vars(BeginFor(p))
  /\ \A r \in Repos : SF_vars(\E t \in Threads : Poll(t, r))
  /\ SF_vars(\E t \in Threads : RefreshDependencyStates(t))

FairSpec == Spec /\ Fairness

(* Every claim on a merge is given up, whatever came of the merge: a claim  *)
(* left behind would keep the PR from ever merging and the backend from     *)
(* ever exiting when idle.                                                 *)
ClaimsReleased == \A p \in PRs : p \in merging ~> p \notin merging

(* An armed PR that stays open and ready in a monitored repo, with all it   *)
(* waits on merged, does not stay armed for ever: it merges, or its merge   *)
(* is reported to have failed.  It must be among those a fetch lists.       *)
Mergeable(p) ==
  /\ p \in armed /\ RepoOf[p] \in monitored
  /\ p \in Listed(RepoOf[p])
  /\ gh[p].state = "OPEN" /\ gh[p].ready
  /\ \A q \in WaitsOn(deps, p) : gh[q].state = "MERGED"

ReadyPRsMerge == \A p \in PRs : []<> ~ Mergeable(p)

(* What pr-mon keeps about a PR of a monitored repo goes once the PR has    *)
(* merged or closed for good: it is not armed and waits on nothing.  While  *)
(* more PRs are open than a fetch lists, no list proves that it closed, and *)
(* the code keeps it; it goes when they have become fewer.                  *)
Remembered(p) ==
  /\ gh[p].state # "OPEN" /\ RepoOf[p] \in monitored /\ ~ CutOff(RepoOf[p])
  /\ p \in armed \/ WaitsOn(deps, p) # {}

ClosedPRsForgotten == \A p \in PRs : []<> ~ Remembered(p)

----------------------------------------------------------------------------
(* What the documentation says and the code does not keep.                 *)

(* docs/protocol.md on remove_repo: "Also drops its notification settings   *)
(* and armed merges."                                                      *)
RemovedReposHaveNothingArmed == \A p \in armed : RepoOf[p] \in monitored
==========================================================================
