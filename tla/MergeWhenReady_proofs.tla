----------------------- MODULE MergeWhenReady_proofs -----------------------
(***************************************************************************)
(* The safety of merge when ready, for any PRs, repos, goroutines and      *)
(* bounds: claims, dependencies, and what an unattended merge rests on.    *)
(*                                                                         *)
(* The invariant adds to the types what a job must satisfy at each step    *)
(* (JobOK): what it is about is a PR, and a job that has claimed a merge   *)
(* has its release still before it, here or where its call returns to.     *)
(* All but five actions (JudgeReady, Begin, ClaimMerge, Release and Crash)  *)
(* leave every claim alone, so they only have to keep JobOK; StepInv says  *)
(* so once for all of them.  One lemma per action follows, then the         *)
(* theorems, the dependencies, what old copies still say truly (HInv), what *)
(* old lists still lack truly and so which promises are kept (GInv), and    *)
(* last the search by which a dependency is found to close no cycle.        *)
(***************************************************************************)
EXTENDS MergeWhenReady, DependencySearch, TLAPS

----------------------------------------------------------------------------
(* Jobs.                                                                   *)

(* The functions about one PR, and the steps that need it.                  *)
About == {"autoMerge", "hold", "arm", "merge", "setAutoMerge", "AddDependency",
          "RemoveDependency"}

OnOnePR == {"fetch", "arm", "turnOff", "turnOn", "off", "claim", "merge", "add"}

(* The steps from which a merge's own steps lead to its release, and those *)
(* of the functions it calls.                                              *)
Unreleased == {"autoMerge", "merge", "record", "waiting", "others", "release"}
Called     == {"disarm", "fetch", "apply", "scan", "hold", "armed", "judge"}

JobOK(j) ==
  /\ j.at \in OnOnePR => j.fn \in About
  /\ j.fn \in About => j.pr \in PRs
  /\ j.at = "add" => j.peer \in PRs
  /\ j.at = "addRepo" => j.repo \in Repos
  /\ j.at = "claim" => j.fn = "merge"
  /\ j.at = "autoMerge" => j.claim
  /\ j.claim => /\ j.fn \in {"autoMerge", "merge"}
                /\ \/ j.at \in Unreleased
                   \/ j.at \in Called /\ j.back \in Unreleased

JobsOK == \A t \in Threads : JobOK(job[t])

IInv == TypeOK /\ JobsOK /\ OneAutoMergeAtATime

Good(j) == j \in Job /\ JobOK(j)

(* k is j further on: the same function about the same PR.                  *)
Same(j, k) == k.fn = j.fn /\ k.pr = j.pr /\ k.claim = j.claim

LEMMA IdleGood == Good(Idle) /\ Idle.claim = FALSE
<1>1. NoView \in View
  BY DEF NoView, View
<1>2. NotFound \in [PRs -> Answers]
  BY DEF NotFound, Answers
<1> QED
  BY <1>1, <1>2 DEF Good, Idle, Job, JobOK, Functions, Steps, Returns, About, OnOnePR

LEMMA GotoJob ==
  ASSUME NEW j \in Job, NEW step \in Steps \ {"idle"}
  PROVE  /\ Goto(j, step) \in Job /\ Same(j, Goto(j, step))
         /\ Goto(j, step).at = step /\ Goto(j, step).back = j.back
         /\ Goto(j, step).peer = j.peer /\ Goto(j, step).repo = j.repo
BY DEF Goto, Job, Same

LEMMA GotoIdle ==
  ASSUME NEW j
  PROVE  Goto(j, "idle") = Idle
BY DEF Goto

LEMMA CallJob ==
  ASSUME NEW j \in Job, NEW step \in Steps, NEW back \in Returns
  PROVE  /\ Call(j, step, back) \in Job /\ Same(j, Call(j, step, back))
         /\ Call(j, step, back).at = step /\ Call(j, step, back).back = back
         /\ Call(j, step, back).peer = j.peer /\ Call(j, step, back).repo = j.repo
BY DEF Call, Job, Same

LEMMA ForgottenJob ==
  ASSUME NEW j \in Job
  PROVE  /\ Forgotten(j) \in Job /\ Same(j, Forgotten(j))
         /\ Forgotten(j).at = j.at /\ Forgotten(j).back = j.back
<1>1. NoView \in View
  BY DEF NoView, View
<1> QED
  BY <1>1 DEF Forgotten, Job, Same

(* A function that was called returns, and the claim of its caller stays.   *)
LEMMA ReturnGood ==
  ASSUME NEW j, Good(j), j.at \in Called \cup {"add"}
  PROVE  /\ Good(Return(j)) /\ Return(j).claim = j.claim
         /\ j.claim => Return(j).pr = j.pr
<1> DEFINE k == [j EXCEPT !.back = "idle"]
<1>1. k \in Job /\ Same(j, k) /\ k.back = "idle" /\ k.at = j.at
  BY DEF Good, Job, Same, Returns
<1>2. j.back \in Returns /\ j.back \in Steps
  BY DEF Good, Job, Steps
<1>3. CASE j.back = "idle"
  <2>1. Return(j) = Idle /\ j.claim = FALSE
    BY <1>3, GotoIdle DEF Return, Good, JobOK, Called, Unreleased, Job
  <2> QED
    BY <2>1, IdleGood
<1>4. CASE j.back # "idle"
  <2>1. /\ Return(j) \in Job /\ Same(j, Return(j)) /\ Return(j).at = j.back
    BY <1>1, <1>2, <1>4, GotoJob DEF Return, Same
  <2>2. JobOK(Return(j))
    BY <1>2, <2>1 DEF Good, JobOK, Same, Returns, OnOnePR, About, Called, Unreleased
  <2> QED
    BY <2>1, <2>2 DEF Good, Same
<1> QED
  BY <1>3, <1>4

LEMMA FetchedView ==
  ASSUME TypeOK, NEW r
  PROVE  Fetched(r) \in View
<1> SUFFICES ASSUME NEW p \in PRs
             PROVE  Fetched(r)[p] \in Entry \cup {None}
  BY DEF Fetched, View
<1>1. gh[p] \in OnGitHub
  BY DEF TypeOK
<1> QED
  BY <1>1 DEF Fetched, OnGitHub, Entry

LEMMA WithFetchJob ==
  ASSUME TypeOK, NEW j \in Job, NEW r \in Repos
  PROVE  /\ WithFetch(j, r) \in Job /\ Same(j, WithFetch(j, r))
         /\ WithFetch(j, r).at = "apply" /\ WithFetch(j, r).back = j.back
         /\ WithFetch(j, r).repo = r
<1>1. Fetched(r) \in View
  BY FetchedView
<1>2. "apply" \in Steps
  BY DEF Steps
<1> QED
  BY <1>1, <1>2 DEF WithFetch, CutOff, Job, Same

LEMMA JudgingJob ==
  ASSUME NEW j \in Job, NEW r, NEW list \in View, NEW listCut
  PROVE  /\ Judging(j, r, list, listCut) \in Job
         /\ Same(j, Judging(j, r, list, listCut))
         /\ Judging(j, r, list, listCut).at = j.at
         /\ Judging(j, r, list, listCut).back = j.back
<1> DEFINE ready == {p \in PRsOf(r) : list[p] # None /\ StrictlyReady(list[p])}
           gone  == IF listCut THEN {} ELSE {p \in PRsOf(r) : list[p] = None}
           copy  == [p \in PRs |-> IF p \in ready THEN list[p] ELSE None]
<1>1. ready \cup gone \in SUBSET PRs
  BY DEF PRsOf
<1>2. copy \in View
  BY DEF View
<1>3. Judging(j, r, list, listCut) =
        [j EXCEPT !.copy = copy, !.cut = FALSE, !.repo = None, !.todo = ready \cup gone]
  BY DEF Judging
<1> HIDE DEF copy, ready, gone
<1> QED
  BY <1>1, <1>2, <1>3, ZenonT(40) DEF Job, Same

(* Jobs that stay at the same step of the same function, or go to one that  *)
(* needs nothing more.                                                     *)
LEMMA StaysGood ==
  ASSUME NEW j, NEW k, Good(j), k \in Job, Same(j, k),
         k.at \in Called, k.at # "fetch",
         k.back = j.back, j.at \in Called \/ ~ j.claim
  PROVE  Good(k)
BY DEF Good, JobOK, Same, OnOnePR, Called, Unreleased

LEMMA AfterHoldingGood ==
  ASSUME NEW j, Good(j), j.at \in {"scan", "hold"}
  PROVE  /\ Good(AfterHolding(j)) /\ AfterHolding(j).claim = j.claim
         /\ j.claim => AfterHolding(j).pr = j.pr
<1>1. CASE j.fn = "AddDependency"
  <2>1. AfterHolding(j) = Idle /\ j.claim = FALSE
    BY <1>1, GotoIdle DEF AfterHolding, Good, JobOK, Job
  <2> QED
    BY <2>1, IdleGood
<1>2. CASE j.fn # "AddDependency"
  <2>1. "armed" \in Steps \ {"idle"} /\ AfterHolding(j) = Goto(j, "armed") /\ j \in Job
    BY <1>2 DEF AfterHolding, Steps, Good
  <2> QED
    BY <2>1, GotoJob, StaysGood DEF Called, Same
<1> QED
  BY <1>1, <1>2

LEMMA JudgedGood ==
  ASSUME NEW j, Good(j), j.at = "judge", NEW p
  PROVE  /\ Good(Judged(j, p)) /\ Judged(j, p).claim = j.claim
         /\ j.claim => Judged(j, p).pr = j.pr
<1>1. CASE j.todo = {p}
  <2>1. Good(Forgotten(j)) /\ Forgotten(j).at = "judge" /\ Same(j, Forgotten(j))
    BY ForgottenJob, StaysGood DEF Good, Called
  <2> QED
    BY <1>1, <2>1, ReturnGood DEF Judged, Called, Same
<1>2. CASE j.todo # {p}
  <2> DEFINE k == [j EXCEPT !.todo = @ \ {p}, !.copy[p] = None]
  <2>1. k = [j EXCEPT !.todo = j.todo \ {p}, !.copy = [j.copy EXCEPT ![p] = None]]
    BY DEF Good, Job
  <2>2. j.todo \ {p} \in SUBSET PRs /\ [j.copy EXCEPT ![p] = None] \in View
    BY DEF Good, Job, View
  <2>3. k \in Job /\ Same(j, k) /\ k.at = j.at /\ k.back = j.back
    <3> HIDE DEF k
    <3> QED
      BY <2>1, <2>2 DEF Good, Job, Same
  <2>4. Judged(j, p) = k
    BY <1>2 DEF Judged
  <2> QED
    BY <2>3, <2>4, StaysGood DEF Called, Same
<1> QED
  BY <1>1, <1>2

----------------------------------------------------------------------------
(* Claims.                                                                 *)

AutoMergesIn(S) == {s \in S : s.fn = "autoMerge"}

(* Every other action: one job goes on, and no claim changes.               *)
LEMMA StepOf ==
  ASSUME IInv, NEW t \in Threads, NEW k, job' = [job EXCEPT ![t] = k],
         Good(k), k.claim = job[t].claim, job[t].claim => k.pr = job[t].pr,
         merging' = merging, AutoMergesIn(spawned') = AutoMergesIn(spawned)
  PROVE  job' \in [Threads -> Job] /\ JobsOK' /\ OneAutoMergeAtATime'
<1>1. job \in [Threads -> Job] /\ JobsOK
  BY DEF IInv, TypeOK
<1>2. job'[t] = k /\ \A u \in Threads : u # t => job'[u] = job[u]
  BY <1>1
<1>3. job' \in [Threads -> Job] /\ JobsOK'
  BY <1>1, <1>2 DEF Good, JobsOK
<1>4. \A u \in Threads : /\ job'[u].claim = job[u].claim
                         /\ job[u].claim => job'[u].pr = job[u].pr
  BY <1>2
<1>5. \A s : s \in spawned' /\ s.fn = "autoMerge" <=> s \in spawned /\ s.fn = "autoMerge"
  BY DEF AutoMergesIn
<1>6. \A p \in PRs : Claims(p)' <=> Claims(p)
  BY <1>4, <1>5 DEF Claims
<1>7. ClaimsExact'
  BY <1>6 DEF IInv, OneAutoMergeAtATime, ClaimsExact
<1>8. ClaimsExclusive'
  BY <1>4, <1>5 DEF IInv, OneAutoMergeAtATime, ClaimsExclusive
<1>9. AutoMergesClaimed'
  BY <1>3 DEF JobsOK, JobOK, AutoMergesClaimed, At
<1> QED
  BY <1>3, <1>7, <1>8, <1>9 DEF OneAutoMergeAtATime

----------------------------------------------------------------------------
(* The types of everything but the jobs.                                   *)

DataOK ==
  /\ gh \in [PRs -> OnGitHub]
  /\ monitored \in SUBSET Repos
  /\ armed \in SUBSET PRs
  /\ deps \in Graphs
  /\ view \in View /\ loaded \in SUBSET Repos /\ cut \in SUBSET Repos
  /\ waitedOn \in [PRs -> PRStates \cup {None}]
  /\ merging \in SUBSET PRs
  /\ holding \in SUBSET PRs /\ holdFailed \in SUBSET PRs
  /\ spawned \in SUBSET Spawn
  /\ edits \in Nat

LEMMA TypeParts == TypeOK <=> DataOK /\ job \in [Threads -> Job]
BY DEF TypeOK, DataOK

LEMMA Parts ==
  ASSUME IInv
  PROVE  /\ DataOK /\ TypeOK /\ job \in [Threads -> Job]
         /\ \A t \in Threads : Good(job[t]) /\ job[t] \in Job
BY TypeParts DEF IInv, JobsOK, Good

LEMMA EntryDecorated ==
  ASSUME NEW p \in PRs, NEW entry \in Entry, NEW G, NEW known
  PROVE  Decorate(p, entry, G, known) \in Entry
<1>1. WaitsOn(G, p) \in SUBSET PRs
  BY DEF WaitsOn
<1>2. {q \in WaitsOn(G, p) : known[q] = "MERGED"} \in SUBSET PRs
  BY <1>1
<1> QED
  BY <1>1, <1>2 DEF Decorate, Entry

LEMMA ViewRebuilt ==
  ASSUME view \in View, NEW rs, NEW G, NEW known
  PROVE  Rebuilt(rs, G, known) \in View
<1> SUFFICES ASSUME NEW p \in PRs
             PROVE  Rebuilt(rs, G, known)[p] \in Entry \cup {None}
  BY DEF Rebuilt, View
<1>1. view[p] \in Entry \cup {None}
  BY DEF View
<1> QED
  BY <1>1, EntryDecorated DEF Rebuilt

LEMMA DataKept ==
  ASSUME DataOK, UNCHANGED <<gh, saved, loads, waitedOn, merging, holds, spawned>>,
         edits' \in Nat
  PROVE  DataOK'
BY DEF DataOK, saved, loads, holds

LEMMA InputCounted ==
  ASSUME edits \in Nat, NEW kind, Input(kind)
  PROVE  edits' \in Nat
BY DEF Input

(* Nothing in a goroutine changes.                                          *)
LEMMA NoStep ==
  ASSUME IInv, DataOK', UNCHANGED <<job, merging, spawned>>
  PROVE  IInv'
<1>1. JobsOK' /\ TypeOK'
  BY DEF IInv, JobsOK, TypeOK, DataOK
<1>2. OneAutoMergeAtATime'
  BY DEF IInv, OneAutoMergeAtATime, ClaimsExact, ClaimsExclusive, AutoMergesClaimed,
         Claims, At
<1> QED
  BY <1>1, <1>2 DEF IInv

LEMMA StepInv ==
  ASSUME IInv, DataOK', NEW t \in Threads, NEW k, job' = [job EXCEPT ![t] = k],
         Good(k), k.claim = job[t].claim, job[t].claim => k.pr = job[t].pr,
         merging' = merging, AutoMergesIn(spawned') = AutoMergesIn(spawned)
  PROVE  IInv'
<1>1. job' \in [Threads -> Job] /\ JobsOK' /\ OneAutoMergeAtATime'
  BY StepOf
<1> QED
  BY <1>1 DEF IInv, TypeOK, DataOK

(* An idle thread starts a job that claims nothing.                         *)
LEMMA StartInv ==
  ASSUME IInv, DataOK', NEW t \in Threads, IsIdle(t),
         NEW k, job' = [job EXCEPT ![t] = k], Good(k), k.claim = FALSE,
         merging' = merging, spawned' = spawned
  PROVE  IInv'
<1>1. job[t].claim = FALSE
  BY Parts DEF IsIdle, At, Good, JobOK, Job, Unreleased, Called
<1> QED
  BY <1>1, StepInv DEF AutoMergesIn

----------------------------------------------------------------------------
LEMMA InitInv == Init => IInv
<1> SUFFICES ASSUME Init
             PROVE  IInv
  OBVIOUS
<1>1. \A t \in Threads : job[t] = Idle
  BY DEF Init
<1>2. JobsOK
  BY <1>1, IdleGood DEF JobsOK, Good
<1>3. TypeOK
  <2>1. NoView \in View
    BY DEF NoView, View
  <2>2. job \in [Threads -> Job]
    BY IdleGood DEF Init, Good
  <2>3. /\ gh \in [PRs -> OnGitHub] /\ monitored \in SUBSET Repos
        /\ armed \in SUBSET PRs /\ deps \in Graphs
    BY DEF Init
  <2> QED
    BY <2>1, <2>2, <2>3 DEF TypeOK, Init
<1>4. OneAutoMergeAtATime
  BY <1>1, IdleGood DEF Init, OneAutoMergeAtATime, ClaimsExact, ClaimsExclusive,
     AutoMergesClaimed, Claims, At, Idle
<1> QED
  BY <1>2, <1>3, <1>4 DEF IInv

----------------------------------------------------------------------------
(* GitHub.                                                                 *)

LEMMA EditOnGitHubInv ==
  ASSUME IInv, NEW p \in PRs, EditOnGitHub(p)
  PROVE  IInv'
<1>1. gh[p] \in OnGitHub /\ edits \in Nat
  BY Parts DEF DataOK
<1>2. ASSUME NEW kind, NEW when, NEW to \in OnGitHub, GitHubEdit(kind, p, when, to)
      PROVE  IInv'
  <2>1. DataOK'
    BY <1>1, <1>2, Parts, InputCounted DEF GitHubEdit, DataOK, saved, loads, holds
  <2> QED
    BY <1>2, <2>1, NoStep DEF GitHubEdit
<1>3. CASE Push(p)
  <2>1. PICK ready \in BOOLEAN :
          GitHubEdit("push", p, gh[p].state = "OPEN",
                     [gh[p] EXCEPT !.head = @ + 1, !.ready = ready])
    BY <1>3 DEF Push
  <2>2. gh[p].head + 1 \in Heads
    BY <1>1, <1>3, ConstantsAssumption DEF Push, OnGitHub, Heads
  <2>3. [gh[p] EXCEPT !.head = @ + 1, !.ready = ready] \in OnGitHub
    BY <1>1, <2>2 DEF OnGitHub
  <2> QED
    BY <1>2, <2>1, <2>3
<1>4. CASE Recheck(p)
  <2>1. [gh[p] EXCEPT !.ready = ~ @] \in OnGitHub
    BY <1>1 DEF OnGitHub
  <2> QED
    BY <1>2, <1>4, <2>1 DEF Recheck
<1>5. CASE Close(p)
  <2>1. [gh[p] EXCEPT !.state = "CLOSED", !.auto = FALSE] \in OnGitHub
    BY <1>1 DEF OnGitHub, PRStates
  <2> QED
    BY <1>2, <1>5, <2>1 DEF Close
<1>6. CASE Reopen(p)
  <2>1. [gh[p] EXCEPT !.state = "OPEN"] \in OnGitHub
    BY <1>1 DEF OnGitHub, PRStates
  <2> QED
    BY <1>2, <1>6, <2>1 DEF Reopen
<1>7. CASE MergeElsewhere(p)
  <2>1. [gh[p] EXCEPT !.state = "MERGED", !.auto = FALSE] \in OnGitHub
    BY <1>1 DEF OnGitHub, PRStates
  <2> QED
    BY <1>2, <1>7, <2>1 DEF MergeElsewhere
<1>8. CASE ToggleAutoElsewhere(p)
  <2>1. [gh[p] EXCEPT !.auto = ~ @] \in OnGitHub
    BY <1>1 DEF OnGitHub
  <2> QED
    BY <1>2, <1>8, <2>1 DEF ToggleAutoElsewhere
<1> QED
  BY <1>3, <1>4, <1>5, <1>6, <1>7, <1>8 DEF EditOnGitHub

LEMMA MergedType ==
  ASSUME gh \in [PRs -> OnGitHub], NEW p \in PRs
  PROVE  MergedOnGitHub(p) \in [PRs -> OnGitHub]
<1>1. gh[p] \in OnGitHub
  OBVIOUS
<1> DEFINE to == [gh[p] EXCEPT !.state = "MERGED", !.auto = FALSE]
<1>2. to \in OnGitHub
  BY <1>1 DEF OnGitHub, PRStates
<1>3. MergedOnGitHub(p) = [gh EXCEPT ![p] = to]
  BY <1>1 DEF MergedOnGitHub
<1> HIDE DEF to
<1> QED
  BY <1>2, <1>3

LEMMA NativeMergeInv ==
  ASSUME IInv, NEW p \in PRs, NativeMerge(p)
  PROVE  IInv'
<1>1. gh' = MergedOnGitHub(p)
  BY DEF NativeMerge, MergedOnGitHub
<1>2. DataOK'
  BY <1>1, MergedType, Parts DEF NativeMerge, DataOK, saved, loads, holds
<1> QED
  BY <1>2, NoStep DEF NativeMerge

----------------------------------------------------------------------------
(* Refreshing a repo.                                                      *)

LEMMA PollInv ==
  ASSUME IInv, NEW t \in Threads, NEW r \in Repos, Poll(t, r)
  PROVE  IInv'
<1> DEFINE j == [Idle EXCEPT !.fn = "RefreshRepo"]
           k == WithFetch(j, r)
<1>1. Good(j) /\ j.claim = FALSE /\ j.at = "idle"
  BY IdleGood, ZenonT(40) DEF Good, Idle, Job, JobOK, Functions, About, OnOnePR
<1>2. k \in Job /\ Same(j, k) /\ k.at = "apply" /\ k.back = j.back
  BY <1>1, Parts, WithFetchJob DEF Good
<1>3. Good(k) /\ k.claim = FALSE
  BY <1>1, <1>2, StaysGood DEF Called, Same
<1>4. DataOK'
  BY Parts, DataKept DEF Poll, DataOK
<1> HIDE DEF j, k
<1> QED
  BY <1>3, <1>4, StartInv DEF Poll, j, k

LEMMA FetchInv ==
  ASSUME IInv, NEW t \in Threads, Fetch(t)
  PROVE  IInv'
<1> DEFINE j == job[t]
<1>1. Good(j) /\ j \in Job /\ j.at = "fetch" /\ DataOK'
  BY Parts, DataKept DEF Fetch, At, DataOK
<1>2. j.pr \in PRs /\ RepoOf[j.pr] \in Repos
  BY <1>1, ConstantsAssumption DEF Good, JobOK, OnOnePR
<1>3. CASE job' = [job EXCEPT ![t] = WithFetch(j, RepoOf[j.pr])]
  <2> DEFINE k == WithFetch(j, RepoOf[j.pr])
  <2>1. k \in Job /\ Same(j, k) /\ k.at = "apply" /\ k.back = j.back
    BY <1>1, <1>2, Parts, WithFetchJob
  <2>2. Good(k)
    BY <1>1, <2>1, StaysGood DEF Called
  <2> HIDE DEF k
  <2> QED
    BY <1>1, <1>3, <2>1, <2>2, StepInv DEF k, Fetch, Same
<1>4. CASE job' = [job EXCEPT ![t] = Return(j)]
  BY <1>1, <1>4, ReturnGood, StepInv DEF Called, Fetch
<1> QED
  BY <1>3, <1>4 DEF Fetch

LEMMA ApplyInv ==
  ASSUME IInv, NEW t \in Threads, Apply(t)
  PROVE  IInv'
<1> DEFINE j == job[t]
           r == j.repo
           G == Forget(deps, Gone(t))
           decorated == [p \in PRs |-> IF j.copy[p] = None THEN None
                                       ELSE Decorate(p, j.copy[p], G, waitedOn)]
           judging == Judging(j, r, decorated, j.cut)
           k == [judging EXCEPT !.at = "scan", !.repo = r]
<1>1. Good(j) /\ j \in Job /\ j.at = "apply" /\ r \in Repos
  BY Parts DEF Apply, At, DataOK
<1>2. decorated \in View
  <2> SUFFICES ASSUME NEW p \in PRs
               PROVE  decorated[p] \in Entry \cup {None}
    BY DEF View
  <2>1. j.copy[p] \in Entry \cup {None}
    BY <1>1 DEF Job, View
  <2> QED
    BY <2>1, EntryDecorated
<1>3. judging \in Job /\ Same(j, judging) /\ judging.back = j.back
  <2> HIDE DEF decorated
  <2> QED
    BY <1>1, <1>2, JudgingJob
<1>4. k \in Job /\ Same(j, k) /\ k.at = "scan" /\ k.back = j.back
  <2>1. "scan" \in Steps
    BY DEF Steps, Returns
  <2> HIDE DEF judging
  <2> QED
    BY <1>1, <1>3, <2>1 DEF Job, Same
<1>5. Good(k)
  BY <1>1, <1>4, StaysGood DEF Called
<1>6. DataOK'
  <2>1. G \in Graphs
    BY Parts DEF DataOK, Forget, Graphs
  <2>2. view' = [p \in PRs |-> IF RepoOf[p] = r THEN decorated[p] ELSE view[p]]
    BY DEF Apply
  <2>3. view' \in View
    <3> HIDE DEF decorated
    <3> QED
      BY <1>2, <2>2, Parts DEF DataOK, View
  <2>4. loaded' \in SUBSET Repos /\ cut' \in SUBSET Repos
    BY <1>1, Parts DEF Apply, DataOK
  <2>5. deps' = G
    BY DEF Apply
  <2> QED
    BY <2>1, <2>3, <2>4, <2>5, Parts DEF Apply, DataOK, holds
<1>7. job' = [job EXCEPT ![t] = k]
  BY DEF Apply
<1> HIDE DEF k
<1> QED
  BY <1>4, <1>5, <1>6, <1>7, StepInv DEF Apply, Same

LEMMA ApplyUnmonitoredInv ==
  ASSUME IInv, NEW t \in Threads, ApplyUnmonitored(t)
  PROVE  IInv'
<1> DEFINE j == Forgotten(job[t])
<1>1. Good(job[t]) /\ job[t] \in Job /\ job[t].at = "apply" /\ DataOK'
  BY Parts, DataKept DEF ApplyUnmonitored, At, DataOK
<1>2. Good(j) /\ Same(job[t], j) /\ j.at = "apply"
  BY <1>1, ForgottenJob, StaysGood DEF Called
<1>3. Good(Return(j)) /\ Return(j).claim = j.claim /\ (j.claim => Return(j).pr = j.pr)
  BY <1>2, ReturnGood DEF Called
<1> HIDE DEF j
<1> QED
  BY <1>1, <1>2, <1>3, StepInv DEF ApplyUnmonitored, Same, j

LEMMA ScanInv ==
  ASSUME IInv, NEW t \in Threads, Scan(t)
  PROVE  IInv'
<1> DEFINE stuck == {p \in PRsOf(job[t].repo) :
                       view[p] # None /\ view[p].auto /\ Waiting(view[p])}
           j == [job[t] EXCEPT !.repo = None, !.stuck = stuck]
           k == IF stuck = {} THEN AfterHolding(j) ELSE Goto(j, "hold")
<1>1. Good(job[t]) /\ job[t] \in Job /\ job[t].at = "scan" /\ DataOK'
  BY Parts, DataKept DEF Scan, At, DataOK
<1>2. stuck \in SUBSET PRs
  BY DEF PRsOf
<1>3. j \in Job /\ Same(job[t], j) /\ j.at = "scan" /\ j.back = job[t].back
  <2> HIDE DEF stuck
  <2> QED
    BY <1>1, <1>2 DEF Job, Same
<1>4. Good(j)
  BY <1>1, <1>3, StaysGood DEF Called
<1>5. Good(k) /\ k.claim = j.claim /\ (j.claim => k.pr = j.pr)
  <2>1. CASE stuck = {}
    <3> HIDE DEF j
    <3> QED
      BY <1>3, <1>4, <2>1, AfterHoldingGood
  <2>2. CASE stuck # {}
    <3> HIDE DEF j
    <3>1. "hold" \in Steps \ {"idle"} /\ k = Goto(j, "hold")
      BY <2>2 DEF Steps
    <3> QED
      BY <1>3, <1>4, <3>1, GotoJob, StaysGood DEF Called, Same
  <2> QED
    BY <2>1, <2>2
<1>6. job' = [job EXCEPT ![t] = k]
  BY DEF Scan
<1> HIDE DEF j, k
<1> QED
  BY <1>1, <1>3, <1>5, <1>6, StepInv DEF Scan, Same

LEMMA HoldNextInv ==
  ASSUME IInv, NEW t \in Threads, NEW p \in job[t].stuck, HoldNext(t, p)
  PROVE  IInv'
<1> DEFINE j == [job[t] EXCEPT !.stuck = job[t].stuck \ {p}]
           k == IF j.stuck = {} THEN AfterHolding(j) ELSE j
<1>1. Good(job[t]) /\ job[t] \in Job /\ job[t].at = "hold" /\ p \in PRs
  BY Parts DEF HoldNext, At, Job
<1>2. j \in Job /\ Same(job[t], j) /\ j.at = "hold" /\ j.back = job[t].back
  BY <1>1 DEF Job, Same
<1>3. Good(j)
  BY <1>1, <1>2, StaysGood DEF Called
<1>4. Good(k) /\ k.claim = j.claim /\ (j.claim => k.pr = j.pr)
  <2> HIDE DEF j
  <2> QED
    BY <1>2, <1>3, AfterHoldingGood
<1>5. job' = [job EXCEPT ![t] = k]
  BY DEF HoldNext
<1>6. /\ holding' \in SUBSET PRs /\ spawned' \in SUBSET Spawn
      /\ AutoMergesIn(spawned') = AutoMergesIn(spawned)
  <2>1. [fn |-> "hold", pr |-> p, seen |-> None] \in Spawn
    BY <1>1 DEF Spawn
  <2> QED
    BY <1>1, <2>1, Parts DEF HoldNext, DataOK, AutoMergesIn
<1>7. DataOK'
  BY <1>6, Parts DEF HoldNext, DataOK, saved, loads
<1> HIDE DEF j, k
<1> QED
  BY <1>2, <1>4, <1>5, <1>6, <1>7, StepInv DEF HoldNext, Same

LEMMA ReadArmedInv ==
  ASSUME IInv, NEW t \in Threads, ReadArmed(t)
  PROVE  IInv'
<1> DEFINE j == job[t]
           some == armed \cap j.todo
           copy == [p \in PRs |-> IF p \in some THEN j.copy[p] ELSE None]
<1>1. Good(j) /\ j \in Job /\ j.at = "armed" /\ DataOK'
  BY Parts, DataKept DEF ReadArmed, At, DataOK
<1>2. CASE some = {}
  <2> DEFINE k == Forgotten(j)
  <2>1. Good(k) /\ Same(j, k) /\ k.at = "armed"
    BY <1>1, ForgottenJob, StaysGood DEF Called
  <2>2. Good(Return(k)) /\ Return(k).claim = k.claim /\ (k.claim => Return(k).pr = k.pr)
    BY <2>1, ReturnGood DEF Called
  <2> HIDE DEF k
  <2>3. job' = [job EXCEPT ![t] = Return(k)]
    BY <1>2 DEF ReadArmed, k
  <2> QED
    BY <1>1, <2>1, <2>2, <2>3, StepInv DEF ReadArmed, Same
<1>3. CASE some # {}
  <2> DEFINE k == [j EXCEPT !.at = "judge", !.todo = some, !.copy = copy]
  <2>1. some \in SUBSET PRs /\ copy \in View /\ "judge" \in Steps
    BY <1>1 DEF Job, View, Steps
  <2>2. k \in Job /\ Same(j, k) /\ k.at = "judge" /\ k.back = j.back
    <3> HIDE DEF some, copy
    <3> QED
      BY <1>1, <2>1 DEF Job, Same
  <2>3. Good(k)
    BY <1>1, <2>2, StaysGood DEF Called
  <2>4. job' = [job EXCEPT ![t] = k]
    BY <1>3 DEF ReadArmed
  <2> HIDE DEF k
  <2> QED
    BY <1>1, <2>2, <2>3, <2>4, StepInv DEF ReadArmed, Same
<1> QED
  BY <1>2, <1>3

----------------------------------------------------------------------------
(* Checking armed PRs, and starting their merges.                          *)

LEMMA JudgeStep ==
  ASSUME IInv, NEW t \in Threads, NEW p, At(t, "judge"),
         job' = [job EXCEPT ![t] = Judged(job[t], p)]
  PROVE  /\ Good(Judged(job[t], p)) /\ Judged(job[t], p).claim = job[t].claim
         /\ job[t].claim => Judged(job[t], p).pr = job[t].pr
BY Parts, JudgedGood DEF At

LEMMA JudgeGoneInv ==
  ASSUME IInv, NEW t \in Threads, NEW p \in job[t].todo, JudgeGone(t, p)
  PROVE  IInv'
<1>1. view' \in View
  BY Parts, ViewRebuilt DEF JudgeGone, DataOK
<1>2. DataOK'
  BY <1>1, Parts DEF JudgeGone, DataOK, holds
<1> QED
  BY <1>2, JudgeStep, StepInv DEF JudgeGone

LEMMA JudgeNothingInv ==
  ASSUME IInv, NEW t \in Threads, NEW p \in job[t].todo, JudgeNothing(t, p)
  PROVE  IInv'
<1>1. DataOK'
  BY Parts, DataKept DEF JudgeNothing, DataOK
<1> QED
  BY <1>1, JudgeStep, StepInv DEF JudgeNothing

(* Nobody had claimed the PR, so the goroutine spawned is the only one.     *)
LEMMA JudgeReadyInv ==
  ASSUME IInv, NEW t \in Threads, NEW p \in job[t].todo, JudgeReady(t, p)
  PROVE  IInv'
<1> DEFINE k == Judged(job[t], p)
           s == [fn |-> "autoMerge", pr |-> p, seen |-> job[t].copy[p]]
<1>1. p \in PRs /\ job[t].copy[p] \in Entry
  BY Parts DEF JudgeReady, Job, View
<1>2. Good(k) /\ k.claim = job[t].claim /\ (job[t].claim => k.pr = job[t].pr)
  BY JudgeStep DEF JudgeReady
<1>3. job' = [job EXCEPT ![t] = k] /\ job \in [Threads -> Job] /\ JobsOK
  BY Parts DEF JudgeReady, IInv
<1>4. s \in Spawn /\ s.fn = "autoMerge" /\ s.pr = p
  BY <1>1 DEF Spawn
<1>5. /\ merging' = merging \cup {p} /\ p \notin merging
      /\ spawned' = spawned \cup {s}
  BY DEF JudgeReady
<1> HIDE DEF k, s
<1>6. TypeOK' /\ JobsOK'
  <2>1. DataOK'
    BY <1>1, <1>4, <1>5, Parts DEF JudgeReady, DataOK, saved, loads, holds
  <2> QED
    BY <1>2, <1>3, <2>1, TypeParts DEF Good, JobsOK, TypeOK, DataOK
<1>7. \A u \in Threads : /\ job'[u].claim = job[u].claim
                         /\ job[u].claim => job'[u].pr = job[u].pr
  BY <1>2, <1>3
<1>8. ~ Claims(p)
  BY <1>1, <1>5 DEF IInv, OneAutoMergeAtATime, ClaimsExact
<1>9. ClaimsExact'
  <2> SUFFICES ASSUME NEW q \in PRs
               PROVE  q \in merging' <=> Claims(q)'
    BY DEF ClaimsExact
  <2>1. q \in merging <=> Claims(q)
    BY DEF IInv, OneAutoMergeAtATime, ClaimsExact
  <2> QED
    BY <1>4, <1>5, <1>7, <2>1 DEF Claims
<1>10. ClaimsExclusive'
  <2>1. \A u \in Threads : job[u].claim => job[u].pr # p
    BY <1>8 DEF Claims
  <2>2. \A r \in spawned : r.fn = "autoMerge" => r.pr # p
    BY <1>8 DEF Claims
  <2> QED
    BY <1>4, <1>5, <1>7, <2>1, <2>2 DEF IInv, OneAutoMergeAtATime, ClaimsExclusive
<1>11. AutoMergesClaimed'
  BY <1>6 DEF JobsOK, JobOK, AutoMergesClaimed, At
<1> QED
  BY <1>6, <1>9, <1>10, <1>11 DEF IInv, OneAutoMergeAtATime

(* The claim passes from the goroutine spawned to the one that runs.        *)
LEMMA BeginInv ==
  ASSUME IInv, NEW t \in Threads, NEW s \in spawned, Begin(t, s)
  PROVE  IInv'
<1> DEFINE k == JobOf(s)
<1>1. job' = [job EXCEPT ![t] = k] /\ spawned' = spawned \ {s} /\ merging' = merging
  BY DEF Begin
<1>2. DataOK'
  BY Parts DEF Begin, DataOK, saved, loads, holds
<1>3. job[t].claim = FALSE
  BY Parts DEF Begin, IsIdle, At, Good, JobOK, Job, Unreleased, Called
<1>4. s \in Spawn
  BY Parts DEF DataOK
<1>5. CASE s.fn = "hold"
  <2>1. Good(k) /\ k.claim = FALSE
    BY <1>4, <1>5, IdleGood, ZenonT(40) DEF Good, JobOf, Idle, Spawn, Job, JobOK, Functions, Steps,
       About, OnOnePR
  <2>2. AutoMergesIn(spawned') = AutoMergesIn(spawned)
    BY <1>1, <1>5 DEF AutoMergesIn
  <2> HIDE DEF k
  <2> QED
    BY <1>1, <1>2, <1>3, <2>1, <2>2, StepInv
<1>6. CASE s.fn = "autoMerge"
  <2>1. Good(k) /\ k.claim /\ k.pr = s.pr
    <3>1. s.pr \in PRs /\ s.seen \in Entry /\ s.seen.head \in Heads
      BY <1>4, <1>6 DEF Spawn, Entry
    <3>2. k \in Job /\ k.fn = "autoMerge" /\ k.at = "autoMerge" /\ k.claim /\ k.pr = s.pr
      BY <1>6, <3>1, IdleGood, ZenonT(40) DEF Good, JobOf, Idle, Job, Functions, Steps
    <3> QED
      BY <3>1, <3>2 DEF Good, JobOK, About, OnOnePR, Unreleased
  <2> HIDE DEF k
  <2>2. job' \in [Threads -> Job] /\ JobsOK' /\ job'[t] = k
        /\ \A u \in Threads : u # t => job'[u] = job[u]
    BY <1>1, <2>1, Parts DEF IInv, Good, JobsOK
  <2>3. ClaimsExact'
    <3> SUFFICES ASSUME NEW q \in PRs
                 PROVE  Claims(q) <=> Claims(q)'
      BY <1>1 DEF ClaimsExact, IInv, OneAutoMergeAtATime
    <3>1. CASE q = s.pr
      BY <1>6, <2>1, <2>2, <3>1 DEF Claims
    <3>2. CASE q # s.pr
      BY <1>1, <1>3, <2>1, <2>2, <3>2 DEF Claims
    <3> QED
      BY <3>1, <3>2
  <2>4. ClaimsExclusive'
    <3>1. ClaimsExclusive
      BY DEF IInv, OneAutoMergeAtATime
    <3>2. \A u \in Threads : u # t /\ job'[u].claim => job'[u].pr # s.pr
      BY <1>6, <2>2, <3>1 DEF ClaimsExclusive
    <3>3. \A r \in spawned' : r.fn = "autoMerge" => r.pr # s.pr
      BY <1>1, <1>6, <3>1 DEF ClaimsExclusive
    <3> QED
      BY <1>1, <2>1, <2>2, <3>1, <3>2, <3>3 DEF ClaimsExclusive
  <2>5. AutoMergesClaimed'
    BY <2>2 DEF JobsOK, JobOK, AutoMergesClaimed, At
  <2> QED
    BY <1>2, <2>2, <2>3, <2>4, <2>5 DEF IInv, OneAutoMergeAtATime, TypeOK, DataOK
<1> QED
  BY <1>4, <1>5, <1>6 DEF Spawn

----------------------------------------------------------------------------
(* autoMerge and the end of every merge.                                   *)

(* A merge goes on to its own next step, or to one of those it calls.       *)
LEMMA MergeGoesOn ==
  ASSUME NEW j, NEW k, Good(j), k \in Job, Same(j, k), j.fn \in About,
         \/ k.at \in Unreleased \ {"autoMerge", "merge"}
         \/ k.at \in Called /\ k.back \in Unreleased
  PROVE  Good(k)
BY DEF Good, JobOK, Same, OnOnePR, Called, Unreleased

LEMMA AutoMergeInv ==
  ASSUME IInv, NEW t \in Threads,
         AutoMergeDone(t) \/ AutoMergeRetryable(t) \/ AutoMergeRefused(t)
  PROVE  IInv'
<1> DEFINE j == job[t]
<1>1. Good(j) /\ j \in Job /\ j.at = "autoMerge"
  BY Parts DEF AutoMergeDone, AutoMergeRetryable, AutoMergeRefused, At
<1>2. j.fn \in About /\ j.pr \in PRs
  BY <1>1 DEF Good, JobOK, About
<1>3. ASSUME NEW back \in {"record", "release"}
      PROVE  /\ Good(Call(j, "disarm", back))
             /\ Same(j, Call(j, "disarm", back))
  <2>1. "disarm" \in Steps /\ back \in Returns
    BY DEF Steps, Returns
  <2> QED
    BY <1>1, <1>2, <2>1, CallJob, MergeGoesOn DEF Called, Unreleased
<1>4. Good(Goto(j, "release")) /\ Same(j, Goto(j, "release"))
  <2>1. "release" \in Steps \ {"idle"}
    BY DEF Steps, Returns
  <2> QED
    BY <1>1, <1>2, <2>1, GotoJob, MergeGoesOn DEF Unreleased
<1>5. PICK k : job' = [job EXCEPT ![t] = k] /\ Good(k) /\ Same(j, k)
  <2>1. \/ job' = [job EXCEPT ![t] = Call(j, "disarm", "record")]
        \/ job' = [job EXCEPT ![t] = Call(j, "disarm", "release")]
        \/ job' = [job EXCEPT ![t] = Goto(j, "release")]
    BY DEF AutoMergeDone, AutoMergeRetryable, AutoMergeRefused
  <2> QED
    BY <1>3, <1>4, <2>1
<1>6. UNCHANGED <<saved, loads, waitedOn, merging, holds, spawned, edits>>
  BY DEF AutoMergeDone, AutoMergeRetryable, AutoMergeRefused
<1>7. gh' \in [PRs -> OnGitHub]
  <2>1. gh' = gh \/ gh' = MergedOnGitHub(j.pr)
    BY DEF AutoMergeDone, AutoMergeRetryable, AutoMergeRefused
  <2> QED
    BY <1>2, <2>1, Parts, MergedType DEF DataOK
<1>8. DataOK'
  BY <1>6, <1>7, Parts DEF DataOK, saved, loads, holds
<1> QED
  BY <1>5, <1>6, <1>8, StepInv DEF Same

LEMMA DisarmInv ==
  ASSUME IInv, NEW t \in Threads, Disarm(t)
  PROVE  IInv'
<1>1. view' \in View
  BY Parts, ViewRebuilt DEF Disarm, DataOK
<1>2. DataOK'
  BY <1>1, Parts DEF Disarm, DataOK, holds
<1>3. Good(job[t]) /\ job[t].at = "disarm"
  BY Parts DEF Disarm, At
<1> QED
  BY <1>2, <1>3, ReturnGood, StepInv DEF Disarm, Called

LEMMA RecordInv ==
  ASSUME IInv, NEW t \in Threads, Record(t)
  PROVE  IInv'
<1> DEFINE j == job[t]
           k == IF j.fn = "autoMerge" THEN Call(j, "fetch", "waiting") ELSE Goto(j, "waiting")
<1>1. Good(j) /\ j \in Job /\ j.at = "record"
  BY Parts DEF Record, At
<1>2. Good(k) /\ Same(j, k)
  <2>1. CASE j.fn = "autoMerge"
    <3>1. "fetch" \in Steps /\ "waiting" \in Returns
      BY DEF Steps, Returns
    <3> QED
      BY <1>1, <2>1, <3>1, CallJob, MergeGoesOn DEF Called, Unreleased, About
  <2>2. CASE j.fn # "autoMerge"
    <3>1. "waiting" \in Steps \ {"idle"}
      BY DEF Steps, Returns
    <3>2. k = Goto(j, "waiting")
      BY <2>2
    <3>3. k \in Job /\ Same(j, k) /\ k.at = "waiting"
      BY <1>1, <3>1, <3>2, GotoJob
    <3> QED
      BY <1>1, <3>3 DEF Good, JobOK, Same, OnOnePR, Unreleased
  <2> QED
    BY <2>1, <2>2
<1>3. waitedOn' \in [PRs -> PRStates \cup {None}]
  BY Parts DEF Record, DataOK, PRStates
<1>4. DataOK'
  BY <1>3, Parts DEF Record, DataOK, saved, loads, holds
<1>5. job' = [job EXCEPT ![t] = k]
  BY DEF Record
<1> HIDE DEF k
<1> QED
  BY <1>2, <1>4, <1>5, StepInv DEF Record, Same

LEMMA ReadWaitingInv ==
  ASSUME IInv, NEW t \in Threads, ReadWaiting(t)
  PROVE  IInv'
<1> DEFINE j == job[t]
           rs == {RepoOf[p] : p \in RequiredBy(deps, j.pr)}
<1>1. Good(j) /\ j \in Job /\ j.at = "waiting" /\ DataOK'
  BY Parts, DataKept DEF ReadWaiting, At, DataOK
<1>2. rs \in SUBSET Repos
  BY ConstantsAssumption DEF RequiredBy
<1>3. ASSUME NEW k \in Job, Same(j, k), k.at \in {"release", "others"}
      PROVE  Good(k)
  BY <1>1, <1>3 DEF Good, JobOK, Same, OnOnePR, Unreleased
<1>4. CASE rs = {}
  <2>1. "release" \in Steps \ {"idle"}
    BY DEF Steps, Returns
  <2>2. Good(Goto(j, "release")) /\ Same(j, Goto(j, "release"))
    BY <1>1, <1>3, <2>1, GotoJob
  <2>3. job' = [job EXCEPT ![t] = Goto(j, "release")]
    BY <1>4 DEF ReadWaiting
  <2> QED
    BY <1>1, <2>2, <2>3, StepInv DEF ReadWaiting, Same
<1>5. CASE rs # {}
  <2> DEFINE k == [j EXCEPT !.at = "others", !.rest = rs]
  <2>1. job' = [job EXCEPT ![t] = k]
    BY <1>5 DEF ReadWaiting
  <2>2. k \in Job /\ Same(j, k) /\ k.at = "others"
    <3>1. "others" \in Steps
      BY DEF Steps, Returns
    <3> HIDE DEF rs
    <3> QED
      BY <1>1, <1>2, <3>1 DEF Job, Same
  <2> HIDE DEF k
  <2> QED
    BY <1>1, <1>3, <2>1, <2>2, StepInv DEF ReadWaiting, Same
<1> QED
  BY <1>4, <1>5

LEMMA RefreshNextInv ==
  ASSUME IInv, NEW t \in Threads, NEW r \in job[t].rest, RefreshNext(t, r)
  PROVE  IInv'
<1> DEFINE j == job[t]
           next == [j EXCEPT !.rest = j.rest \ {r}]
           back == IF next.rest # {} THEN "others"
                   ELSE IF next.fn = "PollOnce" THEN "idle" ELSE "release"
           fetched == WithFetch(next, r)
           k == [fetched EXCEPT !.back = back]
<1>1. Good(j) /\ j \in Job /\ j.at = "others" /\ r \in Repos /\ DataOK'
  BY Parts, DataKept DEF RefreshNext, At, DataOK, Job
<1>2. next \in Job /\ Same(j, next) /\ next.at = "others"
  BY <1>1 DEF Job, Same
<1>3. back \in Returns /\ (j.claim => back \in {"others", "release"})
  BY <1>1 DEF Good, JobOK, Returns
<1>4. \/ job' = [job EXCEPT ![t] = k]
      \/ job' = [job EXCEPT ![t] = Goto(next, back)]
  BY DEF RefreshNext
<1>5. CASE job' = [job EXCEPT ![t] = k]
  <2>1. fetched \in Job /\ Same(next, fetched) /\ fetched.at = "apply"
    <3> HIDE DEF next
    <3> QED
      BY <1>1, <1>2, Parts, WithFetchJob
  <2>2. k \in Job /\ Same(j, k) /\ k.at = "apply" /\ k.back = back
    <3> HIDE DEF fetched, back, next
    <3> QED
      BY <1>2, <1>3, <2>1 DEF Job, Same
  <2>3. Good(k)
    <3> HIDE DEF k, back
    <3> QED
      BY <1>1, <1>3, <2>2 DEF Good, JobOK, Same, OnOnePR, Called, Unreleased
  <2> HIDE DEF k
  <2> QED
    BY <1>1, <1>5, <2>2, <2>3, StepInv DEF RefreshNext, Same
<1>6. CASE job' = [job EXCEPT ![t] = Goto(next, back)]
  <2> HIDE DEF next, back
  <2>1. CASE back = "idle"
    <3>1. Goto(next, back) = Idle /\ j.claim = FALSE
      BY <1>1, <1>3, <2>1, GotoIdle DEF Job
    <3> QED
      BY <1>1, <1>6, <3>1, IdleGood, StepInv DEF RefreshNext
  <2>2. CASE back # "idle"
    <3>1. back \in Steps \ {"idle"}
      BY <1>3, <2>2 DEF Steps
    <3>2. Goto(next, back) \in Job /\ Same(j, Goto(next, back)) /\ Goto(next, back).at = back
      BY <1>2, <3>1, GotoJob DEF Same
    <3>3. Good(Goto(next, back))
      BY <1>1, <1>3, <3>2 DEF Good, JobOK, Same, OnOnePR, Unreleased, Returns
    <3> QED
      BY <1>1, <1>6, <3>2, <3>3, StepInv DEF RefreshNext, Same
  <2> QED
    BY <2>1, <2>2
<1> QED
  BY <1>4, <1>5, <1>6

(* A claim that is given up: only its holder's job changes with it.         *)
LEMMA ReleaseInv ==
  ASSUME IInv, NEW t \in Threads, Release(t)
  PROVE  IInv'
<1> DEFINE j == job[t]
           k == IF j.fn = "merge" THEN [Call(j, "fetch", "idle") EXCEPT !.claim = FALSE]
                ELSE Idle
<1>1. Good(j) /\ j \in Job /\ j.at = "release"
  BY Parts DEF Release, At
<1>2. Good(k) /\ k.claim = FALSE
  <2>1. CASE j.fn = "merge"
    <3>1. "fetch" \in Steps /\ "idle" \in Returns
      BY DEF Steps, Returns
    <3>2. Call(j, "fetch", "idle") \in Job /\ Same(j, Call(j, "fetch", "idle"))
          /\ Call(j, "fetch", "idle").at = "fetch"
      BY <1>1, <3>1, CallJob
    <3>3. k = [Call(j, "fetch", "idle") EXCEPT !.claim = FALSE]
      BY <2>1
    <3>4. k \in Job /\ k.fn = "merge" /\ k.pr = j.pr /\ k.at = "fetch" /\ k.claim = FALSE
      BY <2>1, <3>2, <3>3 DEF Job, Same
    <3> QED
      BY <1>1, <2>1, <3>4 DEF Good, JobOK, About
  <2>2. CASE j.fn # "merge"
    BY <2>2, IdleGood
  <2> QED
    BY <2>1, <2>2
<1>3. /\ merging' = IF j.claim THEN merging \ {j.pr} ELSE merging
      /\ job' = [job EXCEPT ![t] = k] /\ spawned' = spawned
  BY DEF Release
<1>4. DataOK'
  BY <1>3, Parts DEF Release, DataOK, saved, loads, holds
<1> HIDE DEF k
<1>5. CASE ~ j.claim
  BY <1>1, <1>2, <1>3, <1>4, <1>5, StepInv DEF AutoMergesIn, Job
<1>6. CASE j.claim
  <2>1. job' \in [Threads -> Job] /\ JobsOK' /\ job'[t] = k
        /\ \A u \in Threads : u # t => job'[u] = job[u]
    BY <1>2, <1>3, Parts DEF IInv, Good, JobsOK
  <2>2. ClaimsExclusive
    BY DEF IInv, OneAutoMergeAtATime
  <2>3. ClaimsExact'
    <3> SUFFICES ASSUME NEW q \in PRs
                 PROVE  q \in merging' <=> Claims(q)'
      BY DEF ClaimsExact
    <3>1. q \in merging <=> Claims(q)
      BY DEF IInv, OneAutoMergeAtATime, ClaimsExact
    <3>2. CASE q = j.pr
      <4>1. ~ Claims(q)'
        BY <1>2, <1>3, <1>6, <2>1, <2>2, <3>2 DEF Claims, ClaimsExclusive
      <4> QED
        BY <1>3, <1>6, <3>2, <4>1
    <3>3. CASE q # j.pr
      <4>1. Claims(q)' <=> Claims(q)
        BY <1>2, <1>3, <2>1, <3>3 DEF Claims
      <4> QED
        BY <1>3, <1>6, <3>1, <3>3, <4>1
    <3> QED
      BY <3>2, <3>3
  <2>4. ClaimsExclusive'
    BY <1>2, <1>3, <2>1, <2>2 DEF ClaimsExclusive
  <2>5. AutoMergesClaimed'
    BY <2>1 DEF JobsOK, JobOK, AutoMergesClaimed, At
  <2> QED
    BY <1>4, <2>1, <2>3, <2>4, <2>5 DEF IInv, OneAutoMergeAtATime, TypeOK, DataOK
<1> QED
  BY <1>5, <1>6

----------------------------------------------------------------------------
(* hold.                                                                   *)

(* A job that claims nothing goes on to a step that is not autoMerge's.     *)
LEMMA Unclaimed ==
  ASSUME NEW j, NEW k, Good(j), j.claim = FALSE, k \in Job, Same(j, k), j.fn \in About,
         k.at \notin {"add", "addRepo", "claim", "autoMerge"}
  PROVE  Good(k)
BY DEF Good, JobOK, Same

LEMMA NotClaimed ==
  ASSUME NEW j, Good(j), j.at \notin Unreleased \cup Called
  PROVE  j.claim = FALSE
BY DEF Good, JobOK, Job

LEMMA TurnOffInv ==
  ASSUME IInv, NEW t \in Threads, TurnOff(t)
  PROVE  IInv'
<1> DEFINE j == job[t]
<1>1. Good(j) /\ j \in Job /\ j.at = "turnOff"
  BY Parts DEF TurnOff, TurnOffDone, TurnOffFails, TurnedOffOnGitHub, At
<1>2. j.claim = FALSE /\ j.fn \in About /\ j.pr \in PRs
  BY <1>1, NotClaimed DEF Good, JobOK, OnOnePR, Unreleased, Called
<1>3. ASSUME NEW step \in {"arm", "unhold"}
      PROVE  Good(Goto(j, step)) /\ Same(j, Goto(j, step))
  <2>1. step \in Steps \ {"idle"}
    BY DEF Steps, Returns
  <2> QED
    BY <1>1, <1>2, <2>1, GotoJob, Unclaimed
<1>4. /\ \/ job' = [job EXCEPT ![t] = Goto(j, "arm")]
         \/ job' = [job EXCEPT ![t] = Goto(j, "unhold")]
      /\ UNCHANGED <<saved, loads, waitedOn, merging, holding, spawned, edits>>
  BY DEF TurnOff, TurnOffDone, TurnOffFails, TurnedOffOnGitHub, holds
<1>5. gh' \in [PRs -> OnGitHub]
  <2>1. gh[j.pr] \in OnGitHub /\ gh \in [PRs -> OnGitHub]
    BY <1>2, Parts DEF DataOK
  <2>2. [gh[j.pr] EXCEPT !.auto = FALSE] \in OnGitHub
    BY <2>1 DEF OnGitHub
  <2>3. gh' = gh \/ gh' = [gh EXCEPT ![j.pr] = [gh[j.pr] EXCEPT !.auto = FALSE]]
    BY DEF TurnOff, TurnOffDone, TurnOffFails, TurnedOffOnGitHub
  <2> QED
    BY <2>1, <2>2, <2>3
<1>6. holdFailed' \in SUBSET PRs
  BY <1>2, Parts DEF TurnOff, TurnOffDone, TurnOffFails, TurnedOffOnGitHub, DataOK, holds
<1>7. DataOK'
  BY <1>4, <1>5, <1>6, Parts DEF DataOK, saved, loads
<1> QED
  BY <1>3, <1>4, <1>7, StepInv DEF Same

LEMMA ArmInv ==
  ASSUME IInv, NEW t \in Threads, Arm(t)
  PROVE  IInv'
<1> DEFINE j == job[t]
           k == IF j.fn = "hold" THEN Call(j, "fetch", "unhold") ELSE Goto(j, "copy")
<1>1. Good(j) /\ j \in Job /\ j.at = "arm"
  BY Parts DEF Arm, At
<1>2. j.claim = FALSE /\ j.fn \in About /\ j.pr \in PRs
  BY <1>1, NotClaimed DEF Good, JobOK, OnOnePR, Unreleased, Called
<1>3. view' \in View
  BY Parts, ViewRebuilt DEF Arm, DataOK
<1>4. DataOK'
  BY <1>2, <1>3, Parts DEF Arm, DataOK, holds
<1>5. Good(k) /\ Same(j, k)
  <2>1. "fetch" \in Steps /\ "unhold" \in Returns /\ "copy" \in Steps \ {"idle"}
    BY DEF Steps, Returns
  <2>2. CASE j.fn = "hold"
    <3>1. k = Call(j, "fetch", "unhold")
      BY <2>2
    <3>2. Call(j, "fetch", "unhold") \in Job /\ Same(j, Call(j, "fetch", "unhold"))
          /\ Call(j, "fetch", "unhold").at = "fetch"
      BY <1>1, <2>1, CallJob
    <3> HIDE DEF k
    <3> QED
      BY <1>1, <1>2, <3>1, <3>2, Unclaimed
  <2>3. CASE j.fn # "hold"
    <3>1. k = Goto(j, "copy")
      BY <2>3
    <3>2. Goto(j, "copy") \in Job /\ Same(j, Goto(j, "copy")) /\ Goto(j, "copy").at = "copy"
      BY <1>1, <2>1, GotoJob
    <3> HIDE DEF k
    <3> QED
      BY <1>1, <1>2, <3>1, <3>2, Unclaimed
  <2> QED
    BY <2>2, <2>3
<1>6. job' = [job EXCEPT ![t] = k]
  BY DEF Arm
<1> HIDE DEF k
<1> QED
  BY <1>4, <1>5, <1>6, StepInv DEF Arm, Same

LEMMA UnholdInv ==
  ASSUME IInv, NEW t \in Threads, Unhold(t)
  PROVE  IInv'
<1>1. job[t].claim = FALSE
  BY Parts, NotClaimed DEF Unhold, At, Unreleased, Called
<1>2. DataOK'
  BY Parts DEF Unhold, DataOK, saved, loads
<1> QED
  BY <1>1, <1>2, IdleGood, StepInv DEF Unhold

----------------------------------------------------------------------------
(* Commands.                                                               *)

LEMMA CommandInv ==
  ASSUME IInv, NEW kind, NEW t \in Threads, NEW p, NEW start, Command(kind, t, p, start),
         Good(start), start.claim = FALSE
  PROVE  IInv'
<1>1. DataOK'
  BY Parts, DataKept, InputCounted DEF Command, DataOK
<1> QED
  BY <1>1, StartInv DEF Command

LEMMA ArmMergeInv ==
  ASSUME IInv, NEW t \in Threads, NEW p \in PRs, ArmMerge(t, p)
  PROVE  IInv'
<1> DEFINE j == [Idle EXCEPT !.fn = "arm", !.at = "arm", !.pr = p]
<1>1. Good(j) /\ j.claim = FALSE
  BY IdleGood, ZenonT(40) DEF Good, Idle, Job, JobOK, Functions, Steps, About, OnOnePR
<1> HIDE DEF j
<1> QED
  BY <1>1, CommandInv DEF ArmMerge, j

LEMMA DisarmMergeInv ==
  ASSUME IInv, NEW p \in PRs, DisarmMerge(p)
  PROVE  IInv'
<1>1. view' \in View
  BY Parts, ViewRebuilt DEF DisarmMerge, DataOK
<1>2. DataOK'
  BY <1>1, Parts, InputCounted DEF DisarmMerge, DataOK, holds
<1> QED
  BY <1>2, NoStep DEF DisarmMerge

LEMMA ManualMergeInv ==
  ASSUME IInv, NEW t \in Threads, NEW p \in PRs, ManualMerge(t, p)
  PROVE  IInv'
<1>1. PICK pin \in {None} \cup 0..gh[p].head :
        Command("merge", t, p,
                [Idle EXCEPT !.fn = "merge", !.at = "claim", !.pr = p, !.pin = pin])
  BY DEF ManualMerge
<1> DEFINE j == [Idle EXCEPT !.fn = "merge", !.at = "claim", !.pr = p, !.pin = pin]
<1>2. pin \in Heads \cup {None}
  BY <1>1, Parts, ConstantsAssumption DEF DataOK, OnGitHub, Heads
<1>3. Good(j) /\ j.claim = FALSE
  BY <1>2, IdleGood, ZenonT(40) DEF Good, Idle, Job, JobOK, Functions, Steps, About, OnOnePR
<1> HIDE DEF j
<1> QED
  BY <1>1, <1>3, CommandInv DEF j

(* It claims the PR if nobody has, so the claim is its own.                 *)
LEMMA ClaimMergeInv ==
  ASSUME IInv, NEW t \in Threads, ClaimMerge(t)
  PROVE  IInv'
<1> DEFINE j == job[t]
           p == j.pr
           k == [j EXCEPT !.at = "merge", !.claim = p \notin merging]
<1>1. Good(j) /\ j \in Job /\ j.at = "claim"
  BY Parts DEF ClaimMerge, At
<1>2. j.claim = FALSE /\ j.fn = "merge" /\ p \in PRs
  BY <1>1, NotClaimed DEF Good, JobOK, About, Unreleased, Called
<1>3. k \in Job /\ k.fn = "merge" /\ k.pr = p /\ k.at = "merge" /\ k.back = j.back
      /\ k.claim = (p \notin merging)
  <2>1. "merge" \in Steps /\ (p \notin merging) \in BOOLEAN
    BY DEF Steps
  <2> QED
    BY <1>1, <1>2, <2>1 DEF Job
<1>4. Good(k)
  BY <1>2, <1>3 DEF Good, JobOK, About, Unreleased
<1>5. job' = [job EXCEPT ![t] = k] /\ merging' = merging \cup {p} /\ spawned' = spawned
  BY DEF ClaimMerge
<1>6. DataOK'
  BY <1>2, <1>5, Parts DEF ClaimMerge, DataOK, saved, loads, holds
<1> HIDE DEF k, j
<1>7. CASE p \in merging
  <2>1. merging' = merging /\ k.claim = FALSE
    BY <1>3, <1>5, <1>7
  <2> QED
    BY <1>2, <1>4, <1>5, <1>6, <2>1, StepInv DEF AutoMergesIn, j
<1>8. CASE p \notin merging
  <2>1. job' \in [Threads -> Job] /\ JobsOK' /\ job'[t] = k
        /\ \A u \in Threads : u # t => job'[u] = job[u]
    BY <1>4, <1>5, Parts DEF IInv, Good, JobsOK
  <2>2. ~ Claims(p) /\ ClaimsExclusive /\ job[t].claim = FALSE
    BY <1>2, <1>8 DEF IInv, OneAutoMergeAtATime, ClaimsExact, j
  <2>3. ClaimsExact'
    <3> SUFFICES ASSUME NEW q \in PRs
                 PROVE  q \in merging' <=> Claims(q)'
      BY DEF ClaimsExact
    <3>1. q \in merging <=> Claims(q)
      BY DEF IInv, OneAutoMergeAtATime, ClaimsExact
    <3>2. CASE q = p
      BY <1>3, <1>5, <1>8, <2>1, <3>2 DEF Claims
    <3>3. CASE q # p
      <4>1. Claims(q)' <=> Claims(q)
        BY <1>3, <1>5, <2>1, <2>2, <3>3 DEF Claims
      <4> QED
        BY <1>5, <3>1, <3>3, <4>1
    <3> QED
      BY <3>2, <3>3
  <2>4. ClaimsExclusive'
    <3>1. \A u \in Threads : job[u].claim => job[u].pr # p
      BY <2>2 DEF Claims
    <3>2. \A r \in spawned : r.fn = "autoMerge" => r.pr # p
      BY <2>2 DEF Claims
    <3> QED
      BY <1>3, <1>5, <2>1, <2>2, <3>1, <3>2 DEF ClaimsExclusive
  <2>5. AutoMergesClaimed'
    BY <2>1 DEF JobsOK, JobOK, AutoMergesClaimed, At
  <2> QED
    BY <1>6, <2>1, <2>3, <2>4, <2>5 DEF IInv, OneAutoMergeAtATime, TypeOK, DataOK
<1> QED
  BY <1>7, <1>8

LEMMA MergeCallInv ==
  ASSUME IInv, NEW t \in Threads, MergeCall(t)
  PROVE  IInv'
<1> DEFINE j == job[t]
<1>1. Good(j) /\ j \in Job /\ j.at = "merge"
  BY Parts DEF MergeCall, At
<1>2. j.fn \in About /\ j.pr \in PRs
  BY <1>1 DEF Good, JobOK, OnOnePR
<1>3. ASSUME NEW step \in {"record", "release"}
      PROVE  Good(Goto(j, step)) /\ Same(j, Goto(j, step))
  <2>1. step \in Steps \ {"idle"}
    BY DEF Steps, Returns
  <2> QED
    BY <1>1, <1>2, <2>1, GotoJob, MergeGoesOn DEF Unreleased
<1>4. /\ \/ job' = [job EXCEPT ![t] = Goto(j, "record")]
         \/ job' = [job EXCEPT ![t] = Goto(j, "release")]
      /\ gh' = gh \/ gh' = MergedOnGitHub(j.pr)
      /\ UNCHANGED <<saved, loads, waitedOn, merging, holds, spawned, edits>>
  BY DEF MergeCall
<1>5. gh' \in [PRs -> OnGitHub]
  BY <1>2, <1>4, Parts, MergedType DEF DataOK
<1>6. DataOK'
  BY <1>4, <1>5, Parts DEF DataOK, saved, loads, holds
<1> QED
  BY <1>3, <1>4, <1>6, StepInv DEF Same

LEMMA AutoMergeOnInv ==
  ASSUME IInv, NEW t \in Threads, NEW p \in PRs, AutoMergeOn(t, p) \/ AutoMergeOff(t, p)
  PROVE  IInv'
<1>1. ASSUME NEW kind, NEW step \in {"turnOn", "off"},
             Command(kind, t, p, [Idle EXCEPT !.fn = "setAutoMerge", !.at = step, !.pr = p])
      PROVE  IInv'
  <2> DEFINE j == [Idle EXCEPT !.fn = "setAutoMerge", !.at = step, !.pr = p]
  <2>1. Good(j) /\ j.claim = FALSE
    BY IdleGood, ZenonT(40) DEF Good, Idle, Job, JobOK, Functions, Steps, About, OnOnePR
  <2> HIDE DEF j
  <2> QED
    BY <1>1, <2>1, CommandInv DEF j
<1> QED
  BY <1>1 DEF AutoMergeOn, AutoMergeOff

LEMMA SetAutoMergeInv ==
  ASSUME IInv, NEW t \in Threads, NEW step \in {"turnOn", "off"}, NEW on \in BOOLEAN,
         SetAutoMerge(t, step, on)
  PROVE  IInv'
<1> DEFINE j == job[t]
           k == Call(j, "fetch", "idle")
<1>1. Good(j) /\ j \in Job /\ j.at = step
  BY Parts DEF SetAutoMerge, At
<1>2. j.claim = FALSE /\ j.fn \in About /\ j.pr \in PRs
  BY <1>1, NotClaimed DEF Good, JobOK, OnOnePR, Unreleased, Called
<1>3. Good(k) /\ Same(j, k)
  <2>1. "fetch" \in Steps /\ "idle" \in Returns
    BY DEF Steps, Returns
  <2> QED
    BY <1>1, <1>2, <2>1, CallJob, Unclaimed, ZenonT(40)
<1>4. gh' \in [PRs -> OnGitHub]
  <2>1. gh[j.pr] \in OnGitHub /\ gh \in [PRs -> OnGitHub]
    BY <1>2, Parts DEF DataOK
  <2>2. [gh[j.pr] EXCEPT !.auto = on] \in OnGitHub
    BY <2>1 DEF OnGitHub
  <2>3. gh' = gh \/ gh' = [gh EXCEPT ![j.pr] = [gh[j.pr] EXCEPT !.auto = on]]
    BY DEF SetAutoMerge
  <2> QED
    BY <2>1, <2>2, <2>3
<1>5. DataOK'
  BY <1>4, Parts DEF SetAutoMerge, DataOK, saved, loads, holds
<1>6. job' = [job EXCEPT ![t] = k]
  BY DEF SetAutoMerge
<1> HIDE DEF k
<1> QED
  BY <1>3, <1>5, <1>6, StepInv DEF SetAutoMerge, Same

LEMMA CopyRepoInv ==
  ASSUME IInv, NEW t \in Threads, CopyRepo(t)
  PROVE  IInv'
<1> DEFINE j == job[t]
           r == RepoOf[j.pr]
           judging == Judging(j, r, view, r \in cut)
           k == [judging EXCEPT !.at = "armed"]
<1>1. Good(j) /\ j \in Job /\ j.at = "copy" /\ DataOK'
  BY Parts, DataKept DEF CopyRepo, At, DataOK
<1>2. j.claim = FALSE
  BY <1>1, NotClaimed DEF Unreleased, Called
<1>3. CASE r \in loaded
  <2>1. judging \in Job /\ Same(j, judging) /\ judging.back = j.back
    BY <1>1, Parts, JudgingJob DEF DataOK
  <2>2. k \in Job /\ Same(j, k) /\ k.at = "armed" /\ k.back = j.back
    <3>1. "armed" \in Steps
      BY DEF Steps
    <3> HIDE DEF judging
    <3> QED
      BY <2>1, <3>1 DEF Job, Same
  <2>3. Good(k)
    BY <1>1, <1>2, <2>2, StaysGood DEF Called
  <2>4. job' = [job EXCEPT ![t] = k]
    BY <1>3 DEF CopyRepo
  <2> HIDE DEF k
  <2> QED
    BY <1>1, <2>2, <2>3, <2>4, StepInv DEF CopyRepo, Same
<1>4. CASE r \notin loaded
  <2>1. job' = [job EXCEPT ![t] = Idle]
    BY <1>4 DEF CopyRepo
  <2> QED
    BY <1>1, <1>2, <2>1, IdleGood, StepInv DEF CopyRepo
<1> QED
  BY <1>3, <1>4

LEMMA AddDependencyInv ==
  ASSUME IInv, NEW t \in Threads, NEW p \in PRs, NEW q \in PRs, AddDependency(t, p, q)
  PROVE  IInv'
<1> DEFINE back == IF view[p].auto THEN "scan" ELSE "idle"
           j == [Idle EXCEPT !.fn = "AddDependency", !.at = "add", !.pr = p, !.peer = q,
                             !.repo = RepoOf[p], !.back = back]
<1>1. back \in Returns /\ RepoOf[p] \in Repos
  BY ConstantsAssumption DEF Returns
<1>2. Good(j) /\ j.claim = FALSE
  <2> HIDE DEF back
  <2> QED
    BY <1>1, IdleGood, ZenonT(40) DEF Good, Idle, Job, JobOK, Functions, Steps, About, OnOnePR
<1> HIDE DEF j
<1> QED
  BY <1>2, CommandInv DEF AddDependency, j

LEMMA AddEdgeInv ==
  ASSUME IInv, NEW t \in Threads, AddEdge(t)
  PROVE  IInv'
<1> DEFINE j == job[t]
<1>1. Good(j) /\ j \in Job /\ j.at = "add"
  BY Parts DEF AddEdge, At
<1>2. j.claim = FALSE /\ j.pr \in PRs /\ j.peer \in PRs
  BY <1>1, NotClaimed DEF Good, JobOK, OnOnePR, Unreleased, Called
<1>3. DataOK'
  <2>1. CASE CanAdd(deps, j.pr, j.peer)
    <3>1. deps' \in Graphs
      BY <1>2, <2>1, Parts DEF AddEdge, DataOK, Graphs, Add
    <3>2. waitedOn' \in [PRs -> PRStates \cup {None}]
      BY <2>1, Parts DEF AddEdge, DataOK, PRStates
    <3>3. view' \in View
      BY <2>1, Parts, ViewRebuilt DEF AddEdge, DataOK
    <3> QED
      BY <3>1, <3>2, <3>3, Parts DEF AddEdge, DataOK, holds
  <2>2. CASE ~ CanAdd(deps, j.pr, j.peer)
    BY <2>2, Parts DEF AddEdge, DataOK, holds
  <2> QED
    BY <2>1, <2>2
<1>4. job' = [job EXCEPT ![t] = Return(j)] \/ job' = [job EXCEPT ![t] = Idle]
  BY DEF AddEdge
<1> QED
  BY <1>1, <1>2, <1>3, <1>4, IdleGood, ReturnGood, StepInv DEF AddEdge

LEMMA RemoveDependencyInv ==
  ASSUME IInv, NEW t \in Threads, NEW p \in PRs, NEW q \in PRs, RemoveDependency(t, p, q)
  PROVE  IInv'
<1> DEFINE j == [Idle EXCEPT !.fn = "RemoveDependency", !.at = "copy", !.pr = p]
<1>1. Good(j) /\ j.claim = FALSE
  BY IdleGood, ZenonT(40) DEF Good, Idle, Job, JobOK, Functions, Steps, About, OnOnePR
<1>2. view' \in View /\ deps' \in Graphs
  BY Parts, ViewRebuilt DEF RemoveDependency, DataOK, Graphs, Remove
<1>3. DataOK'
  BY <1>2, Parts, InputCounted DEF RemoveDependency, DataOK, holds
<1> HIDE DEF j
<1> QED
  BY <1>1, <1>3, StartInv DEF RemoveDependency, j

LEMMA RemoveRepoInv ==
  ASSUME IInv, NEW r \in Repos, RemoveRepo(r)
  PROVE  IInv'
<1>1. view' \in View
  BY Parts DEF RemoveRepo, DataOK, View
<1>2. deps' \in Graphs
  BY Parts DEF RemoveRepo, DataOK, Graphs, Forget
<1>3. DataOK'
  BY <1>1, <1>2, Parts, InputCounted DEF RemoveRepo, DataOK, holds
<1> QED
  BY <1>3, NoStep DEF RemoveRepo

LEMMA AddRepoInv ==
  ASSUME IInv, NEW t \in Threads, NEW r \in Repos, AddRepo(t, r)
  PROVE  IInv'
<1> DEFINE i == [Idle EXCEPT !.fn = "AddRepo"]
           j == WithFetch(i, r)
           k == [j EXCEPT !.at = "addRepo"]
<1>1. i \in Job /\ i.fn = "AddRepo" /\ i.claim = FALSE
  BY IdleGood, ZenonT(40) DEF Good, Idle, Job, Functions
<1>2. j \in Job /\ Same(i, j) /\ j.repo = r
  <2> HIDE DEF i
  <2> QED
    BY <1>1, Parts, WithFetchJob
<1>3. k \in Job /\ k.fn = "AddRepo" /\ k.claim = FALSE /\ k.at = "addRepo" /\ k.repo = r
  <2>1. "addRepo" \in Steps
    BY DEF Steps
  <2> HIDE DEF i, j
  <2> QED
    BY <1>1, <1>2, <2>1 DEF Job, Same
<1>4. Good(k)
  BY <1>3 DEF Good, JobOK, About, OnOnePR
<1>5. DataOK'
  BY Parts, DataKept, InputCounted DEF AddRepo, DataOK
<1> HIDE DEF k
<1> QED
  BY <1>3, <1>4, <1>5, StartInv DEF AddRepo, k

LEMMA AddFetchedInv ==
  ASSUME IInv, NEW t \in Threads, AddFetched(t)
  PROVE  IInv'
<1> DEFINE j == job[t]
<1>1. Good(j) /\ j \in Job /\ j.at = "addRepo" /\ j.repo \in Repos
  BY Parts DEF AddFetched, At, Good, JobOK
<1>2. j.claim = FALSE
  BY <1>1, NotClaimed DEF Unreleased, Called
<1>3. DataOK'
  BY <1>1, Parts DEF AddFetched, DataOK, loads, holds
<1>4. Good(Goto(j, "apply")) /\ Same(j, Goto(j, "apply"))
  <2>1. "apply" \in Steps \ {"idle"}
    BY DEF Steps
  <2> QED
    BY <1>1, <1>2, <2>1, GotoJob, StaysGood DEF Called
<1>5. job' = [job EXCEPT ![t] = Goto(j, "apply")] \/ job' = [job EXCEPT ![t] = Idle]
  BY DEF AddFetched
<1> QED
  BY <1>2, <1>3, <1>4, <1>5, IdleGood, StepInv DEF AddFetched, Same

----------------------------------------------------------------------------
(* Looking up what PRs wait on.                                            *)

LEMMA LookupInv ==
  ASSUME IInv, NEW t \in Threads,
         NEW fn \in {"PollOnce", "RefreshDependencyStates"}, NEW rest \in SUBSET Repos,
         Lookup(t, fn, rest), edits' \in Nat
  PROVE  IInv'
<1>1. PICK failed : job' = [job EXCEPT ![t] =
        [Idle EXCEPT !.fn = fn, !.at = "store", !.rest = rest,
                     !.found = [q \in PRs |-> IF q \notin Targets(deps) THEN "not wanted"
                                               ELSE IF RepoOf[q] \in failed THEN "failed"
                                               ELSE gh[q].state]]]
  BY DEF Lookup
<1> DEFINE found == [q \in PRs |-> IF q \notin Targets(deps) THEN "not wanted"
                                   ELSE IF RepoOf[q] \in failed THEN "failed"
                                   ELSE gh[q].state]
           j == [Idle EXCEPT !.fn = fn, !.at = "store", !.rest = rest, !.found = found]
<1>2. job' = [job EXCEPT ![t] = j]
  BY <1>1
<1>3. found \in [PRs -> Answers]
  <2>1. \A q \in PRs : gh[q].state \in PRStates
    BY Parts DEF DataOK, OnGitHub
  <2> QED
    BY <2>1 DEF Answers
<1> HIDE DEF found
<1>4. Good(j) /\ j.claim = FALSE
  <2>1. fn \in Functions /\ fn \notin About
    BY DEF Functions, About
  <2>2. "store" \in Steps
    BY DEF Steps
  <2> QED
    BY <1>3, <2>1, <2>2, IdleGood, ZenonT(40) DEF Good, Idle, Job, JobOK, About, OnOnePR
<1>5. DataOK'
  BY Parts, DataKept DEF Lookup
<1> HIDE DEF j
<1> QED
  BY <1>2, <1>4, <1>5, StartInv DEF Lookup, j

LEMMA LookupsInv ==
  ASSUME IInv, NEW t \in Threads, PollOnce(t) \/ RefreshDependencyStates(t)
  PROVE  IInv'
<1>1. CASE PollOnce(t)
  BY <1>1, LookupInv, Parts, InputCounted DEF PollOnce, DataOK
<1>2. CASE RefreshDependencyStates(t)
  BY <1>2, LookupInv, Parts DEF RefreshDependencyStates, DataOK
<1> QED
  BY <1>1, <1>2

LEMMA StoreInv ==
  ASSUME IInv, NEW t \in Threads, Store(t)
  PROVE  IInv'
<1> DEFINE j == job[t]
           step == IF j.fn = "PollOnce" THEN "others" ELSE "rebuild"
           k == [j EXCEPT !.found = NotFound, !.at = step]
<1>1. Good(j) /\ j \in Job /\ j.at = "store"
  BY Parts DEF Store, At
<1>2. j.claim = FALSE
  BY <1>1, NotClaimed DEF Unreleased, Called
<1>3. waitedOn' \in [PRs -> PRStates \cup {None}]
  <2>1. \A q \in PRs : j.found[q] \in Answers /\ waitedOn[q] \in PRStates \cup {None}
    BY <1>1, Parts DEF Job, DataOK
  <2> QED
    BY <2>1 DEF Store, Answers
<1>4. DataOK'
  BY <1>3, Parts DEF Store, DataOK, saved, loads, holds
<1>5. job' = [job EXCEPT ![t] = k]
  <2>1. job \in [Threads -> Job]
    BY Parts
  <2> QED
    BY <2>1 DEF Store
<1>6. k \in Job /\ Same(j, k) /\ k.at = step
  <2>1. NotFound \in [PRs -> Answers] /\ step \in Steps
    BY DEF NotFound, Answers, Steps, Returns
  <2> HIDE DEF step
  <2> QED
    BY <1>1, <2>1 DEF Job, Same
<1>7. Good(k)
  BY <1>1, <1>2, <1>6 DEF Good, JobOK, Same, OnOnePR
<1> HIDE DEF k
<1> QED
  BY <1>4, <1>5, <1>6, <1>7, StepInv DEF Store, Same

LEMMA RebuildInv ==
  ASSUME IInv, NEW t \in Threads, Rebuild(t)
  PROVE  IInv'
<1> DEFINE j == job[t]
           rs == {RepoOf[e[1]] : e \in deps}
           k == [j EXCEPT !.at = "judgeEach", !.rest = rs]
<1>1. Good(j) /\ j \in Job /\ j.at = "rebuild"
  BY Parts DEF Rebuild, At
<1>2. j.claim = FALSE
  BY <1>1, NotClaimed DEF Unreleased, Called
<1>3. view' \in View
  BY Parts, ViewRebuilt DEF Rebuild, DataOK
<1>4. DataOK'
  BY <1>3, Parts DEF Rebuild, DataOK, saved, holds
<1>5. k \in Job /\ Same(j, k) /\ k.at = "judgeEach"
  <2>1. \A e \in deps : e[1] \in PRs
    BY Parts DEF DataOK, Graphs
  <2>2. rs \in SUBSET Repos
    BY <2>1, ConstantsAssumption
  <2>3. "judgeEach" \in Steps
    BY DEF Steps, Returns
  <2> HIDE DEF rs
  <2> QED
    BY <1>1, <2>2, <2>3 DEF Job, Same
<1>6. Good(k)
  BY <1>1, <1>2, <1>5 DEF Good, JobOK, Same, OnOnePR
<1>7. job' = [job EXCEPT ![t] = k] \/ job' = [job EXCEPT ![t] = Idle]
  BY DEF Rebuild
<1> HIDE DEF k
<1> QED
  BY <1>2, <1>4, <1>5, <1>6, <1>7, IdleGood, StepInv DEF Rebuild, Same

LEMMA JudgeNextInv ==
  ASSUME IInv, NEW t \in Threads, NEW r \in job[t].rest, JudgeNext(t, r)
  PROVE  IInv'
<1> DEFINE j == job[t]
           next == [j EXCEPT !.rest = j.rest \ {r}]
           back == IF next.rest = {} THEN "idle" ELSE "judgeEach"
           judging == Judging(next, r, view, r \in cut)
           k == IF r \in loaded THEN Call(judging, "armed", back) ELSE Goto(next, back)
<1>1. Good(j) /\ j \in Job /\ j.at = "judgeEach" /\ DataOK'
  BY Parts, DataKept DEF JudgeNext, At, DataOK
<1>2. j.claim = FALSE
  BY <1>1, NotClaimed DEF Unreleased, Called
<1>3. next \in Job /\ Same(j, next)
  BY <1>1 DEF Job, Same
<1>4. back \in {"idle", "judgeEach"}
  OBVIOUS
<1>5. Good(k) /\ k.claim = FALSE
  <2>1. CASE r \in loaded
    <3>1. judging \in Job /\ Same(next, judging)
      <4> HIDE DEF next
      <4> QED
        BY <1>3, Parts, JudgingJob DEF DataOK
    <3>2. "armed" \in Steps /\ back \in Returns
      BY <1>4 DEF Steps, Returns
    <3>3. k = Call(judging, "armed", back)
      BY <2>1
    <3> HIDE DEF next, judging, back, k
    <3>4. k \in Job /\ Same(j, k) /\ k.at = "armed"
      BY <1>3, <3>1, <3>2, <3>3, CallJob DEF Same
    <3> QED
      BY <1>1, <1>2, <3>4 DEF Good, JobOK, Same, OnOnePR
  <2>2. CASE r \notin loaded
    <3>1. k = Goto(next, back)
      BY <2>2
    <3> HIDE DEF next, judging, back, k
    <3>2. CASE back = "idle"
      BY <3>1, <3>2, GotoIdle, IdleGood
    <3>3. CASE back = "judgeEach"
      <4>1. back \in Steps \ {"idle"}
        BY <3>3 DEF Steps, Returns
      <4>2. k \in Job /\ Same(j, k) /\ k.at = "judgeEach"
        BY <1>3, <3>1, <3>3, <4>1, GotoJob DEF Same
      <4> QED
        BY <1>1, <1>2, <4>2 DEF Good, JobOK, Same, OnOnePR
    <3> QED
      BY <1>4, <3>2, <3>3
  <2> QED
    BY <2>1, <2>2
<1>6. job' = [job EXCEPT ![t] = k]
  BY DEF JudgeNext
<1> HIDE DEF k
<1> QED
  BY <1>1, <1>2, <1>5, <1>6, StepInv DEF JudgeNext

----------------------------------------------------------------------------
(* A crash loses every claim with the goroutines that held them.            *)
LEMMA CrashInv ==
  ASSUME IInv, Crash
  PROVE  IInv'
<1>1. \A t \in Threads : job'[t] = Idle
  BY DEF Crash
<1>2. JobsOK' /\ job' \in [Threads -> Job]
  BY <1>1, IdleGood DEF Crash, JobsOK, Good
<1>3. DataOK'
  <2>1. NoView \in View
    BY DEF NoView, View
  <2> QED
    BY <2>1, Parts, InputCounted DEF Crash, DataOK, saved
<1>4. OneAutoMergeAtATime'
  BY <1>1, IdleGood DEF Crash, OneAutoMergeAtATime, ClaimsExact, ClaimsExclusive,
     AutoMergesClaimed, Claims, At, Idle
<1> QED
  BY <1>2, <1>3, <1>4 DEF IInv, TypeOK, DataOK

----------------------------------------------------------------------------
LEMMA StutterInv ==
  ASSUME IInv, UNCHANGED vars
  PROVE  IInv'
<1>1. DataOK'
  BY Parts DEF vars, DataOK, saved, loads, holds
<1> QED
  BY <1>1, NoStep DEF vars

LEMMA StepsInv ==
  ASSUME IInv, NEW t \in Threads, Step(t)
  PROVE  IInv'
<1>1. ASSUME Judge(t)
      PROVE  IInv'
  BY <1>1, JudgeGoneInv, JudgeReadyInv, JudgeNothingInv DEF Judge
<1> QED
  BY <1>1, FetchInv, ApplyInv, ApplyUnmonitoredInv, ScanInv, HoldNextInv, ReadArmedInv,
     AutoMergeInv, DisarmInv, RecordInv, ReadWaitingInv, RefreshNextInv, JudgeNextInv,
     ReleaseInv, TurnOffInv, ArmInv, UnholdInv, ClaimMergeInv, MergeCallInv,
     SetAutoMergeInv, CopyRepoInv, AddEdgeInv, AddFetchedInv, StoreInv, RebuildInv
  DEF Step

LEMMA StartsInv ==
  ASSUME IInv, NEW t \in Threads, Start(t)
  PROVE  IInv'
BY PollInv, AddRepoInv, ArmMergeInv, ManualMergeInv, AutoMergeOnInv, AddDependencyInv,
   RemoveDependencyInv, LookupsInv
DEF Start

LEMMA NextInv == IInv /\ [Next]_vars => IInv'
BY StutterInv, EditOnGitHubInv, NativeMergeInv, DisarmMergeInv, RemoveRepoInv,
   StepsInv, StartsInv, BeginInv, CrashInv
DEF Next

(* The inductive invariant holds in every behaviour.                        *)
THEOREM MergeInvariant == Spec => []IInv
BY InitInv, NextInv, PTL DEF Spec

(* Every variable, and every goroutine's state, keeps its type.             *)
THEOREM MergeTypes == Spec => []TypeOK
<1>1. IInv => TypeOK
  BY DEF IInv
<1> QED
  BY <1>1, MergeInvariant, PTL

(* m.merging holds exactly the claims goroutines have still to give up, no  *)
(* two of them the same PR's, and autoMerge never merges without one.       *)
THEOREM MergeClaimsKept == Spec => []OneAutoMergeAtATime
<1>1. IInv => OneAutoMergeAtATime
  BY DEF IInv
<1> QED
  BY <1>1, MergeInvariant, PTL

----------------------------------------------------------------------------
(* Dependencies: whatever step is taken, the saved graph changes only as    *)
(* its store allows, so it never has a cycle.                              *)

LEMMA StepKeepsDeps ==
  ASSUME NEW t, Step(t), ~ Apply(t), ~ AddEdge(t)
  PROVE  deps' = deps
<1>1. ASSUME Judge(t)
      PROVE  deps' = deps
  BY <1>1 DEF Judge, JudgeGone, JudgeReady, JudgeNothing, saved
<1>2. ASSUME NEW p, HoldNext(t, p)
      PROVE  deps' = deps
  BY <1>2 DEF HoldNext, saved
<1>3. ASSUME NEW r, RefreshNext(t, r) \/ JudgeNext(t, r)
      PROVE  deps' = deps
  BY <1>3 DEF RefreshNext, JudgeNext, saved
<1>4. CASE \/ Fetch(t) \/ ApplyUnmonitored(t) \/ Scan(t) \/ ReadArmed(t)
           \/ AutoMergeDone(t) \/ AutoMergeRetryable(t) \/ AutoMergeRefused(t)
           \/ Disarm(t) \/ Record(t) \/ ReadWaiting(t)
  BY <1>4 DEF Fetch, ApplyUnmonitored, Scan, ReadArmed, AutoMergeDone,
     AutoMergeRetryable, AutoMergeRefused, Disarm, Record, ReadWaiting, saved
<1>5. CASE \/ Release(t) \/ TurnOff(t) \/ Arm(t) \/ Unhold(t) \/ ClaimMerge(t)
           \/ MergeCall(t) \/ CopyRepo(t) \/ AddFetched(t) \/ Store(t) \/ Rebuild(t)
  BY <1>5 DEF Release, TurnOff, TurnOffDone, TurnOffFails, TurnedOffOnGitHub, Arm,
     Unhold, ClaimMerge, MergeCall, CopyRepo, AddFetched, Store, Rebuild, saved
<1>6. CASE SetAutoMerge(t, "turnOn", TRUE) \/ SetAutoMerge(t, "off", FALSE)
  BY <1>6 DEF SetAutoMerge, saved
<1> QED
  BY <1>1, <1>2, <1>3, <1>4, <1>5, <1>6 DEF Step

LEMMA StartKeepsDeps ==
  ASSUME NEW t, Start(t),
         ~ \E p, q \in PRs : RemoveDependency(t, p, q)
  PROVE  deps' = deps
<1>1. ASSUME NEW kind, NEW p, NEW start, Command(kind, t, p, start)
      PROVE  deps' = deps
  BY <1>1 DEF Command, saved
<1>2. ASSUME NEW p, \/ ArmMerge(t, p) \/ ManualMerge(t, p)
                    \/ AutoMergeOn(t, p) \/ AutoMergeOff(t, p)
      PROVE  deps' = deps
  BY <1>1, <1>2 DEF ArmMerge, ManualMerge, AutoMergeOn, AutoMergeOff
<1>3. ASSUME NEW p, NEW q, AddDependency(t, p, q)
      PROVE  deps' = deps
  BY <1>1, <1>3 DEF AddDependency
<1>4. ASSUME NEW r, Poll(t, r) \/ AddRepo(t, r)
      PROVE  deps' = deps
  BY <1>4 DEF Poll, AddRepo, saved
<1>5. ASSUME NEW fn, NEW rest, Lookup(t, fn, rest)
      PROVE  deps' = deps
  BY <1>5 DEF Lookup, saved
<1>6. CASE PollOnce(t) \/ RefreshDependencyStates(t)
  BY <1>5, <1>6 DEF PollOnce, RefreshDependencyStates
<1> QED
  BY <1>2, <1>3, <1>4, <1>6 DEF Start

LEMMA DependencyStep ==
  ASSUME IInv, [Next]_vars
  PROVE  [Order!Next]_deps
<1>1. ASSUME NEW t \in Threads, Apply(t)
      PROVE  Order!Next
  <2>1. Gone(t) \in SUBSET PRs
    BY DEF Gone, PRsOf
  <2>2. deps' = Order!Forget(deps, Gone(t))
    BY <1>1 DEF Apply, Forget, Order!Forget
  <2> QED
    BY <2>1, <2>2 DEF Order!Next, Order!ForgetSome
<1>2. ASSUME NEW t \in Threads, AddEdge(t)
      PROVE  Order!Next \/ deps' = deps
  <2> DEFINE p == job[t].pr
             q == job[t].peer
  <2>1. p \in PRs /\ q \in PRs
    BY <1>2, Parts DEF AddEdge, At, Good, JobOK, OnOnePR
  <2>2. CASE CanAdd(deps, p, q)
    <3>1. Order!CanAdd(deps, p, q) /\ deps' = Order!Add(deps, p, q)
      BY <1>2, <2>2 DEF AddEdge, Add, CanAdd, Reaches, Closed,
                        Order!Add, Order!CanAdd, Order!Reaches, Order!Closed
    <3> QED
      BY <2>1, <3>1 DEF Order!Next, Order!AddOne
  <2>3. CASE ~ CanAdd(deps, p, q)
    BY <1>2, <2>3 DEF AddEdge
  <2> QED
    BY <2>2, <2>3
<1>3. ASSUME NEW t \in Threads, NEW p \in PRs, NEW q \in PRs, RemoveDependency(t, p, q)
      PROVE  Order!Next
  <2>1. deps' = Order!Remove(deps, p, q)
    BY <1>3 DEF RemoveDependency, Remove, Order!Remove
  <2> QED
    BY <2>1 DEF Order!Next, Order!RemoveOne
<1>4. ASSUME NEW r \in Repos, RemoveRepo(r)
      PROVE  Order!Next
  <2>1. PRsOf(r) \in SUBSET PRs /\ deps' = Order!Forget(deps, PRsOf(r))
    BY <1>4 DEF RemoveRepo, PRsOf, Forget, Order!Forget
  <2> QED
    BY <2>1 DEF Order!Next, Order!ForgetSome
<1>5. ASSUME NEW p \in PRs, EditOnGitHub(p) \/ NativeMerge(p) \/ DisarmMerge(p)
      PROVE  deps' = deps
  BY <1>5 DEF EditOnGitHub, Push, Recheck, Close, Reopen, MergeElsewhere,
     ToggleAutoElsewhere, GitHubEdit, NativeMerge, DisarmMerge, saved
<1>6. ASSUME NEW t, NEW s, Begin(t, s)
      PROVE  deps' = deps
  BY <1>6 DEF Begin, saved
<1>7. CASE Crash \/ UNCHANGED vars
  BY <1>7 DEF Crash, vars, saved
<1> QED
  BY <1>1, <1>2, <1>3, <1>4, <1>5, <1>6, <1>7, StepKeepsDeps, StartKeepsDeps DEF Next

(* What cannot be reached is kept out by a closed set.                      *)
LEMMA NotReached ==
  ASSUME NEW G, NEW start, NEW target, ~ Reaches(G, start, target)
  PROVE  \E C \in SUBSET PRs : start \in C /\ Closed(G, C) /\ target \notin C
BY DEF Reaches

(* Where a search begins.                                                  *)
LEMMA ReachesItself ==
  ASSUME NEW G, NEW p
  PROVE  Reaches(G, p, p)
BY DEF Reaches

(* What reaches p reaches what p waits on: each turn of the search's loop.  *)
LEMMA ReachesOn ==
  ASSUME NEW G, NEW start \in PRs, NEW p \in PRs, NEW q \in PRs,
         Reaches(G, start, p), <<p, q>> \in G
  PROVE  Reaches(G, start, q)
BY DEF Reaches, Closed

(* With fewer edges, less is reached, and a graph stays free of cycles:     *)
(* Remove and Forget need no check.                                        *)
LEMMA SubgraphAcyclic ==
  ASSUME NEW G, NEW H, H \subseteq G, Acyclic(G)
  PROVE  Acyclic(H)
<1>1. ASSUME NEW C \in SUBSET PRs, Closed(G, C)
      PROVE  Closed(H, C)
  BY <1>1 DEF Closed
<1>2. ASSUME NEW p \in PRs, NEW q \in PRs, Reaches(H, q, p)
      PROVE  Reaches(G, q, p)
  BY <1>1, <1>2 DEF Reaches
<1> QED
  BY <1>2 DEF Acyclic

(* Adding an edge that Graph.Add accepts closes no cycle.                   *)
THEOREM AddAcyclic ==
  ASSUME NEW G, NEW from \in PRs, NEW to \in PRs,
         CanAdd(G, from, to), Acyclic(G)
  PROVE  Acyclic(Add(G, from, to))
<1> DEFINE H == Add(G, from, to)
<1>1. PICK C0 \in SUBSET PRs : to \in C0 /\ Closed(G, C0) /\ from \notin C0
  BY NotReached DEF CanAdd
<1> SUFFICES ASSUME NEW p \in PRs, NEW q \in PRs, <<p, q>> \in H
             PROVE  \E C \in SUBSET PRs : q \in C /\ Closed(H, C) /\ p \notin C
  BY DEF Acyclic, Reaches
<1>2. CASE <<p, q>> = <<from, to>>
  <2>1. Closed(H, C0)
    BY <1>1 DEF Closed, Add
  <2> QED
    BY <1>1, <1>2, <2>1
<1>3. CASE <<p, q>> \in G
  <2>1. PICK C1 \in SUBSET PRs : q \in C1 /\ Closed(G, C1) /\ p \notin C1
    BY <1>3, NotReached DEF Acyclic
  <2>2. CASE p \notin C0
    <3>1. Closed(H, C0 \cup C1)
      BY <1>1, <2>1 DEF Closed, Add
    <3> QED
      BY <2>1, <2>2, <3>1
  <2>3. CASE p \in C0
    <3>1. q \in C0
      BY <1>1, <1>3, <2>3 DEF Closed
    <3>2. Closed(H, C0 \cap C1)
      BY <1>1, <2>1 DEF Closed, Add
    <3> QED
      BY <2>1, <3>1, <3>2
  <2> QED
    BY <2>2, <2>3
<1> QED
  BY <1>2, <1>3 DEF Add

LEMMA StoreKeepsAcyclic ==
  ASSUME Acyclic(deps), [Order!Next]_deps
  PROVE  Acyclic(deps)'
<1>1. CASE Order!AddOne
  <2>1. PICK p \in PRs, q \in PRs :
          Order!CanAdd(deps, p, q) /\ deps' = Order!Add(deps, p, q)
    BY <1>1 DEF Order!AddOne
  <2>2. CanAdd(deps, p, q) /\ deps' = Add(deps, p, q)
    BY <2>1 DEF Add, CanAdd, Reaches, Closed,
                Order!Add, Order!CanAdd, Order!Reaches, Order!Closed
  <2>3. Acyclic(Add(deps, p, q))
    BY <2>2, AddAcyclic
  <2> QED
    BY <2>2, <2>3, ZenonT(40) DEF Acyclic, Reaches, Closed
<1>2. CASE deps' \subseteq deps
  <2>1. \A G, H : H \subseteq G /\ Acyclic(G) => Acyclic(H)
    BY SubgraphAcyclic
  <2> QED
    BY <1>2, <2>1 DEF Acyclic, Reaches, Closed
<1> QED
  BY <1>1, <1>2 DEF Order!Next, Order!RemoveOne, Order!ForgetSome, Order!Remove, Order!Forget

(* No PR is ever set to wait, through any chain, on itself.                 *)
THEOREM MergeNeverDeadlocks == Spec => []NoDeadlockedPRs
<1>1. Init => NoDeadlockedPRs
  BY DEF Init, NoDeadlockedPRs
<1>2. IInv /\ NoDeadlockedPRs /\ [Next]_vars => NoDeadlockedPRs'
  BY DependencyStep, StoreKeepsAcyclic DEF NoDeadlockedPRs
<1> QED
  BY <1>1, <1>2, MergeInvariant, PTL DEF Spec

(* The monitor implements the abstract store of dependencies.               *)
THEOREM MergeImplementsStore == Spec => DependenciesKept
<1>1. Init => Order!Init
  BY DEF Init, Order!Init, Order!Graphs, Graphs
<1>2. IInv /\ [Next]_vars => [Order!Next]_deps
  BY DependencyStep
<1> QED
  BY <1>1, <1>2, MergeInvariant, PTL DEF Spec, DependenciesKept, Order!Spec

----------------------------------------------------------------------------
(* What merge when ready knows when it acts: the merges pr-mon believes in *)
(* are real, and an unattended merge is the one that was judged.           *)
(*                                                                         *)
(* Every copy a goroutine carries may be old.  The invariant HInv says     *)
(* which parts of it cannot have become wrong: the merges it shows (GitHub *)
(* never takes one back) and, past Judging, that it was judged ready.  It  *)
(* needs IInv for the types of what is carried.                            *)

----------------------------------------------------------------------------
(* What pr-mon knows of GitHub.  A merge on GitHub is for ever, so what was *)
(* true when a copy was made stays true of it, however old the copy is.     *)

Grows(g, h) == \A p \in PRs : g[p].state = "MERGED" => h[p].state = "MERGED"

(* The only steps of pr-mon that change anything on GitHub.                 *)
Calls(t) ==
  \/ AutoMergeDone(t) \/ TurnOff(t) \/ MergeCall(t)
  \/ SetAutoMerge(t, "turnOn", TRUE) \/ SetAutoMerge(t, "off", FALSE)

LEMMA StepKeepsGitHub ==
  ASSUME NEW t, Step(t), ~ Calls(t)
  PROVE  gh' = gh
<1>1. ASSUME Judge(t)
      PROVE  gh' = gh
  BY <1>1 DEF Judge, JudgeGone, JudgeReady, JudgeNothing
<1>2. ASSUME NEW p, HoldNext(t, p)
      PROVE  gh' = gh
  BY <1>2 DEF HoldNext
<1>3. ASSUME NEW r, RefreshNext(t, r) \/ JudgeNext(t, r)
      PROVE  gh' = gh
  BY <1>3 DEF RefreshNext, JudgeNext
<1>4. CASE \/ Fetch(t) \/ Apply(t) \/ ApplyUnmonitored(t) \/ Scan(t) \/ ReadArmed(t)
           \/ AutoMergeRetryable(t) \/ AutoMergeRefused(t)
           \/ Disarm(t) \/ Record(t) \/ ReadWaiting(t)
  BY <1>4 DEF Fetch, Apply, ApplyUnmonitored, Scan, ReadArmed,
     AutoMergeRetryable, AutoMergeRefused, Disarm, Record, ReadWaiting
<1>5. CASE \/ Release(t) \/ Arm(t) \/ Unhold(t) \/ ClaimMerge(t)
           \/ CopyRepo(t) \/ AddEdge(t) \/ AddFetched(t) \/ Store(t) \/ Rebuild(t)
  BY <1>5 DEF Release, Arm, Unhold, ClaimMerge, CopyRepo, AddEdge, AddFetched, Store,
     Rebuild
<1> QED
  BY <1>1, <1>2, <1>3, <1>4, <1>5 DEF Step, Calls

LEMMA StartKeepsGitHub ==
  ASSUME NEW t, Start(t)
  PROVE  gh' = gh
<1>1. ASSUME NEW kind, NEW p, NEW start, Command(kind, t, p, start)
      PROVE  gh' = gh
  BY <1>1 DEF Command
<1>2. ASSUME NEW p, \/ ArmMerge(t, p) \/ ManualMerge(t, p)
                    \/ AutoMergeOn(t, p) \/ AutoMergeOff(t, p)
      PROVE  gh' = gh
  BY <1>1, <1>2 DEF ArmMerge, ManualMerge, AutoMergeOn, AutoMergeOff
<1>3. ASSUME NEW p, NEW q, AddDependency(t, p, q) \/ RemoveDependency(t, p, q)
      PROVE  gh' = gh
  BY <1>1, <1>3 DEF AddDependency, RemoveDependency
<1>4. ASSUME NEW r, Poll(t, r) \/ AddRepo(t, r)
      PROVE  gh' = gh
  BY <1>4 DEF Poll, AddRepo
<1>5. ASSUME NEW fn, NEW rest, Lookup(t, fn, rest)
      PROVE  gh' = gh
  BY <1>5 DEF Lookup
<1>6. CASE PollOnce(t) \/ RefreshDependencyStates(t)
  BY <1>5, <1>6 DEF PollOnce, RefreshDependencyStates
<1> QED
  BY <1>2, <1>3, <1>4, <1>6 DEF Start

LEMMA GitHubChanges ==
  ASSUME [Next]_vars
  PROVE  \/ gh' = gh
         \/ \E p \in PRs : EditOnGitHub(p) \/ NativeMerge(p)
         \/ \E t \in Threads : Calls(t)
<1>1. ASSUME NEW p \in PRs, DisarmMerge(p)
      PROVE  gh' = gh
  BY <1>1 DEF DisarmMerge
<1>2. ASSUME NEW r, RemoveRepo(r)
      PROVE  gh' = gh
  BY <1>2 DEF RemoveRepo
<1>3. ASSUME NEW t, NEW s, Begin(t, s)
      PROVE  gh' = gh
  BY <1>3 DEF Begin
<1>4. CASE Crash \/ UNCHANGED vars
  BY <1>4 DEF Crash, vars
<1> QED
  BY <1>1, <1>2, <1>3, <1>4, StepKeepsGitHub, StartKeepsGitHub DEF Next

LEMMA MergedStays ==
  ASSUME IInv, [Next]_vars
  PROVE  Grows(gh, gh')
<1> USE DEF Grows
<1>0. gh \in [PRs -> OnGitHub] /\ \A p \in PRs : gh[p] \in OnGitHub
  BY Parts DEF DataOK
<1>1. ASSUME NEW p \in PRs, NativeMerge(p)
      PROVE  Grows(gh, gh')
  BY <1>0, <1>1 DEF NativeMerge
<1>2. ASSUME NEW p \in PRs, NEW kind, NEW when, NEW to, GitHubEdit(kind, p, when, to),
             when => (gh[p].state # "MERGED")
      PROVE  Grows(gh, gh')
  BY <1>0, <1>2 DEF GitHubEdit
<1>3. ASSUME NEW p \in PRs, EditOnGitHub(p)
      PROVE  Grows(gh, gh')
  BY <1>2, <1>3 DEF EditOnGitHub, Push, Recheck, Close, Reopen, MergeElsewhere,
     ToggleAutoElsewhere
<1>4. ASSUME NEW t \in Threads, Calls(t)
      PROVE  Grows(gh, gh')
  <2>1. \/ gh' = gh \/ gh' = MergedOnGitHub(job[t].pr)
        \/ \E on \in BOOLEAN : gh' = [gh EXCEPT ![job[t].pr].auto = on]
    BY <1>4 DEF Calls, AutoMergeDone, TurnOff, TurnOffDone, TurnOffFails,
       TurnedOffOnGitHub, MergeCall, SetAutoMerge
  <2> SUFFICES ASSUME NEW p \in PRs, gh[p].state = "MERGED"
               PROVE  gh'[p].state = "MERGED"
    OBVIOUS
  <2>2. ASSUME NEW on \in BOOLEAN, gh' = [gh EXCEPT ![job[t].pr].auto = on]
        PROVE  gh'[p].state = "MERGED"
    BY <1>0, <2>2 DEF OnGitHub
  <2>3. CASE gh' = MergedOnGitHub(job[t].pr)
    BY <1>0, <2>3 DEF MergedOnGitHub, OnGitHub
  <2> QED
    BY <2>1, <2>2, <2>3
<1> QED
  BY <1>1, <1>3, <1>4, GitHubChanges

(* Every merge the copy entry shows has happened.                           *)
Real(g, entry) == entry # None => \A q \in entry.merged : g[q].state = "MERGED"

(* The steps at which the copies a job carries are the ones checkArmed      *)
(* judges: PRs it found ready.  AddDependency carries none.                *)
Carrying == {"scan", "hold", "armed", "judge", "add"}

(* What a job took from GitHub holds there; what it judged, it judged ready; *)
(* and it merges the head of the copy it judged.                           *)
Honest(g, j) ==
  /\ \A p \in PRs : /\ Real(g, j.copy[p])
                    /\ j.found[p] = "MERGED" => g[p].state = "MERGED"
  /\ Real(g, j.seen)
  /\ j.at = "record" \/ j.back = "record" => j.pr \in PRs /\ g[j.pr].state = "MERGED"
  /\ j.back = "record" => j.at = "disarm"
  /\ j.back = "scan" => j.at = "add"
  /\ j.at \in Carrying => \A p \in PRs : j.copy[p] # None => StrictlyReady(j.copy[p])
  /\ j.at = "autoMerge" =>
       j.seen \in Entry /\ StrictlyReady(j.seen) /\ j.pin = j.seen.head

(* The same of what the monitor keeps and of the goroutines it spawned.     *)
Known(g, known, copies, S) ==
  /\ \A q \in PRs : known[q] = "MERGED" => g[q].state = "MERGED"
  /\ \A p \in PRs : Real(g, copies[p])
  /\ \A s \in S : /\ Real(g, s.seen)
                  /\ s.fn = "autoMerge" => StrictlyReady(s.seen)

HInv == Known(gh, waitedOn, view, spawned) /\ \A t \in Threads : Honest(gh, job[t])

LEMMA RealGrows ==
  ASSUME NEW g, NEW h, Grows(g, h), NEW entry \in Entry \cup {None}, Real(g, entry)
  PROVE  Real(h, entry)
BY DEF Grows, Real, Entry

LEMMA HonestGrows ==
  ASSUME NEW g, NEW h, Grows(g, h), NEW j \in Job, Honest(g, j)
  PROVE  Honest(h, j)
<1>1. \A p \in PRs : j.copy[p] \in Entry \cup {None}
  BY DEF Job, View
<1>2. j.seen \in Entry \cup {None}
  BY DEF Job
<1>3. \A p \in PRs : Real(h, j.copy[p])
  BY <1>1, RealGrows DEF Honest
<1>4. Real(h, j.seen)
  BY <1>2, RealGrows DEF Honest
<1> QED
  BY <1>3, <1>4 DEF Honest, Grows

LEMMA KnownGrows ==
  ASSUME NEW g, NEW h, Grows(g, h), NEW known, NEW copies \in View,
         NEW S \in SUBSET Spawn, Known(g, known, copies, S)
  PROVE  Known(h, known, copies, S)
<1>1. \A p \in PRs : copies[p] \in Entry \cup {None}
  BY DEF View
<1>2. \A s \in S : s.seen \in Entry \cup {None}
  BY DEF Spawn
<1>3. \A p \in PRs : Real(h, copies[p])
  BY <1>1, RealGrows DEF Known
<1>4. \A s \in S : Real(h, s.seen)
  BY <1>2, RealGrows DEF Known
<1> QED
  BY <1>3, <1>4 DEF Known, Grows

LEMMA HonestIdle ==
  ASSUME NEW g
  PROVE  Honest(g, Idle)
BY DEF Honest, Idle, NoView, NotFound, Real, Carrying

(* A job that goes on with the same data to a step that asks nothing of it. *)
LEMMA HonestOn ==
  ASSUME NEW g, NEW j, NEW k, Honest(g, j),
         k.copy = j.copy, k.seen = j.seen, k.found = j.found,
         k.at \notin {"record", "autoMerge"}, k.at \in Carrying => j.at \in Carrying,
         k.back \notin {"record", "scan"}
  PROVE  Honest(g, k)
BY DEF Honest

LEMMA HonestGoto ==
  ASSUME NEW g, NEW j \in Job, Honest(g, j), NEW step,
         step \notin {"record", "autoMerge"}, step \in Carrying => j.at \in Carrying,
         j.back \notin {"record", "scan"}
  PROVE  Honest(g, Goto(j, step))
<1>1. CASE step = "idle"
  BY <1>1, HonestIdle, GotoIdle
<1>2. CASE step # "idle"
  <2> DEFINE k == [j EXCEPT !.at = step]
  <2>1. /\ Goto(j, step) = k
        /\ k.copy = j.copy /\ k.seen = j.seen /\ k.found = j.found
        /\ k.at = step /\ k.back = j.back
    BY <1>2 DEF Goto, Job
  <2> HIDE DEF k
  <2> QED
    BY <2>1, HonestOn
<1> QED
  BY <1>1, <1>2

LEMMA HonestCall ==
  ASSUME NEW g, NEW j \in Job, Honest(g, j), NEW step, NEW back,
         step \notin Carrying \cup {"record", "autoMerge"},
         back # "scan",
         back = "record" => step = "disarm" /\ j.pr \in PRs /\ g[j.pr].state = "MERGED"
  PROVE  Honest(g, Call(j, step, back))
<1> DEFINE k == Call(j, step, back)
<1>1. /\ k.copy = j.copy /\ k.seen = j.seen /\ k.found = j.found /\ k.pr = j.pr
      /\ k.at = step /\ k.back = back
  BY DEF Call, Job
<1> HIDE DEF k
<1>2. Honest(g, k)
  BY <1>1 DEF Honest
<1> QED
  BY <1>2 DEF k

LEMMA HonestReturn ==
  ASSUME NEW g, NEW j \in Job, Honest(g, j)
  PROVE  Honest(g, Return(j))
<1> DEFINE k == [j EXCEPT !.back = "idle"]
           l == [k EXCEPT !.at = j.back]
<1>1. CASE j.back = "idle"
  <2>1. Return(j) = Idle
    BY <1>1, GotoIdle DEF Return
  <2> QED
    BY <2>1, HonestIdle
<1>2. CASE j.back # "idle"
  <2>1. Return(j) = l
    BY <1>2 DEF Return, Goto
  <2>2. /\ l.copy = j.copy /\ l.seen = j.seen /\ l.found = j.found /\ l.pr = j.pr
        /\ l.at = j.back /\ l.back = "idle"
    BY DEF Job
  <2>3. j.back \in Returns
    BY DEF Job
  <2> HIDE DEF l
  <2>4. Honest(g, l)
    BY <2>2, <2>3 DEF Honest, Returns, Carrying
  <2> QED
    BY <2>1, <2>4
<1> QED
  BY <1>1, <1>2

LEMMA HonestForgotten ==
  ASSUME NEW g, NEW j \in Job, Honest(g, j)
  PROVE  Honest(g, Forgotten(j)) /\ Forgotten(j) \in Job
<1> DEFINE k == Forgotten(j)
<1>1. k \in Job
  BY ForgottenJob
<1>2. /\ k.copy = NoView /\ k.seen = j.seen /\ k.found = j.found /\ k.pr = j.pr
      /\ k.at = j.at /\ k.back = j.back /\ k.pin = j.pin
  BY DEF Forgotten, Job
<1>3. \A p \in PRs : NoView[p] = None
  BY DEF NoView
<1> HIDE DEF k
<1>4. Honest(g, k)
  BY <1>2, <1>3 DEF Honest, Real
<1> QED
  BY <1>1, <1>4 DEF k

LEMMA HonestFetch ==
  ASSUME IInv, NEW j \in Job, Honest(gh, j), NEW r \in Repos,
         j.back \notin {"record", "scan"}
  PROVE  Honest(gh, WithFetch(j, r)) /\ WithFetch(j, r).back = j.back
         /\ WithFetch(j, r).at = "apply"
<1> DEFINE k == WithFetch(j, r)
<1>1. /\ k.copy = Fetched(r) /\ k.seen = j.seen /\ k.found = j.found /\ k.pr = j.pr
      /\ k.at = "apply" /\ k.back = j.back
  BY DEF WithFetch, Job
<1>2. \A p \in PRs : Real(gh, Fetched(r)[p])
  BY DEF Fetched, Real
<1> HIDE DEF k
<1>3. Honest(gh, k)
  BY <1>1, <1>2 DEF Honest, Carrying
<1> QED
  BY <1>1, <1>3 DEF k

(* A list of real copies, judged: the ones that are ready.                  *)
LEMMA HonestJudging ==
  ASSUME NEW g, NEW j \in Job, Honest(g, j), NEW r, NEW list \in View, NEW listCut,
         \A p \in PRs : Real(g, list[p]),
         NEW k, k.copy = Judging(j, r, list, listCut).copy,
         k.seen = j.seen, k.found = j.found, k.at \in Carrying \ {"add"},
         k.back \notin {"record", "scan"}
  PROVE  Honest(g, k)
<1> DEFINE ready == {p \in PRsOf(r) : list[p] # None /\ StrictlyReady(list[p])}
           copy  == [p \in PRs |-> IF p \in ready THEN list[p] ELSE None]
<1>1. Judging(j, r, list, listCut).copy = copy
  BY DEF Judging, Job
<1>2. \A p \in PRs : /\ Real(g, copy[p])
                     /\ copy[p] # None => StrictlyReady(copy[p])
  <2> SUFFICES ASSUME NEW p \in PRs
               PROVE  /\ Real(g, copy[p])
                      /\ copy[p] # None => StrictlyReady(copy[p])
    OBVIOUS
  <2>1. CASE p \in ready
    <3>1. copy[p] = list[p] /\ StrictlyReady(list[p])
      BY <2>1
    <3> HIDE DEF copy
    <3> QED
      BY <3>1
  <2>2. CASE p \notin ready
    <3>1. copy[p] = None
      BY <2>2
    <3> HIDE DEF copy
    <3> QED
      BY <3>1 DEF Real
  <2> QED
    BY <2>1, <2>2
<1> HIDE DEF copy
<1> QED
  BY <1>1, <1>2 DEF Honest, Carrying

LEMMA DecoratedReal ==
  ASSUME NEW g, NEW known, \A q \in PRs : known[q] = "MERGED" => g[q].state = "MERGED",
         NEW p \in PRs, NEW entry \in Entry, NEW G
  PROVE  Real(g, Decorate(p, entry, G, known))
<1>1. Decorate(p, entry, G, known).merged = {q \in WaitsOn(G, p) : known[q] = "MERGED"}
  BY DEF Decorate, Entry
<1>2. WaitsOn(G, p) \subseteq PRs
  BY DEF WaitsOn
<1> QED
  BY <1>1, <1>2 DEF Real

LEMMA RebuiltReal ==
  ASSUME NEW g, NEW known, \A q \in PRs : known[q] = "MERGED" => g[q].state = "MERGED",
         view \in View, \A p \in PRs : Real(g, view[p]), NEW rs, NEW G
  PROVE  \A p \in PRs : Real(g, Rebuilt(rs, G, known)[p])
<1> SUFFICES ASSUME NEW p \in PRs
             PROVE  Real(g, Rebuilt(rs, G, known)[p])
  OBVIOUS
<1>1. view[p] \in Entry \cup {None}
  BY DEF View
<1>2. CASE RepoOf[p] \in rs /\ view[p] # None
  <2>1. Rebuilt(rs, G, known)[p] = Decorate(p, view[p], G, known)
    BY <1>2 DEF Rebuilt
  <2> QED
    BY <1>1, <1>2, <2>1, DecoratedReal
<1>3. CASE ~ (RepoOf[p] \in rs /\ view[p] # None)
  BY <1>3 DEF Rebuilt
<1> QED
  BY <1>2, <1>3

LEMMA KnownKept ==
  ASSUME IInv, HInv, Grows(gh, gh'), UNCHANGED <<waitedOn, view, spawned>>
  PROVE  Known(gh', waitedOn', view', spawned')
BY Parts, KnownGrows DEF HInv, DataOK

(* The view is rebuilt from what was known already.                         *)
LEMMA KnownRebuilt ==
  ASSUME IInv, HInv, UNCHANGED <<gh, waitedOn, spawned>>, NEW rs, NEW G,
         view' = Rebuilt(rs, G, waitedOn)
  PROVE  Known(gh', waitedOn', view', spawned')
<1>1. \A p \in PRs : Real(gh, Rebuilt(rs, G, waitedOn)[p])
  BY Parts, RebuiltReal DEF HInv, Known, DataOK
<1> QED
  BY <1>1 DEF HInv, Known

(* A function that starts with nothing from GitHub.                         *)
LEMMA HonestStart ==
  ASSUME NEW g, NEW k, k.copy = NoView, k.seen = None, k.found = NotFound,
         k.at \notin {"record", "autoMerge"},
         k.back # "record", k.back = "scan" => k.at = "add"
  PROVE  Honest(g, k)
BY DEF Honest, NoView, NotFound, Real

(* One job goes on with what it knows; the others know what they knew.      *)
LEMMA HonestStep ==
  ASSUME IInv, HInv, Grows(gh, gh'), NEW t \in Threads, NEW k,
         job' = [job EXCEPT ![t] = k], Honest(gh', k),
         Known(gh', waitedOn', view', spawned')
  PROVE  HInv'
<1>1. \A u \in Threads : Honest(gh', job[u])
  BY Parts, HonestGrows DEF HInv
<1>2. \A u \in Threads : Honest(gh', job'[u])
  BY <1>1, Parts
<1> QED
  BY <1>2 DEF HInv, Known, Honest, Real

(* No job changes.                                                         *)
LEMMA HonestNoStep ==
  ASSUME IInv, HInv, Grows(gh, gh'), UNCHANGED job,
         Known(gh', waitedOn', view', spawned')
  PROVE  HInv'
<1>1. \A u \in Threads : Honest(gh', job'[u])
  BY Parts, HonestGrows DEF HInv
<1> QED
  BY <1>1 DEF HInv, Known, Honest, Real

(* Nothing but one job changes.                                            *)
LEMMA HonestJobStep ==
  ASSUME IInv, HInv, UNCHANGED <<gh, waitedOn, view, spawned>>, NEW t \in Threads, NEW k,
         job' = [job EXCEPT ![t] = k], Honest(gh, k)
  PROVE  HInv'
<1>1. Grows(gh, gh')
  BY DEF Grows
<1> QED
  BY <1>1, KnownKept, HonestStep

LEMMA HonestAfterHolding ==
  ASSUME NEW g, NEW j \in Job, Honest(g, j), j.at \in {"scan", "hold"}
  PROVE  Honest(g, AfterHolding(j))
<1>1. j.back \notin {"record", "scan"}
  BY DEF Honest
<1> QED
  BY <1>1, HonestGoto DEF AfterHolding, Carrying

LEMMA HonestJudged ==
  ASSUME NEW g, NEW j \in Job, Honest(g, j), j.at = "judge", NEW p
  PROVE  Honest(g, Judged(j, p))
<1>1. CASE j.todo = {p}
  BY <1>1, HonestForgotten, HonestReturn DEF Judged
<1>2. CASE j.todo # {p}
  <2> DEFINE copy == [j.copy EXCEPT ![p] = None]
             k == [j EXCEPT !.todo = j.todo \ {p}, !.copy = copy]
  <2>1. Judged(j, p) = k
    BY <1>2 DEF Judged, Job
  <2>2. /\ k.copy = copy /\ k.seen = j.seen /\ k.found = j.found
        /\ k.at = "judge" /\ k.back = j.back
    BY DEF Job
  <2>3. \A q \in PRs : copy[q] = j.copy[q] \/ copy[q] = None
    BY DEF Job, View
  <2> HIDE DEF k, copy
  <2>4. Honest(g, k)
    BY <2>2, <2>3 DEF Honest, Real, Carrying
  <2> QED
    BY <2>1, <2>4
<1> QED
  BY <1>1, <1>2

(* A job at a step where nothing is pending from a call.                    *)
LEMMA JobNow ==
  ASSUME IInv, HInv, NEW t \in Threads
  PROVE  /\ job[t] \in Job /\ Honest(gh, job[t])
         /\ job[t].at \notin {"add", "disarm"} => job[t].back \notin {"record", "scan"}
BY Parts DEF HInv, Honest

LEMMA PollHonest ==
  ASSUME IInv, HInv, NEW t \in Threads, NEW r \in Repos, Poll(t, r)
  PROVE  HInv'
<1> DEFINE j == [Idle EXCEPT !.fn = "RefreshRepo"]
<1>1. j \in Job
  BY IdleGood, ZenonT(40) DEF Good, Idle, Job, Functions
<1>2. Honest(gh, j) /\ j.back = "idle"
  BY HonestStart DEF Idle
<1> HIDE DEF j
<1>3. Honest(gh, WithFetch(j, r))
  BY <1>1, <1>2, HonestFetch
<1> QED
  BY <1>3, HonestJobStep DEF Poll, loads, j

LEMMA FetchHonest ==
  ASSUME IInv, HInv, NEW t \in Threads, Fetch(t)
  PROVE  HInv'
<1> DEFINE j == job[t]
<1>1. j \in Job /\ Honest(gh, j) /\ j.back \notin {"record", "scan"}
  BY JobNow DEF Fetch, At
<1>2. RepoOf[j.pr] \in Repos
  BY Parts, ConstantsAssumption DEF Fetch, At, Good, JobOK, OnOnePR
<1>3. Honest(gh, WithFetch(j, RepoOf[j.pr])) /\ Honest(gh, Return(j))
  BY <1>1, <1>2, HonestFetch, HonestReturn
<1> QED
  BY <1>3, HonestJobStep DEF Fetch, loads

LEMMA ApplyHonest ==
  ASSUME IInv, HInv, NEW t \in Threads, Apply(t)
  PROVE  HInv'
<1> DEFINE j == job[t]
           r == j.repo
           G == Forget(deps, Gone(t))
           decorated == [p \in PRs |-> IF j.copy[p] = None THEN None
                                       ELSE Decorate(p, j.copy[p], G, waitedOn)]
           judging == Judging(j, r, decorated, j.cut)
           k == [judging EXCEPT !.at = "scan", !.repo = r]
<1>1. j \in Job /\ Honest(gh, j) /\ j.back \notin {"record", "scan"}
  BY JobNow DEF Apply, At
<1>2. decorated \in View /\ \A p \in PRs : Real(gh, decorated[p])
  <2> SUFFICES ASSUME NEW p \in PRs
               PROVE  decorated[p] \in Entry \cup {None} /\ Real(gh, decorated[p])
    BY DEF View
  <2>1. j.copy[p] \in Entry \cup {None}
    BY <1>1 DEF Job, View
  <2>2. CASE j.copy[p] = None
    BY <2>2 DEF Real
  <2>3. CASE j.copy[p] # None
    <3>1. decorated[p] = Decorate(p, j.copy[p], G, waitedOn)
      BY <2>3
    <3> HIDE DEF decorated
    <3> QED
      BY <2>1, <2>3, <3>1, EntryDecorated, DecoratedReal DEF HInv, Known
  <2> QED
    BY <2>2, <2>3
<1> HIDE DEF decorated
<1>3. judging \in Job /\ Same(j, judging) /\ judging.back = j.back
      /\ judging.seen = j.seen /\ judging.found = j.found
  <2>1. judging \in Job /\ Same(j, judging) /\ judging.back = j.back
    BY <1>1, <1>2, JudgingJob
  <2> QED
    BY <1>1, <2>1 DEF Judging, Job
<1>4. /\ k.copy = judging.copy /\ k.seen = j.seen /\ k.found = j.found
      /\ k.at = "scan" /\ k.back = j.back
  <2> HIDE DEF judging
  <2> QED
    BY <1>3 DEF Job
<1>5. job' = [job EXCEPT ![t] = k]
  BY DEF Apply, decorated
<1> HIDE DEF k
<1>6. Honest(gh, k)
  BY <1>1, <1>2, <1>4, HonestJudging DEF Carrying
<1>7. Known(gh, waitedOn, view', spawned)
  <2>1. view' = [p \in PRs |-> IF RepoOf[p] = r THEN decorated[p] ELSE view[p]]
    BY DEF Apply, decorated
  <2>2. \A p \in PRs : view'[p] = decorated[p] \/ view'[p] = view[p]
    BY <2>1
  <2> QED
    BY <1>2, <2>2 DEF HInv, Known
<1>8. UNCHANGED <<gh, waitedOn, spawned>>
  BY DEF Apply
<1>9. Grows(gh, gh')
  BY <1>8 DEF Grows
<1> QED
  BY <1>5, <1>6, <1>7, <1>8, <1>9, HonestStep

LEMMA ApplyUnmonitoredHonest ==
  ASSUME IInv, HInv, NEW t \in Threads, ApplyUnmonitored(t)
  PROVE  HInv'
<1>1. Honest(gh, Return(Forgotten(job[t])))
  BY JobNow, HonestForgotten, HonestReturn
<1> QED
  BY <1>1, HonestJobStep DEF ApplyUnmonitored, loads

LEMMA ScanHonest ==
  ASSUME IInv, HInv, NEW t \in Threads, Scan(t)
  PROVE  HInv'
<1> DEFINE stuck == {p \in PRsOf(job[t].repo) :
                       view[p] # None /\ view[p].auto /\ Waiting(view[p])}
           j == [job[t] EXCEPT !.repo = None, !.stuck = stuck]
           k == IF stuck = {} THEN AfterHolding(j) ELSE Goto(j, "hold")
<1>1. job[t] \in Job /\ Honest(gh, job[t]) /\ job[t].back \notin {"record", "scan"}
      /\ job[t].at = "scan"
  BY JobNow DEF Scan, At
<1>2. stuck \in SUBSET PRs
  BY DEF PRsOf
<1>3. j \in Job /\ j.copy = job[t].copy /\ j.seen = job[t].seen /\ j.found = job[t].found
      /\ j.at = "scan" /\ j.back = job[t].back
  <2> HIDE DEF stuck
  <2> QED
    BY <1>1, <1>2 DEF Job
<1>4. job' = [job EXCEPT ![t] = k]
  BY DEF Scan
<1> HIDE DEF j, stuck
<1>5. Honest(gh, j)
  BY <1>1, <1>3, HonestOn
<1>6. Honest(gh, k)
  BY <1>1, <1>3, <1>5, HonestAfterHolding, HonestGoto DEF Carrying
<1> QED
  BY <1>4, <1>6, HonestJobStep DEF Scan, loads

LEMMA HoldNextHonest ==
  ASSUME IInv, HInv, NEW t \in Threads, NEW p \in job[t].stuck, HoldNext(t, p)
  PROVE  HInv'
<1> DEFINE j == [job[t] EXCEPT !.stuck = job[t].stuck \ {p}]
           k == IF j.stuck = {} THEN AfterHolding(j) ELSE j
<1>1. job[t] \in Job /\ Honest(gh, job[t]) /\ job[t].back \notin {"record", "scan"}
      /\ job[t].at = "hold"
  BY JobNow DEF HoldNext, At
<1>2. j \in Job /\ j.copy = job[t].copy /\ j.seen = job[t].seen /\ j.found = job[t].found
      /\ j.at = "hold" /\ j.back = job[t].back
  BY <1>1 DEF Job
<1>3. job' = [job EXCEPT ![t] = k]
  BY DEF HoldNext
<1> HIDE DEF j
<1>4. Honest(gh, j)
  BY <1>1, <1>2, HonestOn
<1>5. Honest(gh, k)
  BY <1>2, <1>4, HonestAfterHolding
<1>6. Known(gh', waitedOn', view', spawned')
  <2>1. \A s \in spawned' : s \in spawned \/ (s.seen = None /\ s.fn = "hold")
    BY DEF HoldNext
  <2> QED
    BY <2>1 DEF HoldNext, loads, HInv, Known, Real
<1>7. Grows(gh, gh') /\ gh' = gh
  BY DEF HoldNext, Grows
<1> QED
  BY <1>3, <1>5, <1>6, <1>7, HonestStep

LEMMA ReadArmedHonest ==
  ASSUME IInv, HInv, NEW t \in Threads, ReadArmed(t)
  PROVE  HInv'
<1> DEFINE j == job[t]
           some == armed \cap j.todo
           copy == [p \in PRs |-> IF p \in some THEN j.copy[p] ELSE None]
<1>1. j \in Job /\ Honest(gh, j) /\ j.back \notin {"record", "scan"} /\ j.at = "armed"
  BY JobNow DEF ReadArmed, At
<1>2. CASE some = {}
  <2>1. job' = [job EXCEPT ![t] = Return(Forgotten(j))]
    BY <1>2 DEF ReadArmed
  <2>2. Honest(gh, Return(Forgotten(j)))
    BY <1>1, HonestForgotten, HonestReturn
  <2> QED
    BY <2>1, <2>2, HonestJobStep DEF ReadArmed, loads
<1>3. CASE some # {}
  <2> DEFINE k == [j EXCEPT !.at = "judge", !.todo = some, !.copy = copy]
  <2>1. job' = [job EXCEPT ![t] = k]
    BY <1>3 DEF ReadArmed
  <2>2. /\ k.copy = copy /\ k.seen = j.seen /\ k.found = j.found
        /\ k.at = "judge" /\ k.back = j.back
    <3> HIDE DEF copy, some
    <3> QED
      BY <1>1 DEF Job
  <2>3. \A q \in PRs : copy[q] = j.copy[q] \/ copy[q] = None
    OBVIOUS
  <2> HIDE DEF k, copy
  <2>4. Honest(gh, k)
    BY <1>1, <2>2, <2>3 DEF Honest, Real, Carrying
  <2> QED
    BY <2>1, <2>4, HonestJobStep DEF ReadArmed, loads
<1> QED
  BY <1>2, <1>3

LEMMA JudgeHonest ==
  ASSUME IInv, HInv, NEW t \in Threads, Judge(t)
  PROVE  HInv'
<1> DEFINE j == job[t]
<1>1. PICK p \in j.todo : JudgeGone(t, p) \/ JudgeReady(t, p) \/ JudgeNothing(t, p)
  BY DEF Judge
<1>2. j \in Job /\ Honest(gh, j) /\ j.at = "judge"
  BY <1>1, JobNow DEF JudgeGone, JudgeReady, JudgeNothing, At
<1>3. Honest(gh, Judged(j, p)) /\ job' = [job EXCEPT ![t] = Judged(j, p)] /\ gh' = gh
      /\ Grows(gh, gh')
  BY <1>1, <1>2, HonestJudged DEF JudgeGone, JudgeReady, JudgeNothing, Grows
<1>4. CASE JudgeGone(t, p)
  <2>1. Known(gh', waitedOn', view', spawned')
    BY <1>4, KnownRebuilt DEF JudgeGone
  <2> QED
    BY <1>3, <2>1, HonestStep
<1>5. CASE JudgeNothing(t, p)
  BY <1>3, <1>5, HonestJobStep DEF JudgeNothing, loads
<1>6. CASE JudgeReady(t, p)
  <2> DEFINE s == [fn |-> "autoMerge", pr |-> p, seen |-> j.copy[p]]
  <2>1. Real(gh, s.seen) /\ StrictlyReady(s.seen)
    BY <1>2, <1>6, Parts DEF JudgeReady, Honest, Carrying, Job
  <2>2. spawned' = spawned \cup {s} /\ UNCHANGED <<gh, waitedOn, view>>
    BY <1>6 DEF JudgeReady, loads
  <2> HIDE DEF s
  <2>3. Known(gh', waitedOn', view', spawned')
    BY <2>1, <2>2 DEF HInv, Known
  <2> QED
    BY <1>3, <2>3, HonestStep
<1> QED
  BY <1>1, <1>4, <1>5, <1>6

(* autoMerge gets the copy that was judged, and pins its head.              *)
LEMMA BeginHonest ==
  ASSUME IInv, HInv, NEW t \in Threads, NEW s \in spawned, Begin(t, s)
  PROVE  HInv'
<1> DEFINE k == JobOf(s)
<1>1. job' = [job EXCEPT ![t] = k] /\ UNCHANGED <<gh, waitedOn, view>>
      /\ spawned' \subseteq spawned /\ Grows(gh, gh')
  BY DEF Begin, loads, Grows
<1>2. s \in Spawn
  BY Parts DEF DataOK
<1>3. Honest(gh, k)
  <2>1. CASE s.fn = "hold"
    <3>1. /\ k.copy = NoView /\ k.seen = None /\ k.found = NotFound
          /\ k.at = "turnOff" /\ k.back = "idle"
      BY <1>2, <2>1 DEF JobOf, Idle, Spawn
    <3> HIDE DEF k
    <3> QED
      BY <3>1, HonestStart
  <2>2. CASE s.fn = "autoMerge"
    <3>1. /\ k.copy = NoView /\ k.seen = s.seen /\ k.found = NotFound
          /\ k.at = "autoMerge" /\ k.back = "idle" /\ k.pin = s.seen.head
      BY <1>2, <2>2 DEF JobOf, Idle
    <3>2. s.seen \in Entry /\ StrictlyReady(s.seen) /\ Real(gh, s.seen)
      BY <1>2, <2>2 DEF Spawn, HInv, Known
    <3> HIDE DEF k
    <3> QED
      BY <3>1, <3>2 DEF Honest, NoView, NotFound, Real, Carrying
  <2> QED
    BY <1>2, <2>1, <2>2 DEF Spawn
<1>4. Known(gh', waitedOn', view', spawned')
  BY <1>1 DEF HInv, Known
<1> HIDE DEF k
<1> QED
  BY <1>1, <1>3, <1>4, HonestStep

(* Every call that merges, changes or leaves GitHub's copy: what was known  *)
(* before stays so, and a merge recorded is one that happened.              *)
LEMMA CallsHonest ==
  ASSUME IInv, HInv, Grows(gh, gh'), NEW t \in Threads,
         Calls(t) \/ AutoMergeRetryable(t) \/ AutoMergeRefused(t)
  PROVE  HInv'
<1> DEFINE j == job[t]
<1>1. /\ j \in Job /\ j.at \in {"autoMerge", "turnOff", "merge", "turnOn", "off"}
      /\ Honest(gh, j) /\ j.back \notin {"record", "scan"}
  BY JobNow DEF Calls, AutoMergeDone, AutoMergeRetryable, AutoMergeRefused, TurnOff,
     TurnOffDone, TurnOffFails, TurnedOffOnGitHub, MergeCall, SetAutoMerge, At
<1>2. Honest(gh', j)
  BY <1>1, HonestGrows
<1>3. UNCHANGED <<waitedOn, view, spawned>>
  BY DEF Calls, AutoMergeDone, AutoMergeRetryable, AutoMergeRefused, TurnOff,
     TurnOffDone, TurnOffFails, TurnedOffOnGitHub, MergeCall, SetAutoMerge, loads
<1>4. Known(gh', waitedOn', view', spawned')
  BY <1>3, KnownKept
<1>5. ASSUME NEW k, job' = [job EXCEPT ![t] = k], Honest(gh', k)
      PROVE  HInv'
  BY <1>4, <1>5, HonestStep
<1>6. ASSUME NEW step \in {"release", "arm", "unhold"}
      PROVE  Honest(gh', Goto(j, step))
  BY <1>1, <1>2, HonestGoto DEF Carrying
<1>7. /\ Honest(gh', Call(j, "disarm", "release"))
      /\ Honest(gh', Call(j, "fetch", "idle"))
  BY <1>1, <1>2, HonestCall DEF Carrying
<1>8. CASE AutoMergeDone(t) \/ MergeCall(t)
  <2>1. gh \in [PRs -> OnGitHub] /\ j.pr \in PRs
    BY <1>8, Parts DEF AutoMergeDone, MergeCall, At, DataOK, Good, JobOK, OnOnePR, About
  <2>2. CASE gh' = MergedOnGitHub(j.pr)
    <3>1. gh'[j.pr].state = "MERGED"
      BY <2>1, <2>2 DEF MergedOnGitHub, OnGitHub
    <3>2. Honest(gh', Call(j, "disarm", "record"))
      BY <1>1, <1>2, <2>1, <3>1, HonestCall DEF Carrying
    <3>3. Honest(gh', Goto(j, "record"))
      <4> DEFINE k == [j EXCEPT !.at = "record"]
      <4>1. /\ Goto(j, "record") = k
            /\ k.copy = j.copy /\ k.seen = j.seen /\ k.found = j.found
            /\ k.at = "record" /\ k.back = j.back /\ k.pr = j.pr
        BY <1>1 DEF Goto, Job
      <4> HIDE DEF k
      <4>2. Honest(gh', k)
        BY <1>1, <1>2, <2>1, <3>1, <4>1 DEF Honest, Carrying
      <4> QED
        BY <4>1, <4>2
    <3> QED
      BY <1>5, <1>6, <1>7, <1>8, <3>2, <3>3 DEF AutoMergeDone, MergeCall
  <2>3. CASE gh' # MergedOnGitHub(j.pr)
    BY <1>5, <1>6, <1>8, <2>3 DEF AutoMergeDone, MergeCall
  <2> QED
    BY <2>2, <2>3
<1>9. CASE AutoMergeRetryable(t) \/ AutoMergeRefused(t)
  BY <1>5, <1>6, <1>7, <1>9 DEF AutoMergeRetryable, AutoMergeRefused
<1>10. CASE TurnOff(t)
  BY <1>5, <1>6, <1>10 DEF TurnOff, TurnOffDone, TurnOffFails, TurnedOffOnGitHub
<1>11. CASE SetAutoMerge(t, "turnOn", TRUE) \/ SetAutoMerge(t, "off", FALSE)
  BY <1>5, <1>7, <1>11 DEF SetAutoMerge
<1> QED
  BY <1>8, <1>9, <1>10, <1>11 DEF Calls

LEMMA DisarmHonest ==
  ASSUME IInv, HInv, NEW t \in Threads, Disarm(t)
  PROVE  HInv'
<1>1. Honest(gh, Return(job[t]))
  BY JobNow, HonestReturn
<1>2. Known(gh', waitedOn', view', spawned')
  BY KnownRebuilt DEF Disarm
<1>3. gh' = gh /\ Grows(gh, gh')
  BY DEF Disarm, Grows
<1> QED
  BY <1>1, <1>2, <1>3, HonestStep DEF Disarm

LEMMA RecordHonest ==
  ASSUME IInv, HInv, NEW t \in Threads, Record(t)
  PROVE  HInv'
<1> DEFINE j == job[t]
           k == IF j.fn = "autoMerge" THEN Call(j, "fetch", "waiting") ELSE Goto(j, "waiting")
<1>1. /\ j \in Job /\ j.at = "record" /\ Honest(gh, j) /\ j.back \notin {"record", "scan"}
      /\ j.pr \in PRs /\ gh[j.pr].state = "MERGED"
  BY JobNow DEF Record, At, Honest
<1>2. Honest(gh, Call(j, "fetch", "waiting")) /\ Honest(gh, Goto(j, "waiting"))
  BY <1>1, HonestCall, HonestGoto DEF Carrying
<1>3. Honest(gh, k) /\ job' = [job EXCEPT ![t] = k]
  BY <1>2 DEF Record
<1>4. \A q \in PRs : waitedOn'[q] = "MERGED" => gh[q].state = "MERGED"
  <2>1. \A q \in PRs : waitedOn'[q] = waitedOn[q] \/ q = j.pr
    BY Parts DEF Record, DataOK
  <2> QED
    BY <1>1, <2>1 DEF HInv, Known
<1>5. Known(gh', waitedOn', view', spawned') /\ gh' = gh /\ Grows(gh, gh')
  BY <1>4 DEF Record, HInv, Known, loads, Grows
<1> HIDE DEF k
<1> QED
  BY <1>3, <1>5, HonestStep

LEMMA ReadWaitingHonest ==
  ASSUME IInv, HInv, NEW t \in Threads, ReadWaiting(t)
  PROVE  HInv'
<1> DEFINE j == job[t]
           rs == {RepoOf[p] : p \in RequiredBy(deps, j.pr)}
           k == [j EXCEPT !.at = "others", !.rest = rs]
<1>1. j \in Job /\ Honest(gh, j) /\ j.at = "waiting" /\ j.back \notin {"record", "scan"}
  BY JobNow DEF ReadWaiting, At
<1>2. Honest(gh, Goto(j, "release"))
  BY <1>1, HonestGoto DEF Carrying
<1>3. Honest(gh, k)
  <2>1. /\ k.copy = j.copy /\ k.seen = j.seen /\ k.found = j.found
        /\ k.at = "others" /\ k.back = j.back
    <3> HIDE DEF rs
    <3> QED
      BY <1>1 DEF Job
  <2> HIDE DEF k
  <2> QED
    BY <1>1, <2>1, HonestOn DEF Carrying
<1>4. job' = [job EXCEPT ![t] = Goto(j, "release")] \/ job' = [job EXCEPT ![t] = k]
  BY DEF ReadWaiting
<1> HIDE DEF k
<1> QED
  BY <1>2, <1>3, <1>4, HonestJobStep DEF ReadWaiting, loads

LEMMA RefreshNextHonest ==
  ASSUME IInv, HInv, NEW t \in Threads, NEW r \in job[t].rest, RefreshNext(t, r)
  PROVE  HInv'
<1> DEFINE j == job[t]
           next == [j EXCEPT !.rest = j.rest \ {r}]
           back == IF next.rest # {} THEN "others"
                   ELSE IF next.fn = "PollOnce" THEN "idle" ELSE "release"
           fetched == WithFetch(next, r)
           k == [fetched EXCEPT !.back = back]
<1>1. /\ j \in Job /\ Honest(gh, j) /\ j.at = "others" /\ j.back \notin {"record", "scan"}
      /\ r \in Repos
  BY JobNow DEF RefreshNext, At, Job
<1>2. /\ next \in Job /\ next.copy = j.copy /\ next.seen = j.seen /\ next.found = j.found
      /\ next.at = "others" /\ next.back = j.back
  BY <1>1 DEF Job
<1>3. back \in {"others", "idle", "release"}
  OBVIOUS
<1>4. \/ job' = [job EXCEPT ![t] = k]
      \/ job' = [job EXCEPT ![t] = Goto(next, back)]
  BY DEF RefreshNext
<1> HIDE DEF next, back
<1>5. Honest(gh, next)
  BY <1>1, <1>2, HonestOn DEF Carrying
<1>6. Honest(gh, Goto(next, back))
  BY <1>1, <1>2, <1>3, <1>5, HonestGoto DEF Carrying
<1>7. Honest(gh, k)
  <2>1. Honest(gh, fetched) /\ fetched \in Job /\ fetched.at = "apply"
    BY <1>1, <1>2, <1>5, Parts, HonestFetch, WithFetchJob
  <2> HIDE DEF fetched
  <2>2. /\ k.copy = fetched.copy /\ k.seen = fetched.seen /\ k.found = fetched.found
        /\ k.at = "apply" /\ k.back = back
    BY <2>1 DEF Job
  <2> HIDE DEF k
  <2> QED
    BY <1>3, <2>1, <2>2, HonestOn DEF Carrying
<1> HIDE DEF k
<1> QED
  BY <1>4, <1>6, <1>7, HonestJobStep DEF RefreshNext, loads

LEMMA ReleaseHonest ==
  ASSUME IInv, HInv, NEW t \in Threads, Release(t)
  PROVE  HInv'
<1> DEFINE j == job[t]
           called == Call(j, "fetch", "idle")
           k == [called EXCEPT !.claim = FALSE]
<1>1. j \in Job /\ Honest(gh, j)
  BY JobNow
<1>2. Honest(gh, called) /\ called \in Job /\ called.at = "fetch" /\ called.back = "idle"
  <2>1. "fetch" \in Steps /\ "idle" \in Returns
    BY DEF Steps, Returns
  <2> QED
    BY <1>1, <2>1, CallJob, HonestCall DEF Carrying
<1> HIDE DEF called
<1>3. /\ k.copy = called.copy /\ k.seen = called.seen /\ k.found = called.found
      /\ k.at = "fetch" /\ k.back = "idle"
  BY <1>2 DEF Job
<1>4. job' = [job EXCEPT ![t] = k] \/ job' = [job EXCEPT ![t] = Idle]
  BY DEF Release, called
<1> HIDE DEF k
<1>5. Honest(gh, k)
  BY <1>2, <1>3, HonestOn DEF Carrying
<1> QED
  BY <1>4, <1>5, HonestIdle, HonestJobStep DEF Release, loads

LEMMA ArmHonest ==
  ASSUME IInv, HInv, NEW t \in Threads, Arm(t)
  PROVE  HInv'
<1> DEFINE j == job[t]
           k == IF j.fn = "hold" THEN Call(j, "fetch", "unhold") ELSE Goto(j, "copy")
<1>1. j \in Job /\ Honest(gh, j) /\ j.back \notin {"record", "scan"}
  BY JobNow DEF Arm, At
<1>2. Honest(gh, Call(j, "fetch", "unhold")) /\ Honest(gh, Goto(j, "copy"))
  BY <1>1, HonestCall, HonestGoto DEF Carrying
<1>3. Honest(gh, k) /\ job' = [job EXCEPT ![t] = k] /\ gh' = gh /\ Grows(gh, gh')
  BY <1>2 DEF Arm, Grows
<1>4. Known(gh', waitedOn', view', spawned')
  BY KnownRebuilt DEF Arm
<1> HIDE DEF k
<1> QED
  BY <1>3, <1>4, HonestStep

LEMMA UnholdHonest ==
  ASSUME IInv, HInv, NEW t \in Threads, Unhold(t)
  PROVE  HInv'
BY HonestIdle, HonestJobStep DEF Unhold, loads

LEMMA ClaimMergeHonest ==
  ASSUME IInv, HInv, NEW t \in Threads, ClaimMerge(t)
  PROVE  HInv'
<1> DEFINE j == job[t]
           k == [j EXCEPT !.at = "merge", !.claim = j.pr \notin merging]
<1>1. j \in Job /\ Honest(gh, j) /\ j.back \notin {"record", "scan"}
  BY JobNow DEF ClaimMerge, At
<1>2. /\ k.copy = j.copy /\ k.seen = j.seen /\ k.found = j.found
      /\ k.at = "merge" /\ k.back = j.back
  BY <1>1 DEF Job
<1>3. job' = [job EXCEPT ![t] = k]
  BY DEF ClaimMerge
<1> HIDE DEF k
<1>4. Honest(gh, k)
  BY <1>1, <1>2, HonestOn DEF Carrying
<1> QED
  BY <1>3, <1>4, HonestJobStep DEF ClaimMerge, loads

LEMMA CopyRepoHonest ==
  ASSUME IInv, HInv, NEW t \in Threads, CopyRepo(t)
  PROVE  HInv'
<1> DEFINE j == job[t]
           r == RepoOf[j.pr]
           judging == Judging(j, r, view, r \in cut)
           k == [judging EXCEPT !.at = "armed"]
<1>1. j \in Job /\ Honest(gh, j) /\ j.back \notin {"record", "scan"}
  BY JobNow DEF CopyRepo, At
<1>2. view \in View /\ \A p \in PRs : Real(gh, view[p])
  BY Parts DEF DataOK, HInv, Known
<1>3. /\ judging \in Job /\ judging.back = j.back
      /\ judging.seen = j.seen /\ judging.found = j.found
  <2>1. judging \in Job /\ judging.back = j.back
    BY <1>1, <1>2, JudgingJob
  <2> QED
    BY <1>1, <2>1 DEF Judging, Job
<1>4. /\ k.copy = judging.copy /\ k.seen = j.seen /\ k.found = j.found
      /\ k.at = "armed" /\ k.back = j.back
  <2> HIDE DEF judging
  <2> QED
    BY <1>3 DEF Job
<1>5. job' = [job EXCEPT ![t] = k] \/ job' = [job EXCEPT ![t] = Idle]
  BY DEF CopyRepo
<1> HIDE DEF k
<1>6. Honest(gh, k)
  BY <1>1, <1>2, <1>4, HonestJudging DEF Carrying
<1> QED
  BY <1>5, <1>6, HonestIdle, HonestJobStep DEF CopyRepo, loads

LEMMA CommandsHonest ==
  ASSUME IInv, HInv, NEW t \in Threads, NEW p \in PRs,
         \/ ArmMerge(t, p) \/ ManualMerge(t, p) \/ AutoMergeOn(t, p) \/ AutoMergeOff(t, p)
         \/ \E q \in PRs : AddDependency(t, p, q)
  PROVE  HInv'
<1>1. ASSUME NEW kind, NEW k, Command(kind, t, p, k), Honest(gh, k)
      PROVE  HInv'
  BY <1>1, HonestJobStep DEF Command, loads
<1>2. CASE ArmMerge(t, p)
  <2> DEFINE k == [Idle EXCEPT !.fn = "arm", !.at = "arm", !.pr = p]
  <2>1 Honest(gh, k)
    <3>1. /\ k.copy = NoView /\ k.seen = None /\ k.found = NotFound
          /\ k.at \in {"arm", "claim"} /\ k.back = "idle"
      BY DEF Idle
    <3> HIDE DEF k
    <3> QED
      BY <3>1, HonestStart
  <2> QED
    BY <1>1, <1>2, <2>1 DEF ArmMerge
<1>3. CASE ManualMerge(t, p)
  <2>1. PICK pin : Command("merge", t, p, [Idle EXCEPT !.fn = "merge", !.at = "claim",
                                                       !.pr = p, !.pin = pin])
    BY <1>3 DEF ManualMerge
  <2> DEFINE k == [Idle EXCEPT !.fn = "merge", !.at = "claim", !.pr = p, !.pin = pin]
  <2>2 Honest(gh, k)
    <3>1. /\ k.copy = NoView /\ k.seen = None /\ k.found = NotFound
          /\ k.at \in {"arm", "claim"} /\ k.back = "idle"
      BY DEF Idle
    <3> HIDE DEF k
    <3> QED
      BY <3>1, HonestStart
  <2> QED
    BY <1>1, <2>1, <2>2
<1>4. CASE AutoMergeOn(t, p) \/ AutoMergeOff(t, p)
  <2>1. ASSUME NEW step \in {"turnOn", "off"}
        PROVE  Honest(gh, [Idle EXCEPT !.fn = "setAutoMerge", !.at = step, !.pr = p])
    <3> DEFINE k == [Idle EXCEPT !.fn = "setAutoMerge", !.at = step, !.pr = p]
    <3>1. /\ k.copy = NoView /\ k.seen = None /\ k.found = NotFound
          /\ k.at = step /\ k.back = "idle"
      BY DEF Idle
    <3> HIDE DEF k
    <3>2. Honest(gh, k)
      BY <3>1, HonestStart
    <3> QED
      BY <3>2 DEF k
  <2> QED
    BY <1>1, <1>4, <2>1 DEF AutoMergeOn, AutoMergeOff
<1>5. ASSUME NEW q \in PRs, AddDependency(t, p, q)
      PROVE  HInv'
  <2> DEFINE back == IF view[p].auto THEN "scan" ELSE "idle"
             k == [Idle EXCEPT !.fn = "AddDependency", !.at = "add", !.pr = p, !.peer = q,
                               !.repo = RepoOf[p], !.back = back]
  <2>1. back \in {"scan", "idle"}
    OBVIOUS
  <2>2. Honest(gh, k)
    <3> HIDE DEF back
    <3>1. k.copy = NoView /\ k.seen = None /\ k.found = NotFound /\ k.at = "add"
          /\ k.back = back
      BY DEF Idle
    <3> HIDE DEF k
    <3> QED
      BY <2>1, <3>1, HonestStart
  <2> QED
    BY <1>1, <1>5, <2>2 DEF AddDependency
<1> QED
  BY <1>2, <1>3, <1>4, <1>5

(* What is added to wait on was open, so nothing new is taken for merged.   *)
LEMMA AddEdgeHonest ==
  ASSUME IInv, HInv, NEW t \in Threads, AddEdge(t)
  PROVE  HInv'
<1> DEFINE p == job[t].pr
           q == job[t].peer
           G == Add(deps, p, q)
           known == [waitedOn EXCEPT ![q] = "OPEN"]
           rs == {RepoOf[p], RepoOf[q]}
<1>1. \A r \in PRs : known[r] = "MERGED" => gh[r].state = "MERGED"
  BY Parts DEF HInv, Known, DataOK
<1>2. /\ Honest(gh, Return(job[t])) /\ Honest(gh, Idle)
      /\ gh' = gh /\ Grows(gh, gh') /\ spawned' = spawned
  BY JobNow, HonestReturn, HonestIdle DEF AddEdge, Grows
<1>3. CASE CanAdd(deps, p, q)
  <2>1. waitedOn' = known /\ view' = Rebuilt(rs, G, known)
        /\ job' = [job EXCEPT ![t] = Return(job[t])]
    BY <1>3 DEF AddEdge
  <2>2. \A r \in PRs : Real(gh, Rebuilt(rs, G, known)[r])
    <3> HIDE DEF known, rs, G
    <3> QED
      BY <1>1, Parts, RebuiltReal DEF HInv, Known, DataOK
  <2> HIDE DEF known, rs, G
  <2>3. Known(gh', waitedOn', view', spawned')
    BY <1>1, <1>2, <2>1, <2>2 DEF HInv, Known
  <2> QED
    BY <1>2, <2>1, <2>3, HonestStep
<1>4. CASE ~ CanAdd(deps, p, q)
  <2>1. job' = [job EXCEPT ![t] = Idle] /\ UNCHANGED <<waitedOn, view>>
    BY <1>4 DEF AddEdge
  <2> QED
    BY <1>2, <2>1, HonestJobStep
<1> QED
  BY <1>3, <1>4

LEMMA RemoveDependencyHonest ==
  ASSUME IInv, HInv, NEW t \in Threads, NEW p \in PRs, NEW q \in PRs,
         RemoveDependency(t, p, q)
  PROVE  HInv'
<1> DEFINE k == [Idle EXCEPT !.fn = "RemoveDependency", !.at = "copy", !.pr = p]
<1>1. Honest(gh, k)
  <2>1. /\ k.copy = NoView /\ k.seen = None /\ k.found = NotFound
        /\ k.at = "copy" /\ k.back = "idle"
    BY DEF Idle
  <2> HIDE DEF k
  <2> QED
    BY <2>1, HonestStart
<1>2. Known(gh', waitedOn', view', spawned')
  BY KnownRebuilt DEF RemoveDependency
<1>3. job' = [job EXCEPT ![t] = k] /\ gh' = gh /\ Grows(gh, gh')
  BY DEF RemoveDependency, Grows
<1> HIDE DEF k
<1> QED
  BY <1>1, <1>2, <1>3, HonestStep

LEMMA RemovalsHonest ==
  ASSUME IInv, HInv, (\E p \in PRs : DisarmMerge(p)) \/ (\E r \in Repos : RemoveRepo(r))
  PROVE  HInv'
<1>1. ASSUME NEW p \in PRs, DisarmMerge(p)
      PROVE  HInv'
  <2>1. Known(gh', waitedOn', view', spawned')
    BY <1>1, KnownRebuilt DEF DisarmMerge
  <2> QED
    BY <1>1, <2>1, HonestNoStep DEF DisarmMerge, Grows
<1>2. ASSUME NEW r \in Repos, RemoveRepo(r)
      PROVE  HInv'
  <2>1. \A p \in PRs : view'[p] = view[p] \/ view'[p] = None
    BY <1>2 DEF RemoveRepo
  <2>2. Known(gh', waitedOn', view', spawned')
    BY <1>2, <2>1 DEF RemoveRepo, HInv, Known, Real
  <2> QED
    BY <1>2, <2>2, HonestNoStep DEF RemoveRepo, Grows
<1> QED
  BY <1>1, <1>2

LEMMA AddRepoHonest ==
  ASSUME IInv, HInv, NEW t \in Threads, NEW r \in Repos, AddRepo(t, r)
  PROVE  HInv'
<1> DEFINE i == [Idle EXCEPT !.fn = "AddRepo"]
           j == WithFetch(i, r)
           k == [j EXCEPT !.at = "addRepo"]
<1>1. i \in Job
  BY IdleGood, ZenonT(40) DEF Good, Idle, Job, Functions
<1>2. Honest(gh, i) /\ i.back = "idle"
  BY HonestStart DEF Idle
<1>3. job' = [job EXCEPT ![t] = k]
  BY DEF AddRepo
<1> HIDE DEF i
<1>4. Honest(gh, j) /\ j \in Job /\ j.back = "idle"
  BY <1>1, <1>2, Parts, HonestFetch, WithFetchJob
<1> HIDE DEF j
<1>5. /\ k.copy = j.copy /\ k.seen = j.seen /\ k.found = j.found
      /\ k.at = "addRepo" /\ k.back = "idle"
  BY <1>4 DEF Job
<1> HIDE DEF k
<1>6. Honest(gh, k)
  BY <1>4, <1>5, HonestOn DEF Carrying
<1> QED
  BY <1>3, <1>6, HonestJobStep DEF AddRepo, loads

LEMMA AddFetchedHonest ==
  ASSUME IInv, HInv, NEW t \in Threads, AddFetched(t)
  PROVE  HInv'
<1>1. Honest(gh, Goto(job[t], "apply"))
  BY JobNow, HonestGoto DEF AddFetched, At, Carrying
<1> QED
  BY <1>1, HonestIdle, HonestJobStep DEF AddFetched, loads

LEMMA LookupHonest ==
  ASSUME IInv, HInv, NEW t \in Threads, NEW fn, NEW rest, Lookup(t, fn, rest)
  PROVE  HInv'
<1>1. PICK failed : job' = [job EXCEPT ![t] =
        [Idle EXCEPT !.fn = fn, !.at = "store", !.rest = rest,
                     !.found = [q \in PRs |-> IF q \notin Targets(deps) THEN "not wanted"
                                               ELSE IF RepoOf[q] \in failed THEN "failed"
                                               ELSE gh[q].state]]]
  BY DEF Lookup
<1> DEFINE found == [q \in PRs |-> IF q \notin Targets(deps) THEN "not wanted"
                                   ELSE IF RepoOf[q] \in failed THEN "failed"
                                   ELSE gh[q].state]
           k == [Idle EXCEPT !.fn = fn, !.at = "store", !.rest = rest, !.found = found]
<1>2. job' = [job EXCEPT ![t] = k]
  BY <1>1
<1>3. \A q \in PRs : found[q] = "MERGED" => gh[q].state = "MERGED"
  OBVIOUS
<1> HIDE DEF found
<1>4. /\ k.copy = NoView /\ k.seen = None /\ k.found = found
      /\ k.at = "store" /\ k.back = "idle"
  BY DEF Idle
<1> HIDE DEF k
<1>5. Honest(gh, k)
  BY <1>3, <1>4 DEF Honest, NoView, Real, Carrying
<1> QED
  BY <1>2, <1>5, HonestJobStep DEF Lookup, loads

(* A lookup's answer may be old; a merge in it is still a merge.            *)
LEMMA StoreHonest ==
  ASSUME IInv, HInv, NEW t \in Threads, Store(t)
  PROVE  HInv'
<1> DEFINE j == job[t]
           step == IF j.fn = "PollOnce" THEN "others" ELSE "rebuild"
           k == [j EXCEPT !.found = NotFound, !.at = step]
<1>1. j \in Job /\ Honest(gh, j) /\ j.back \notin {"record", "scan"}
  BY JobNow DEF Store, At
<1>2. \A q \in PRs : waitedOn'[q] = "MERGED" =>
                       j.found[q] = "MERGED" \/ waitedOn[q] = "MERGED"
  <2>1. waitedOn' = [q \in PRs |-> CASE j.found[q] = "not wanted" -> None
                                    [] j.found[q] = "failed" -> waitedOn[q]
                                    [] OTHER -> j.found[q]]
    BY DEF Store
  <2> QED
    BY <2>1, ConstantsAssumption
<1>3. \A q \in PRs : waitedOn'[q] = "MERGED" => gh[q].state = "MERGED"
  BY <1>1, <1>2 DEF Honest, HInv, Known
<1>4. Known(gh', waitedOn', view', spawned') /\ gh' = gh /\ Grows(gh, gh')
  BY <1>3 DEF Store, HInv, Known, loads, Grows
<1>5. job' = [job EXCEPT ![t] = k]
  BY Parts DEF Store
<1>6. /\ k.copy = j.copy /\ k.seen = j.seen /\ k.found = NotFound
      /\ k.at = step /\ k.back = j.back
  <2> HIDE DEF step
  <2> QED
    BY <1>1 DEF Job
<1>7. step \in {"others", "rebuild"}
  OBVIOUS
<1> HIDE DEF k, step
<1>8. Honest(gh, k)
  BY <1>1, <1>6, <1>7 DEF Honest, NotFound, Carrying
<1> QED
  BY <1>4, <1>5, <1>8, HonestStep

LEMMA RebuildHonest ==
  ASSUME IInv, HInv, NEW t \in Threads, Rebuild(t)
  PROVE  HInv'
<1> DEFINE j == job[t]
           rs == {RepoOf[e[1]] : e \in deps}
           k == [j EXCEPT !.at = "judgeEach", !.rest = rs]
<1>1. j \in Job /\ Honest(gh, j) /\ j.back \notin {"record", "scan"}
  BY JobNow DEF Rebuild, At
<1>2. job' = [job EXCEPT ![t] = k] \/ job' = [job EXCEPT ![t] = Idle]
  BY DEF Rebuild
<1>3. Known(gh', waitedOn', view', spawned') /\ gh' = gh /\ Grows(gh, gh')
  BY KnownRebuilt DEF Rebuild, Grows
<1> HIDE DEF rs
<1>4. /\ k.copy = j.copy /\ k.seen = j.seen /\ k.found = j.found
      /\ k.at = "judgeEach" /\ k.back = j.back
  BY <1>1 DEF Job
<1> HIDE DEF k
<1>5. Honest(gh, k)
  BY <1>1, <1>4, HonestOn DEF Carrying
<1> QED
  BY <1>2, <1>3, <1>5, HonestIdle, HonestStep

LEMMA JudgeNextHonest ==
  ASSUME IInv, HInv, NEW t \in Threads, NEW r \in job[t].rest, JudgeNext(t, r)
  PROVE  HInv'
<1> DEFINE j == job[t]
           next == [j EXCEPT !.rest = j.rest \ {r}]
           back == IF next.rest = {} THEN "idle" ELSE "judgeEach"
           judging == Judging(next, r, view, r \in cut)
           k == Call(judging, "armed", back)
<1>1. j \in Job /\ Honest(gh, j) /\ j.back \notin {"record", "scan"}
      /\ j.at = "judgeEach"
  BY JobNow DEF JudgeNext, At
<1>2. /\ next \in Job /\ next.copy = j.copy /\ next.seen = j.seen /\ next.found = j.found
      /\ next.at = "judgeEach" /\ next.back = j.back
  BY <1>1 DEF Job
<1>3. back \in {"idle", "judgeEach"}
  OBVIOUS
<1>4. job' = [job EXCEPT ![t] = k] \/ job' = [job EXCEPT ![t] = Goto(next, back)]
  BY DEF JudgeNext
<1> HIDE DEF next, back
<1>5. Honest(gh, next)
  BY <1>1, <1>2, HonestOn DEF Carrying
<1>6. Honest(gh, Goto(next, back))
  BY <1>1, <1>2, <1>3, <1>5, HonestGoto DEF Carrying
<1>7. view \in View /\ \A p \in PRs : Real(gh, view[p])
  BY Parts DEF DataOK, HInv, Known
<1>8. judging \in Job /\ judging.seen = next.seen /\ judging.found = next.found
  <2>1. judging \in Job
    BY <1>2, <1>7, JudgingJob
  <2> QED
    BY <1>2, <2>1 DEF Judging, Job
<1>9. /\ k.copy = judging.copy /\ k.seen = next.seen /\ k.found = next.found
      /\ k.at = "armed" /\ k.back = back
  <2> HIDE DEF judging
  <2> QED
    BY <1>8 DEF Call, Job
<1> HIDE DEF k
<1>10. Honest(gh, k)
  BY <1>2, <1>3, <1>5, <1>7, <1>9, HonestJudging DEF Carrying
<1> QED
  BY <1>4, <1>6, <1>10, HonestJobStep DEF JudgeNext, loads

LEMMA CrashHonest ==
  ASSUME IInv, HInv, Crash
  PROVE  HInv'
<1>1. \A t \in Threads : job'[t] = Idle
  BY DEF Crash
<1>2. \A p \in PRs : NoView[p] = None /\ waitedOn'[p] = None /\ view'[p] = None
  BY DEF Crash, NoView
<1>3. Known(gh', waitedOn', view', spawned')
  BY <1>2, ConstantsAssumption DEF Crash, Known, Real
<1>4. \A t \in Threads : Honest(gh', job'[t])
  BY <1>1, HonestIdle
<1> QED
  BY <1>3, <1>4 DEF HInv, Known, Honest, Real

----------------------------------------------------------------------------
LEMMA InitHonest == Init => HInv
<1> SUFFICES ASSUME Init
             PROVE  HInv
  OBVIOUS
<1>1. \A t \in Threads : job[t] = Idle
  BY DEF Init
<1>2. \A p \in PRs : waitedOn[p] = None /\ view[p] = None
  BY DEF Init, NoView
<1> QED
  BY <1>1, <1>2, HonestIdle, ConstantsAssumption DEF Init, HInv, Known, Real

LEMMA StepsHonest ==
  ASSUME IInv, HInv, Grows(gh, gh'), NEW t \in Threads, Step(t)
  PROVE  HInv'
BY FetchHonest, ApplyHonest, ScanHonest, HoldNextHonest, ReadArmedHonest, JudgeHonest,
   ApplyUnmonitoredHonest, CallsHonest, DisarmHonest, RecordHonest, ReadWaitingHonest,
   RefreshNextHonest, JudgeNextHonest, ReleaseHonest, ArmHonest, UnholdHonest,
   ClaimMergeHonest, CopyRepoHonest, AddEdgeHonest, AddFetchedHonest, StoreHonest,
   RebuildHonest
DEF Step, Calls

LEMMA StartsHonest ==
  ASSUME IInv, HInv, NEW t \in Threads, Start(t)
  PROVE  HInv'
<1>1. CASE PollOnce(t) \/ RefreshDependencyStates(t)
  BY <1>1, LookupHonest DEF PollOnce, RefreshDependencyStates
<1> QED
  BY <1>1, PollHonest, AddRepoHonest, CommandsHonest, RemoveDependencyHonest DEF Start

LEMMA NextHonest ==
  ASSUME IInv, HInv, [Next]_vars
  PROVE  HInv'
<1>1. Grows(gh, gh')
  BY MergedStays
<1>2. CASE UNCHANGED vars
  BY <1>1, <1>2, KnownKept, HonestNoStep DEF vars, loads
<1>3. ASSUME NEW p \in PRs, EditOnGitHub(p) \/ NativeMerge(p)
      PROVE  HInv'
  <2>1. UNCHANGED <<job, waitedOn, view, spawned>>
    BY <1>3 DEF EditOnGitHub, Push, Recheck, Close, Reopen, MergeElsewhere,
       ToggleAutoElsewhere, GitHubEdit, NativeMerge, loads
  <2> QED
    BY <1>1, <2>1, KnownKept, HonestNoStep
<1> QED
  BY <1>1, <1>2, <1>3, RemovalsHonest, StepsHonest, StartsHonest, BeginHonest, CrashHonest
  DEF Next

(* What jobs and the monitor know of GitHub holds in every behaviour.       *)
THEOREM MergeKnowledge == Spec => [](IInv /\ HInv)
<1>1. Init => IInv /\ HInv
  BY InitInv, InitHonest
<1>2. IInv /\ HInv /\ [Next]_vars => (IInv /\ HInv)'
  BY NextInv, NextHonest
<1> QED
  BY <1>1, <1>2, PTL DEF Spec

(* What pr-mon takes for merged, anywhere, has merged.                      *)
THEOREM MergesKnownAreReal == Spec => []KnownMergesAreReal
<1>1. HInv => KnownMergesAreReal
  BY DEF HInv, Known, Honest, Real, KnownMergesAreReal, MergedFor
<1> QED
  BY <1>1, MergeKnowledge, PTL

(* autoMerge merges the commit that was judged, and only with all the PR    *)
(* waited on merged.                                                        *)
LEMMA StepJustified ==
  ASSUME IInv, HInv, [Next]_vars, NEW t \in Threads, Merges(t), At(t, "autoMerge")
  PROVE  LET entry == job[t].seen
         IN /\ gh[job[t].pr].head = entry.head
            /\ entry.ready
            /\ \A q \in entry.waitsOn : gh[q].state = "MERGED"
<1> DEFINE entry == job[t].seen
<1>1. /\ entry \in Entry /\ StrictlyReady(entry) /\ job[t].pin = entry.head
      /\ Real(gh, entry)
  BY DEF HInv, Honest, At
<1>2. PICK u \in Threads : Calls(u)
  <2>1. ASSUME NEW p \in PRs, EditOnGitHub(p) \/ NativeMerge(p)
        PROVE  job' = job
    BY <2>1 DEF EditOnGitHub, Push, Recheck, Close, Reopen, MergeElsewhere,
       ToggleAutoElsewhere, GitHubEdit, NativeMerge
  <2> QED
    BY <2>1, GitHubChanges DEF Merges
<1>3. u = t
  <2>1. PICK k : job' = [job EXCEPT ![u] = k]
    BY <1>2 DEF Calls, AutoMergeDone, TurnOff, TurnOffDone, TurnOffFails,
       TurnedOffOnGitHub, MergeCall, SetAutoMerge
  <2> QED
    BY <2>1, Parts DEF Merges
<1>4. AutoMergeDone(t)
  BY <1>2, <1>3 DEF Calls, TurnOff, TurnOffDone, TurnOffFails, TurnedOffOnGitHub,
     MergeCall, SetAutoMerge, At
<1>5. entry.head \in Heads /\ None \notin Heads /\ entry # None
  <2>1. entry.head \in Heads
    BY <1>1 DEF Entry
  <2> QED
    BY <1>1, <2>1, ConstantsAssumption, EntryAssumption DEF Heads
<1>6. gh[job[t].pr].head = entry.head
  BY <1>1, <1>4, <1>5 DEF AutoMergeDone, Accepts
<1>7. entry.ready /\ entry.waitsOn \subseteq entry.merged
  BY <1>1 DEF StrictlyReady, Waiting
<1>8. \A q \in entry.merged : gh[q].state = "MERGED"
  BY <1>1, <1>5 DEF Real
<1> QED
  BY <1>6, <1>7, <1>8

THEOREM MergesAreJustified == Spec => AutoMergeJustified
<1>1. IInv /\ HInv /\ [Next]_vars =>
        [\A t \in Threads : Merges(t) /\ At(t, "autoMerge") =>
           LET entry == job[t].seen
           IN /\ gh[job[t].pr].head = entry.head
              /\ entry.ready
              /\ \A q \in entry.waitsOn : gh[q].state = "MERGED"]_vars
  BY StepJustified
<1> QED
  BY <1>1, MergeKnowledge, PTL DEF Spec, AutoMergeJustified

----------------------------------------------------------------------------
(* Promises.  A PR that is no longer open stays so, as long as none is      *)
(* reopened, and a list that was not cut off holds every PR that is open:  *)
(* what it lacks has merged or closed, however old the list is.  So        *)
(* checkArmed disarms as gone only what is gone (GInv), and pr-mon breaks   *)
(* no promise by itself.                                                   *)

StaysShut(g, h) == \A p \in PRs : g[p].state # "OPEN" => h[p].state # "OPEN"

(* The PRs of S that the list lacks are not open.                           *)
Lacks(g, list, S) == \A p \in S : list[p] = None => g[p].state # "OPEN"

(* The steps of checkArmed, and of holdForDependencies before it.           *)
JudgingSteps == {"scan", "hold", "armed", "judge"}

(* What a job has still to visit as gone is gone, and so is what the list   *)
(* it fetched lacks; only hold turns GitHub's auto-merge off to arm.        *)
Outdated(g, j) ==
  /\ Lacks(g, j.copy, j.todo)
  /\ j.at \notin JudgingSteps => j.todo = {}
  /\ j.at \in {"apply", "addRepo"} /\ ~ j.cut => Lacks(g, j.copy, PRsOf(j.repo))
  /\ j.at = "turnOff" => j.fn = "hold"

Whole(g, list, rs) == \A r \in rs : Lacks(g, list, PRsOf(r))

GInv ==
  /\ \A t \in Threads : Outdated(gh, job[t])
  /\ Whole(gh, view, loaded \ cut)

LEMMA NothingReopens ==
  ASSUME IInv, [Next]_vars, "reopen" \notin Inputs
  PROVE  StaysShut(gh, gh')
<1> USE DEF StaysShut
<1>0. gh \in [PRs -> OnGitHub] /\ \A p \in PRs : gh[p] \in OnGitHub
  BY Parts DEF DataOK
<1>1. ASSUME NEW p \in PRs, NativeMerge(p)
      PROVE  StaysShut(gh, gh')
  BY <1>0, <1>1 DEF NativeMerge
<1>2. ASSUME NEW p \in PRs, NEW kind, NEW when, NEW to, GitHubEdit(kind, p, when, to),
             when => gh[p].state = "OPEN"
      PROVE  StaysShut(gh, gh')
  BY <1>0, <1>2 DEF GitHubEdit
<1>3. ASSUME NEW p \in PRs, EditOnGitHub(p)
      PROVE  StaysShut(gh, gh')
  <2>1. ~ Reopen(p)
    BY DEF Reopen, GitHubEdit, Input
  <2> QED
    BY <1>2, <1>3, <2>1 DEF EditOnGitHub, Push, Recheck, Close, MergeElsewhere,
       ToggleAutoElsewhere
<1>4. ASSUME NEW t \in Threads, Calls(t)
      PROVE  StaysShut(gh, gh')
  <2>1. \/ gh' = gh \/ gh' = MergedOnGitHub(job[t].pr)
        \/ \E on \in BOOLEAN : gh' = [gh EXCEPT ![job[t].pr].auto = on]
    BY <1>4 DEF Calls, AutoMergeDone, TurnOff, TurnOffDone, TurnOffFails,
       TurnedOffOnGitHub, MergeCall, SetAutoMerge
  <2> SUFFICES ASSUME NEW p \in PRs, gh[p].state # "OPEN"
               PROVE  gh'[p].state # "OPEN"
    OBVIOUS
  <2>2. ASSUME NEW on \in BOOLEAN, gh' = [gh EXCEPT ![job[t].pr].auto = on]
        PROVE  gh'[p].state # "OPEN"
    BY <1>0, <2>2 DEF OnGitHub
  <2>3. CASE gh' = MergedOnGitHub(job[t].pr)
    BY <1>0, <2>3 DEF MergedOnGitHub, OnGitHub
  <2> QED
    BY <2>1, <2>2, <2>3
<1> QED
  BY <1>1, <1>3, <1>4, GitHubChanges

LEMMA LacksStays ==
  ASSUME NEW g, NEW h, StaysShut(g, h), NEW list, NEW S \in SUBSET PRs, Lacks(g, list, S)
  PROVE  Lacks(h, list, S)
BY DEF Lacks, StaysShut

LEMMA RepoPRs ==
  ASSUME NEW r
  PROVE  PRsOf(r) \in SUBSET PRs
BY DEF PRsOf

LEMMA OutdatedStays ==
  ASSUME NEW g, NEW h, StaysShut(g, h), NEW j \in Job, Outdated(g, j)
  PROVE  Outdated(h, j)
<1>1. j.todo \in SUBSET PRs
  BY DEF Job
<1>2. Lacks(h, j.copy, j.todo)
  BY <1>1, LacksStays DEF Outdated
<1>3. Lacks(g, j.copy, PRsOf(j.repo)) => Lacks(h, j.copy, PRsOf(j.repo))
  BY LacksStays, RepoPRs
<1> QED
  BY <1>2, <1>3 DEF Outdated

LEMMA WholeStays ==
  ASSUME NEW g, NEW h, StaysShut(g, h), NEW list, NEW rs, Whole(g, list, rs)
  PROVE  Whole(h, list, rs)
BY LacksStays, RepoPRs DEF Whole

(* A job that carries no list.                                             *)
LEMMA Empty ==
  ASSUME NEW g, NEW k, k.todo = {}, k.at \notin {"apply", "addRepo", "turnOff"}
  PROVE  Outdated(g, k)
BY DEF Outdated, Lacks

LEMMA EmptyIdle ==
  ASSUME NEW g
  PROVE  Outdated(g, Idle)
<1>1. Idle.todo = {} /\ Idle.at = "idle"
  BY DEF Idle
<1> QED
  BY <1>1, Empty

LEMMA EmptyGoto ==
  ASSUME NEW g, NEW j \in Job, j.todo = {}, NEW step,
         step \notin {"apply", "addRepo", "turnOff"}
  PROVE  Outdated(g, Goto(j, step))
<1>1. CASE step = "idle"
  BY <1>1, EmptyIdle, GotoIdle
<1>2. CASE step # "idle"
  <2> DEFINE k == [j EXCEPT !.at = step]
  <2>1. Goto(j, step) = k /\ k.todo = {} /\ k.at = step
    BY <1>2 DEF Goto, Job
  <2> HIDE DEF k
  <2> QED
    BY <2>1, Empty
<1> QED
  BY <1>1, <1>2

LEMMA EmptyCall ==
  ASSUME NEW g, NEW j \in Job, j.todo = {}, NEW step, NEW back,
         step \notin {"apply", "addRepo", "turnOff"}
  PROVE  Outdated(g, Call(j, step, back))
<1> DEFINE k == Call(j, step, back)
<1>1. k.todo = {} /\ k.at = step
  BY DEF Call, Job
<1> HIDE DEF k
<1>2. Outdated(g, k)
  BY <1>1, Empty
<1> QED
  BY <1>2 DEF k

LEMMA EmptyReturn ==
  ASSUME NEW g, NEW j \in Job, j.todo = {}
  PROVE  Outdated(g, Return(j))
<1> DEFINE k == [j EXCEPT !.back = "idle"]
<1>1. k \in Job /\ k.todo = {}
  BY DEF Job, Returns
<1>2. j.back \notin {"apply", "addRepo", "turnOff"}
  BY DEF Job, Returns
<1> HIDE DEF k
<1>3. Outdated(g, Goto(k, j.back))
  BY <1>1, <1>2, EmptyGoto
<1> QED
  BY <1>3 DEF Return, k

LEMMA EmptyForgotten ==
  ASSUME NEW g, NEW j \in Job
  PROVE  Outdated(g, Return(Forgotten(j)))
<1>1. Forgotten(j) \in Job
  BY ForgottenJob
<1>2. Forgotten(j).todo = {}
  BY DEF Forgotten, Job
<1> QED
  BY <1>1, <1>2, EmptyReturn

(* What a fetch lists, when nothing was cut off, is all that is open.       *)
LEMMA FetchOutdated ==
  ASSUME TypeOK, NEW r, NEW k, k.copy = Fetched(r), k.repo = r,
         k.cut = CutOff(r), k.todo = {},
         k.at \in {"apply", "addRepo"}
  PROVE  Outdated(gh, k)
<1>1. ASSUME ~ k.cut, NEW p \in PRsOf(r), k.copy[p] = None
      PROVE  gh[p].state # "OPEN"
  <2>1. p \in PRs
    BY DEF PRsOf
  <2>2. p \notin Listed(r)
    <3> SUFFICES ASSUME p \in Listed(r)
                 PROVE  FALSE
      OBVIOUS
    <3> DEFINE entry == [head |-> gh[p].head, ready |-> gh[p].ready, auto |-> gh[p].auto,
                         waitsOn |-> {}, merged |-> {}]
    <3>1. Fetched(r)[p] = entry
      BY <2>1 DEF Fetched
    <3>2. gh[p] \in OnGitHub
      BY <2>1 DEF TypeOK
    <3>3. entry \in Entry
      BY <3>2 DEF OnGitHub, Entry
    <3>4. entry # None
      BY <3>3, EntryAssumption
    <3> HIDE DEF entry
    <3> QED
      BY <1>1, <3>1, <3>4
  <2>3. Listed(r) = OpenPRs(r)
    BY <1>1 DEF CutOff
  <2> QED
    BY <2>2, <2>3 DEF OpenPRs
<1> QED
  BY <1>1 DEF Outdated, Lacks, JudgingSteps

(* Nor does what checkArmed takes for gone from a list that says so.        *)
LEMMA JudgingOutdated ==
  ASSUME NEW g, NEW j \in Job, NEW r, NEW list, NEW listCut,
         ~ listCut => Lacks(g, list, PRsOf(r)),
         NEW k, k.copy = Judging(j, r, list, listCut).copy,
         k.todo = Judging(j, r, list, listCut).todo, k.at \in JudgingSteps
  PROVE  Outdated(g, k)
<1> DEFINE ready == {p \in PRsOf(r) : list[p] # None /\ StrictlyReady(list[p])}
           gone  == IF listCut THEN {} ELSE {p \in PRsOf(r) : list[p] = None}
           copy  == [p \in PRs |-> IF p \in ready THEN list[p] ELSE None]
<1>1. k.copy = copy /\ k.todo = ready \cup gone
  BY DEF Judging, Job
<1>2. ASSUME NEW p \in ready \cup gone, copy[p] = None
      PROVE  g[p].state # "OPEN"
  <2>1. p \in PRs
    BY RepoPRs
  <2>2. p \notin ready
    BY <1>2, <2>1
  <2>3. p \in gone
    BY <1>2, <2>2
  <2> HIDE DEF copy, ready
  <2> QED
    BY <2>3 DEF Lacks
<1> HIDE DEF copy, ready, gone
<1> QED
  BY <1>1, <1>2 DEF Outdated, Lacks, JudgingSteps

(* A PR is in the rebuilt repos exactly if it was in them before.           *)
LEMMA RebuiltLacks ==
  ASSUME view \in View, NEW rs, NEW G, NEW known, NEW p \in PRs,
         Rebuilt(rs, G, known)[p] = None
  PROVE  view[p] = None
<1> SUFFICES ASSUME view[p] # None
             PROVE  Rebuilt(rs, G, known)[p] # None
  OBVIOUS
<1>1. view[p] \in Entry
  BY DEF View
<1>2. Decorate(p, view[p], G, known) # None
  BY <1>1, EntryDecorated, EntryAssumption
<1> QED
  BY <1>2 DEF Rebuilt

LEMMA WholeRebuilt ==
  ASSUME IInv, GInv, StaysShut(gh, gh'), NEW rs, NEW G, NEW known,
         view' = Rebuilt(rs, G, known), loaded' = loaded, cut' = cut
  PROVE  Whole(gh', view', loaded' \ cut')
<1>1. Whole(gh', view, loaded \ cut)
  BY WholeStays DEF GInv
<1>2. \A p \in PRs : view'[p] = None => view[p] = None
  BY Parts, RebuiltLacks DEF DataOK
<1> HIDE DEF Rebuilt
<1> QED
  BY <1>1, <1>2, RepoPRs DEF Whole, Lacks

LEMMA WholeKept ==
  ASSUME GInv, StaysShut(gh, gh'), UNCHANGED loads
  PROVE  Whole(gh', view', loaded' \ cut')
BY WholeStays DEF GInv, loads

(* One job goes on with what its list says; the others' lists say what they *)
(* said.                                                                   *)
LEMMA OutdatedStep ==
  ASSUME IInv, GInv, StaysShut(gh, gh'), NEW t \in Threads, NEW k,
         job' = [job EXCEPT ![t] = k], Outdated(gh', k),
         Whole(gh', view', loaded' \ cut')
  PROVE  GInv'
<1>1. \A u \in Threads : Outdated(gh', job[u])
  BY Parts, OutdatedStays DEF GInv
<1>2. \A u \in Threads : Outdated(gh', job'[u])
  BY <1>1, Parts
<1> QED
  BY <1>2 DEF GInv, Whole, Outdated, Lacks

LEMMA OutdatedNoStep ==
  ASSUME IInv, GInv, StaysShut(gh, gh'), UNCHANGED job,
         Whole(gh', view', loaded' \ cut')
  PROVE  GInv'
<1>1. \A u \in Threads : Outdated(gh', job'[u])
  BY Parts, OutdatedStays DEF GInv
<1> QED
  BY <1>1 DEF GInv, Whole, Outdated, Lacks

LEMMA ListNow ==
  ASSUME IInv, GInv, NEW t \in Threads
  PROVE  /\ job[t] \in Job /\ Outdated(gh, job[t]) /\ job[t].todo \in SUBSET PRs
         /\ job[t].at \notin JudgingSteps => job[t].todo = {}
BY Parts DEF GInv, Outdated, Job

(* A repo fetched now.                                                     *)
LEMMA PollOutdated ==
  ASSUME IInv, GInv, StaysShut(gh, gh'), NEW t \in Threads, NEW r \in Repos, Poll(t, r)
  PROVE  GInv'
<1> DEFINE i == [Idle EXCEPT !.fn = "RefreshRepo"]
           k == WithFetch(i, r)
<1>1. i \in Job /\ i.todo = {}
  BY IdleGood, ZenonT(40) DEF Good, Idle, Job, Functions
<1> HIDE DEF i
<1>2. /\ k.copy = Fetched(r) /\ k.cut = CutOff(r) /\ k.repo = r
      /\ k.todo = {} /\ k.at = "apply"
  BY <1>1 DEF WithFetch, Job
<1>3. job' = [job EXCEPT ![t] = k] /\ gh' = gh
  BY DEF Poll, i
<1> HIDE DEF k
<1>4. Outdated(gh', k)
  BY <1>2, <1>3, Parts, FetchOutdated
<1>5. UNCHANGED loads
  BY DEF Poll
<1> QED
  BY <1>3, <1>4, <1>5, WholeKept, OutdatedStep

LEMMA FetchedOutdated ==
  ASSUME IInv, NEW j \in Job, j.todo = {}, NEW r \in Repos,
         NEW k, k.copy = WithFetch(j, r).copy, k.cut = WithFetch(j, r).cut,
         k.repo = WithFetch(j, r).repo, k.todo = WithFetch(j, r).todo,
         k.at \in {"apply", "addRepo"}
  PROVE  Outdated(gh, k)
<1>1. /\ WithFetch(j, r).copy = Fetched(r) /\ WithFetch(j, r).repo = r
      /\ WithFetch(j, r).cut = CutOff(r) /\ WithFetch(j, r).todo = {}
  BY DEF WithFetch, Job
<1> QED
  BY <1>1, Parts, FetchOutdated

LEMMA FetchesOutdated ==
  ASSUME IInv, GInv, StaysShut(gh, gh'), NEW t \in Threads, Fetch(t)
  PROVE  GInv'
<1> DEFINE j == job[t]
           k == WithFetch(j, RepoOf[j.pr])
<1>1. j \in Job /\ j.todo = {}
  BY ListNow DEF Fetch, At, JudgingSteps
<1>2. RepoOf[j.pr] \in Repos
  BY Parts, ConstantsAssumption DEF Fetch, At, Good, JobOK, OnOnePR
<1>3. k.at = "apply"
  BY <1>1, <1>2, Parts, WithFetchJob
<1>4. Outdated(gh, k)
  BY <1>1, <1>2, <1>3, FetchedOutdated
<1>5. Outdated(gh, Return(j))
  BY <1>1, EmptyReturn
<1>6. job' = [job EXCEPT ![t] = k] \/ job' = [job EXCEPT ![t] = Return(j)]
  BY DEF Fetch
<1>7. gh' = gh /\ UNCHANGED loads
  BY DEF Fetch
<1> HIDE DEF k
<1> QED
  BY <1>4, <1>5, <1>6, <1>7, WholeKept, OutdatedStep

LEMMA AddRepoOutdated ==
  ASSUME IInv, GInv, StaysShut(gh, gh'), NEW t \in Threads, NEW r \in Repos, AddRepo(t, r)
  PROVE  GInv'
<1> DEFINE i == [Idle EXCEPT !.fn = "AddRepo"]
           j == WithFetch(i, r)
           k == [j EXCEPT !.at = "addRepo"]
<1>1. i \in Job /\ i.todo = {}
  BY IdleGood, ZenonT(40) DEF Good, Idle, Job, Functions
<1>2. job' = [job EXCEPT ![t] = k] /\ gh' = gh /\ UNCHANGED loads
  BY DEF AddRepo
<1> HIDE DEF i
<1>3. j \in Job
  BY <1>1, Parts, WithFetchJob
<1>4. k.copy = j.copy /\ k.cut = j.cut /\ k.repo = j.repo /\ k.todo = j.todo /\ k.at = "addRepo"
  <2> HIDE DEF j
  <2> QED
    BY <1>3 DEF Job
<1> HIDE DEF k
<1>5. Outdated(gh, k)
  BY <1>1, <1>4, FetchedOutdated
<1> QED
  BY <1>2, <1>5, WholeKept, OutdatedStep

LEMMA RefreshNextOutdated ==
  ASSUME IInv, GInv, StaysShut(gh, gh'), NEW t \in Threads, NEW r \in job[t].rest,
         RefreshNext(t, r)
  PROVE  GInv'
<1> DEFINE j == job[t]
           next == [j EXCEPT !.rest = j.rest \ {r}]
           back == IF next.rest # {} THEN "others"
                   ELSE IF next.fn = "PollOnce" THEN "idle" ELSE "release"
           fetched == WithFetch(next, r)
           k == [fetched EXCEPT !.back = back]
<1>1. j \in Job /\ j.todo = {} /\ r \in Repos
  BY ListNow DEF RefreshNext, At, JudgingSteps, Job
<1>2. next \in Job /\ next.todo = {}
  BY <1>1 DEF Job
<1>3. back \in {"others", "idle", "release"}
  OBVIOUS
<1>4. job' = [job EXCEPT ![t] = k] \/ job' = [job EXCEPT ![t] = Goto(next, back)]
  BY DEF RefreshNext
<1>5. gh' = gh /\ UNCHANGED loads
  BY DEF RefreshNext
<1> HIDE DEF next, back
<1>6. Outdated(gh, Goto(next, back))
  BY <1>2, <1>3, EmptyGoto
<1>7. Outdated(gh, k)
  <2>1. fetched \in Job /\ fetched.at = "apply"
    BY <1>1, <1>2, Parts, WithFetchJob
  <2>2. /\ k.copy = fetched.copy /\ k.cut = fetched.cut /\ k.repo = fetched.repo
        /\ k.todo = fetched.todo /\ k.at = "apply"
    <3> HIDE DEF fetched
    <3> QED
      BY <2>1 DEF Job
  <2> HIDE DEF k
  <2> QED
    BY <1>1, <1>2, <2>2, FetchedOutdated
<1> HIDE DEF k
<1> QED
  BY <1>4, <1>5, <1>6, <1>7, WholeKept, OutdatedStep

(* A repo that was just added is fetched by now.                           *)
LEMMA AddFetchedOutdated ==
  ASSUME IInv, GInv, StaysShut(gh, gh'), NEW t \in Threads, AddFetched(t)
  PROVE  GInv'
<1> DEFINE j == job[t]
           k == [j EXCEPT !.at = "apply"]
<1>1. j \in Job /\ Outdated(gh, j) /\ j.at = "addRepo" /\ j.todo = {}
  BY ListNow DEF AddFetched, At, JudgingSteps
<1>2. job' = [job EXCEPT ![t] = k] \/ job' = [job EXCEPT ![t] = Idle]
  BY DEF AddFetched, Goto
<1>3. /\ k.copy = j.copy /\ k.cut = j.cut /\ k.repo = j.repo /\ k.todo = j.todo
      /\ k.at = "apply"
  BY <1>1 DEF Job
<1>4. gh' = gh /\ UNCHANGED loads
  BY DEF AddFetched
<1> HIDE DEF k
<1>5. Outdated(gh, k)
  BY <1>1, <1>3 DEF Outdated
<1> QED
  BY <1>2, <1>4, <1>5, EmptyIdle, WholeKept, OutdatedStep

(* What apply stores lacks what the list lacks, and it goes on with that.   *)
LEMMA ApplyOutdated ==
  ASSUME IInv, GInv, StaysShut(gh, gh'), NEW t \in Threads, Apply(t)
  PROVE  GInv'
<1> DEFINE j == job[t]
           r == j.repo
           G == Forget(deps, Gone(t))
           decorated == [p \in PRs |-> IF j.copy[p] = None THEN None
                                       ELSE Decorate(p, j.copy[p], G, waitedOn)]
           judging == Judging(j, r, decorated, j.cut)
           k == [judging EXCEPT !.at = "scan", !.repo = r]
<1>1. j \in Job /\ Outdated(gh, j) /\ j.at = "apply"
  BY ListNow DEF Apply, At
<1>2. \A p \in PRs : /\ decorated[p] \in Entry \cup {None}
                     /\ decorated[p] = None => j.copy[p] = None
  <2> SUFFICES ASSUME NEW p \in PRs
               PROVE  /\ decorated[p] \in Entry \cup {None}
                      /\ decorated[p] = None => j.copy[p] = None
    OBVIOUS
  <2>1. j.copy[p] \in Entry \cup {None}
    BY <1>1 DEF Job, View
  <2>2. CASE j.copy[p] = None
    BY <2>2
  <2>3. CASE j.copy[p] # None
    <3>1. decorated[p] = Decorate(p, j.copy[p], G, waitedOn)
      BY <2>3
    <3> HIDE DEF decorated
    <3>2. decorated[p] \in Entry
      BY <2>1, <2>3, <3>1, EntryDecorated
    <3> QED
      BY <3>2, EntryAssumption
  <2> QED
    BY <2>2, <2>3
<1>3. decorated \in View
  BY <1>2 DEF View
<1>4. ~ j.cut => Lacks(gh, decorated, PRsOf(r))
  <2> SUFFICES ASSUME ~ j.cut, NEW p \in PRsOf(r), decorated[p] = None
               PROVE  gh[p].state # "OPEN"
    BY DEF Lacks
  <2>1. j.copy[p] = None
    BY <1>2, RepoPRs
  <2> QED
    BY <1>1, <2>1 DEF Outdated, Lacks
<1>5. job' = [job EXCEPT ![t] = k] /\ gh' = gh
  BY DEF Apply
<1>6. view' = [p \in PRs |-> IF RepoOf[p] = r THEN decorated[p] ELSE view[p]]
  BY DEF Apply
<1>7. loaded' = loaded \cup {r} /\ cut' = IF j.cut THEN cut \cup {r} ELSE cut \ {r}
  BY DEF Apply
<1> HIDE DEF decorated
<1>8. judging \in Job
  BY <1>1, <1>3, JudgingJob
<1>9. k.copy = judging.copy /\ k.todo = judging.todo /\ k.at = "scan"
  <2> HIDE DEF judging
  <2> QED
    BY <1>8 DEF Job
<1> HIDE DEF k
<1>10. Outdated(gh, k)
  BY <1>1, <1>4, <1>9, JudgingOutdated DEF JudgingSteps
<1>11. Whole(gh', view', loaded' \ cut')
  <2> SUFFICES ASSUME NEW s \in loaded' \ cut', NEW p \in PRsOf(s), view'[p] = None
               PROVE  gh[p].state # "OPEN"
    BY <1>5 DEF Whole, Lacks
  <2>1. p \in PRs /\ RepoOf[p] = s
    BY DEF PRsOf
  <2>2. CASE s = r
    <3>1. ~ j.cut /\ decorated[p] = None
      BY <1>6, <1>7, <2>1, <2>2
    <3> QED
      BY <1>4, <2>2, <3>1 DEF Lacks
  <2>3. CASE s # r
    <3>1. s \in loaded \ cut /\ view[p] = None
      BY <1>6, <1>7, <2>1, <2>3
    <3> QED
      BY <3>1 DEF GInv, Whole, Lacks
  <2> QED
    BY <2>2, <2>3
<1> QED
  BY <1>5, <1>10, <1>11, OutdatedStep

LEMMA ApplyUnmonitoredOutdated ==
  ASSUME IInv, GInv, StaysShut(gh, gh'), NEW t \in Threads, ApplyUnmonitored(t)
  PROVE  GInv'
<1>1. Outdated(gh', Return(Forgotten(job[t])))
  BY ListNow, EmptyForgotten
<1> QED
  BY <1>1, WholeKept, OutdatedStep DEF ApplyUnmonitored

(* The same list, at another of its steps.                                 *)
LEMMA OutdatedOn ==
  ASSUME NEW g, NEW j, NEW k, Outdated(g, j), k.copy = j.copy, k.todo = j.todo,
         k.at \in JudgingSteps
  PROVE  Outdated(g, k)
BY DEF Outdated, JudgingSteps

LEMMA OutdatedAfterHolding ==
  ASSUME NEW g, NEW j \in Job, Outdated(g, j)
  PROVE  Outdated(g, AfterHolding(j)) /\ Outdated(g, Goto(j, "hold"))
<1>1. ASSUME NEW step \in {"hold", "armed"}
      PROVE  Outdated(g, Goto(j, step))
  <2> DEFINE k == [j EXCEPT !.at = step]
  <2>1. Goto(j, step) = k
    BY DEF Goto
  <2>2. k.copy = j.copy /\ k.todo = j.todo /\ k.at = step
    BY DEF Job
  <2> HIDE DEF k
  <2> QED
    BY <2>1, <2>2, OutdatedOn DEF JudgingSteps
<1>2. Outdated(g, Goto(j, "idle"))
  BY EmptyIdle, GotoIdle
<1> QED
  BY <1>1, <1>2 DEF AfterHolding

LEMMA ScanOutdated ==
  ASSUME IInv, GInv, StaysShut(gh, gh'), NEW t \in Threads, Scan(t)
  PROVE  GInv'
<1> DEFINE stuck == {p \in PRsOf(job[t].repo) :
                       view[p] # None /\ view[p].auto /\ Waiting(view[p])}
           j == [job[t] EXCEPT !.repo = None, !.stuck = stuck]
           k == IF stuck = {} THEN AfterHolding(j) ELSE Goto(j, "hold")
<1>1. job[t] \in Job /\ Outdated(gh, job[t]) /\ job[t].at = "scan"
  BY ListNow DEF Scan, At
<1>2. stuck \in SUBSET PRs
  BY DEF PRsOf
<1>3. j \in Job /\ j.copy = job[t].copy /\ j.todo = job[t].todo /\ j.at = "scan"
  <2> HIDE DEF stuck
  <2> QED
    BY <1>1, <1>2 DEF Job
<1>4. job' = [job EXCEPT ![t] = k]
  BY DEF Scan
<1> HIDE DEF j, stuck
<1>5. Outdated(gh, j)
  BY <1>1, <1>3, OutdatedOn DEF JudgingSteps
<1>6. Outdated(gh, k) /\ gh' = gh /\ UNCHANGED loads
  BY <1>3, <1>5, OutdatedAfterHolding DEF Scan
<1> HIDE DEF k
<1> QED
  BY <1>4, <1>6, WholeKept, OutdatedStep

LEMMA HoldNextOutdated ==
  ASSUME IInv, GInv, StaysShut(gh, gh'), NEW t \in Threads, NEW p \in job[t].stuck,
         HoldNext(t, p)
  PROVE  GInv'
<1> DEFINE j == [job[t] EXCEPT !.stuck = job[t].stuck \ {p}]
           k == IF j.stuck = {} THEN AfterHolding(j) ELSE j
<1>1. job[t] \in Job /\ Outdated(gh, job[t]) /\ job[t].at = "hold"
  BY ListNow DEF HoldNext, At
<1>2. j \in Job /\ j.copy = job[t].copy /\ j.todo = job[t].todo /\ j.at = "hold"
  BY <1>1 DEF Job
<1>3. job' = [job EXCEPT ![t] = k]
  BY DEF HoldNext
<1> HIDE DEF j
<1>4. Outdated(gh, j)
  BY <1>1, <1>2, OutdatedOn DEF JudgingSteps
<1>5. Outdated(gh, k) /\ gh' = gh /\ UNCHANGED loads
  BY <1>2, <1>4, OutdatedAfterHolding DEF HoldNext
<1> HIDE DEF k
<1> QED
  BY <1>3, <1>5, WholeKept, OutdatedStep

LEMMA ReadArmedOutdated ==
  ASSUME IInv, GInv, StaysShut(gh, gh'), NEW t \in Threads, ReadArmed(t)
  PROVE  GInv'
<1> DEFINE j == job[t]
           some == armed \cap j.todo
           copy == [p \in PRs |-> IF p \in some THEN j.copy[p] ELSE None]
           k == [j EXCEPT !.at = "judge", !.todo = some, !.copy = copy]
<1>1. j \in Job /\ Outdated(gh, j) /\ j.at = "armed" /\ j.todo \in SUBSET PRs
  BY ListNow DEF ReadArmed, At
<1>2. job' = [job EXCEPT ![t] = Return(Forgotten(j))] \/ job' = [job EXCEPT ![t] = k]
  BY DEF ReadArmed
<1>3. gh' = gh /\ UNCHANGED loads
  BY DEF ReadArmed
<1>4. Outdated(gh, Return(Forgotten(j)))
  BY <1>1, EmptyForgotten
<1>5. Outdated(gh, k)
  <2>1. k.copy = copy /\ k.todo = some /\ k.at = "judge"
    <3> HIDE DEF copy, some
    <3> QED
      BY <1>1 DEF Job
  <2>2. \A p \in some : copy[p] = j.copy[p] /\ p \in j.todo
    BY <1>1
  <2> HIDE DEF k, copy, some
  <2> QED
    BY <1>1, <2>1, <2>2 DEF Outdated, Lacks, JudgingSteps
<1> HIDE DEF k
<1> QED
  BY <1>2, <1>3, <1>4, <1>5, WholeKept, OutdatedStep

LEMMA OutdatedJudged ==
  ASSUME NEW g, NEW j \in Job, Outdated(g, j), j.at = "judge", NEW p
  PROVE  Outdated(g, Judged(j, p))
<1>1. CASE j.todo = {p}
  BY <1>1, EmptyForgotten DEF Judged
<1>2. CASE j.todo # {p}
  <2> DEFINE copy == [j.copy EXCEPT ![p] = None]
             todo == j.todo \ {p}
             k == [j EXCEPT !.todo = todo, !.copy = copy]
  <2>1. Judged(j, p) = k
    BY <1>2 DEF Judged, Job
  <2>2. k.copy = copy /\ k.todo = todo /\ k.at = "judge"
    <3> HIDE DEF copy, todo
    <3> QED
      BY DEF Job
  <2>3. \A q \in todo : q \in j.todo /\ copy[q] = j.copy[q]
    BY DEF Job, View
  <2> HIDE DEF k, copy, todo
  <2>4. Outdated(g, k)
    BY <2>2, <2>3 DEF Outdated, Lacks, JudgingSteps
  <2> QED
    BY <2>1, <2>4
<1> QED
  BY <1>1, <1>2

LEMMA JudgeOutdated ==
  ASSUME IInv, GInv, StaysShut(gh, gh'), NEW t \in Threads, Judge(t)
  PROVE  GInv'
<1> DEFINE j == job[t]
<1>1. PICK p \in j.todo : JudgeGone(t, p) \/ JudgeReady(t, p) \/ JudgeNothing(t, p)
  BY DEF Judge
<1>2. j \in Job /\ Outdated(gh, j) /\ j.at = "judge"
  BY <1>1, ListNow DEF JudgeGone, JudgeReady, JudgeNothing, At
<1>3. Outdated(gh, Judged(j, p)) /\ job' = [job EXCEPT ![t] = Judged(j, p)] /\ gh' = gh
  BY <1>1, <1>2, OutdatedJudged DEF JudgeGone, JudgeReady, JudgeNothing
<1>4. Whole(gh', view', loaded' \ cut')
  <2>1. CASE JudgeGone(t, p)
    BY <2>1, WholeRebuilt DEF JudgeGone
  <2>2. CASE JudgeReady(t, p) \/ JudgeNothing(t, p)
    BY <2>2, WholeKept DEF JudgeReady, JudgeNothing
  <2> QED
    BY <1>1, <2>1, <2>2
<1> QED
  BY <1>3, <1>4, OutdatedStep

(* Only hold begins by turning GitHub's auto-merge off.                     *)
LEMMA BeginOutdated ==
  ASSUME IInv, GInv, StaysShut(gh, gh'), NEW t \in Threads, NEW s \in spawned, Begin(t, s)
  PROVE  GInv'
<1> DEFINE k == JobOf(s)
<1>1. job' = [job EXCEPT ![t] = k] /\ UNCHANGED <<gh, loads>>
  BY DEF Begin
<1>2. /\ k.todo = {} /\ k.at \in {"autoMerge", "turnOff"}
      /\ k.at = "turnOff" => k.fn = "hold"
  <2>1. CASE s.fn = "autoMerge"
    BY <2>1 DEF JobOf, Idle
  <2>2. CASE s.fn # "autoMerge"
    BY <2>2 DEF JobOf, Idle
  <2> QED
    BY <2>1, <2>2
<1> HIDE DEF k
<1>3. Outdated(gh', k)
  BY <1>2 DEF Outdated, Lacks
<1> QED
  BY <1>1, <1>3, WholeKept, OutdatedStep

LEMMA CallsOutdated ==
  ASSUME IInv, GInv, StaysShut(gh, gh'), NEW t \in Threads,
         Calls(t) \/ AutoMergeRetryable(t) \/ AutoMergeRefused(t)
  PROVE  GInv'
<1> DEFINE j == job[t]
<1>1. /\ j \in Job /\ j.at \in {"autoMerge", "turnOff", "merge", "turnOn", "off"}
  BY ListNow DEF Calls, AutoMergeDone, AutoMergeRetryable, AutoMergeRefused, TurnOff,
     TurnOffDone, TurnOffFails, TurnedOffOnGitHub, MergeCall, SetAutoMerge, At
<1>2. j.todo = {}
  BY <1>1, ListNow DEF JudgingSteps
<1>3. UNCHANGED loads
  BY DEF Calls, AutoMergeDone, AutoMergeRetryable, AutoMergeRefused, TurnOff,
     TurnOffDone, TurnOffFails, TurnedOffOnGitHub, MergeCall, SetAutoMerge
<1>4. ASSUME NEW k, job' = [job EXCEPT ![t] = k], Outdated(gh', k)
      PROVE  GInv'
  BY <1>3, <1>4, WholeKept, OutdatedStep
<1>5. ASSUME NEW step \in {"release", "arm", "unhold", "record"}
      PROVE  Outdated(gh', Goto(j, step))
  BY <1>1, <1>2, EmptyGoto
<1>6. ASSUME NEW step \in {"disarm", "fetch"}, NEW back
      PROVE  Outdated(gh', Call(j, step, back))
  BY <1>1, <1>2, EmptyCall
<1>7. CASE AutoMergeDone(t) \/ AutoMergeRetryable(t) \/ AutoMergeRefused(t)
  BY <1>4, <1>5, <1>6, <1>7 DEF AutoMergeDone, AutoMergeRetryable, AutoMergeRefused
<1>8. CASE TurnOff(t) \/ MergeCall(t)
  BY <1>4, <1>5, <1>8 DEF TurnOff, TurnOffDone, TurnOffFails, TurnedOffOnGitHub,
     MergeCall
<1>9. CASE SetAutoMerge(t, "turnOn", TRUE) \/ SetAutoMerge(t, "off", FALSE)
  BY <1>4, <1>6, <1>9 DEF SetAutoMerge
<1> QED
  BY <1>7, <1>8, <1>9 DEF Calls

LEMMA DisarmOutdated ==
  ASSUME IInv, GInv, StaysShut(gh, gh'), NEW t \in Threads, Disarm(t)
  PROVE  GInv'
<1>1. job[t] \in Job /\ job[t].todo = {}
  BY ListNow DEF Disarm, At, JudgingSteps
<1>2. Outdated(gh', Return(job[t]))
  BY <1>1, EmptyReturn
<1>3. Whole(gh', view', loaded' \ cut')
  BY WholeRebuilt DEF Disarm
<1> QED
  BY <1>2, <1>3, OutdatedStep DEF Disarm

LEMMA RecordOutdated ==
  ASSUME IInv, GInv, StaysShut(gh, gh'), NEW t \in Threads, Record(t)
  PROVE  GInv'
<1>1. job[t] \in Job /\ job[t].todo = {}
  BY ListNow DEF Record, At, JudgingSteps
<1>2. /\ Outdated(gh', Call(job[t], "fetch", "waiting"))
      /\ Outdated(gh', Goto(job[t], "waiting"))
  BY <1>1, EmptyCall, EmptyGoto
<1>3. \/ job' = [job EXCEPT ![t] = Call(job[t], "fetch", "waiting")]
      \/ job' = [job EXCEPT ![t] = Goto(job[t], "waiting")]
  BY DEF Record
<1>4. UNCHANGED loads
  BY DEF Record
<1> QED
  BY <1>2, <1>3, <1>4, WholeKept, OutdatedStep

LEMMA ReadWaitingOutdated ==
  ASSUME IInv, GInv, StaysShut(gh, gh'), NEW t \in Threads, ReadWaiting(t)
  PROVE  GInv'
<1> DEFINE j == job[t]
           rs == {RepoOf[p] : p \in RequiredBy(deps, j.pr)}
           k == [j EXCEPT !.at = "others", !.rest = rs]
<1>1. j \in Job /\ j.todo = {}
  BY ListNow DEF ReadWaiting, At, JudgingSteps
<1>2. Outdated(gh', Goto(j, "release"))
  BY <1>1, EmptyGoto
<1>3. job' = [job EXCEPT ![t] = Goto(j, "release")] \/ job' = [job EXCEPT ![t] = k]
  BY DEF ReadWaiting
<1> HIDE DEF rs
<1>4. k.todo = {} /\ k.at = "others"
  BY <1>1 DEF Job
<1>5. UNCHANGED loads
  BY DEF ReadWaiting
<1> HIDE DEF k
<1>6. Outdated(gh', k)
  BY <1>4, Empty
<1> QED
  BY <1>2, <1>3, <1>5, <1>6, WholeKept, OutdatedStep

LEMMA ReleaseOutdated ==
  ASSUME IInv, GInv, StaysShut(gh, gh'), NEW t \in Threads, Release(t)
  PROVE  GInv'
<1> DEFINE j == job[t]
           called == Call(j, "fetch", "idle")
           k == [called EXCEPT !.claim = FALSE]
<1>1. j \in Job /\ j.todo = {}
  BY ListNow DEF Release, At, JudgingSteps
<1>2. job' = [job EXCEPT ![t] = k] \/ job' = [job EXCEPT ![t] = Idle]
  BY DEF Release
<1>3. k.todo = {} /\ k.at = "fetch"
  BY <1>1 DEF Call, Job
<1>4. UNCHANGED loads
  BY DEF Release
<1> HIDE DEF k
<1>5. Outdated(gh', k)
  BY <1>3, Empty
<1> QED
  BY <1>2, <1>4, <1>5, EmptyIdle, WholeKept, OutdatedStep

LEMMA ArmOutdated ==
  ASSUME IInv, GInv, StaysShut(gh, gh'), NEW t \in Threads, Arm(t)
  PROVE  GInv'
<1>1. job[t] \in Job /\ job[t].todo = {}
  BY ListNow DEF Arm, At, JudgingSteps
<1>2. /\ Outdated(gh', Call(job[t], "fetch", "unhold"))
      /\ Outdated(gh', Goto(job[t], "copy"))
  BY <1>1, EmptyCall, EmptyGoto
<1>3. \/ job' = [job EXCEPT ![t] = Call(job[t], "fetch", "unhold")]
      \/ job' = [job EXCEPT ![t] = Goto(job[t], "copy")]
  BY DEF Arm
<1>4. Whole(gh', view', loaded' \ cut')
  BY WholeRebuilt DEF Arm
<1> QED
  BY <1>2, <1>3, <1>4, OutdatedStep

LEMMA UnholdOutdated ==
  ASSUME IInv, GInv, StaysShut(gh, gh'), NEW t \in Threads, Unhold(t)
  PROVE  GInv'
BY EmptyIdle, WholeKept, OutdatedStep DEF Unhold

LEMMA ClaimMergeOutdated ==
  ASSUME IInv, GInv, StaysShut(gh, gh'), NEW t \in Threads, ClaimMerge(t)
  PROVE  GInv'
<1> DEFINE j == job[t]
           k == [j EXCEPT !.at = "merge", !.claim = j.pr \notin merging]
<1>1. j \in Job /\ j.todo = {}
  BY ListNow DEF ClaimMerge, At, JudgingSteps
<1>2. job' = [job EXCEPT ![t] = k] /\ UNCHANGED loads
  BY DEF ClaimMerge
<1>3. k.todo = {} /\ k.at = "merge"
  BY <1>1 DEF Job
<1> HIDE DEF k
<1>4. Outdated(gh', k)
  BY <1>3, Empty
<1> QED
  BY <1>2, <1>4, WholeKept, OutdatedStep

(* checkArmed on m.Repo: what was loaded in full.                          *)
LEMMA CopyRepoOutdated ==
  ASSUME IInv, GInv, StaysShut(gh, gh'), NEW t \in Threads, CopyRepo(t)
  PROVE  GInv'
<1> DEFINE j == job[t]
           r == RepoOf[j.pr]
           judging == Judging(j, r, view, r \in cut)
           k == [judging EXCEPT !.at = "armed"]
<1>1. j \in Job /\ view \in View
  BY ListNow, Parts DEF DataOK
<1>2. CASE r \notin loaded
  BY <1>2, EmptyIdle, WholeKept, OutdatedStep DEF CopyRepo
<1>3. CASE r \in loaded
  <2>1. job' = [job EXCEPT ![t] = k] /\ gh' = gh /\ UNCHANGED loads
    BY <1>3 DEF CopyRepo
  <2>2. judging \in Job
    BY <1>1, JudgingJob
  <2>3. k.copy = judging.copy /\ k.todo = judging.todo /\ k.at = "armed"
    <3> HIDE DEF judging
    <3> QED
      BY <2>2 DEF Job
  <2>4. r \notin cut => Lacks(gh, view, PRsOf(r))
    BY <1>3 DEF GInv, Whole
  <2> HIDE DEF k
  <2>5. Outdated(gh, k)
    BY <1>1, <2>3, <2>4, JudgingOutdated DEF JudgingSteps
  <2> QED
    BY <2>1, <2>5, WholeKept, OutdatedStep
<1> QED
  BY <1>2, <1>3

LEMMA JudgeNextOutdated ==
  ASSUME IInv, GInv, StaysShut(gh, gh'), NEW t \in Threads, NEW r \in job[t].rest,
         JudgeNext(t, r)
  PROVE  GInv'
<1> DEFINE j == job[t]
           next == [j EXCEPT !.rest = j.rest \ {r}]
           back == IF next.rest = {} THEN "idle" ELSE "judgeEach"
           judging == Judging(next, r, view, r \in cut)
           k == Call(judging, "armed", back)
<1>1. j \in Job /\ j.todo = {} /\ view \in View
  BY ListNow, Parts DEF JudgeNext, At, JudgingSteps, DataOK
<1>2. next \in Job /\ next.todo = {}
  BY <1>1 DEF Job
<1>3. back \in {"idle", "judgeEach"}
  OBVIOUS
<1>4. \/ r \in loaded /\ job' = [job EXCEPT ![t] = k]
      \/ job' = [job EXCEPT ![t] = Goto(next, back)]
  BY DEF JudgeNext
<1>5. gh' = gh /\ UNCHANGED loads
  BY DEF JudgeNext
<1> HIDE DEF next, back
<1>6. Outdated(gh, Goto(next, back))
  BY <1>2, <1>3, EmptyGoto
<1>7. ASSUME r \in loaded
      PROVE  Outdated(gh, k)
  <2>1. judging \in Job
    BY <1>1, <1>2, JudgingJob
  <2>2. k.copy = judging.copy /\ k.todo = judging.todo /\ k.at = "armed"
    <3> HIDE DEF judging
    <3> QED
      BY <2>1 DEF Call, Job
  <2>3. r \notin cut => Lacks(gh, view, PRsOf(r))
    BY <1>7 DEF GInv, Whole
  <2> HIDE DEF k
  <2> QED
    BY <1>2, <2>2, <2>3, JudgingOutdated DEF JudgingSteps
<1> HIDE DEF k
<1> QED
  BY <1>4, <1>5, <1>6, <1>7, WholeKept, OutdatedStep

LEMMA AddEdgeOutdated ==
  ASSUME IInv, GInv, StaysShut(gh, gh'), NEW t \in Threads, AddEdge(t)
  PROVE  GInv'
<1>1. job[t] \in Job /\ job[t].todo = {}
  BY ListNow DEF AddEdge, At, JudgingSteps
<1>2. Outdated(gh', Return(job[t])) /\ Outdated(gh', Idle)
  BY <1>1, EmptyReturn, EmptyIdle
<1>3. job' = [job EXCEPT ![t] = Return(job[t])] \/ job' = [job EXCEPT ![t] = Idle]
  BY DEF AddEdge
<1>4. Whole(gh', view', loaded' \ cut')
  <2>1. CASE CanAdd(deps, job[t].pr, job[t].peer)
    <3>1. \E rs, G, known : view' = Rebuilt(rs, G, known)
      BY <2>1 DEF AddEdge
    <3>2. loaded' = loaded /\ cut' = cut
      BY DEF AddEdge
    <3> QED
      BY <3>1, <3>2, WholeRebuilt
  <2>2. CASE ~ CanAdd(deps, job[t].pr, job[t].peer)
    BY <2>2, WholeKept DEF AddEdge, loads
  <2> QED
    BY <2>1, <2>2
<1> QED
  BY <1>2, <1>3, <1>4, OutdatedStep

LEMMA StoreOutdated ==
  ASSUME IInv, GInv, StaysShut(gh, gh'), NEW t \in Threads, Store(t)
  PROVE  GInv'
<1> DEFINE j == job[t]
           step == IF j.fn = "PollOnce" THEN "others" ELSE "rebuild"
           k == [j EXCEPT !.found = NotFound, !.at = step]
<1>1. j \in Job /\ j.todo = {}
  BY ListNow DEF Store, At, JudgingSteps
<1>2. job' = [job EXCEPT ![t] = k] /\ UNCHANGED loads
  BY Parts DEF Store
<1>3. step \in {"others", "rebuild"}
  OBVIOUS
<1> HIDE DEF step
<1>4. k.todo = {} /\ k.at = step
  BY <1>1 DEF Job
<1> HIDE DEF k
<1>5. Outdated(gh', k)
  BY <1>3, <1>4, Empty
<1> QED
  BY <1>2, <1>5, WholeKept, OutdatedStep

LEMMA RebuildOutdated ==
  ASSUME IInv, GInv, StaysShut(gh, gh'), NEW t \in Threads, Rebuild(t)
  PROVE  GInv'
<1> DEFINE j == job[t]
           rs == {RepoOf[e[1]] : e \in deps}
           k == [j EXCEPT !.at = "judgeEach", !.rest = rs]
<1>1. j \in Job /\ j.todo = {}
  BY ListNow DEF Rebuild, At, JudgingSteps
<1>2. job' = [job EXCEPT ![t] = k] \/ job' = [job EXCEPT ![t] = Idle]
  BY DEF Rebuild
<1>3. Whole(gh', view', loaded' \ cut')
  BY WholeRebuilt DEF Rebuild
<1> HIDE DEF rs
<1>4. k.todo = {} /\ k.at = "judgeEach"
  BY <1>1 DEF Job
<1> HIDE DEF k
<1>5. Outdated(gh', k)
  BY <1>4, Empty
<1> QED
  BY <1>2, <1>3, <1>5, EmptyIdle, OutdatedStep

(* What an idle goroutine starts with no list.                             *)
LEMMA CommandOutdated ==
  ASSUME IInv, GInv, StaysShut(gh, gh'), NEW t \in Threads, NEW kind, NEW p,
         NEW k, Command(kind, t, p, k), k.todo = {},
         k.at \notin {"apply", "addRepo", "turnOff"}
  PROVE  GInv'
<1>1. Outdated(gh', k)
  BY Empty
<1> QED
  BY <1>1, WholeKept, OutdatedStep DEF Command

LEMMA CommandsOutdated ==
  ASSUME IInv, GInv, StaysShut(gh, gh'), NEW t \in Threads, NEW p \in PRs,
         \/ ArmMerge(t, p) \/ ManualMerge(t, p) \/ AutoMergeOn(t, p) \/ AutoMergeOff(t, p)
         \/ \E q \in PRs : AddDependency(t, p, q)
  PROVE  GInv'
<1>1. CASE ArmMerge(t, p)
  <2> DEFINE k == [Idle EXCEPT !.fn = "arm", !.at = "arm", !.pr = p]
  <2>1. k.todo = {} /\ k.at = "arm"
    BY DEF Idle
  <2>2. Command("arm", t, p, k)
    BY <1>1 DEF ArmMerge
  <2> HIDE DEF k
  <2> QED
    BY <2>1, <2>2, CommandOutdated
<1>2. CASE ManualMerge(t, p)
  <2>1. PICK pin : Command("merge", t, p, [Idle EXCEPT !.fn = "merge", !.at = "claim",
                                                       !.pr = p, !.pin = pin])
    BY <1>2 DEF ManualMerge
  <2> DEFINE k == [Idle EXCEPT !.fn = "merge", !.at = "claim", !.pr = p, !.pin = pin]
  <2>2. k.todo = {} /\ k.at = "claim"
    BY DEF Idle
  <2>3. Command("merge", t, p, k)
    BY <2>1
  <2> HIDE DEF k
  <2> QED
    BY <2>2, <2>3, CommandOutdated
<1>3. ASSUME NEW kind, NEW step \in {"turnOn", "off"},
             Command(kind, t, p, [Idle EXCEPT !.fn = "setAutoMerge", !.at = step, !.pr = p])
      PROVE  GInv'
  <2> DEFINE k == [Idle EXCEPT !.fn = "setAutoMerge", !.at = step, !.pr = p]
  <2>1. k.todo = {} /\ k.at = step
    BY DEF Idle
  <2>2. Command(kind, t, p, k)
    BY <1>3
  <2> HIDE DEF k
  <2> QED
    BY <2>1, <2>2, CommandOutdated
<1>4. CASE AutoMergeOn(t, p) \/ AutoMergeOff(t, p)
  BY <1>3, <1>4 DEF AutoMergeOn, AutoMergeOff
<1>5. ASSUME NEW q \in PRs, AddDependency(t, p, q)
      PROVE  GInv'
  <2> DEFINE back == IF view[p].auto THEN "scan" ELSE "idle"
             k == [Idle EXCEPT !.fn = "AddDependency", !.at = "add", !.pr = p, !.peer = q,
                               !.repo = RepoOf[p], !.back = back]
  <2>1. Command("add dependency", t, p, k)
    BY <1>5 DEF AddDependency
  <2> HIDE DEF back
  <2>2. k.todo = {} /\ k.at = "add"
    BY DEF Idle
  <2> HIDE DEF k
  <2> QED
    BY <2>1, <2>2, CommandOutdated
<1> QED
  BY <1>1, <1>2, <1>4, <1>5

LEMMA RemoveDependencyOutdated ==
  ASSUME IInv, GInv, StaysShut(gh, gh'), NEW t \in Threads, NEW p \in PRs, NEW q \in PRs,
         RemoveDependency(t, p, q)
  PROVE  GInv'
<1> DEFINE k == [Idle EXCEPT !.fn = "RemoveDependency", !.at = "copy", !.pr = p]
<1>1. k.todo = {} /\ k.at = "copy"
  BY DEF Idle
<1>2. job' = [job EXCEPT ![t] = k]
  BY DEF RemoveDependency
<1>3. Whole(gh', view', loaded' \ cut')
  BY WholeRebuilt DEF RemoveDependency
<1> HIDE DEF k
<1>4. Outdated(gh', k)
  BY <1>1, Empty
<1> QED
  BY <1>2, <1>3, <1>4, OutdatedStep

LEMMA RemovalsOutdated ==
  ASSUME IInv, GInv, StaysShut(gh, gh'),
         (\E p \in PRs : DisarmMerge(p)) \/ (\E r \in Repos : RemoveRepo(r))
  PROVE  GInv'
<1>1. ASSUME NEW p \in PRs, DisarmMerge(p)
      PROVE  GInv'
  BY <1>1, WholeRebuilt, OutdatedNoStep DEF DisarmMerge
<1>2. ASSUME NEW r \in Repos, RemoveRepo(r)
      PROVE  GInv'
  <2>1. Whole(gh', view, loaded \ cut)
    BY WholeStays DEF GInv
  <2>2. Whole(gh', view', loaded' \ cut')
    <3> SUFFICES ASSUME NEW s \in loaded' \ cut', NEW p \in PRsOf(s), view'[p] = None
                 PROVE  gh'[p].state # "OPEN"
      BY DEF Whole, Lacks
    <3>1. p \in PRs /\ RepoOf[p] = s
      BY DEF PRsOf
    <3>2. s \in loaded \ cut /\ s # r
      BY <1>2 DEF RemoveRepo
    <3>3. view[p] = None
      BY <1>2, <3>1, <3>2 DEF RemoveRepo
    <3> QED
      BY <2>1, <3>2, <3>3 DEF Whole, Lacks
  <2> QED
    BY <1>2, <2>2, OutdatedNoStep DEF RemoveRepo
<1> QED
  BY <1>1, <1>2

LEMMA LookupOutdated ==
  ASSUME IInv, GInv, StaysShut(gh, gh'), NEW t \in Threads, NEW fn, NEW rest,
         Lookup(t, fn, rest)
  PROVE  GInv'
<1>1. PICK found : job' = [job EXCEPT ![t] =
        [Idle EXCEPT !.fn = fn, !.at = "store", !.rest = rest, !.found = found]]
  BY DEF Lookup
<1> DEFINE k == [Idle EXCEPT !.fn = fn, !.at = "store", !.rest = rest, !.found = found]
<1>2. job' = [job EXCEPT ![t] = k] /\ UNCHANGED loads
  BY <1>1 DEF Lookup
<1>3. k.todo = {} /\ k.at = "store"
  BY DEF Idle
<1> HIDE DEF k
<1>4. Outdated(gh', k)
  BY <1>3, Empty
<1> QED
  BY <1>2, <1>4, WholeKept, OutdatedStep

LEMMA CrashOutdated ==
  ASSUME IInv, GInv, Crash
  PROVE  GInv'
<1>1. \A t \in Threads : job'[t] = Idle
  BY DEF Crash
<1>2. \A t \in Threads : Outdated(gh', job'[t])
  BY <1>1, EmptyIdle
<1>3. loaded' = {}
  BY DEF Crash
<1> QED
  BY <1>2, <1>3 DEF GInv, Whole, Outdated, Lacks

LEMMA InitOutdated == Init => GInv
<1> SUFFICES ASSUME Init
             PROVE  GInv
  OBVIOUS
<1>1. \A t \in Threads : Outdated(gh, job[t])
  BY EmptyIdle DEF Init
<1> QED
  BY <1>1 DEF Init, GInv, Whole

LEMMA StepsOutdated ==
  ASSUME IInv, GInv, StaysShut(gh, gh'), NEW t \in Threads, Step(t)
  PROVE  GInv'
BY FetchesOutdated, ApplyOutdated, ScanOutdated, HoldNextOutdated, ReadArmedOutdated,
   JudgeOutdated, ApplyUnmonitoredOutdated, CallsOutdated, DisarmOutdated, RecordOutdated,
   ReadWaitingOutdated, RefreshNextOutdated, JudgeNextOutdated, ReleaseOutdated,
   ArmOutdated, UnholdOutdated, ClaimMergeOutdated, CopyRepoOutdated, AddEdgeOutdated,
   AddFetchedOutdated, StoreOutdated, RebuildOutdated
DEF Step, Calls

LEMMA StartsOutdated ==
  ASSUME IInv, GInv, StaysShut(gh, gh'), NEW t \in Threads, Start(t)
  PROVE  GInv'
<1>1. CASE PollOnce(t) \/ RefreshDependencyStates(t)
  BY <1>1, LookupOutdated DEF PollOnce, RefreshDependencyStates
<1> QED
  BY <1>1, PollOutdated, AddRepoOutdated, CommandsOutdated, RemoveDependencyOutdated
  DEF Start

LEMMA NextOutdated ==
  ASSUME IInv, GInv, [Next]_vars, "reopen" \notin Inputs
  PROVE  GInv'
<1>1. StaysShut(gh, gh')
  BY NothingReopens
<1>2. CASE UNCHANGED vars
  BY <1>1, <1>2, WholeKept, OutdatedNoStep DEF vars
<1>3. ASSUME NEW p \in PRs, EditOnGitHub(p) \/ NativeMerge(p)
      PROVE  GInv'
  <2>1. UNCHANGED <<job, loads>>
    BY <1>3 DEF EditOnGitHub, Push, Recheck, Close, Reopen, MergeElsewhere,
       ToggleAutoElsewhere, GitHubEdit, NativeMerge
  <2> QED
    BY <1>1, <2>1, WholeKept, OutdatedNoStep
<1> QED
  BY <1>1, <1>2, <1>3, RemovalsOutdated, StepsOutdated, StartsOutdated, BeginOutdated,
     CrashOutdated
  DEF Next

(* A step of one goroutine changes no other one's job.                      *)
LEMMA StepIsOwn ==
  ASSUME IInv, NEW t \in Threads, Step(t), NEW u \in Threads, u # t
  PROVE  job'[u] = job[u]
<1> USE Parts
<1>1. ASSUME Judge(t)
      PROVE  job'[u] = job[u]
  BY <1>1 DEF Judge, JudgeGone, JudgeReady, JudgeNothing
<1>2. ASSUME NEW p, HoldNext(t, p)
      PROVE  job'[u] = job[u]
  BY <1>2 DEF HoldNext
<1>3. ASSUME NEW r, RefreshNext(t, r) \/ JudgeNext(t, r)
      PROVE  job'[u] = job[u]
  BY <1>3 DEF RefreshNext, JudgeNext
<1>4. CASE Fetch(t) \/ Apply(t) \/ ApplyUnmonitored(t) \/ Scan(t) \/ ReadArmed(t)
  BY <1>4 DEF Fetch, Apply, ApplyUnmonitored, Scan, ReadArmed
<1>5. CASE AutoMergeDone(t) \/ AutoMergeRetryable(t) \/ AutoMergeRefused(t)
  BY <1>5 DEF AutoMergeDone, AutoMergeRetryable, AutoMergeRefused
<1>6. CASE Disarm(t) \/ Record(t) \/ ReadWaiting(t) \/ Release(t) \/ Arm(t) \/ Unhold(t)
  BY <1>6 DEF Disarm, Record, ReadWaiting, Release, Arm, Unhold
<1>7. CASE TurnOff(t) \/ ClaimMerge(t) \/ MergeCall(t)
  BY <1>7 DEF TurnOff, TurnOffDone, TurnOffFails, TurnedOffOnGitHub, ClaimMerge,
     MergeCall
<1>8. CASE SetAutoMerge(t, "turnOn", TRUE) \/ SetAutoMerge(t, "off", FALSE)
  BY <1>8 DEF SetAutoMerge
<1>9. CASE CopyRepo(t) \/ AddEdge(t) \/ AddFetched(t) \/ Store(t) \/ Rebuild(t)
  BY <1>9 DEF CopyRepo, AddEdge, AddFetched, Store, Rebuild
<1> QED
  BY <1>1, <1>2, <1>3, <1>4, <1>5, <1>6, <1>7, <1>8, <1>9 DEF Step

(* Starting one that is idle, neither.                                     *)
LEMMA StartIsOwn ==
  ASSUME IInv, NEW t \in Threads, Start(t) \/ (\E s \in spawned : Begin(t, s)),
         NEW u \in Threads, u # t
  PROVE  job'[u] = job[u]
<1> USE Parts
<1>1. ASSUME NEW kind, NEW p, NEW start, Command(kind, t, p, start)
      PROVE  job'[u] = job[u]
  BY <1>1 DEF Command
<1>2. ASSUME NEW p, \/ ArmMerge(t, p) \/ ManualMerge(t, p)
                    \/ AutoMergeOn(t, p) \/ AutoMergeOff(t, p)
      PROVE  job'[u] = job[u]
  BY <1>1, <1>2 DEF ArmMerge, ManualMerge, AutoMergeOn, AutoMergeOff
<1>3. ASSUME NEW p, NEW q, AddDependency(t, p, q) \/ RemoveDependency(t, p, q)
      PROVE  job'[u] = job[u]
  BY <1>1, <1>3 DEF AddDependency, RemoveDependency
<1>4. ASSUME NEW r, Poll(t, r) \/ AddRepo(t, r)
      PROVE  job'[u] = job[u]
  BY <1>4 DEF Poll, AddRepo
<1>5. ASSUME NEW fn, NEW rest, Lookup(t, fn, rest)
      PROVE  job'[u] = job[u]
  BY <1>5 DEF Lookup
<1>6. CASE PollOnce(t) \/ RefreshDependencyStates(t)
  BY <1>5, <1>6 DEF PollOnce, RefreshDependencyStates
<1>7. ASSUME NEW s, Begin(t, s)
      PROVE  job'[u] = job[u]
  BY <1>7 DEF Begin
<1> QED
  BY <1>2, <1>3, <1>4, <1>6, <1>7 DEF Start

LEMMA StartsIdle ==
  ASSUME NEW t, Start(t) \/ (\E s \in spawned : Begin(t, s))
  PROVE  IsIdle(t)
<1>1. ASSUME NEW kind, NEW p, NEW start, Command(kind, t, p, start)
      PROVE  IsIdle(t)
  BY <1>1 DEF Command
<1>2. ASSUME NEW p, \/ ArmMerge(t, p) \/ ManualMerge(t, p)
                    \/ AutoMergeOn(t, p) \/ AutoMergeOff(t, p)
      PROVE  IsIdle(t)
  BY <1>1, <1>2 DEF ArmMerge, ManualMerge, AutoMergeOn, AutoMergeOff
<1>3. ASSUME NEW p, NEW q, AddDependency(t, p, q) \/ RemoveDependency(t, p, q)
      PROVE  IsIdle(t)
  BY <1>1, <1>3 DEF AddDependency, RemoveDependency
<1>4. CASE PollOnce(t) \/ RefreshDependencyStates(t)
  BY <1>4 DEF PollOnce, RefreshDependencyStates, Lookup
<1> QED
  BY <1>2, <1>3, <1>4 DEF Start, Begin, Poll, AddRepo

(* At the step "arm" a goroutine can only arm.                              *)
LEMMA ArmIsNext ==
  ASSUME NEW t, Step(t), At(t, "arm")
  PROVE  Arm(t)
<1>1. ~ Judge(t) /\ \A p : ~ HoldNext(t, p)
  BY DEF Judge, JudgeGone, JudgeReady, JudgeNothing, HoldNext, At
<1>2. \A r : ~ RefreshNext(t, r) /\ ~ JudgeNext(t, r)
  BY DEF RefreshNext, JudgeNext, At
<1>3. ~ Fetch(t) /\ ~ Apply(t) /\ ~ ApplyUnmonitored(t) /\ ~ Scan(t) /\ ~ ReadArmed(t)
  BY DEF Fetch, Apply, ApplyUnmonitored, Scan, ReadArmed, At
<1>4. ~ AutoMergeDone(t) /\ ~ AutoMergeRetryable(t) /\ ~ AutoMergeRefused(t)
  BY DEF AutoMergeDone, AutoMergeRetryable, AutoMergeRefused, At
<1>5. ~ Disarm(t) /\ ~ Record(t) /\ ~ ReadWaiting(t) /\ ~ Release(t) /\ ~ Unhold(t)
  BY DEF Disarm, Record, ReadWaiting, Release, Unhold, At
<1>6. ~ TurnOff(t) /\ ~ ClaimMerge(t) /\ ~ MergeCall(t)
  BY DEF TurnOff, TurnOffDone, TurnOffFails, TurnedOffOnGitHub, ClaimMerge, MergeCall,
     At
<1>7. ~ SetAutoMerge(t, "turnOn", TRUE) /\ ~ SetAutoMerge(t, "off", FALSE)
  BY DEF SetAutoMerge, At
<1>8. ~ CopyRepo(t) /\ ~ AddEdge(t) /\ ~ AddFetched(t) /\ ~ Store(t) /\ ~ Rebuild(t)
  BY DEF CopyRepo, AddEdge, AddFetched, Store, Rebuild, At
<1> QED
  BY <1>1, <1>2, <1>3, <1>4, <1>5, <1>6, <1>7, <1>8 DEF Step

(* What a goroutine of hold has in hand it arms, unless it dies.            *)
LEMMA InHandIsArmed ==
  ASSUME IInv, [Next]_vars, ~ Crash, NEW p \in PRs, InHand(p)
  PROVE  p \in armed' \/ InHand(p)'
<1>1. PICK t \in Threads : job[t].pr = p /\ job[t].fn = "hold" /\ At(t, "arm")
  BY DEF InHand
<1>2. CASE job'[t] = job[t]
  BY <1>1, <1>2 DEF InHand, At
<1>3. CASE job'[t] # job[t]
  <2>1. ASSUME NEW q, EditOnGitHub(q) \/ NativeMerge(q) \/ DisarmMerge(q)
        PROVE  job' = job
    BY <2>1 DEF EditOnGitHub, Push, Recheck, Close, Reopen, MergeElsewhere,
       ToggleAutoElsewhere, GitHubEdit, NativeMerge, DisarmMerge
  <2>2. ASSUME NEW r, RemoveRepo(r)
        PROVE  job' = job
    BY <2>2 DEF RemoveRepo
  <2>3. UNCHANGED vars => job' = job
    BY DEF vars
  <2>4. PICK u \in Threads : Step(u) \/ Start(u) \/ \E s \in spawned : Begin(u, s)
    BY <1>3, <2>1, <2>2, <2>3 DEF Next
  <2>5. u = t
    BY <1>3, <2>4, StepIsOwn, StartIsOwn
  <2>6. ~ IsIdle(t)
    BY <1>1 DEF IsIdle, At
  <2>7. Step(t)
    BY <2>4, <2>5, <2>6, StartsIdle
  <2>8. Arm(t)
    BY <1>1, <2>7, ArmIsNext
  <2> QED
    BY <1>1, <2>8 DEF Arm
<1> QED
  BY <1>2, <1>3

(* A PR is disarmed by name, with its repo, after its merge or as gone.     *)
LEMMA StepDisarms ==
  ASSUME NEW t, Step(t), NEW p, p \in armed, p \notin armed'
  PROVE  JudgeGone(t, p) \/ (Disarm(t) /\ job[t].pr = p)
<1> USE DEF saved
<1>1. ASSUME Judge(t)
      PROVE  JudgeGone(t, p)
  BY <1>1 DEF Judge, JudgeGone, JudgeReady, JudgeNothing
<1>2. ASSUME NEW q, HoldNext(t, q)
      PROVE  FALSE
  BY <1>2 DEF HoldNext
<1>3. ASSUME NEW r, RefreshNext(t, r) \/ JudgeNext(t, r)
      PROVE  FALSE
  BY <1>3 DEF RefreshNext, JudgeNext
<1>4. CASE \/ Fetch(t) \/ Apply(t) \/ ApplyUnmonitored(t) \/ Scan(t) \/ ReadArmed(t)
           \/ AutoMergeDone(t) \/ AutoMergeRetryable(t) \/ AutoMergeRefused(t)
  BY <1>4 DEF Fetch, Apply, ApplyUnmonitored, Scan, ReadArmed,
     AutoMergeDone, AutoMergeRetryable, AutoMergeRefused
<1>5. CASE Disarm(t)
  BY <1>5 DEF Disarm
<1>6. CASE \/ Record(t) \/ ReadWaiting(t) \/ Release(t) \/ Arm(t) \/ Unhold(t)
           \/ TurnOff(t) \/ ClaimMerge(t) \/ MergeCall(t)
           \/ SetAutoMerge(t, "turnOn", TRUE) \/ SetAutoMerge(t, "off", FALSE)
  BY <1>6 DEF Record, ReadWaiting, Release, Arm, Unhold, TurnOff, TurnOffDone,
     TurnOffFails, TurnedOffOnGitHub, ClaimMerge, MergeCall, SetAutoMerge
<1>7. CASE CopyRepo(t) \/ AddEdge(t) \/ AddFetched(t) \/ Store(t) \/ Rebuild(t)
  BY <1>7 DEF CopyRepo, AddEdge, AddFetched, Store, Rebuild
<1> QED
  BY <1>1, <1>2, <1>3, <1>4, <1>5, <1>6, <1>7 DEF Step

LEMMA StartKeepsArmed ==
  ASSUME NEW t, Start(t)
  PROVE  armed' = armed
<1> USE DEF saved
<1>1. ASSUME NEW kind, NEW p, NEW start, Command(kind, t, p, start)
      PROVE  armed' = armed
  BY <1>1 DEF Command
<1>2. ASSUME NEW p, \/ ArmMerge(t, p) \/ ManualMerge(t, p)
                    \/ AutoMergeOn(t, p) \/ AutoMergeOff(t, p)
      PROVE  armed' = armed
  BY <1>1, <1>2 DEF ArmMerge, ManualMerge, AutoMergeOn, AutoMergeOff
<1>3. ASSUME NEW p, NEW q, AddDependency(t, p, q) \/ RemoveDependency(t, p, q)
      PROVE  armed' = armed
  BY <1>1, <1>3 DEF AddDependency, RemoveDependency
<1>4. ASSUME NEW r, Poll(t, r) \/ AddRepo(t, r)
      PROVE  armed' = armed
  BY <1>4 DEF Poll, AddRepo
<1>5. ASSUME NEW fn, NEW rest, Lookup(t, fn, rest)
      PROVE  armed' = armed
  BY <1>5 DEF Lookup
<1>6. CASE PollOnce(t) \/ RefreshDependencyStates(t)
  BY <1>5, <1>6 DEF PollOnce, RefreshDependencyStates
<1> QED
  BY <1>2, <1>3, <1>4, <1>6 DEF Start

LEMMA ArmedEnds ==
  ASSUME IInv, GInv, [Next]_vars, NEW p \in PRs, p \in armed, p \notin armed'
  PROVE  (gh'[p].state # "OPEN") \/ TurnedOff(p)
<1>1. ASSUME NEW q, EditOnGitHub(q) \/ NativeMerge(q)
      PROVE  FALSE
  BY <1>1 DEF EditOnGitHub, Push, Recheck, Close, Reopen, MergeElsewhere,
     ToggleAutoElsewhere, GitHubEdit, NativeMerge, saved
<1>2. ASSUME NEW q \in PRs, DisarmMerge(q)
      PROVE  TurnedOff(p)
  <2>1. q = p
    BY <1>2 DEF DisarmMerge
  <2> QED
    BY <1>2, <2>1 DEF TurnedOff
<1>3. ASSUME NEW r \in Repos, RemoveRepo(r)
      PROVE  TurnedOff(p)
  <2>1. r = RepoOf[p]
    BY <1>3 DEF RemoveRepo, PRsOf
  <2> QED
    BY <1>3, <2>1 DEF TurnedOff
<1>4. ASSUME NEW t \in Threads, Step(t)
      PROVE  (gh'[p].state # "OPEN") \/ TurnedOff(p)
  <2>1. CASE JudgeGone(t, p)
    <3>1. Lacks(gh, job[t].copy, job[t].todo)
      BY ListNow DEF Outdated
    <3> QED
      BY <2>1, <3>1 DEF JudgeGone, Lacks
  <2>2. CASE Disarm(t) /\ job[t].pr = p
    <3>1. job'[t] = Return(job[t])
      BY <2>2, Parts DEF Disarm
    <3>2. Return(job[t]).at # "disarm"
      <4>1. job[t].back \in Returns
        BY Parts DEF Job
      <4> DEFINE k == [job[t] EXCEPT !.back = "idle"]
      <4>2. k \in Job
        BY Parts DEF Job, Returns
      <4>3. CASE job[t].back = "idle"
        <5>1. Return(job[t]) = Idle
          BY <4>3, GotoIdle DEF Return
        <5> QED
          BY <5>1 DEF Idle
      <4>4. CASE job[t].back # "idle"
        <5>1. Goto(k, job[t].back).at = job[t].back
          BY <4>1, <4>2, <4>4, GotoJob DEF Steps
        <5> QED
          BY <4>1, <5>1 DEF Return, Returns
      <4> QED
        BY <4>3, <4>4
    <3>3. job'[t] # job[t] /\ At(t, "disarm")
      BY <2>2, <3>1, <3>2 DEF Disarm, At
    <3> QED
      BY <2>2, <3>3 DEF TurnedOff
  <2> QED
    BY <1>4, <2>1, <2>2, StepDisarms
<1>5. ASSUME NEW t, NEW s, Begin(t, s)
      PROVE  FALSE
  BY <1>5 DEF Begin, saved
<1>6. CASE Crash \/ UNCHANGED vars
  BY <1>6 DEF Crash, vars, saved
<1> QED
  BY <1>1, <1>2, <1>3, <1>4, <1>5, <1>6, StartKeepsArmed DEF Next

(* GitHub's auto-merge ends with the PR, by a person, in a goroutine's      *)
(* hand, or unheard of by the goroutine that asked for it.                  *)
LEMMA AutoEnds ==
  ASSUME IInv, GInv, [Next]_vars, NEW p \in PRs, gh[p].auto, ~ gh'[p].auto
  PROVE  \/ gh'[p].state # "OPEN"
         \/ TurnedOff(p)
         \/ InHand(p)'
         \/ LostInTheMove(p)
<1>0. gh \in [PRs -> OnGitHub] /\ \A q \in PRs : gh[q] \in OnGitHub
  BY Parts DEF DataOK
<1>1. ASSUME NEW q \in PRs, NativeMerge(q)
      PROVE  gh'[p].state # "OPEN"
  BY <1>0, <1>1 DEF NativeMerge, OnGitHub
<1>2. ASSUME NEW q \in PRs, EditOnGitHub(q)
      PROVE  (gh'[p].state # "OPEN") \/ TurnedOff(p)
  <2>1. CASE Push(q) \/ Recheck(q) \/ Reopen(q)
    BY <1>0, <2>1 DEF Push, Recheck, Reopen, GitHubEdit, OnGitHub
  <2>2. CASE Close(q) \/ MergeElsewhere(q)
    BY <1>0, <2>2 DEF Close, MergeElsewhere, GitHubEdit, OnGitHub
  <2>3. CASE ToggleAutoElsewhere(q)
    <3>1. q = p
      BY <1>0, <2>3 DEF ToggleAutoElsewhere, GitHubEdit
    <3> QED
      BY <2>3, <3>1 DEF TurnedOff
  <2> QED
    BY <1>2, <2>1, <2>2, <2>3 DEF EditOnGitHub
<1>3. ASSUME NEW t \in Threads, Calls(t)
      PROVE  (gh'[p].state # "OPEN") \/ TurnedOff(p) \/ InHand(p)' \/ LostInTheMove(p)
  <2> DEFINE q == job[t].pr
  <2>1. CASE gh' = MergedOnGitHub(q)
    BY <1>0, <2>1 DEF MergedOnGitHub, OnGitHub
  <2>2. CASE TurnOffDone(t)
    <3>0. gh' = [gh EXCEPT ![q].auto = FALSE] /\ job' = [job EXCEPT ![t] = Goto(job[t], "arm")]
      BY <2>2 DEF TurnOffDone, TurnedOffOnGitHub
    <3>1. q = p
      BY <1>0, <3>0
    <3>2. job[t] \in Job /\ job[t].fn = "hold"
      BY <2>2, ListNow DEF TurnOffDone, At, Outdated
    <3>3. "arm" \in Steps
      BY DEF Steps
    <3>4. Same(job[t], Goto(job[t], "arm")) /\ Goto(job[t], "arm").at = "arm"
      BY <3>2, <3>3, GotoJob
    <3>5. job'[t] = Goto(job[t], "arm")
      BY <3>0, Parts
    <3> QED
      BY <3>1, <3>2, <3>4, <3>5 DEF InHand, At, Same
  <2>3. CASE SetAutoMerge(t, "off", FALSE) /\ gh' = [gh EXCEPT ![q].auto = FALSE]
    <3>1. q = p
      BY <1>0, <2>3
    <3>2. job'[t] = Call(job[t], "fetch", "idle") /\ At(t, "off")
      BY <2>3, Parts DEF SetAutoMerge
    <3>3. Call(job[t], "fetch", "idle").at = "fetch"
      BY Parts DEF Call, Job
    <3>4. job'[t] # job[t]
      BY <3>2, <3>3 DEF At
    <3> QED
      BY <3>1, <3>2, <3>4 DEF TurnedOff
  <2>4. CASE gh' = [gh EXCEPT ![q].auto = TRUE]
    BY <1>0, <2>4 DEF OnGitHub
  <2>5. CASE TurnOffFails(t)
    <3>1. gh' = gh \/ gh' = [gh EXCEPT ![q].auto = FALSE]
      BY <2>5 DEF TurnOffFails, TurnedOffOnGitHub
    <3>2. q = p /\ gh' # gh
      BY <1>0, <3>1
    <3> QED
      BY <2>5, <3>2 DEF LostInTheMove
  <2>6. \/ gh' = gh \/ gh' = MergedOnGitHub(q)
        \/ gh' = [gh EXCEPT ![q].auto = TRUE]
        \/ SetAutoMerge(t, "off", FALSE) /\ gh' = [gh EXCEPT ![q].auto = FALSE]
        \/ TurnOffDone(t) \/ TurnOffFails(t)
    <3>1. CASE AutoMergeDone(t) \/ MergeCall(t)
      BY <3>1 DEF AutoMergeDone, MergeCall
    <3>2. CASE TurnOff(t)
      BY <3>2 DEF TurnOff
    <3>3. CASE SetAutoMerge(t, "turnOn", TRUE)
      BY <3>3 DEF SetAutoMerge
    <3>4. CASE SetAutoMerge(t, "off", FALSE)
      BY <3>4 DEF SetAutoMerge
    <3> QED
      BY <1>3, <3>1, <3>2, <3>3, <3>4 DEF Calls
  <2> QED
    BY <2>1, <2>2, <2>3, <2>4, <2>5, <2>6
<1> QED
  BY <1>1, <1>2, <1>3, GitHubChanges

LEMMA PromiseStep ==
  ASSUME IInv, GInv, [Next]_vars, NEW p \in PRs, Promised(p), ~ Promised(p)'
  PROVE  (gh'[p].state # "OPEN") \/ TurnedOff(p) \/ LostInTheMove(p)
<1>1. p \notin armed' /\ ~ gh'[p].auto /\ ~ InHand(p)'
  BY DEF Promised
<1>2. p \in armed \/ gh[p].auto \/ InHand(p)
  BY DEF Promised
<1> QED
  BY <1>1, <1>2, ArmedEnds, AutoEnds, InHandIsArmed DEF LostInTheMove

(* Where no PR is reopened, whatever a list that was not cut off lacks is   *)
(* no longer open, in m.repos and in every goroutine's copy, however old.  *)
THEOREM OldListsLackNothingOpen ==
  ASSUME "reopen" \notin Inputs
  PROVE  Spec => [](IInv /\ GInv)
<1>1. Init => IInv /\ GInv
  BY InitInv, InitOutdated
<1>2. IInv /\ GInv /\ [Next]_vars => (IInv /\ GInv)'
  BY NextInv, NextOutdated
<1> QED
  BY <1>1, <1>2, PTL DEF Spec

(* Where no PR is reopened, a PR set to merge by itself stays set, on       *)
(* GitHub, in state.json or in the hands of hold, until it is no longer     *)
(* open, a person turns it off or removes its repo, or its merge failed and *)
(* that was reported.  Only in hold can it be lost: by a crash when GitHub  *)
(* has turned its auto-merge off and nothing is armed yet, or when GitHub   *)
(* has turned it off and hold takes the call for failed.                    *)
THEOREM PromisesAreKept ==
  ASSUME "reopen" \notin Inputs
  PROVE  Spec => PromiseKept
<1>1. IInv /\ GInv /\ [Next]_vars =>
        [\A p \in PRs : Promised(p) /\ ~ Promised(p)' =>
           gh'[p].state # "OPEN" \/ TurnedOff(p) \/ LostInTheMove(p)]_vars
  BY PromiseStep
<1> QED
  BY <1>1, OldListsLackNothingOpen, PTL DEF Spec, PromiseKept

----------------------------------------------------------------------------
(* The search of Graph.Add is right on every map: it refuses an edge only  *)
(* if that would close a cycle, it adds one only if that closes none, and  *)
(* so the map with its lists and the search with its stack implement the   *)
(* set of edges of DependencyStore.  That the search ends is left to TLC.  *)

(* The lists.                                                              *)

LEMMA ElementsAppend ==
  ASSUME NEW list \in Seq(PRs), NEW q \in PRs
  PROVE  Elements(Append(list, q)) = Elements(list) \cup {q}
BY DEF Elements

LEMMA AppendInLists ==
  ASSUME NEW list \in Lists, NEW q \in PRs, q \notin Elements(list)
  PROVE  Append(list, q) \in Lists
<1> DEFINE more == Append(list, q)
<1>1. list \in Seq(PRs) /\ \A i \in 1..Len(list) : list[i] # q
  BY DEF Lists, Elements
<1>2. more \in Seq(PRs) /\ Len(more) = Len(list) + 1 /\ more[Len(list) + 1] = q
  BY <1>1
<1>3. \A i \in 1..Len(list) : more[i] = list[i]
  BY <1>1
<1>4. \A i, j \in 1..Len(list) : list[i] = list[j] => i = j
  BY DEF Lists, Distinct
<1>5. Len(list) \in Nat /\ 1..Len(more) = 1..Len(list) \cup {Len(list) + 1}
  BY <1>1, <1>2
<1> HIDE DEF more
<1>6. Distinct(more)
  BY <1>1, <1>2, <1>3, <1>4, <1>5 DEF Distinct
<1> QED
  BY <1>2, <1>6 DEF Lists, more

LEMMA ElementsConcat ==
  ASSUME NEW list \in Seq(PRs), NEW more \in Seq(PRs)
  PROVE  Elements(list \o more) = Elements(list) \cup Elements(more)
<1>1. ASSUME NEW i \in 1..Len(more)
      PROVE  more[i] \in Elements(list \o more)
  <2>1. Len(list) + i \in 1..Len(list \o more) /\ (list \o more)[Len(list) + i] = more[i]
    OBVIOUS
  <2> QED
    BY <2>1 DEF Elements
<1>2. ASSUME NEW i \in 1..Len(list)
      PROVE  list[i] \in Elements(list \o more)
  <2>1. i \in 1..Len(list \o more) /\ (list \o more)[i] = list[i]
    OBVIOUS
  <2> QED
    BY <2>1 DEF Elements
<1>3. ASSUME NEW i \in 1..Len(list \o more)
      PROVE  (list \o more)[i] \in Elements(list) \cup Elements(more)
  <2>1. CASE i <= Len(list)
    BY <2>1 DEF Elements
  <2>2. CASE i > Len(list)
    <3>1. i - Len(list) \in 1..Len(more) /\ (list \o more)[i] = more[i - Len(list)]
      BY <2>2
    <3> QED
      BY <3>1 DEF Elements
  <2> QED
    BY <2>1, <2>2
<1> QED
  BY <1>1, <1>2, <1>3 DEF Elements

(* A stack is its top and the rest.                                        *)
LEMMA ElementsTop ==
  ASSUME pending \in Seq(PRs), pending # <<>>
  PROVE  /\ Top \in PRs
         /\ Rest \in Seq(PRs)
         /\ Elements(pending) = Elements(Rest) \cup {Top}
<1>1. Len(pending) \in 1..Len(pending) /\ Len(pending) - 1 \in Nat
  OBVIOUS
<1>2. /\ Rest \in Seq(PRs) /\ Len(Rest) = Len(pending) - 1
      /\ \A i \in 1..Len(Rest) : Rest[i] = pending[i]
  BY <1>1 DEF Rest
<1>3. 1..Len(pending) = 1..Len(Rest) \cup {Len(pending)}
  BY <1>1, <1>2
<1> QED
  BY <1>1, <1>2, <1>3 DEF Elements, Top

LEMMA WithoutInLists ==
  ASSUME NEW list \in Lists, NEW i \in 1..Len(list)
  PROVE  /\ Without(list, i) \in Lists
         /\ Elements(Without(list, i)) = Elements(list) \ {list[i]}
<1> DEFINE rest == Without(list, i)
<1>1. list \in Seq(PRs) /\ Len(list) - 1 \in Nat
  BY DEF Lists
<1>2. rest \in Seq(PRs) /\ Len(rest) = Len(list) - 1
  BY <1>1 DEF Without
<1>3. \A k \in 1..Len(rest) : rest[k] = IF k < i THEN list[k] ELSE list[k + 1]
  BY <1>2 DEF Without
<1>4. \A k, l \in 1..Len(list) : list[k] = list[l] => k = l
  BY DEF Lists, Distinct
<1>5. Distinct(rest)
  <2> SUFFICES ASSUME NEW k \in 1..Len(rest), NEW l \in 1..Len(rest), rest[k] = rest[l]
               PROVE  k = l
    BY DEF Distinct
  <2> QED
    BY <1>1, <1>2, <1>3, <1>4
<1>6. Elements(rest) \subseteq Elements(list) \ {list[i]}
  <2> SUFFICES ASSUME NEW k \in 1..Len(rest)
               PROVE  rest[k] \in Elements(list) \ {list[i]}
    BY DEF Elements
  <2>1. PICK l \in 1..Len(list) : l # i /\ rest[k] = list[l]
    BY <1>1, <1>2, <1>3
  <2> QED
    BY <1>4, <2>1 DEF Elements
<1>7. Elements(list) \ {list[i]} \subseteq Elements(rest)
  <2> SUFFICES ASSUME NEW l \in 1..Len(list), l # i
               PROVE  list[l] \in Elements(rest)
    BY DEF Elements
  <2>1. CASE l < i
    <3>1. l \in 1..Len(rest) /\ rest[l] = list[l]
      BY <1>1, <1>2, <1>3, <2>1
    <3> QED
      BY <3>1 DEF Elements
  <2>2. CASE l > i
    <3>1. l - 1 \in 1..Len(rest) /\ rest[l - 1] = list[l]
      BY <1>1, <1>2, <1>3, <2>2
    <3> QED
      BY <3>1 DEF Elements
  <2> QED
    BY <2>1, <2>2
<1> QED
  BY <1>2, <1>5, <1>6, <1>7 DEF Lists

----------------------------------------------------------------------------
(* The search.  SearchOK is inductive with the types: what is on the stack *)
(* or visited is reached from the PR to wait on, so meeting the waiting PR *)
(* proves a cycle; when the stack is empty, what was visited is closed     *)
(* under "waits on" and misses the waiting PR, so there is none.            *)

SearchIInv == SearchTypeOK /\ SearchOK

LEMMA EdgesType ==
  ASSUME NEW p \in PRs, NEW q \in PRs
  PROVE  <<p, q>> \in Edges <=> q \in Elements(graph[p])
BY DEF Edges

LEMMA ElementsType ==
  ASSUME NEW list \in Seq(PRs)
  PROVE  Elements(list) \subseteq PRs
BY DEF Elements

LEMMA SearchInitInv ==
  ASSUME SearchInit
  PROVE  SearchIInv
<1>1. pending \in Seq(PRs)
  BY DEF SearchInit
<1> QED
  BY <1>1, SavedAssumption DEF SearchInit, SearchIInv, SearchTypeOK, SearchOK, Searching

LEMMA SearchStepInv ==
  ASSUME SearchIInv, [SearchNext]_searchVars
  PROVE  SearchIInv'
<1> USE DEF SearchIInv
<1>0. \A p \in PRs : graph[p] \in Lists /\ graph[p] \in Seq(PRs)
  BY DEF SearchTypeOK, Lists
<1>1. ASSUME NEW p \in PRs, NEW q \in PRs, BeginAdd(p, q)
      PROVE  SearchIInv'
  <2>1. pending' \in Seq(PRs) /\ Elements(pending') = {q}
    BY <1>1 DEF BeginAdd, Elements
  <2>2. SearchTypeOK'
    BY <1>1, <2>1 DEF BeginAdd, SearchTypeOK
  <2>3. From' = p /\ To' = q /\ seen' = {} /\ graph' = graph
    BY <1>1 DEF BeginAdd, From, To
  <2>4. Reaches(Edges', q, q)
    BY ReachesItself
  <2>5. p # q /\ q \notin Elements(graph[p])
    BY <1>1 DEF BeginAdd
  <2> QED
    BY <2>1, <2>2, <2>3, <2>4, <2>5 DEF SearchOK
<1>2. CASE Refuse
  <2>1. pending' \in Seq(PRs)
    BY <1>2 DEF Refuse
  <2> QED
    BY <1>2, <2>1 DEF Refuse, SearchTypeOK, SearchOK, Searching
<1>3. CASE Skip
  <2>1. /\ Rest \in Seq(PRs) /\ pending' = Rest
        /\ seen \cup Elements(pending) = seen \cup Elements(Rest)
    BY <1>3, ElementsTop DEF Skip, SearchTypeOK
  <2>2. /\ graph' = graph /\ adding' = adding /\ seen' = seen
        /\ From' = From /\ To' = To /\ Edges' = Edges /\ Elements(pending') = Elements(Rest)
    BY <1>3, <2>1 DEF Skip, From, To, Edges
  <2>3. SearchTypeOK'
    BY <2>1, <2>2 DEF SearchTypeOK
  <2> QED
    BY <1>3, <2>1, <2>2, <2>3 DEF SearchOK, Skip
<1>4. CASE Visit
  <2>1. /\ Top \in PRs /\ Rest \in Seq(PRs) /\ graph[Top] \in Seq(PRs)
        /\ Elements(pending) = Elements(Rest) \cup {Top}
    BY <1>0, <1>4, ElementsTop DEF Visit, SearchTypeOK
  <2>2. /\ pending' = Rest \o graph[Top] /\ pending' \in Seq(PRs)
        /\ Elements(pending') = Elements(Rest) \cup Elements(graph[Top])
    BY <1>4, <2>1, ElementsConcat DEF Visit
  <2>3. /\ graph' = graph /\ adding' = adding /\ seen' = seen \cup {Top}
        /\ From' = From /\ To' = To /\ Edges' = Edges
    BY <1>4 DEF Visit, From, To, Edges
  <2>4. SearchTypeOK'
    BY <2>1, <2>2, <2>3 DEF SearchTypeOK
  <2>5. From \in PRs /\ To \in PRs
    BY <1>4 DEF Visit, Searching, SearchTypeOK, From, To
  <2>6. WaitsOn(Edges, Top) = Elements(graph[Top])
    BY <2>1, EdgesType, ElementsType DEF WaitsOn
  <2>7. Searching /\ SearchOK /\ Top # From
    BY <1>4 DEF Visit
  <2>8. From' # To' /\ To' \notin Elements(graph[From])'
    BY <2>3, <2>7 DEF SearchOK
  <2>9. seen' \cup Elements(pending') = seen \cup Elements(pending) \cup Elements(graph[Top])
    BY <2>1, <2>2, <2>3
  <2>10. To' \in (seen \cup Elements(pending))'
    BY <2>3, <2>7, <2>9 DEF SearchOK
  <2>11. From' \notin seen'
    BY <2>3, <2>7 DEF SearchOK
  <2>12. \A p \in Elements(graph[Top]) : Reaches(Edges, To, p)
    <3> SUFFICES ASSUME NEW p \in Elements(graph[Top])
                 PROVE  Reaches(Edges, To, p)
      OBVIOUS
    <3>1. p \in PRs /\ <<Top, p>> \in Edges
      BY <2>1, EdgesType, ElementsType
    <3>2. Reaches(Edges, To, Top)
      BY <2>1, <2>7 DEF SearchOK
    <3> QED
      BY <2>1, <2>5, <3>1, <3>2, ReachesOn
  <2>13. \A p \in (seen \cup Elements(pending))' : Reaches(Edges', To', p)
    BY <2>3, <2>7, <2>9, <2>12 DEF SearchOK
  <2>14. \A p \in seen' : WaitsOn(Edges', p) \subseteq (seen \cup Elements(pending))'
    BY <2>3, <2>6, <2>7, <2>9 DEF SearchOK
  <2> QED
    BY <2>4, <2>8, <2>10, <2>11, <2>13, <2>14 DEF SearchOK
<1>5. CASE RecordEdge
  <2>1. From \in PRs /\ To \in PRs /\ To \notin Elements(graph[From])
    BY <1>5 DEF RecordEdge, SearchOK, Searching, SearchTypeOK, From, To
  <2>2. Append(graph[From], To) \in Lists
    BY <1>0, <2>1, AppendInLists
  <2>3. graph' \in [PRs -> Lists]
    BY <1>5, <2>1, <2>2 DEF RecordEdge, SearchTypeOK
  <2> QED
    BY <1>5, <2>3 DEF RecordEdge, SearchTypeOK, SearchOK, Searching
<1>6. ASSUME NEW p \in PRs, ForgetKey(p)
      PROVE  SearchIInv'
  <2>1. <<>> \in Lists
    BY DEF Lists, Distinct
  <2>2. graph' \in [PRs -> Lists]
    BY <1>6, <2>1 DEF ForgetKey, SearchTypeOK
  <2> QED
    BY <1>6, <2>2 DEF ForgetKey, SearchTypeOK, SearchOK, Searching
<1>7. ASSUME NEW p \in PRs, NEW i \in 1..Len(graph[p]), RemoveEdge(p, i)
      PROVE  SearchIInv'
  <2>1. Without(graph[p], i) \in Lists
    BY <1>0, WithoutInLists
  <2>2. graph' \in [PRs -> Lists]
    BY <1>7, <2>1 DEF RemoveEdge, SearchTypeOK
  <2> QED
    BY <1>7, <2>2 DEF RemoveEdge, SearchTypeOK, SearchOK, Searching
<1>8. CASE UNCHANGED searchVars
  BY <1>8 DEF searchVars, SearchTypeOK, SearchOK, Searching, From, To, Edges
<1> QED
  BY <1>1, <1>2, <1>3, <1>4, <1>5, <1>6, <1>7, <1>8 DEF SearchNext

(* The types, and what a search under way knows.                           *)
THEOREM SearchInvariant == SearchSpec => [](SearchTypeOK /\ SearchOK)
<1>1. SearchInit => SearchIInv
  BY SearchInitInv
<1>2. SearchIInv /\ [SearchNext]_searchVars => SearchIInv'
  BY SearchStepInv
<1> QED
  BY <1>1, <1>2, PTL DEF SearchSpec, SearchIInv

----------------------------------------------------------------------------
(* What the search concludes.                                              *)

(* An edge is refused only when it would close a cycle.                     *)
LEMMA RefuseStep ==
  ASSUME SearchIInv, Refuse
  PROVE  ~ CanAdd(Edges, From, To)
<1>1. From \in Elements(pending)
  BY ElementsTop DEF Refuse, SearchIInv, SearchTypeOK
<1> QED
  BY <1>1 DEF Refuse, SearchIInv, SearchOK, CanAdd

(* With nothing left to visit, the edge is one that may be added.           *)
LEMMA RecordStep ==
  ASSUME SearchIInv, RecordEdge
  PROVE  From \in PRs /\ To \in PRs /\ CanAdd(Edges, From, To)
<1>1. From \in PRs /\ To \in PRs
  BY DEF RecordEdge, SearchIInv, SearchTypeOK, Searching, From, To
<1>2. Elements(pending) = {}
  BY DEF RecordEdge, Elements
<1>3. /\ seen \in SUBSET PRs /\ To \in seen /\ From \notin seen
      /\ From # To /\ To \notin Elements(graph[From])
      /\ \A p \in seen : WaitsOn(Edges, p) \subseteq seen
  BY <1>2 DEF RecordEdge, SearchIInv, SearchOK, SearchTypeOK
<1>4. Closed(Edges, seen)
  BY <1>3 DEF Closed, WaitsOn
<1>5. ~ Reaches(Edges, To, From)
  BY <1>3, <1>4 DEF Reaches
<1> QED
  BY <1>1, <1>3, <1>5, EdgesType DEF CanAdd

(* Refused edges would close a cycle, on any map.                           *)
THEOREM SearchRefusals == SearchSpec => RefusalsJustified
<1>1. SearchIInv /\ [SearchNext]_searchVars => [Refuse => ~ CanAdd(Edges, From, To)]_searchVars
  BY RefuseStep
<1>2. SearchSpec => []SearchIInv
  BY SearchInvariant, PTL DEF SearchIInv
<1> QED
  BY <1>1, <1>2, PTL DEF SearchSpec, RefusalsJustified

(* The map and the search implement the set of edges: a step of the search *)
(* changes no edge, and the step that ends it well adds an edge that closes *)
(* no cycle.                                                               *)
LEMMA StepImplements ==
  ASSUME SearchIInv, [SearchNext]_searchVars
  PROVE  [Atomic!Next]_Edges
<1>0. \A p \in PRs : graph[p] \in Lists /\ graph[p] \in Seq(PRs)
  BY DEF SearchIInv, SearchTypeOK, Lists
<1>a. graph \in [PRs -> Lists]
  BY DEF SearchIInv, SearchTypeOK
<1>1. CASE graph' = graph
  BY <1>1 DEF Edges
<1>2. CASE RecordEdge
  <2>1. From \in PRs /\ To \in PRs /\ CanAdd(Edges, From, To)
    BY <1>2, RecordStep
  <2>2. graph' = [graph EXCEPT ![From] = Append(graph[From], To)]
    BY <1>2 DEF RecordEdge
  <2>3. Elements(Append(graph[From], To)) = Elements(graph[From]) \cup {To}
    BY <1>0, <2>1, ElementsAppend
  <2>4. Edges' = Edges \cup {<<From, To>>}
    <3>1. ASSUME NEW p \in PRs, NEW q \in PRs
          PROVE  <<p, q>> \in Edges' <=> <<p, q>> \in Edges \cup {<<From, To>>}
      BY <1>a, <2>1, <2>2, <2>3 DEF Edges
    <3>2. Edges' \subseteq PRs \X PRs /\ Edges \cup {<<From, To>>} \subseteq PRs \X PRs
      BY <2>1 DEF Edges
    <3> QED
      BY <3>1, <3>2
  <2>5. Atomic!CanAdd(Edges, From, To) /\ Edges' = Atomic!Add(Edges, From, To)
    BY <2>1, <2>4 DEF CanAdd, Reaches, Closed,
                      Atomic!CanAdd, Atomic!Reaches, Atomic!Closed, Atomic!Add
  <2> QED
    BY <2>1, <2>5 DEF Atomic!Next, Atomic!AddOne
<1>3. ASSUME NEW p \in PRs, ForgetKey(p)
      PROVE  Edges' = Atomic!Forget(Edges, {p})
  <2>1. graph' = [graph EXCEPT ![p] = <<>>] /\ Elements(<<>>) = {}
    BY <1>3 DEF ForgetKey, Elements
  <2>2. ASSUME NEW e \in PRs \X PRs
        PROVE  e \in Edges' <=> e \in Edges /\ e[1] \notin {p}
    BY <1>a, <2>1 DEF Edges
  <2> QED
    BY <2>2 DEF Edges, Atomic!Forget
<1>4. ASSUME NEW p \in PRs, NEW i \in 1..Len(graph[p]), RemoveEdge(p, i)
      PROVE  graph[p][i] \in PRs /\ Edges' = Atomic!Remove(Edges, p, graph[p][i])
  <2>1. graph' = [graph EXCEPT ![p] = Without(graph[p], i)] /\ graph[p][i] \in PRs
    BY <1>0, <1>4 DEF RemoveEdge
  <2>2. Elements(Without(graph[p], i)) = Elements(graph[p]) \ {graph[p][i]}
    BY <1>0, WithoutInLists
  <2>3. ASSUME NEW e \in PRs \X PRs
        PROVE  e \in Edges' <=> e \in Edges /\ e # <<p, graph[p][i]>>
    BY <1>a, <2>1, <2>2 DEF Edges
  <2> QED
    BY <2>1, <2>3 DEF Edges, Atomic!Remove
<1>5. ASSUME NEW p \in PRs, ForgetKey(p)
      PROVE  Atomic!Next
  BY <1>3, <1>5 DEF Atomic!Next, Atomic!ForgetSome
<1>6. ASSUME NEW p \in PRs, NEW i \in 1..Len(graph[p]), RemoveEdge(p, i)
      PROVE  Atomic!Next
  BY <1>4, <1>6 DEF Atomic!Next, Atomic!RemoveOne
<1>7. ASSUME NEW p \in PRs, NEW q \in PRs, BeginAdd(p, q)
      PROVE  graph' = graph
  BY <1>7 DEF BeginAdd
<1> QED
  BY <1>1, <1>2, <1>5, <1>6, <1>7 DEF SearchNext, searchVars, Refuse, Skip, Visit

(* The map and its search implement the set of edges.                      *)
THEOREM SearchImplementsStore == SearchSpec => Implements
<1>1. SearchInit => Atomic!Init
  BY DEF SearchInit, Atomic!Init, Atomic!Graphs, Edges
<1>2. SearchIInv /\ [SearchNext]_searchVars => [Atomic!Next]_Edges
  BY StepImplements
<1>3. SearchSpec => []SearchIInv
  BY SearchInvariant, PTL DEF SearchIInv
<1> QED
  BY <1>1, <1>2, <1>3, PTL DEF SearchSpec, Implements, Atomic!Spec
============================================================================
