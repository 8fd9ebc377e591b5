# TLA+ for pr-mon

pr-mon watches the open pull requests of a set of GitHub repositories, says why
each cannot merge, and merges the ones a person armed as soon as they are ready
and everything they wait on has merged. One background process (the *backend*)
does the work; a terminal UI, a Mac app, a command line and an optional chat
channel (Telegram) are clients of it.

This directory holds TLA+ models of the parts where the interleaving of
goroutines, GitHub and crashes decides whether that is right, the configurations
under which TLC checks them, and proofs that TLAPS checks for every value of the
constants. Line references are to the Go sources under `src/`; which lines each
definition stands for is in `PROJECT.json`, under `map`.

1. [The system](#1-the-system): components, state, operations, interactions
2. [What can go wrong](#2-what-can-go-wrong)
3. [Modules](#3-modules) and how they correspond to the code
4. [Runs](#4-runs): what each checks and shows, bounds, fairness
5. [Proofs](#5-proofs)
6. [What the documentation says and the code does not do](#6-where-documentation-and-code-differ)
7. [What is left out](#7-limits)
8. [Plan](#8-plan)

Run a model with `tlc -config MergeClaims.cfg MCMergeWhenReady` (module and
configuration of each run are in the table below); check proofs with
`tlapm MergeWhenReady_proofs.tla`.

## 1. The system

The backend is one Go process. Its centre is `Monitor`
(`internal/service/service.go`), whose mutex guards everything it keeps. Each
refresh, command, merge and tap is a goroutine that takes the mutex for short
sections and calls GitHub *between* them, so every decision that needs GitHub is
made on a copy that may be old by the time it is acted on. What must survive is
in two files, `state.json` and `config.toml`, saved by writing a temporary file
and renaming it, inside the same locked section that changed the memory.

| Component | State | Operations | Talks to |
|---|---|---|---|
| Merge core (`service/service.go`, `commands.go`, `dependencies.go`) | loaded repos (`repos`, `fetched`), `waitedOn`, claims `merging`, `holding`, `holdFailed`; saved: `Armed`, `Dependencies`, `Repos` | RefreshRepo/apply, checkArmed, autoMerge, disarm, holdForDependencies, performAction (merge, force merge, arm, disarm, auto-merge on/off), Add/RemoveDependency, Add/RemoveRepo, PollOnce, RefreshDependencyStates | GitHub client; events to the server, tracker, messages |
| Dependency graph (`dependencies`) | a map from a PR to the PRs it waits on | Add (refuses cycles), Remove, Forget, WaitsOn, RequiredBy, Targets | called under the Monitor's mutex |
| Readiness, actions (`readiness`, `actions`) | none | Assess: GitHub's fields to a status; which menu actions a PR offers | pure functions of a PR |
| Polling (`service/poll.go`) | per repo: list and base ETags, each PR's `updated_at` when last fetched, times; `pausedUntil`, `errs`, `status` | pollLoop, due, Look, applyChanged, RefreshInFlight, refreshPRs, noteFresh, handleFetchError | conditional GitHub requests; merge core's `apply` |
| Automatic retry, muting (`retry.go`, `muted.go`) | saved: `Retry` (PR to head), `Muted` | set, check (re-run failed jobs once), prune | run inside `apply` and right after it |
| Two-way messages and taps (`twoway.go`, `taps.go`, `internal/twoway`) | saved: the standing message of each PR, with keys of its buttons; what is still to be retired | post, update, retire, tap, confirm, force-merge question | handler runner; performAction; GitHub |
| Handler runner (`twoway/handler`) | the current session with its process, calls in flight, taps | start, hello, call with deadline, tap in, exit, restart with back-off, close | child process over JSON lines |
| Change tracker, notifications (`tracker`, `notify`) | last known PRs of each repo | compare a refresh with the last one; filter and word events | called after `apply` |
| Saved state, configuration (`state`, `config`, `files`) | `state.json`, `config.toml` | load, migrate, atomic save | under the mutex |
| GitHub client (`github`, `models`) | ETags, token | FetchRepo (newest N PRs), ListOpenPRs, FetchPRs, BaseMoved, MergePR with the head pinned, auto-merge on/off, rerun | HTTP |
| Server, protocol (`server`, `protocol`) | connected subscribers, idle timer | subscribe with snapshot, broadcast events, dispatch commands, idle exit | unix socket |
| Client mirror (`client`) | a mirror of the snapshot, requests in flight | apply event, request/answer, reconnect, close | unix socket |
| Backend process (`daemon`, `autostart`) | lock file, socket, stopped marker | spawn, run, stop, restart, launchd job | file locks, processes |
| Telegram notifier (`notifiers/telegram`) | its session of the handler protocol, AWS queue | announce, taps from a queue | stdin/stdout, HTTP |
| Terminal UI, Mac app, command line | display state | keys and menus | the client protocol only |

What must be right in each:

- **Merge core.** One unattended merge of a PR at a time; it takes the very commit
  that was judged, judged ready, after everything it waited on when judged has
  merged. Nothing counts as merged that has not. A PR set to merge is never
  silently forgotten, and does eventually merge or report its failure. What is
  kept about closed PRs goes, once the list of the repo's PRs is no longer cut off.
- **Dependency graph.** No PR ever waits on itself through any chain; an edge is
  refused only if it would close one; the search ends even on a graph somebody
  edited into a cycle.
- **Polling.** A conditional answer never hides a change for ever; a partial
  refresh never resurrects a PR that closed; a rate limit pauses everything, and
  only as long as it lasts.
- **Retry and muting.** At most one re-run for a failure; none for a commit that
  was not the one it was switched on for; pruned with the same cut-off rule as
  armed merges.
- **Messages and taps.** A tap acts once, on what its message showed; a message
  whose PR moved on is retired, even across restarts and while the channel is down
  (one whose PR closed, when a list shows that it did).
- **Handler runner.** A call gets exactly one answer; nothing of an ended session
  is taken for the next one's.
- **Server and client.** Whoever stays connected is brought the backend's newest state,
  and the mirror ends up equal to it, unless a snapshot or an event made before the newest
  change is written after it ([section 6](#6-where-documentation-and-code-differ)); a request
  is always answered; a backend with nobody connected and nothing in flight exits.
- **Backend process.** One backend at a time; one that was stopped stays stopped
  until somebody starts it.

## 2. What can go wrong

`PROJECT.json` lists the hazards line by line, with the properties that cover
each. The hard ones come in families:

- *Check, unlock, act.* `checkArmed` judges a copy, looks again under the lock
  only at "still armed, not claimed", and the merge call happens later still.
- *Two refreshes of one repo at once* (scheduler, command, end of a merge, poll of
  everything) finish in any order.
- *Lists that are cut off.* GitHub is asked for the newest N PRs; a PR missing
  from a cut-off list must not be taken for closed, one missing from a full list must; and
  a list may be cut off for one refresh, by PRs that come and go, or for ever.
- *Two owners of one merge.* GitHub's own auto-merge and pr-mon's: a waiting PR is
  moved from the first to the second by two calls with a gap between them.
- *Failed and refused calls*, and, of the calls that change something on GitHub (a merge,
  auto-merge switched on or off), *lost answers*: GitHub did it and the code thinks it failed.
- *Crashes* between any two steps: memory and goroutines go, the files stay. What a
  person edits in them, and a save that fails, come on top.
- *A program that may hang, die or answer late* at the other end of a pipe, and buttons
  pressed on what was true when they were drawn.
- *Processes that find each other by a lock, a socket and a marker file*, all of which
  outlive the process that made them.

## 3. Modules

### DependencyGraph, DependencyStore, DependencySearch

`DependencyGraph` has the operators of `dependencies.go` over a set of edges.
`Reaches` is stated without recursion (every closed set that holds the start holds
the target), so that it can be proved about. `DependencyStore` is the abstract
specification: the set of edges grows by one permitted edge or shrinks.
`DependencySearch` is the code's data structure and its loop: a map of lists and a
depth-first search with an explicit stack, one turn of the loop per step (`SearchSpec`). It starts from
any map, cyclic ones included, since `state.json` can be edited by hand; that the
lists name a PR once is assumed.

### MergeWhenReady

The merge core. A *thread* is a goroutine; `job[t]` holds what the Go function
keeps in locals: which function it is (`fn`), the step it does next (`at`), where
to go on after a call to a function called from several places (`back`), and the
variables it works from (`copy` is the local `repo`). A step is either one section
under the mutex or one call to GitHub, so TLC interleaves threads exactly where
the mutex lets Go do so. `spawned` are `go` statements that have not begun to run.

| Model | Code |
|---|---|
| `gh` | GitHub: external. State, head, whether it could merge by GitHub's own rules (`ready`), its native auto-merge |
| `monitored`, `armed`, `deps` | `config.Repos`, `state.Armed`, `state.Dependencies`: survive a crash |
| `view`, `loaded`, `cut` | `m.repos` (and `m.fetched` under it); which repos are loaded; `PRTotal > len(PRs)` |
| `waitedOn`, `merging`, `holding`, `holdFailed` | the fields of those names |
| `Poll`, `Fetch`, `RefreshNext`, `Apply`, `ApplyUnmonitored` | `RefreshRepo`, `apply` |
| `Scan`, `HoldNext`, `TurnOff`, `Arm`, `Unhold` | `holdForDependencies`, `hold` |
| `ReadArmed`, `Judge*` | `checkArmed`: one read of `Armed`, then one locked look per PR |
| `Begin`, `AutoMerge*`, `Disarm`, `Record`, `ReadWaiting`, `Release` | `autoMerge`, `disarm`, `merged`, `refreshWaiting` and the deferred delete of the claim |
| `ArmMerge`, `DisarmMerge`, `ManualMerge`, `ClaimMerge`, `MergeCall`, `AutoMergeOn/Off`, `SetAutoMerge`, `CopyRepo` | `performAction` and what it calls |
| `AddDependency`, `AddEdge`, `RemoveDependency`, `AddRepo`, `AddFetched`, `RemoveRepo` | the commands of those names |
| `PollOnce`, `RefreshDependencyStates`, `Store`, `Rebuild`, `JudgeNext` | `refreshWaitedOn` and its two callers |
| `Crash` | the process dies; the next one loads the files |

Readiness is one Boolean per PR at this level: what GitHub's fields amount to.
The constant `Inputs` says which commands, edits on GitHub and failures happen in an
instance, `MaxEdits` how many, `MaxHead` how many pushes. A definition whose comment
calls it a mutant is a plausible wrong version of the one after it. No specification
uses it: put in place of the right one, it makes TLC find the property violated that
`PROJECT.json` pairs it with, which shows that the property can fail.

`TurnOff` is the call by which a waiting PR leaves GitHub's auto-merge. It succeeds, fails
(`"hold fails"`), or is done by GitHub with the answer lost (`"answer lost"`): the code then notes
a failed hold and does not arm the PR, and `LostInTheMove` is that case and the crash in the same place.

### RepoWatch

How the copy of one monitored repo is kept up to date: `poll.go`, the full fetch of
`service.go`, and the two things a refresh prunes or spends besides armed merges,
automatic retry (`retry.go`) and muting (`muted.go`). Threads and steps are as above:
one section under the mutex or one call to GitHub.

An ETag stands for the answer it came with, so in the model it *is* that answer, and
"304 Not Modified" is "the answer is the one I hold". `updated_at` moves with a push and
not with a run of the checks, so a PR's head stands for it. The merge state of a PR
depends on its base branch, so the base branch is what a copy of a PR shows of it.

| Model | Code |
|---|---|
| `gh`, `base` | GitHub: external. A PR is not yet opened, open or closed; its checks run, fail or pass |
| `fetched`, `total`, `watch` | `m.fetched`/`m.repos`, `PRTotal`, `m.watches` |
| `paused`, `limited`, `failed` | `m.pausedUntil` is to come; what clients are shown of a limit; `m.errs` |
| `muted`, `retry`, `reruns` | `state.Muted`, `state.Retry`; `RerunFailedJobs` goroutines under way |
| `LookFull`, `FetchFull`, `Mark`, `Apply`, `CheckRetry`, `SyncList`, `SyncBase`, `Sync`, `Fresh` | `RefreshRepo` to its end |
| `Look`, `AskList`, `AskBase`, `Note`, `Relist`, `Renote`, `CopyRepo`, `FetchDetails`, `Splice` | `Look` with `applyChanged` |
| `LookInFlight`, `FetchDetails`, `Replace` | `RefreshInFlight`, `refreshPRs` |
| `CallFails`, `LimitEnds` | `handleFetchError`; the end of the pause |
| `Command`, `SetMuted`, `SetAutoRetry`, `CopyOwn` | the commands about one PR |

Intervals are abstracted: what is due after a time may happen any time.

### ServerClients

The socket server, the client's mirror, and the exit of a backend nobody uses. A
connection is two queues of messages and two flags, closed by the server (`shut`) and
closed by the client (`hung`). The state of the monitor is the number of its changes:
a snapshot and an event say which number was read when they were made. A step is one
section under a mutex or one message put into or taken from a connection.

| Model | Code |
|---|---|
| `Change`, `ListSubscribers`, `ReadState`, `WriteEvent` | `emit` and `Server.broadcast`: list the subscribers under the mutex, read the state, write under the mutex again |
| `Scan`, `Dispatch`, `WriteAnswer`, `ScanEnds`, `ServeEnds` | `serve`, a goroutine per request, and the deferred parts of `serve` |
| `Sent`, `NotSent` | `Server.write`, which drops a subscriber it cannot write to |
| `LookVacant`, `Look`, `CheckMerging` | `checkIdleIn`; a timer carries the number of the vacancy it was set in |
| `Close`, `CloseConns`, `Exit` | `Server.Close` and the end of `daemon.Run` |
| `Connect`, `Connecting`, `Hangup`, `Send`, `Ask` | `Client.Connect`, `Close`, `request` |
| `ReadResponse`, `ReadEvent`, `Panic`, `ReadEnds` | `readLoop`, `applyEvent`, `dropConnection` |

A client's `mirror` is the number its mirror shows, whatever came last: what is read
later replaces it, older or not (`ReadResponse`, `ReadEvent`). `got` (the newest number a client was
brought), `overtaken` (the clients to whom, when the newest change was made, something older was still to come:
an event being broadcast, a snapshot asked for, a connection they left that is still read), `left` and `dropped`
are history variables: no action's guard reads them.

### HandlerChannel, TwoWayMessages

The chat channel as a to-do list: a message with buttons for each PR that changed, edited or
deleted when it no longer holds, and the taps on the buttons. `HandlerChannel` is the
abstract specification of the handler program as the service sees it: five states, from *down* to
*announced and gone*. `TwoWayMessages` takes the handler's steps from it, and `HandlerRunner` implements it.

A goroutine is a member of the bag `tasks`; its step (`at`) is one section under the mutex or one
call to the handler or to GitHub. All keys of one rendering of a message are fresh together, so a key is the number
of the rendering (`gen`) and the button. The list holds `PRLimit` PRs; `newer` counts the repo's other
open PRs, all newer than those with messages, so that they can push one off the list, for a while or for good. A
copy of the repo has its own `total` (`PRTotal`), which may be of another age than the PRs in it.

| Model | Code |
|---|---|
| `gh`, `chat`, `pressed`, `delivered` | GitHub and the chat service: external |
| `messages`, `track` | `state.Messages` and the tracker's records: survive a crash |
| `repo`, `readies`, `tapping` | `m.repos`, `m.readyCount`, `m.tapping` |
| `Poll`, `ConditionalLook`, `Apply`, `Sync` | a full refresh, a conditional one (which corrects `PRTotal` only below the limit), `apply`, `syncMessages` |
| `OtherOpens`, `OtherCloses` | PRs nobody has messages about, opened and closed on GitHub |
| `Post`, `Record` | `post`: the call, then the section that records the message and claims the previous ones |
| `Delete`, `Strip`, `Keep`, `Again` | `retire`, `keepRetiring` and the look at `readyCount` |
| `AnnounceReady`, `AnnounceDown`, `Start`, `SetChannel`, `Stop`, `Crash` | `availability`, `Start`, `Stop`, the end of the process |
| `Deliver`, `HandleTap`, `Spend`, `Check`, `Splice`, `Judge`, `Ask`, `Perform`, `Reload`, `Rerender`, `Finish`, `Edit`, `Ack` | `receiveLoop`, `handleTap`, `act`, `confirm`, `perform`, `rerender`, `finish`, `ack` |

`Check` is `act` up to the answer of its fetch: a tap on a message about no known commit is refused unless it re-runs
checks. `Splice` is the locked section of `refreshPRs`, later, into the copy there is by then.

### HandlerRunner

`runner.go`, with the program it starts: the Telegram one's session loop (`session.go`), which here
may also stop answering, close its stdin or die. The supervisor, the reader, the callers and `Receive` are processes of
their own. A session starts only after the last has exited, so that one session record is enough; a call
begun in an earlier one knows its number. The refinement to `HandlerChannel` maps *current session* and *what OnChange was
told last* to its five states.

### BackendProcess

`internal/daemon` with its callers: the lock, the socket, the marker for *stopped on purpose*, the commands
`start`, `stop`, `restart`, `autostart enable` and `disable` (the dashboard's connect starts
and restarts as they do), the Mac app, which starts a backend it lost, and launchd, which runs the login agent and
the session job. Looking whether a backend runs takes the lock, shared, for a moment
(`Probe`, `Unprobe`). What `Run` does between closing the server and its end is in `ServerClients`.

| Model | Code |
|---|---|
| `TakeLock`, `RecordPid`, `Unmark`, `Listen`, `SeesShutdown`, `SeesSignal`, `CloseListener`, `RemoveSocket`, `Return`, `Exit` | `Run` from start to end: `flock`, the pid written into the lock's file, and, at the end, the lock let go and the process gone |
| `Spawn`, `KickSession`, `Bootout`, `Bootstrap`, `SpawnAnswered`, `SpawnExited` | `Spawn`, detached or through launchd: kickstart of the session job, and, if launchd does not have it or it failed, bootout and bootstrap |
| `Look`, `Ask`, `Recheck`, `TimesOut` | `Stop` |
| `Install`, `Ready`, `Remove`, `Was`, `Uninstall`, `Note`, `Kick`, `Kicked` | `autostart`: enable, disable, restart through launchd |
| `AppConnects`, `AppLoses`, `AppRefused`, `AppStarts`, `AppLeavesIt` | `Store.runConnection` |

The pid and the marker are files, and writing either may fail (`"write fails"`), which the code ignores or only
logs: a failed write of the pid leaves the one that was there or none. `last`, the last process that ran, and `unwritten`, what
could not be written, are history variables.

### Readiness, PullRequestRules

`Readiness` has `Assess` (status, reasons, strictly ready), what waiting on others does to it, the
menu of `actions.go`, and which actions `performAction` refuses or takes for another, as operators over GitHub's fields.
`PullRequestRules` takes one PR through the backend: polls, the tracker, the choice of what to notify about,
mute, retry, its menu's actions and restarts.

### SavedSettings

`config.toml` and `state.json`: how each is loaded (a missing file, one that cannot be read, a bad part), how it is
saved, and the commands that change and save them, with edits by hand, saves that fail and crashes. One field stands for a
group that is treated alike: `active` for the two other intervals, `logins` for the lists of people, `notifyFor` for a repo's
notification settings, `kept` for all `state.json` remembers by repo. A command is one
step, as it changes memory and file in one section under the mutex; `DiesRemoving` is a death between
the two files `RemoveRepo` saves. The list of repos may name one twice (`twice`), as `Load` keeps a list written by hand, and a
repo's notification settings may have null events (`"null"`), which a client may send. `Unreadable` says that `Save` makes
no TOML of the two: what it writes then is `Broken` to the next `Load`. `edited`, `unsaved` and `asked` are history variables.

## 4. Runs

| Run | Checks | Shows |
|---|---|---|
| `MergeClaims` | `OneAutoMergeAtATime`, `KnownMergesAreReal`, `AutoMergeJustified` | Refreshes, unattended and manual merges, pushes, closed and reopened PRs, failed calls, lost answers and crashes in any order: one unattended merge of a PR at a time, of the commit that was judged; nothing is taken for merged that is not |
| `MergePromise` | `NoDeadlockedPRs`, `PromiseKept` | Arming, GitHub's auto-merge switched on and off here and there, new dependencies, removed repos, cut-off lists, crashes: a PR set to merge stays set until it is no longer open, a person turned it off or its failure was reported; it is lost in one place only, between GitHub's auto-merge and pr-mon's, by a crash or by the lost answer of the call that turns the first off |
| `MergeLiveness` | `ClaimsReleased`, `ReadyPRsMerge`, `ClosedPRsForgotten` | Over a failed merge, a lost answer, and lists that stay cut off or do not: claims are given up, ready armed PRs merge (or fail out loud), and what is kept about closed PRs goes unless the list stays cut off |
| `MergeRemoved` | one property, violated | see [section 6](#6-where-documentation-and-code-differ) |
| `DependencySearch` | `SearchOK`, `Implements`, `SearchEnds` | On every map over three PRs with lists of up to two, the search implements the store, is right about what it visited, and ends |
| `RepoWatch` | `RetriesOnce`, `KeptWhileOpen`, `ShowsGitHub`, `OutdatedForgotten` | Full, conditional and in-flight refreshes of one repo side by side, over pushes, closings, a moving base branch, failed and rate-limited calls, and crashes: a failure is re-run once, what a cut-off list leaves out is not taken for closed, what is kept about closed PRs goes unless the list stays cut off, and once GitHub rests the copy settles on what GitHub has |
| `ServerClients` | `NoEventLost`, `RequestsAnswered`, `IdleExits`, `StopEnds` | A client that connects twice, drops, quits, asks or sends rubbish while the backend changes, stops or crashes: a subscriber is brought the newest state and its mirror comes to show it unless something older was still to come when it was made, a request ends, an idle backend exits, a stopping one ends |
| `TwoWayMessages` | `ActsOnce`, `MergesPinned`, `OneMessagePerPR`, `ClosedIsClosed`, `MessagesCurrent`, `NoOrphans` | Taps, pushes, closings, lists cut off by other PRs, a PR without a head, failed calls, a handler that goes, Stop, Start and a crash around one message: its taps act once and on the commit they were shown for, *closed* is said of what closed, and what is retired ends up deleted or without buttons |
| `HandlerRunner` | `AnswersOwn`, `OneProgram`, `NoTapSkipped`, `Implements`, `NothingHangs` | A program that dies, hangs, answers late or speaks another protocol, calls, taps and Close at any step: a call gets its own answer or fails, one program runs at a time, no tap is thrown away, the runner implements `HandlerChannel`, nothing waits for ever |
| `BackendProcess` | `TypeOK`, `ServingIsReachable`, `ReplacedIsGone`, `StaysStopped` | Several commands, the app and launchd at once, with kills, failed starts and failed writes, on both platforms: one holder of the lock, named in its file, whoever serves can be reached, who was told it stopped finds it gone, and a deliberate stop is respected if it could be recorded |
| `PullRequestRules` | `MenuAgrees`, `AnnouncedOnce` | One PR whose fields, dependencies and settings change between polls: its menu offers what the backend takes, and each of its statuses is announced once, over recomputes and restarts |
| `SavedSettings` | `TypeOK`, `RestartChangesNothing`, `NotifiesAsAsked`, `IgnoredIsKept` | Edits by hand, files that cannot be read, saves that fail, crashes: a restart changes nothing but for the two kinds of settings `Save` has no TOML for, an unreadable `config.toml` is left to the person unless the backend itself made it so, old settings go on notifying for everyone |

Distinct states: `MergeClaims` 801,000, `MergePromise` 1,503,000, `MergeLiveness` 33,000, `DependencySearch` 14,000,
`RepoWatch` 670,000, `ServerClients` 451,000, `TwoWayMessages` 379,000, `HandlerRunner` 119,000, `BackendProcess` 4,004,000,
`PullRequestRules` 42,000, `SavedSettings` 643,000. Each takes from some seconds to three minutes.

Every module has a type invariant `TypeOK`. The runs list it where it also says something of the code: one holder of
the lock and whether its file names it (`BackendProcess`), intervals that are never
zero (`SavedSettings`). The others hold on the same instances, and section 5 proves those of the modules it is about.

**Bounds of the merge core.** Two threads, and two PRs but in `MergeLiveness`. Everything the properties say is about one PR,
or about one PR and one it waits on; two goroutines are what it takes for one to act
on what another made stale, and a third goroutine (a spawned `autoMerge` or `hold`)
waits in `spawned` with its arguments taken. A list holds one PR (`PRLimit = 1`). `MergePromise` has both PRs in one
repo, so that one PR is cut off the list; the other runs have them in
two repos, so that a merge in one has to be noticed in the other. `MergeLiveness` has besides PR 3 and PR 4 in the repo of PR 1 (`CrowdedPRs`). Both
closed, the list is whole; with one of them open it is cut off until PR 1 closes; with both it stays cut off, and PR 1, armed
and waiting, is not on it. `MaxHead = 1` gives the
push that makes a judgement stale. `MaxEdits` is 3 where the interesting
behaviours need a command, an edit on GitHub and a failure, 2 in `MergePromise`, and 1 under
fairness, where the graph is searched for cycles. PR 1 may wait on PR 2 and PR 2 starts
mergeable (`MCInit`). The proofs of section 5 do without any bound. Threads are
interchangeable in the safety runs (`SYMMETRY`); the liveness run has no symmetry.

**Bounds of the other modules.** `DependencySearch` has three PRs: two edges that
close a cycle through a third. `RepoWatch` has three PRs with `PRLimit = 1`, so the list is cut off whenever two
are open, and two threads, of which one can overwrite what the
other recorded; it starts with one PR open, and muted, which another may push off the list, or with all three, of which the
oldest is muted and set to retry: when one of them closes the list stays cut off. One edit (`MaxEdits`) is one thing that
happens on GitHub, fails or is asked for; refreshes and the ends of checks are not
counted. `ServerClients` has one
client with two connections (what it holds of the first when it dials the second is the
hard part; the server treats the connections of two clients as it treats those two), two changes, and one other
input. The second of its goroutines changes something
only while the first one broadcasts, before a second dial and any other input, which is when
their events can cross (`MCNext`, which cuts only steps that no fairness asks for).

`TwoWayMessages`, `HandlerRunner`, `BackendProcess` and `PullRequestRules` take what happens in a behaviour from a bag or set of
inputs (`Budgets`, `Inputs`): each of the bags in their MC modules is a race or a failure with what it races with, such as two
taps and a push, or a call, a tap and a program that dies. `TwoWayMessages` starts with one message standing, which is
what there is to tap on and to retire; four posts let it be superseded and tested. The list holds one PR: one bag has
PRs that nobody has a message about push the message's PR off it, one for a while and one for good (`"other opens"`, `"other closes"`), and another
has a PR whose head GitHub does not name. Two sessions of `HandlerRunner` are
an ended one and the next. Three processes in `BackendProcess` are one that ends, its successor and a third that finds the
lock taken; one bag has a write that fails, of the pid or of the marker. `PullRequestRules` has the combinations of fields GitHub reports, changed one aspect at a
time. `SavedSettings` has no bound: one repo, one login and a blank one, and eight hand-written configs, each of which is
read in another way, one of them with the repo twice in its list.

**Deadlock** is checked, except in `MergePromise`, `MergeRemoved`, `ServerClients`, `TwoWayMessages`, `HandlerRunner` and
`BackendProcess`: there a repo can be removed, the backend exit, the runner be closed, or
nothing be left to do, and the system may really stop.

**Fairness.** `WF(Step(t))`: a goroutine that runs goes on (GitHub calls have
timeouts). `SF` for starting a spawned goroutine, for polling each repo and for
looking up dependencies: the tickers of `pollLoop` fire for ever and Go gives
each tick and each spawn a goroutine of its own. It is strong because `Threads` is a
bound of the model and not of the program: with two threads a spawn can find both
busy over and over, which the code's unbounded goroutines cannot. Nothing is assumed
of commands, of GitHub merging a PR by itself, or of anyone fixing anything.

`RepoWatch` has `WF` for each thread's step, for a re-run under way and for the end of a
rate limit, and `SF` for a full look, which the scheduler takes up once the repo was last fetched in
full `github.Stale` ago and which, here too, competes for threads the code does not
lack. `ServerClients` has `WF` for all the work of goroutines and of the client's read loop
together, for the idle check and its timer, and for the end of a merge; nothing makes
anybody dial, ask, change anything or stop the backend. The work is one disjunction
because that is weaker than fairness for each goroutine and enough: all of it but the idle
check comes to an end.

`TwoWayMessages` has `WF` for the goroutines that are under way together, for the service and the handler being started and
announced, and for the poll; nothing makes anybody tap or GitHub move. `HandlerRunner` has `WF` for the supervisor, the pause
between sessions once it was cancelled or its time is over, the reader, `Receive`, the exit of a killed program, and each call, which has a
deadline. Nothing is assumed of the program: it may hang for ever. `BackendProcess`, `PullRequestRules` and `SavedSettings` are
safety only.

## 5. Proofs

TLAPS checks these for any PRs, repos, goroutines, heads, clients, connections, processes, callers and bounds, under the
`ConstantsAssumption` of each module and `EntryAssumption` (bounds are numbers; *None* and *Broken* are none of
the other values) and, in `DependencySearch`, `SavedAssumption` (saved lists have no
duplicates).

- **`MergeWhenReady_proofs`**: `MergeTypes`, `MergeInvariant`, `MergeClaimsKept`,
  `MergeNeverDeadlocks`, `MergeImplementsStore`. `OneAutoMergeAtATime` is not
  inductive by itself: it must be known that a job with a claim still has its
  `release` in front of it, either as its next step or as the place it returns to.
  `JobOK` says so for every step at which a job can be, and
  `IInv == TypeOK /\ JobsOK /\ OneAutoMergeAtATime` is inductive. That the saved
  dependencies follow `DependencyStore` is proved step by step from the same
  invariant.

  That they stay acyclic follows from `AddAcyclic`: an edge `CanAdd` accepts keeps an
  acyclic graph acyclic. If the new graph had a cycle it would use the new edge
  `<<p, q>>`; take a set closed in the old graph that holds `q` and not `p`, which
  exists because `q` did not reach `p`: it is closed in the new one too, so
  it separates the two ends of the supposed cycle.
  The search that answers `CanAdd` in the code is proved here too: `SearchInvariant`, `SearchRefusals`,
  `SearchImplementsStore`. What is visited or on the stack is reachable
  from the target, and nothing a visited PR waits on is missing from both. When the stack is
  empty the visited set is closed and lacks the PR that is to wait, which is the
  witness that `Reaches` is false; when the top is that PR, it is reachable.

  What `KnownMergesAreReal` and `AutoMergeJustified` need is in `HInv`, at the end of the
  module (`MergeKnowledge`, `MergesKnownAreReal`, `MergesAreJustified`): it says of everything
  a goroutine carries (a fetched copy, the answers of a lookup, the PR `autoMerge` was given)
  what stays true of it however old it gets. GitHub never takes a merge back (`Grows`): a copy
  that shows a PR merged stays right. Past the judgement, a copy holds only PRs that
  were strictly ready when judged, and the head `autoMerge` pins is the judged one, so
  that GitHub's own check of the head makes the merge be of that commit.

  `PromiseKept` (`PromisesAreKept`, where `"reopen"` is not among `Inputs`) needs what an old list says of the PRs it
  lacks. A list that was not cut off has every PR that is open, and a PR that is not open stays so, so what it lacks is
  gone, however old it is (`GInv`, `OldListsLackNothingOpen`). This is carried from the fetch through `apply` into
  `m.repos` and from either through `checkArmed`'s judgement, so what is disarmed as closed has closed. For the
  rest a promise is followed step by step: it leaves `armed` by a person's command, with its repo or after a failed merge
  (`ArmedEnds`); it leaves GitHub with the PR, by a person, or by `hold`, which has it in hand or lost the answer
  (`AutoEnds`); and a goroutine that has it in hand can only arm it (`InHandIsArmed`) or die.
- **`BackendProcess_proofs`**: `OneBackend`, `BackendReachable`, `BackendReplaced`,
  `BackendStaysStopped`. All rest on the lock. `ProcInv` ties a process's step to the lock, the
  pid in its file (from the step after its writing on, unless it could not be written) and the socket's path: whoever removes the path still holds the lock, and whoever binds it
  took the lock afterwards. That a command was told the truth needs, of a command that is waiting,
  that the backend it asked to go had served (`CallsOK`) and that no process ever goes back
  (`Forward`). That the app respects a deliberate stop needs the marker: why a process ended is
  said at its end, and the marker tells it of the last one that ran, if it could be written, until another has the lock (`EndsOK`).
- **`PullRequestRules_proofs`**: `MenuSound`, `StatusAnnouncedOnce`. The menu is about one record, so its proof is one
  lemma per promise, for any fields, also values GitHub has yet to invent. The history needs one invariant:
  the tracker has recorded, through any recomputes and restarts, the last real status (`Recorded`).
- **`HandlerRunner_proofs`**: `RunnerTyped`, `CallsGetTheirAnswer`, `OneProgramRuns`, `TapsAreKept`,
  `RunnerImplementsChannel`. That a call gets its own answer needs that an id is given to one call of a session
  (`Numbered`) and that what is written to a program or by it belongs to the session that
  runs (`Supervised`, `LinesOK`). That no tap is thrown away needs the order of two pipes: nothing but hello is written to a program that
  has not answered it (`Introduced`), and what it writes first is the answer (`HelloFirst`). With
  these, each step is a step of `HandlerChannel` or none.
- **`SavedSettings_proofs`**: `SettingsTyped`, `RestartsLoseNothing`, `AskedIsNotified`, `BrokenFileIsKept`.
  `SavedMeans` says that what `Save` writes, `Load` reads as what it meant, unless the settings are `Unreadable`. The invariant ties the memory to the
  file while a backend runs, knows that a file that cannot be used is known to be ignored or was made so by the last save (`IgnoredKnown`), and follows what a person asked for
  into whichever of the two counts (`Asked`). The attempt showed two things. Settings written by hand for a repo that is not
  monitored do not survive the next save, so they ask for nothing if the repo is added later: `AskedIn` counts monitored repos only.
  And `AddRepo` asks whether the config may be saved only before its call of GitHub: that is
  enough because `ignored` is decided when the backend starts (`adding # {}` implies that it is not).
- **`TwoWayMessages_proofs`**: `TwoWayTyped`, `TapsActOnce`, `MergesArePinned`, `OneMessageStands`, `ClosedIsTrue`.
  A goroutine of the channel stops at every call and goes on later with what it had, so the invariant
  (`IInv`) says of each member of `tasks` what holds at whichever step it is.
  `HeldOnce` is about who may act: a tap being handled, a message claimed to be retired, and a key that is yet to be
  spent, posted or recorded are each held by one goroutine or by one table, and by no two. `KeysDiffer` adds
  that standing messages have different keys and none that was acted on. From these follows
  `ActsOnce`: to act a goroutine must take the key out of the record, and it can come back into no record.
  `OneMessagePerPR` follows from the claim `Record` makes in the section in which it records.
  `Agreed` says that wherever one rendering's number appears (in a record, a chat message, a tap on its way, a goroutine)
  it comes with the same commit, which makes a merge be of the commit that was shown. `Told` says that, while nothing failed, a
  record is of the commit its message tells of, or of one that an edit under way will tell of.
  `Shape` and `Fine` say what a goroutine must carry at each step, and that a copy without a PR, unless it was cut off,
  and a message retired as closed, are about PRs that closed: the model lets none reopen under its
  number, so the age of the copy does not matter. What matters is that a copy that lacks an open PR looks cut off, which a
  PR spliced out of it only strengthens, as `PRTotal` stays; a conditional look that keeps an old `PRTotal` can break it, and `ClosedIsClosed` and
  these parts of the invariant hold until one has (`"total" \in mishaps`). That no tap merges unpinned follows
  from `Check`: past it the record has a head. `TablesFine` says it of what is in the tables
  and the chat. TLC finds `IInv` true in all 379,000 states of the run; the proof needs nothing of `Budgets` but that
  they are bags.

- **`RepoWatch_proofs`**: `RepoWatchTypes`, `RetriedOnce`, `OpenPRsAreKept`. `RetriesOnce` is inductive with the types.
  `KeptWhileOpen` is about what a copy and a `PRTotal` of different ages say together. As
  long as no PR is opened, there is one set of at most `PRTotal` PRs that holds all that are open and all in the copy
  (`Covered`): when the copy has as many as `PRTotal`, it is that set, and what it lacks is closed. This has to be carried for
  the view, for what every goroutine fetched (`JobOK`), and for lists shorter than the limit, which
  are whole (`Whole`). The attempt showed that `Splice` and `Replace` were written with a `CASE` whose guards overlap, which
  TLC reads top down and TLA+ does not: they are nested `IF`s now, as in the code.
- **`ServerClients_proofs`**: `ServerTyped`, `NothingLost`, `NothingStale`, `AnswersUnderWay`, `ExitsUnderWay`. What a run
  checks of this module is liveness. These are the safety facts it rests on: at every step what must come is on its way, so that
  fairness is all that is missing. `NewestOnItsWay`: the newest state is with whoever follows, or
  in a message, an answer or a broadcast yet to be written, or in the hands of a goroutine yet to read it. It survives
  a slow snapshot overtaken by an event, as everything read later is of a later state (`VersionsOK`) and `got` keeps
  the newest ever brought. `got` says nothing of what the mirror *ends* with, which is what was read last.

  `MirrorSettles` does: of a connected client that was not overtaken, the last of what is still to be read, be it on the connection, in an
  answer or in a broadcast (`ToCome`, in the order in which it will be read), is of the newest state, and
  the mirror shows it when nothing is to come. `NothingStale` is the case where nothing is. The second invariant (`MInv`) says
  why: a client has one connection that counts (`OneConnOK`, `HereOK`, `HelloOK`), which is first in,
  first out; a client is not overtaken only if, when the newest change was made, it had read all that was written for it and asked for
  no snapshot (`OthersRead`); so an event under way to it is that of the newest change (`EventsNew`), and a snapshot it asks for
  afterwards is taken after the change (`SnapshotNew`). TLC finds `MInv` true in all states of the run.

  `AnswerUnderWay`: a caller that waits has its request or the answer under way, or a connection
  that ended and is still read. `ExitUnderWay`: an unused backend was told to exit, or a check of *this* vacancy
  is to come. The rest of the first invariant (`ConnOK`, `KnownOK`, `ServedOK`) is that a connection belongs to one client, that
  nothing is answered that was not asked, and as what, and that a dead backend has closed every connection that was dialled.
  `AskedOK` counts: two requests for a dial and one for each other input, which makes ids bounded.

**Only model-checked**: the liveness properties, `MessagesCurrent`, `NoOrphans` and `SearchEnds` among them (liveness is out of the
prover's reach; of `ServerClients`, what it rests on is proved) and the violation. **Only proved**:
`DependenciesKept`, that `MergeWhenReady` implements `DependencyStore`, and `RefusalsJustified`, that the search refuses only
what closes a cycle, and the facts about `ServerClients`: TLC has found them true, with the rest of the
invariants, in the states of its run, and a run of them would add nothing to the theorems.

## 6. Where documentation and code differ

One run ends in a counterexample to a sentence of the repository:

- `MergeRemoved`. `docs/protocol.md:75` on `remove_repo`: "Also drops its notification
  settings and armed merges". An `arm_merge` that found the PR before the repo was
  removed records it afterwards, and it stays in `state.json`. So does, without any race, what a death of the backend
  between the two files of `RemoveRepo` leaves there (`DiesRemoving` of `SavedSettings`).

The others show in the models without a run of their own. In the merge core:

- `docs/protocol.md:94-95`: "A PR with dependencies isn't merged, by
  pr-mon or by hand, until everything it waits on has merged". A dependency added
  after the PR was judged ready, in `checkArmed` or in `performAction`, and before the
  merge call, does not hold the merge back. What does hold is
  `AutoMergeJustified`: everything the PR waited on *when it was judged* has merged.
- `service.go:399-400`: "Merging reports whether a merge (manual or
  pr-mon's) is in flight". Of two manual merges of a PR the first holds the claim;
  when it ends, the second is in flight with nothing to report it.
- `dependencies.go:252-253` tells the user of a PR that waits that "GitHub auto-merge couldn't be turned off,
  so GitHub may merge it first". When only the answer of the call was lost, auto-merge is off, the PR is not armed either,
  and nothing will merge it: `LostInTheMove`, the exception of `PromiseKept`.
- The repository's `README.md:193-194` says that merge when ready is "also cleared when the PR is closed", and line 221 that "A PR's
  dependencies are forgotten once it merges or closes". For a repo whose list *stays* cut off, no list proves that a PR which is not
  on it has closed (`dependencies.go:75-77`, `service.go:638-648`): it stays armed, and its dependencies stay, until fewer PRs are open. `ClosedPRsForgotten` leaves this out (`CutOff` in `Remembered`), and so does
  `OutdatedForgotten` for what `muted.go:56` and `retry.go:77` keep. The same holds of the message about such a
  PR (`twoway.go:276`, `284`), which `MessagesCurrent` leaves out.

In polling, retry and muting:

- `muted.go`: muted PRs "stay muted until unmuted, or until they merge or
  close". A conditional look keeps the old `PRTotal` when the list is exactly as long as
  the limit. A PR opened since has pushed an older one off the list, the list does not
  look cut off, and the older one is unmuted while it is open. `KeptWhileOpen` is what does hold:
  without a PR being opened, nothing is pruned that is open.
- `docs/protocol.md:150` describes a rate limit that is shown while it lasts. A look begun before
  the limit and ending after it clears what is shown (`noteFresh`), with
  the pause still in force.
- `retry.go:1-4`: automatic retry "switches off after retrying, when the PR gets a new head
  commit, or when the PR closes". A refresh that was begun before the
  latest push, and is applied after retry was switched on for the new head, drops it.

In the server and its clients:

- `dispatch.go:95-96`: "Subscribe before taking the snapshot, then send
  it under the same lock, so no event is missed or delivered before the snapshot
  response". The lock is released between the two, and a broadcast fits in: the event is
  on the connection ahead of the snapshot. A client that has no snapshot yet panics on the event
  (`client.go:258`, `265` write to a nil map; action `Panic`).
- `docs/protocol.md:52-54`: a client that applies the events to the snapshot has a mirror of the backend. The snapshot is read from the
  monitor some time before it is written (`dispatch.go:97-103`), and two broadcasts may be written
  in either order. A client replaces what it has by what it reads (`client.go:104-107`, `applyEvent`), so an older snapshot or event that is
  written last leaves the mirror stale until the next change. It was brought the newest state, and does not show it: `NoEventLost` demands
  the mirror only of the clients that nothing older was still to reach when the newest change was made (`overtaken`).
- `server.go:124` says that `Close` "drops every connection". It closes those that have
  subscribed and waits for the others: hence the second disjunct of `StopEnds`.
- `server.go:86-88` says that each time the last front end leaves a check is
  scheduled. When the last one goes because a write to it failed, `write` has already taken it off
  the list and `serve` schedules nothing: hence `dropped` in `IdleExits`.

In two-way messages:

- `twoway.go:4-5`: "The chat is a to-do list: what's left in it still needs you." While GitHub recomputes how a PR
  merges, its status in the list is CHECKING, which `syncMessages` (`twoway.go:287`) takes for a change and the tracker does not:
  the message is deleted as "Status changed" and none follows, though the PR stays ready. What is left needs
  you; what needs you is not always left.
- `twoway.go:276-285` retires a message as "PR closed" when a list that is not cut off lacks its PR. A conditional look
  keeps the old `PRTotal` when the list is exactly as long as the limit (`poll.go:268-270`), so one that was pushed off the list by a
  new PR is retired as closed while it is open: `"total"` in the `mishaps` of `ClosedIsClosed`.
- A tap that arrives between `Post` and `Record` finds no record: its message is edited to say it is no
  longer tracked, and is tracked a moment later.
- A repo that is removed while a post for it is in flight has a message recorded that nothing retires until its PR's
  repo is added again; a Stop during a post can leave a message nobody tracks (hence `mishaps` in `NoOrphans`).
- `taps.go:261-263` on `rerender`: "Its buttons now act on the PR's current head; if that moved, it
  says so, so no button ever acts on a commit the message hasn't announced". The record has the new head before the
  edit is sent. When that edit is lost, because its call fails or the backend dies in between, the next tap finds an unknown
  key and the record's head equal to the PR's: the message is redrawn without a word of the change, and the tap after that merges the
  new commit (TLC finds it with the inputs `Unannounced` if the condition `mishaps = {}` of `MergesPinned` is dropped). What holds
  is `MergesPinned`: the commit merged is the one the button was made for, and the reader knew of it if no edit was lost.

In the backend's process:

- `Stop` of a backend that is only starting reports that none is running, and the backend comes up after it.
- `pr-mon restart` during somebody else's `stop` may report that the backend exited with code 0.
- `Run` chooses between a shutdown request and a signal that are both there: if it takes the signal, no marker is
  left and the app starts the backend again. So it does when the marker cannot be written, which is only
  logged (`run.go:145-147`), though the user was told that the backend stopped: `unwritten` in `StaysStopped`.
- `RunningPID` says the pid is "0 if not recorded" (`daemon.go:149`). A write of the pid that fails (`daemon.go:134-137`, not looked at) may
  also leave that of an earlier backend.
- Asking whether a backend runs can make one that starts at that instant give up ("already running").

In the saved files:

- `config.go:172-173` protects a `config.toml` that was ignored from being saved over. A notification table
  that is invalid (say, with an event of a newer version) is ignored with a warning and gone from the file with the next
  save; of a `[two_way]` table of the old setup an empty command is left; and a `state.json` that cannot be read is
  replaced by an empty one at the latest when the backend stops.
- `Save` may write what `Load` cannot read. Of a hand-written list that names a repo twice, which `Load` keeps (`config.go:229-231`), it
  makes two `[notifications.X]` tables (`config.go:374-380`); of `"events": null` in `save_notifications`, which
  `ParseSettings` takes (`protocol.go:212-220`), it makes `events = null` (`config.go:382`). Neither is TOML, so the next start ignores the whole file
  and runs with no repos, and from then on refuses to save: `Unreadable`, the exception of `RestartChangesNothing`
  and `IgnoredIsKept`.
- A save that fails is only logged: the client is told the setting was saved. The next save that succeeds catches up.
- An edit of `config.toml` while the backend runs is overwritten by the next command that saves.

## 7. Limits

- `PromiseKept` allows two losses, both between turning GitHub's auto-merge off and arming the PR, as the code records
  nothing before the move: a crash, and the lost answer of the call. It is checked and proved without reopened PRs: a full list read before a PR was reopened
  and applied after does disarm it. A PR opened between the two, which is in no model of the merge core (all are open at
  the start), would be disarmed in the same way.
- `PromiseKept` takes the disarm at the end of a failed merge for a reported failure,
  also when the PR was disarmed and armed again while that merge was in flight.
- A PR of which GitHub names no head is merged without a pin by `autoMerge` and by a command (`service.go:733-736`). In the model of the
  merge core every PR has one; the taps refuse such a PR, in the code and in `TwoWayMessages`.
- An armed PR that is not on a list that is cut off is not judged, and so does not merge, until it is listed: `ReadyPRsMerge`
  speaks of listed ones. A PR whose auto-merge a person turned off after the copy was made is held, and
  armed, from that copy.
- Several repos fetched at once by `PollOnce` and `refreshWaiting` are fetched in any
  order by one thread. They share nothing but the mutex.
- What a menu or a tap shows, events to clients, toasts, notifications, logs and the
  parsing of GitHub's answers are left out of the merge core.
- One monitored repo in `RepoWatch`. A fetch of several pages is one call, as if GitHub answered
  it at one instant. A failed call of `syncList` leaves the old ETags, in the code as in the model.
- In `ServerClients` a snapshot, and the state of one event, are read at one instant,
  though the code reads the monitor in several locked sections. There is one kind of
  event; `set_focus` and `clear_focus` are left out (a focus set by a request that is answered after its
  connection ended stays behind); the socket file and the lock belong to the backend's process.
- A client that closes its own connection leaves its requests in flight to their
  callers (`left`): the code's front ends end right after.
- `TwoWayMessages`: refreshes of PRs in flight, and the details an `applyChanged` keeps of PRs that did not change, are in `RepoWatch` and
  not here. A tap whose merge or fetch shows the PR closed retires its message as *finished* and not as *closed*: of it the property
  looks at the step that decides (`"closed"`).
- `TwoWayMessages`: one monitored repo; no PR is reopened (`ClosedIsClosed` says *closed* as the code saw it); texts, the layout of buttons and the test message's content are left out. Desktop notifications
  and scripts are sent and forgotten, and not modelled.
- `HandlerRunner`: encoding, stderr and the back-off's length. A line that is too long or not JSON is skipped by the code and
  is no step of the model. The AWS queue and the Telegram calls of the notifier are I/O.
- `BackendProcess`: log rotation, `status`, the app bundle's own login item, reading and describing an agent
  file, and a backend that hangs without answering.
- `PullRequestRules`: saving the tracker's records and sending what they give rise to are one step, so a crash between the two
  (`service.go:565-579`), which loses a notification, is outside it. Left out are labels and notes of the menu, and the names by which `Wants` matches authors and branches (one
  Boolean of the settings).
- `SavedSettings`: a `state.json` with a section that is `null`, which the code never writes. `Load` reads `armed` and
  `prs` so as nil maps.
- The terminal UI's and the Mac app's display, the parsing of arguments and the fixtures are not modelled: they keep nothing the
  backend relies on.

## 8. Plan

Done, with their proofs: the merge core and the dependency graph, `RepoWatch`, `ServerClients`, `TwoWayMessages` and
`HandlerRunner` with `HandlerChannel` between them, `BackendProcess`, `Readiness` with `PullRequestRules`, `SavedSettings`.

Every safety property of a passing run is a theorem. To come: a model of what a person sees of an action under way, the
dashboard's own state.

And, where the models end: focus and collapsed groups in the client's mirror.
