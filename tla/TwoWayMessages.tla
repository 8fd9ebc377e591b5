------------------------- MODULE TwoWayMessages -------------------------
(***************************************************************************)
(* Two-way notifications: a message with buttons in a chat for each PR     *)
(* that changes state, and the taps on its buttons.                        *)
(* internal/service/twoway.go and taps.go, with the parts of service.go,   *)
(* commands.go and poll.go that post, retire and judge messages.           *)
(*                                                                         *)
(* state.json keeps a record of each message that stands.  A message is    *)
(* retired by claiming its record under Monitor.mutex and deleting it in   *)
(* the chat afterwards; a button is looked up by a key that is spent when  *)
(* it is tapped.  The bag tasks holds the goroutines: the looks at the repo, *)
(* the posting and deleting a look leads to, the handling of a tap.  Each  *)
(* of its steps is one section under the mutex or one call.                *)
(*                                                                         *)
(* The chat is behind a handler program, which HandlerRunner models: here  *)
(* it can be used or not, and says so through availability, as             *)
(* HandlerChannel has it.  There is one monitored repo.  All keys of one   *)
(* rendering of a message are fresh together, so a key is the number of    *)
(* the rendering and the button.                                           *)
(***************************************************************************)
EXTENDS Integers, FiniteSets, Bags, SequencesExt

CONSTANTS
  PRs,        \* PR numbers, a later one of a newer PR
  PRLimit,    \* github.PRLimit: PRs in a list
  Test,       \* the PR number 0 of a test message
  None,       \* no value: not loaded, not in the list, no record
  Wanted,     \* the settings' events, without NEW (NotifyConfig.Events)
  MaxPressed, \* bound: taps not acknowledged at once
  MaxPosts,   \* bound: messages posted
  Budgets     \* bound: bags of edits on GitHub, taps, commands and failures;
              \* in a behaviour happens what one of them holds

VARIABLES
  gh,         \* external: each PR on GitHub, ...
  newer,      \* ... and how many others are open there, newer than these
  chat,       \* external: the messages posted, by id
  pressed,    \* external: the taps not acknowledged yet, ...
  delivered,  \* ... and those the handler has sent since it came up
  handler,    \* the handler program, and whether its state is announced
  backend,    \* where the monitor is between Start and Stop
  monitored,  \* the repo is in the config
  repo,       \* m.repos: the copy of the repo; None until it is loaded
  track,      \* state.json: the tracker's records
  messages,   \* state.json: state.Messages
  readies,    \* m.readyCount
  tapping,    \* m.tapping
  tasks,      \* the goroutines
  gens,       \* renderings composed so far
  done,       \* what taps did on GitHub, for the properties only
  mishaps,    \* what went wrong, for the properties only
  budget      \* bound: the inputs that may still happen

github  == <<gh, newer>>
outside == <<github, chat, pressed, delivered>>
service == <<handler, backend>>
copies  == <<monitored, repo, track>>
history == <<done, mishaps>>
vars    == <<outside, service, copies, messages, readies, tapping, tasks, gens, history, budget>>

Ids == 1..MaxPosts

Statuses == {"READY", "FAILING", "PENDING"}

Shown == Statuses \cup {"CHECKING"}

Reasons == {"closed", "moved", "superseded", "removed", "finished"}

Buttons == {"merge", "rerun_checks", "force_merge", "dismiss", "cancel", "confirm_force_merge"}

(* blip: GitHub is recomputing how the PR merges.  named: it says which      *)
(* commit the PR's head is.                                                *)
OnGitHub == [open : BOOLEAN, status : Statuses, blip : BOOLEAN, head : Nat \ {0}, named : BOOLEAN]

(* Head 0: none is known.                                                  *)
Listing == [status : Shown, head : Nat]

(* The list holds the PRs in prs and others; total is PRTotal.              *)
Copy == [prs : [PRs -> Listing \cup {None}], others : Nat, total : Nat]

(* state.Message; gen = 0 when it has no keys.                              *)
Message == [pr : PRs \cup {Test}, event : Statuses \cup {"MERGE_FAILED", "TEST"},
            status : Shown \cup {"TEST"}, head : Nat, gen : Nat, buttons : SUBSET Buttons,
            asked : BOOLEAN, retiring : Reasons \cup {None}]

Retiree == [id : Ids, record : Message, why : Reasons]

(* told: the head the reader last learnt of: the one it was posted with, or  *)
(* that of the last rendering that said the PR changed.                    *)
InChat == [shown : BOOLEAN, old : BOOLEAN, gen : Nat, buttons : SUBSET Buttons,
           head : Nat, told : Nat]

Tap == [id : Ids, gen : Nat, button : Buttons, head : Nat, told : Nat, receipt : Nat]

Steps == {"apply", "sync", "delete", "strip", "keep", "post", "record", "tap", "check",
          "splice", "judge", "perform", "reload", "rerender", "ask", "finish", "closed", "edit",
          "ack", "end"}

Task == [at : Steps, then : Steps,       \* its step, and the one after a look or deletes
         copy : Copy \cup {None},        \* the repo as fetched
         posts : Seq([pr : PRs \cup {Test}, message : Message]),
         gone : Seq(Retiree),            \* messages to delete
         id : Ids \cup {None},           \* the message posted, or the one tapped
         readies : Nat,                  \* readyCount before the call
         tap : Tap \cup {None}, record : Message \cup {None}, \* a tap and its message
         got : Listing \cup {None},      \* its PR as fetched; None: it is closed
         says : BOOLEAN,                 \* the reason to redraw it is that the PR changed
         edit : InChat \cup {None}]      \* the message as redrawn

(* None is none of the values it stands beside.                            *)
ASSUME ConstantsAssumption ==
  /\ IsFiniteSet(PRs) /\ PRs \subseteq Int /\ {Test, None} \cap PRs = {} /\ Test # None
  /\ PRLimit \in Nat \ {0}
  /\ None \notin Nat \cup Reasons \cup Message \cup Tap \cup Copy
  /\ None \notin Listing
  /\ Wanted \subseteq {"READY", "FAILING", "PENDING"} /\ MaxPressed \in Nat /\ MaxPosts \in Nat
  /\ \A b \in Budgets : IsABag(b)

NewTask == [at |-> "end", then |-> "end", copy |-> None, posts |-> <<>>,
            gone |-> <<>>, id |-> None, readies |-> 0, tap |-> None, record |-> None,
            got |-> None, says |-> FALSE, edit |-> None]

----------------------------------------------------------------------------
(* Goroutines.                                                             *)

One(t) == IF t.at = "end" THEN EmptyBag ELSE SetToBag({t})

(* Goroutine t goes on as next, or ends, and starts others.                *)
GoesOn(t, next, others) ==
  tasks' = (tasks (-) SetToBag({t})) (+) One(next) (+) others

Goto(t, step) == GoesOn(t, [t EXCEPT !.at = step], EmptyBag)

(* What is left to do: delete messages, post new ones, then what follows.   *)
Resume(t) ==
  [t EXCEPT !.at = IF t.gone # <<>> THEN "delete"
                   ELSE IF t.posts # <<>> THEN "post" ELSE t.then]

(* A goroutine that deletes and posts, if there is anything to do.          *)
Cleanup(gone, posts) ==
  One(Resume([NewTask EXCEPT !.gone = gone, !.posts = posts]))

TrackedIn(table) == {id \in Ids : table[id] # None}

Tracked == TrackedIn(messages)

(* claimLocked, of several messages: their records go.                      *)
Claim(table, S) == [id \in Ids |-> IF id \in S THEN None ELSE table[id]]

(* What is to be retired of them, each for its reason.                      *)
Retirees(table, why) ==
  SetToSeq({[id |-> id, record |-> table[id], why |-> why[id]] : id \in DOMAIN why})

(* The tracked messages about PRs whose retirement does not wait.           *)
Standing == {id \in Tracked : messages[id].pr # Test /\ messages[id].retiring = None}

(* The messages whose retirement waits for the channel.                     *)
Waiting(table) == {id \in TrackedIn(table) : table[id].retiring # None}

(* retireWaitingLocked claims them and retires them in a goroutine.         *)
RetireWaiting(table) ==
  Cleanup(Retirees(table, [id \in Waiting(table) |-> table[id].retiring]), <<>>)

----------------------------------------------------------------------------
(* GitHub and the reader, external.                                        *)

Input(kind) ==
  /\ BagIn(kind, budget)
  /\ budget' = budget (-) SetToBag({kind})

Outside ==
  UNCHANGED <<service, copies, messages, readies, tapping, tasks, gens, done>>

StatusOf(p) == IF gh[p].blip THEN "CHECKING" ELSE gh[p].status

(* What GitHub says of an open PR.                                         *)
Details(p) == [status |-> StatusOf(p), head |-> IF gh[p].named THEN gh[p].head ELSE 0]

OpenPRs == {p \in PRs : gh[p].open}

Total == newer + Cardinality(OpenPRs)

(* It is among the newest PRs, as many as a list holds.                     *)
Listed(p) ==
  p \in OpenPRs /\ newer + Cardinality({q \in OpenPRs : q > p}) < PRLimit

(* What a look at the repo gets in full.                                    *)
Fetched ==
  [prs |-> [p \in PRs |-> IF Listed(p) THEN Details(p) ELSE None],
   others |-> Min({newer, PRLimit}), total |-> Total]

(* The list does not hold all: PRTotal > len(repo.PRs).                     *)
Cut(copy) == copy.total > copy.others + Cardinality({p \in PRs : copy.prs[p] # None})

StatusMoves(p) ==
  /\ Input("status") /\ gh[p].open
  /\ \E s \in Statuses \ {gh[p].status} : gh' = [gh EXCEPT ![p].status = s]
  /\ UNCHANGED <<newer, chat, pressed, delivered, mishaps>> /\ Outside

Push(p) ==
  /\ Input("push") /\ gh[p].open
  /\ gh' = [gh EXCEPT ![p].head = @ + 1]
  /\ UNCHANGED <<newer, chat, pressed, delivered, mishaps>> /\ Outside

Close(p) ==
  /\ Input("close") /\ gh[p].open
  /\ gh' = [gh EXCEPT ![p].open = FALSE]
  /\ UNCHANGED <<newer, chat, pressed, delivered, mishaps>> /\ Outside

(* Another PR is opened, which may push one of these off the list, ...       *)
OtherOpens ==
  /\ Input("other opens") /\ newer' = newer + 1
  /\ UNCHANGED <<gh, chat, pressed, delivered, mishaps>> /\ Outside

(* ... and closed.                                                         *)
OtherCloses ==
  /\ Input("other closes") /\ newer > 0 /\ newer' = newer - 1
  /\ UNCHANGED <<gh, chat, pressed, delivered, mishaps>> /\ Outside

Recompute(p) ==
  /\ Input("recompute") /\ gh[p].open /\ ~ gh[p].blip
  /\ gh' = [gh EXCEPT ![p].blip = TRUE]
  /\ UNCHANGED <<newer, chat, pressed, delivered, mishaps>> /\ Outside

Recomputed(p) ==
  /\ gh[p].blip
  /\ gh' = [gh EXCEPT ![p].blip = FALSE]
  /\ UNCHANGED <<newer, chat, pressed, delivered, mishaps, budget>> /\ Outside

(* A message gets too old to be deleted.                                    *)
Ages(id) ==
  /\ id \in DOMAIN chat /\ Input("age") /\ chat[id].shown /\ ~ chat[id].old
  /\ chat' = [chat EXCEPT ![id].old = TRUE]
  /\ UNCHANGED <<github, pressed, delivered, mishaps>> /\ Outside

Press(id) ==
  /\ id \in DOMAIN chat /\ Cardinality(pressed) < MaxPressed /\ Input("tap") /\ chat[id].shown
  /\ \E b \in chat[id].buttons, n \in 1..MaxPressed :
       /\ n = Min({k \in 1..MaxPressed : \A tap \in pressed : tap.receipt # k})
       /\ pressed' = pressed \cup {[id |-> id, gen |-> chat[id].gen, button |-> b,
                                    head |-> chat[id].head, told |-> chat[id].told,
                                    receipt |-> n]}
  /\ UNCHANGED <<github, chat, delivered, mishaps>> /\ Outside

----------------------------------------------------------------------------
(* The handler and the monitor.                                            *)

HandlerIs == INSTANCE HandlerChannel

Usable == HandlerIs!Answers /\ backend = "running"

HandlerUp ==
  /\ backend \in {"loading", "running"} /\ HandlerIs!Opens /\ handler' = "opened"
  /\ delivered' = {}
  /\ UNCHANGED <<github, chat, pressed, backend, copies, messages, readies, tapping, tasks, gens,
                 history, budget>>

HandlerDown ==
  /\ Input("handler dies") /\ HandlerIs!Dies
  /\ UNCHANGED <<outside, backend, copies, messages, readies, tapping, tasks, gens, history>>

RetiresWaiting ==
  /\ messages' = Claim(messages, Waiting(messages))
  /\ tasks' = tasks (+) RetireWaiting(messages)

(* availability: the channel is ready.  That retries the retirements that    *)
(* wait, once Start has the channel.                                       *)
AnnounceReady ==
  /\ HandlerIs!AnnounceReady
  /\ readies' = readies + 1
  /\ IF backend = "running" THEN RetiresWaiting ELSE UNCHANGED <<messages, tasks>>
  /\ UNCHANGED <<outside, backend, copies, tapping, gens, history, budget>>

AnnounceDown ==
  /\ HandlerIs!AnnounceDown
  /\ UNCHANGED <<outside, backend, copies, messages, readies, tapping, tasks, gens, history,
                 budget>>

(* Start, up to building the channel, which may be ready before it is set.  *)
Start ==
  /\ backend = "down" /\ backend' = "loading"
  /\ HandlerIs!Restarts /\ delivered' = {} /\ repo' = None /\ readies' = 0
  /\ UNCHANGED <<github, chat, pressed, monitored, track, messages, tapping, tasks, gens, history,
                 budget>>

(* The rest of Start: the channel is set, and retirements that waited while  *)
(* it was announced too early are retried.                                 *)
SetChannel ==
  /\ backend = "loading" /\ backend' = "running"
  /\ IF HandlerIs!Announced THEN RetiresWaiting ELSE UNCHANGED <<messages, tasks>>
  /\ UNCHANGED <<outside, handler, copies, readies, tapping, gens, history, budget>>

(* Stop: every call fails from now on; it waits for the goroutines.         *)
Stop ==
  /\ Input("stop") /\ backend = "running" /\ backend' = "stopping"
  /\ UNCHANGED <<outside, handler, copies, messages, readies, tapping, tasks, gens, history>>

Stopped ==
  /\ backend = "stopping" /\ tasks = EmptyBag /\ backend' = "down"
  /\ UNCHANGED <<outside, handler, copies, messages, readies, tapping, tasks, gens, history,
                 budget>>

(* state.json is what it was: it is saved in the sections that change it.    *)
Crash ==
  /\ Input("crash") /\ backend # "down" /\ backend' = "down"
  /\ tasks' = EmptyBag /\ tapping' = {}
  /\ mishaps' = mishaps \cup {"crash"}
  /\ UNCHANGED <<outside, handler, copies, messages, readies, gens, done>>

----------------------------------------------------------------------------
(* Looks at the repo: apply and syncMessages.                              *)

(* A poll gets copy, when that has something to show: the others change       *)
(* nothing.  One at a time is enough here, as taps look too.                *)
Looks(copy) ==
  /\ backend = "running" /\ monitored
  /\ \/ repo # copy
     \/ \E id \in Standing : LET c == copy.prs[messages[id].pr]
                              IN (c = None /\ ~ Cut(copy))
                                 \/ (c # None /\ c.status # messages[id].status)
  /\ ~ \E t \in DOMAIN tasks : t.tap = None /\ t.at \in {"apply", "sync"}
  /\ tasks' = tasks (+) One([NewTask EXCEPT !.at = "apply", !.copy = copy])
  /\ UNCHANGED <<outside, service, copies, messages, readies, tapping, gens, done, budget>>

(* RefreshRepo: the repo in full.                                          *)
Poll == Looks(Fetched) /\ UNCHANGED mishaps

(* applyChanged: what a look at the list of open PRs makes of the copy.  A    *)
(* full list does not tell how many are open, so PRTotal stays, ...          *)
Looked == [Fetched EXCEPT !.total = IF Total < PRLimit THEN Total ELSE repo.total]

(* ... and where PRs were opened meanwhile, the list looks complete.         *)
ConditionalLook ==
  /\ repo # None /\ Looks(Looked)
  /\ mishaps' = IF Cut(Fetched) /\ ~ Cut(Looked) THEN mishaps \cup {"total"} ELSE mishaps

(* buttonsFor: what is available goes with the PR's status.                 *)
ButtonsFor(event, c) ==
  {"dismiss"} \cup CASE event = "READY" /\ c.status = "READY" -> {"merge"}
                     [] event = "FAILING" /\ c.status = "FAILING" -> {"rerun_checks", "force_merge"}
                     [] OTHER -> {}

(* prMessage: the record of a message about an event; its keys are fresh     *)
(* when it is composed.                                                    *)
PRMessage(p, event, c) ==
  [pr |-> p, event |-> event, status |-> c.status, head |-> c.head, gen |-> 0,
   buttons |-> ButtonsFor(event, c), asked |-> FALSE, retiring |-> None]

(* tracker.Changes and Select: a recomputed status is no change.            *)
Changed(copy) ==
  {p \in PRs : copy.prs[p] # None /\ copy.prs[p].status \notin {"CHECKING", track[p]}}

Posts(copy) ==
  SetToSeq({[pr |-> p, message |-> PRMessage(p, copy.prs[p].status, copy.prs[p])] :
              p \in {q \in Changed(copy) : track[q] # None /\ copy.prs[q].status \in Wanted}})

(* tracker.Update.                                                          *)
Update(copy) ==
  [p \in PRs |-> IF copy.prs[p] = None THEN None
                 ELSE IF copy.prs[p].status = "CHECKING" /\ track[p] # None THEN track[p]
                 ELSE copy.prs[p].status]

(* apply: nothing is sent when the repo is loaded for the first time.       *)
Apply(t) ==
  /\ t.at = "apply"
  /\ IF ~ monitored
        THEN /\ GoesOn(t, [t EXCEPT !.at = t.then, !.copy = None], EmptyBag)
             /\ UNCHANGED <<repo, track>>
        ELSE /\ repo' = t.copy
             /\ track' = Update(t.copy)
             /\ GoesOn(t, [t EXCEPT !.at = "sync",
                             !.posts = IF repo = None THEN <<>> ELSE Posts(t.copy)], EmptyBag)
  /\ UNCHANGED <<outside, service, monitored, messages, readies, tapping, gens, history, budget>>

Posting(t) == {t.posts[k].pr : k \in DOMAIN t.posts}

(* A mutant of ClosedIn: a PR beyond the cut-off counts as closed.          *)
ClosedInCut(t) == {id \in Standing : t.copy.prs[messages[id].pr] = None}

(* A message about a PR that is not in a list which holds them all.         *)
ClosedIn(t) == {id \in Standing : t.copy.prs[messages[id].pr] = None /\ ~ Cut(t.copy)}

(* A mutant of MovedIn: a PR that waits for its next status keeps its message.*)
MovedInLater(t) ==
  {id \in Standing : LET p == messages[id].pr
                     IN /\ t.copy.prs[p] # None /\ p \in Posting(t)
                        /\ t.copy.prs[p].status # messages[id].status}

(* A message about a status the PR has left, if no new message is sent.     *)
MovedIn(t) ==
  {id \in Standing : LET p == messages[id].pr
                     IN /\ t.copy.prs[p] # None /\ p \notin Posting(t)
                        /\ t.copy.prs[p].status # messages[id].status}

(* syncMessages: it claims under the lock and deletes and posts in a         *)
(* goroutine of its own.                                                   *)
Sync(t) ==
  /\ t.at = "sync"
  /\ LET why == [id \in ClosedIn(t) \cup MovedIn(t) |-> IF id \in ClosedIn(t) THEN "closed" ELSE "moved"]
     IN /\ messages' = Claim(messages, DOMAIN why)
        /\ GoesOn(t, [t EXCEPT !.at = t.then, !.copy = None, !.posts = <<>>],
                  Cleanup(Retirees(messages, why), t.posts))
  /\ UNCHANGED <<outside, service, copies, readies, tapping, gens, history, budget>>

(* RemoveRepo: all its messages are claimed.                                *)
RemoveRepo ==
  /\ Input("remove") /\ backend = "running" /\ monitored
  /\ monitored' = FALSE /\ repo' = None /\ track' = [p \in PRs |-> None]
  /\ messages' = Claim(messages, Tracked)
  /\ tasks' = tasks (+) Cleanup(Retirees(messages, [id \in Tracked |-> "removed"]), <<>>)
  /\ UNCHANGED <<outside, service, readies, tapping, gens, history>>

(* notifyResult: pr-mon's merge of a PR failed.                             *)
MergeFailed(p) ==
  /\ Input("merge fails") /\ backend = "running" /\ repo # None /\ repo.prs[p] # None
  /\ tasks' = tasks (+)
       Cleanup(<<>>, <<[pr |-> p, message |-> PRMessage(p, "MERGE_FAILED", repo.prs[p])]>>)
  /\ UNCHANGED <<outside, service, copies, messages, readies, tapping, gens, history>>

(* SendTest and postSample.                                                 *)
SendTest ==
  /\ Input("test") /\ backend = "running"
  /\ tasks' = tasks (+)
       Cleanup(<<>>, <<[pr |-> Test, message |->
                  [pr |-> Test, event |-> "TEST", status |-> "TEST", head |-> 0, gen |-> 0,
                   buttons |-> {"dismiss"}, asked |-> FALSE, retiring |-> None]]>>)
  /\ UNCHANGED <<outside, service, copies, messages, readies, tapping, gens, history>>

----------------------------------------------------------------------------
(* Calls of the channel.  When the handler can be used the chat does what it *)
(* is asked, or the call fails: before it reached the chat, or after.  A     *)
(* call that fails because the handler went down can be tried again.       *)

Failures == {"failed", "unavailable"}

(* A call leaves the chat as now and is answered r; what: the mishap when    *)
(* it is refused because the handler is down or the monitor stops.         *)
Called(now, answer, r, what) ==
  \/ /\ Usable /\ r = answer /\ chat' = now
     /\ UNCHANGED <<handler, mishaps, budget>>
  \/ /\ ~ Usable /\ r = "unavailable"
     /\ mishaps' = mishaps \cup what
     /\ UNCHANGED <<chat, handler, budget>>
  \/ /\ backend = "stopping" /\ HandlerIs!Answers /\ r = "unavailable"
     /\ chat' = now                   \* it was sent, and Stop did not wait for its answer
     /\ mishaps' = mishaps \cup {"call"}
     /\ UNCHANGED <<handler, budget>>
  \/ /\ Usable /\ Input("call fails") /\ r = "failed" /\ UNCHANGED handler
     /\ chat' \in {chat, now}
     /\ mishaps' = mishaps \cup {"call"}
  \/ /\ Usable /\ Input("handler dies") /\ r = "unavailable" /\ HandlerIs!Dies
     /\ chat' = now                   \* and its answer is lost
     /\ mishaps' = mishaps \cup {"call"}

Unseen == UNCHANGED <<github, delivered, backend, copies, readies, done>>

(* A step that makes no call.                                              *)
NoCall == UNCHANGED <<chat, pressed, handler, mishaps>> /\ Unseen

Pop(t) == Resume([t EXCEPT !.gone = Tail(@), !.readies = 0])

(* retire: delete it, ...                                                  *)
Delete(t) ==
  /\ t.at = "delete"
  /\ LET id == Head(t.gone).id
         m  == chat[id]
     IN \E r \in {"ok", "gone", "too old"} \cup Failures :
          /\ Called(IF m.shown /\ ~ m.old THEN [chat EXCEPT ![id].shown = FALSE] ELSE chat,
                    IF ~ m.shown THEN "gone" ELSE IF m.old THEN "too old" ELSE "ok", r, {})
          /\ GoesOn(t, CASE r = "too old" -> [t EXCEPT !.at = "strip", !.readies = readies]
                         [] r = "unavailable" -> [t EXCEPT !.at = "keep", !.readies = readies]
                         [] OTHER -> Pop(t), EmptyBag)
  /\ UNCHANGED <<pressed, messages, tapping, gens>> /\ Unseen

(* ... or take its buttons away when it is too old, ...                     *)
Strip(t) ==
  /\ t.at = "strip"
  /\ LET id == Head(t.gone).id
     IN \E r \in {"ok", "gone"} \cup Failures :
          /\ Called(IF chat[id].shown THEN [chat EXCEPT ![id].gen = 0, ![id].buttons = {}]
                                      ELSE chat,
                    IF chat[id].shown THEN "ok" ELSE "gone", r, {})
          /\ GoesOn(t, IF r = "unavailable" THEN [t EXCEPT !.at = "keep"] ELSE Pop(t), EmptyBag)
  /\ UNCHANGED <<pressed, messages, tapping, gens>> /\ Unseen

(* The handler reported ready since the call, and found nothing to retry.   *)
Again(t) == readies # t.readies /\ backend = "running"

(* A mutant of Keep: what the handler could not delete is forgotten.        *)
KeepNothing(t) ==
  /\ t.at = "keep"
  /\ GoesOn(t, Pop(t), EmptyBag)
  /\ UNCHANGED <<messages, tapping, gens, budget>> /\ NoCall

(* ... or keepRetiring: it is tracked again, without keys, until the handler *)
(* is back.                                                                *)
Keep(t) ==
  /\ t.at = "keep"
  /\ LET g    == Head(t.gone)
         kept == [messages EXCEPT ![g.id] =
                    [g.record EXCEPT !.retiring = g.why, !.gen = 0, !.buttons = {}]]
     IN /\ messages' = IF Again(t) THEN Claim(kept, Waiting(kept)) ELSE kept
        /\ GoesOn(t, Pop(t), IF Again(t) THEN RetireWaiting(kept) ELSE EmptyBag)
  /\ UNCHANGED <<tapping, gens, budget>> /\ NoCall

(* post: the message is sent first, ...                                    *)
Post(t) ==
  /\ t.at = "post" /\ Len(chat) < MaxPosts
  /\ LET m == [Head(t.posts).message EXCEPT !.gen = gens + 1]
     IN \E r \in {"ok"} \cup Failures :
          /\ Called(Append(chat, [shown |-> TRUE, old |-> FALSE, gen |-> m.gen,
                                  buttons |-> m.buttons, head |-> m.head, told |-> m.head]),
                    "ok", r, {})
          /\ GoesOn(t, IF r = "ok"
                       THEN [t EXCEPT !.at = "record", !.id = Len(chat) + 1, !.record = m]
                       ELSE Resume([t EXCEPT !.posts = Tail(@)]), EmptyBag)
  /\ gens' = gens + 1
  /\ UNCHANGED <<pressed, messages, tapping>> /\ Unseen

(* A mutant of Previous: a message that waits to be deleted is left.        *)
PreviousNone(m) == {}

(* The messages a new one about the same PR replaces.                       *)
Previous(m) == {id \in Tracked : messages[id].pr = m.pr}

(* ... then it is recorded and the PR's previous ones are retired.          *)
Record(t) ==
  /\ t.at = "record"
  /\ LET old == Previous(t.record)
     IN /\ messages' = [Claim(messages, old) EXCEPT ![t.id] = t.record]
        /\ GoesOn(t, Resume([t EXCEPT !.gone = Retirees(messages, [id \in old |-> "superseded"]),
                                      !.posts = Tail(@), !.id = None, !.record = None]), EmptyBag)
  /\ UNCHANGED <<tapping, gens, budget>> /\ NoCall

----------------------------------------------------------------------------
(* Taps.                                                                   *)

(* receiveLoop: each tap is handled in a goroutine of its own.  One not      *)
(* acknowledged is sent again by the next handler.                         *)
Deliver(tap) ==
  /\ Usable /\ tap \in pressed \ delivered
  /\ delivered' = delivered \cup {tap}
  /\ tasks' = tasks (+) One([NewTask EXCEPT !.at = "tap", !.then = "ack", !.tap = tap])
  /\ UNCHANGED <<github, chat, pressed, service, copies, messages, readies, tapping, gens, history,
                 budget>>

(* What a tap on a button whose key is known leads to.  A Confirm that comes *)
(* too soon after the question is taken for a stray second tap.            *)
Meant(button, soon) ==
  CASE button = "dismiss" -> "finish"
    [] button = "force_merge" \/ soon -> "ask"
    [] button = "cancel" -> "rerender"
    [] OTHER -> "check"

(* A mutant of Spend: the keys stay until the message is redrawn.           *)
SpendLate(table, id) == table

(* Every key goes before anything slow, so a second tap finds nothing.      *)
Spend(table, id) == [table EXCEPT ![id].gen = 0, ![id].buttons = {}]

(* handleTap                                                               *)
HandleTap(t) ==
  /\ t.at = "tap"
  /\ LET id == t.tap.id
         m  == messages[id]
         redrawn == [shown |-> TRUE, old |-> FALSE, gen |-> 0, buttons |-> {}, head |-> 0,
                     told |-> 0]
     IN \/ /\ m = None                  \* not deleted: another backend may own it
           /\ GoesOn(t, [t EXCEPT !.at = "edit", !.edit = redrawn], EmptyBag)
           /\ UNCHANGED <<messages, tapping>>
        \/ /\ m # None /\ m.retiring # None
           /\ messages' = Claim(messages, {id})
           /\ GoesOn(t, Resume([t EXCEPT !.gone = <<[id |-> id, record |-> m,
                                                     why |-> m.retiring]>>]), EmptyBag)
           /\ UNCHANGED tapping
        \/ /\ m # None /\ m.retiring = None /\ id \in tapping
           /\ GoesOn(t, [t EXCEPT !.at = "ack"], EmptyBag)
           /\ UNCHANGED <<messages, tapping>>
        \/ /\ m # None /\ m.retiring = None /\ id \notin tapping
           /\ tapping' = tapping \cup {id}
           /\ messages' = Spend(messages, id)
           /\ \E soon \in BOOLEAN :
                /\ soon => t.tap.button = "confirm_force_merge" /\ m.asked
                /\ GoesOn(t, [t EXCEPT !.id = id, !.record = m,
                                !.at = IF t.tap.gen = m.gen THEN Meant(t.tap.button, soon)
                                       ELSE "rerender"], EmptyBag)
  /\ UNCHANGED <<gens, budget>> /\ NoCall

(* GitHub does not answer: the monitor stops, or the call fails.            *)
NoAnswer == backend # "running" \/ Input("GitHub fails")

BudgetKept == IF backend # "running" THEN UNCHANGED budget ELSE TRUE

(* What a button does.                                                     *)
Kind(button) == IF button = "confirm_force_merge" THEN "force_merge" ELSE button

(* A mutant of Check: a message about no known commit is acted on.          *)
CheckAny(t) ==
  /\ t.at = "check"
  /\ LET p == t.record.pr
     IN \/ NoAnswer /\ BudgetKept /\ Goto(t, "rerender")
        \/ /\ backend = "running" /\ UNCHANGED budget
           /\ GoesOn(t, [t EXCEPT !.at = "splice",
                            !.got = IF p \in OpenPRs THEN Details(p) ELSE None], EmptyBag)
  /\ UNCHANGED <<messages, tapping, gens>> /\ NoCall

(* act merges nothing unpinned; it asks GitHub for the PR first.            *)
Check(t) ==
  /\ t.at = "check"
  /\ LET p == t.record.pr
         unpinned == t.record.head = 0 /\ Kind(t.tap.button) # "rerun_checks"
     IN \/ unpinned /\ Goto(t, "rerender") /\ UNCHANGED budget
        \/ ~ unpinned /\ NoAnswer /\ BudgetKept /\ Goto(t, "rerender")
        \/ /\ ~ unpinned /\ backend = "running" /\ UNCHANGED budget
           /\ GoesOn(t, [t EXCEPT !.at = "splice",
                            !.got = IF p \in OpenPRs THEN Details(p) ELSE None], EmptyBag)
  /\ UNCHANGED <<messages, tapping, gens>> /\ NoCall

(* refreshPRs puts what it got into the copy there is by then: a PR that     *)
(* closed goes, and PRTotal stays.                                         *)
Spliced(copy, p, c) == [copy EXCEPT !.prs[p] = IF @ = None THEN None ELSE c]

Splice(t) ==
  /\ t.at = "splice"
  /\ LET copy == Spliced(repo, t.record.pr, t.got)
     IN IF repo = None \/ copy = repo THEN GoesOn(t, [t EXCEPT !.at = "judge", !.got = None], EmptyBag)
        ELSE GoesOn(t, [t EXCEPT !.at = "apply", !.then = "judge", !.copy = copy, !.got = None],
                    EmptyBag)
  /\ UNCHANGED <<messages, tapping, gens, budget>> /\ NoCall

Available(kind, c) ==
  IF kind = "merge" THEN c.status = "READY" ELSE c.status = "FAILING"

(* act goes on only if the PR is at the commit the message was about, with   *)
(* the action still on offer.                                              *)
Judge(t) ==
  /\ t.at = "judge"
  /\ LET c == repo.prs[t.record.pr]
     IN CASE repo = None -> Goto(t, "rerender")
          [] repo # None /\ c = None -> Goto(t, IF Cut(repo) THEN "rerender" ELSE "closed")
          [] repo # None /\ c # None ->
               IF c.head # t.record.head
               THEN GoesOn(t, [t EXCEPT !.at = "rerender", !.says = TRUE], EmptyBag)
               ELSE Goto(t, IF Available(Kind(t.tap.button), c) THEN "perform" ELSE "rerender")
  /\ UNCHANGED <<messages, tapping, gens, budget>> /\ NoCall

(* GitHub does it; a merge is pinned to the commit the message was about,    *)
(* if that is known.                                                       *)
Accepts(kind, p, head) ==
  /\ gh[p].open
  /\ kind \in {"merge", "force_merge"} => head \in {0, gh[p].head}
  /\ kind = "merge" => StatusOf(p) = "READY"
  /\ kind = "rerun_checks" => gh[p].status = "FAILING"

(* performAction, which refreshes the repo after it, whether it worked or    *)
(* not; the answer of what GitHub did may be lost.                         *)
Perform(t) ==
  /\ t.at = "perform"
  /\ LET p    == t.record.pr
         kind == Kind(t.tap.button)
         fine == Accepts(kind, p, t.record.head)
         does == /\ gh' = IF kind = "rerun_checks" THEN [gh EXCEPT ![p].status = "PENDING"]
                          ELSE [gh EXCEPT ![p].open = FALSE]
                 /\ done' = Append(done, [gen |-> t.tap.gen, kind |-> kind, head |-> gh[p].head,
                                          keyed |-> t.tap.head, told |-> t.tap.told])
     IN IF repo = None \/ (repo # None /\ repo.prs[p] = None)
        THEN Goto(t, "rerender") /\ UNCHANGED <<gh, done, budget>>
        ELSE \/ /\ backend = "running" /\ fine /\ does /\ UNCHANGED budget
                /\ GoesOn(t, [t EXCEPT !.at = "reload", !.then = "finish"], EmptyBag)
             \/ /\ ~ (backend = "running" /\ fine)
                /\ GoesOn(t, [t EXCEPT !.at = "reload", !.then = "rerender"], EmptyBag)
                /\ UNCHANGED <<gh, done, budget>>
             \/ /\ backend = "running" /\ fine /\ Input("GitHub fails") /\ does
                /\ GoesOn(t, [t EXCEPT !.at = "reload", !.then = "rerender"], EmptyBag)
  /\ UNCHANGED <<newer, chat, pressed, delivered, service, copies, readies, messages, tapping,
                 gens, mishaps>>

Reload(t) ==
  /\ t.at = "reload"
  /\ \/ NoAnswer /\ BudgetKept /\ Goto(t, t.then)
     \/ /\ backend = "running" /\ UNCHANGED budget
        /\ GoesOn(t, [t EXCEPT !.at = "apply", !.copy = Fetched], EmptyBag)
  /\ UNCHANGED <<messages, tapping, gens>> /\ NoCall

(* The message is redrawn as record, with fresh keys, unless it was retired  *)
(* meanwhile; says: the new text says that the PR changed.                 *)
Redraw(t, record, says) ==
  LET m == [record EXCEPT !.gen = gens + 1]
  IN IF messages[t.id] = None
     THEN Goto(t, "ack") /\ UNCHANGED <<messages, gens>>
     ELSE /\ messages' = [messages EXCEPT ![t.id] = m]
          /\ gens' = gens + 1
          /\ GoesOn(t, [t EXCEPT !.at = "edit", !.says = says,
                          !.edit = [shown |-> TRUE, old |-> FALSE, gen |-> m.gen,
                                    buttons |-> m.buttons, head |-> m.head, told |-> m.head]],
                    EmptyBag)

(* The record rerender writes: what the PR offers now, at its head now.      *)
Rerendered(m) ==
  LET c == IF repo = None \/ m.pr = Test THEN None ELSE repo.prs[m.pr]
  IN IF c = None THEN [m EXCEPT !.buttons = {"dismiss"}, !.asked = FALSE]
     ELSE [m EXCEPT !.buttons = ButtonsFor(m.event, c), !.head = c.head, !.asked = FALSE]

(* rerender                                                                *)
Rerender(t) ==
  /\ t.at = "rerender"
  /\ LET m == messages[t.id]
     IN Redraw(t, IF m = None THEN None ELSE Rerendered(m),
               t.says \/ (m # None /\ Rerendered(m).head # m.head))
  /\ UNCHANGED <<tapping, budget>> /\ NoCall

(* askToConfirm                                                            *)
Ask(t) ==
  /\ t.at = "ask"
  /\ LET m == messages[t.id]
     IN Redraw(t, IF m = None THEN None
                  ELSE [m EXCEPT !.buttons = {"cancel", "confirm_force_merge"}, !.asked = TRUE],
               FALSE)
  /\ UNCHANGED <<tapping, budget>> /\ NoCall

(* finish, of a message whose work is done or whose PR closed: unless         *)
(* something else retired it meanwhile.                                    *)
Finish(t) ==
  /\ t.at \in {"finish", "closed"}
  /\ LET m == messages[t.id]
     IN IF m = None THEN Goto(t, "ack") /\ UNCHANGED messages
        ELSE /\ messages' = Claim(messages, {t.id})
             /\ GoesOn(t, Resume([t EXCEPT !.then = "ack", !.gone =
                            <<[id |-> t.id, record |-> m, why |-> "finished"]>>]), EmptyBag)
  /\ UNCHANGED <<tapping, gens, budget>> /\ NoCall

(* edit: the message is replaced outside the lock; one deleted needs nothing.*)
Edit(t) ==
  /\ t.at = "edit"
  /\ LET id == t.tap.id
         m  == chat[id]
         now == [t.edit EXCEPT !.old = m.old, !.told = IF t.says THEN @ ELSE m.told]
     IN \E r \in {"ok", "gone"} \cup Failures :
          /\ Called(IF m.shown THEN [chat EXCEPT ![id] = now] ELSE chat,
                    IF m.shown THEN "ok" ELSE "gone", r, {"edit"})
          /\ Goto(t, "ack")
  /\ UNCHANGED <<pressed, messages, tapping, gens>> /\ Unseen

(* The tap is acknowledged, whatever the outcome; another tap on the message *)
(* is handled from now on.                                                 *)
Ack(t) ==
  /\ t.at = "ack"
  /\ \E r \in {"ok"} \cup Failures :
       /\ Called(chat, "ok", r, {})
       /\ pressed' = IF r = "ok" THEN pressed \ {t.tap} ELSE pressed
       /\ delivered' = IF r = "ok" THEN delivered \ {t.tap} ELSE delivered
  /\ tapping' = tapping \ {t.id}
  /\ Goto(t, "end")
  /\ UNCHANGED <<github, backend, copies, readies, done, messages, gens>>

----------------------------------------------------------------------------
(* To begin with nothing was posted and the repo is loaded or about to be.  *)
Init ==
  /\ gh \in [PRs -> {[open |-> TRUE, status |-> s, blip |-> FALSE, head |-> 1,
                      named |-> b] : s \in Statuses, b \in BOOLEAN}]
  /\ newer \in Nat
  /\ chat = <<>> /\ pressed = {} /\ delivered = {}
  /\ handler = "down" /\ backend = "running"
  /\ monitored = TRUE
  /\ repo = Fetched
  /\ track = [p \in PRs |-> StatusOf(p)]
  /\ messages = [id \in Ids |-> None]
  /\ readies = 0 /\ tapping = {} /\ tasks = EmptyBag /\ gens = 0
  /\ done = <<>> /\ mishaps = {} /\ budget \in Budgets

(* One step of a goroutine.                                                *)
Goes(t) ==
  \/ Apply(t) \/ Sync(t) \/ Delete(t) \/ Strip(t) \/ Keep(t) \/ Post(t) \/ Record(t)
  \/ HandleTap(t) \/ Check(t) \/ Splice(t) \/ Judge(t) \/ Perform(t) \/ Reload(t) \/ Rerender(t)
  \/ Ask(t) \/ Finish(t) \/ Edit(t) \/ Ack(t)

Going == \E t \in DOMAIN tasks : Goes(t)

Running ==
  \/ HandlerUp \/ AnnounceReady \/ AnnounceDown \/ Start \/ SetChannel \/ Stopped
  \/ \E tap \in pressed : Deliver(tap)
  \/ \E p \in PRs : Recomputed(p)

Next ==
  \/ Going
  \/ Running \/ Poll \/ ConditionalLook \/ HandlerDown \/ Stop \/ Crash \/ RemoveRepo \/ SendTest
  \/ OtherOpens \/ OtherCloses
  \/ \E p \in PRs : StatusMoves(p) \/ Push(p) \/ Close(p) \/ Recompute(p) \/ MergeFailed(p)
  \/ \E id \in Ids : Ages(id) \/ Press(id)

(* Goroutines go on, and each of them ends; the repo is refreshed in full;    *)
(* the handler is started again, and the backend too.                      *)
Fairness ==
  /\ WF_vars(Going)
  /\ WF_vars(Running)
  /\ WF_vars(Poll)

Spec == Init /\ [][Next]_vars

FairSpec == Spec /\ Fairness

----------------------------------------------------------------------------
(* Properties.                                                             *)

(* Each variable holds what the code keeps in it.                          *)
TypeOK ==
  /\ gh \in [PRs -> OnGitHub] /\ newer \in Nat
  /\ chat \in Seq(InChat) /\ Len(chat) <= MaxPosts
  /\ pressed \subseteq Tap /\ delivered \subseteq Tap
  /\ handler \in HandlerIs!States
  /\ backend \in {"down", "loading", "running", "stopping"}
  /\ monitored \in BOOLEAN
  /\ repo \in Copy \cup {None}
  /\ track \in [PRs -> Shown \cup {None}]
  /\ messages \in [Ids -> Message \cup {None}]
  /\ readies \in Nat /\ tapping \subseteq Ids
  /\ IsABag(tasks) /\ DOMAIN tasks \subseteq Task
  /\ gens \in Nat /\ IsABag(budget)
  /\ mishaps \subseteq {"crash", "call", "edit", "total"}

(* The taps on one rendering of a message act once, all of them together:    *)
(* two taps on a button, a tap sent again after a crash or a restart of the  *)
(* handler, two buttons of one message (handleTap spends all keys first).   *)
ActsOnce ==
  \A i, j \in DOMAIN done : i # j => done[i].gen # done[j].gen

(* Nothing went wrong but with PRTotal.                                    *)
Undisturbed == mishaps \subseteq {"total"}

(* A tap merges the commit its button was shown for, whatever the head and   *)
(* the record have become since, and none if the message was about no known *)
(* commit; and unless an edit of a message was lost, with its call or in a   *)
(* crash, the reader had been told that the message was about that commit    *)
(* now (act and rerender).                                                 *)
MergesPinned ==
  \A i \in DOMAIN done : done[i].kind # "rerun_checks" =>
    /\ done[i].head = done[i].keyed
    /\ Undisturbed => done[i].head = done[i].told

(* A PR has one message that stands, also when several are posted at once     *)
(* (post retires the previous ones in the section that records the new one).*)
OneMessagePerPR ==
  \A id, other \in Standing : messages[id].pr = messages[other].pr => id = other

(* A message says "PR closed" only of a PR that closed, not of one the list  *)
(* no longer holds (syncMessages, act): whatever copies are spliced and in    *)
(* which order they are applied, unless a conditional look of a full list     *)
(* kept a PRTotal by which the list seems to hold all (applyChanged).        *)
ClosedIsClosed ==
  "total" \in mishaps \/
    \A t \in DOMAIN tasks :
      /\ t.at = "closed" /\ t.record.pr \in PRs => ~ gh[t.record.pr].open
      /\ \A k \in DOMAIN t.gone :
           t.gone[k].why = "closed" => ~ gh[t.gone[k].record.pr].open

(* In the end each message stands about the status its PR has on GitHub, and *)
(* none about a closed one (syncMessages), also when it was posted while the *)
(* PR moved on; but where the list of the open PRs stays cut off nothing is   *)
(* known of one that is not in it.                                         *)
MessagesCurrent ==
  []<> (monitored =>
          \A id \in Standing : LET p == messages[id].pr
                               IN /\ Listed(p) => messages[id].status = gh[p].status
                                  /\ gh[p].open \/ Total > PRLimit)

(* What waits to be deleted is deleted in the end, or loses its buttons: the *)
(* handler going down and coming back, Stop and Start at any point of a      *)
(* retirement leave none behind (availability, keepRetiring, Start).  And    *)
(* the buttons that show in the end belong to messages tracked with the same *)
(* keys, unless a crash or a lost answer came between.                     *)
NoOrphans ==
  []<> /\ Waiting(messages) = {} /\ \A t \in DOMAIN tasks : t.gone = <<>>
       /\ ~ Undisturbed \/ \A id \in DOMAIN chat :
                            chat[id].shown /\ chat[id].buttons # {} =>
                              id \in Tracked /\ messages[id].gen = chat[id].gen
==========================================================================
