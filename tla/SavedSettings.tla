--------------------------- MODULE SavedSettings ---------------------------
(***************************************************************************)
(* What the backend keeps on disk: the settings in config.toml, which      *)
(* people also edit by hand, and what it remembers in state.json           *)
(* (config.go, state.go, files.go and the commands that save).  A command  *)
(* is one section under the mutex: it changes the memory and writes the    *)
(* file before anybody sees either.  A write replaces the file or leaves   *)
(* it as it was; the command has succeeded all the same.                   *)
(***************************************************************************)
EXTENDS Integers, FiniteSets

CONSTANTS
  Repos,        \* the repos there are
  Logins,       \* the entries of a list of logins
  Blank,        \* the one of them that is blank
  Intervals,    \* the poll intervals a person sets
  None,         \* no value, no file
  Broken,       \* a file, or a part of one, that cannot be read
  ConfigEdits,  \* what a person makes of config.toml
  StateEdits    \* what becomes of state.json by other hands

VARIABLES
  running,   \* there is a backend
  config,    \* m.config
  state,     \* m.state
  adding,    \* the repos AddRepo is fetching
  file,      \* config.toml
  stateFile, \* state.json
  edited,    \* history: the files changed by other hands since they were loaded or saved
  unsaved,   \* history: the files whose last save failed
  asked      \* history: whom a person last asked to be notified for, per repo

memory == <<config, state>>
disk == <<file, stateFile>>
history == <<edited, unsaved, asked>>
vars == <<running, memory, adding, disk, history>>

(* Of every interval: how long it is does not matter.                        *)
Default == 120

-----------------------------------------------------------------------------
(* config.toml and what it is read as.  active stands for both of the other *)
(* intervals, notifyFor for a repo's notification settings, and logins for  *)
(* the lists of people.                                                    *)

NotifyFor == {"empty", "everyone", "mine"}

(* A client may send null for the events of settings: they notify nobody.   *)
Settings == NotifyFor \cup {"null"}

(* [two_way] as written: its command, and whether it has keys of the old    *)
(* setup; as read: what is wrong with it, which "" leaves to the command.   *)
TwoWayTable == [command : {"handler", "", "absent", "number"}, old : BOOLEAN]
TwoWay == {None, "handler", "", "legacy", "invalid"}

(* A table that is not valid names an event this version does not know.  A   *)
(* list written by hand may name a repo twice.                              *)
Table == [notifyFor : NotifyFor \cup {"absent"}, valid : BOOLEAN]

Written ==
  [repos : SUBSET Repos, twice : SUBSET Repos, poll : Int \cup {None}, active : Int \cup {None},
   logins : SUBSET Logins, twoWay : TwoWayTable \cup {None, Broken}, notifications : [Repos -> Table \cup {None}]]

ConfigFile == Written \cup {None, Broken}

Config ==
  [repos : SUBSET Repos, twice : SUBSET Repos, poll : Nat \ {0}, active : Nat \ {0},
   logins : SUBSET (Logins \ {Blank}), twoWay : TwoWay,
   notifications : [Repos -> Settings \cup {None}], ignored : BOOLEAN]

New ==
  [repos |-> {}, twice |-> {}, poll |-> Default, active |-> Default, logins |-> {}, twoWay |-> None,
   notifications |-> [r \in Repos |-> None], ignored |-> FALSE]

(* A mutant of Ignore: the defaults, to be saved over the file.             *)
IgnoreUnmarked == New

Ignore == [New EXCEPT !.ignored = TRUE]

CleanList(list) == list \ {Blank}

(* A mutant of LegacyNotifyFor: the default of a newly configured repo.     *)
NewNotifyFor == "mine"

(* LegacyNotifyConfig: settings from before notify_for.                     *)
LegacyNotifyFor == "everyone"

(* What is left of settings in which it may be missing.                     *)
Settle(notifyFor) == IF notifyFor = "absent" THEN LegacyNotifyFor ELSE notifyFor

(* parseNotify: an invalid table is as good as none.                        *)
ParseNotify(table) ==
  IF table = None \/ ~ table.valid THEN None ELSE Settle(table.notifyFor)

(* parseTwoWay: whatever is wrong with it spoils only this table.           *)
ParseTwoWay(table) ==
  CASE table = None -> None
    [] table = Broken -> "invalid"
    [] OTHER -> CASE table.command = "number" -> "invalid"
                  [] table.command = "absent" -> IF table.old THEN "legacy" ELSE ""
                  [] OTHER -> table.command

(* A mutant of Interval: a loop with it would not pause.                    *)
IntervalAsWritten(n) == IF n = None THEN Default ELSE n

Interval(n) == IF n = None \/ n <= 0 THEN Default ELSE n

Unusable(text) == text = Broken \/ (text # None /\ text.poll # None /\ text.poll <= 0)

Load(text) ==
  CASE text = None -> New
    [] Unusable(text) -> Ignore
    [] OTHER ->
         [repos |-> text.repos, twice |-> text.twice,
          poll |-> IF text.poll = None THEN Default ELSE text.poll,
          active |-> Interval(text.active),
          logins |-> CleanList(text.logins),
          twoWay |-> ParseTwoWay(text.twoWay),
          notifications |-> [r \in Repos |-> ParseNotify(text.notifications[r])],
          ignored |-> FALSE]

(* What Save makes of settings with null events is no TOML, nor is a second *)
(* table of notification settings for a repo the list names twice.          *)
Unreadable(c) ==
  \E r \in c.repos :
    c.notifications[r] = "null" \/ (c.notifications[r] # None /\ r \in c.twice)

(* Of a two-way table only the command is written, of the notification      *)
(* settings those of monitored repos.                                      *)
Saved(c) ==
  IF Unreadable(c) THEN Broken ELSE
  [repos |-> c.repos, twice |-> c.twice, poll |-> c.poll, active |-> c.active, logins |-> c.logins,
   twoWay |-> IF c.twoWay = None THEN None
              ELSE [command |-> IF c.twoWay = "handler" THEN "handler" ELSE "", old |-> FALSE],
   notifications |-> [r \in Repos |->
     IF r \notin c.repos \/ c.notifications[r] = None THEN None
     ELSE [notifyFor |-> IF c.notifications[r] = "empty" THEN "everyone" ELSE c.notifications[r],
           valid |-> TRUE]]]

-----------------------------------------------------------------------------
(* state.json.  kept stands for what is remembered by repo: armed merges,   *)
(* muted PRs, retries, messages, tracked PRs.  A part can be bad by itself. *)

AppState == [kept : SUBSET Repos, collapsed : BOOLEAN]

StateFile ==
  [kept : (SUBSET Repos) \cup {Broken}, collapsed : BOOLEAN \cup {Broken}] \cup {None, Broken}

ASSUME ConstantsAssumption ==
  /\ None # Broken
  /\ \A x \in {None, Broken} :
       /\ x \notin Int \cup Settings \cup Table \cup TwoWayTable \cup BOOLEAN
       /\ x \notin Written /\ x \notin AppState /\ \A repos \in SUBSET Repos : x # repos
  /\ Intervals \subseteq Nat \ {0}
  /\ ConfigEdits \subseteq ConfigFile /\ StateEdits \subseteq StateFile

NewState == [kept |-> {}, collapsed |-> FALSE]

LoadState(text) ==
  IF text \in {None, Broken} THEN NewState
  ELSE [kept |-> IF text.kept = Broken THEN {} ELSE text.kept,
        collapsed |-> text.collapsed = TRUE]

-----------------------------------------------------------------------------
(* The files in ok are replaced by what is in memory now.                   *)
WriteAtomic(ok) ==
  /\ file' = IF "config" \in ok THEN Saved(config') ELSE file
  /\ stateFile' = IF "state" \in ok THEN state' ELSE stateFile

(* saveConfigLocked and saveStateLocked: a failure is only logged.  A file  *)
(* that was ignored is never saved over.                                   *)
Save(which) ==
  \E ok \in SUBSET which :
     /\ "config" \in ok => ~ config'.ignored
     /\ WriteAtomic(ok)
     /\ edited' = edited \ ok
     /\ unsaved' = (unsaved \ ok) \cup (which \ ok)

(* A mutant of RequireSavable: the change is made all the same.             *)
RequireNothing == running

(* requireSavableConfigLocked.                                             *)
RequireSavable == running /\ ~ config.ignored

(* A command that changes the settings.                                    *)
Changes(c) == config' = c /\ Save({"config"}) /\ UNCHANGED <<running, state>>

SetPollInterval(seconds) ==
  /\ RequireSavable /\ seconds # config.poll
  /\ Changes([config EXCEPT !.poll = seconds])
  /\ UNCHANGED <<adding, asked>>

SaveLogins(logins) ==
  /\ RequireSavable /\ Changes([config EXCEPT !.logins = CleanList(logins)])
  /\ UNCHANGED <<adding, asked>>

(* Whom settings notify for, where they may not say.                        *)
Asks(notifyFor) ==
  CASE notifyFor = "mine" -> "mine"
    [] notifyFor = "null" -> None
    [] OTHER -> "everyone"

(* SaveNotifications of what the client sent, which ParseSettings reads: an *)
(* old client sends no notify_for.                                         *)
SaveNotifications(r, notifyFor) ==
  /\ RequireSavable /\ r \in config.repos
  /\ Changes([config EXCEPT !.notifications[r] = Settle(notifyFor)])
  /\ asked' = [asked EXCEPT ![r] = Asks(notifyFor)]
  /\ UNCHANGED adding

(* AddRepo up to its call of GitHub, and from the answer on.                *)
AddRepo(r) ==
  /\ RequireSavable /\ r \notin config.repos /\ adding' = adding \cup {r}
  /\ UNCHANGED <<running, memory, disk, history>>

AddFetched(r) ==
  /\ running /\ r \in adding /\ adding' = adding \ {r} /\ r \notin config.repos
  /\ Changes([config EXCEPT !.repos = @ \cup {r}])
  /\ UNCHANGED asked

(* GitHub has no such repo, or it is monitored by now.                      *)
AddFails(r) ==
  /\ running /\ r \in adding /\ adding' = adding \ {r}
  /\ UNCHANGED <<running, memory, disk, history>>

(* What RemoveRepo does to the memory.                                     *)
Forgets(r) ==
  /\ RequireSavable /\ r \in config.repos
  /\ config' = [config EXCEPT !.repos = @ \ {r}, !.twice = @ \ {r}, !.notifications[r] = None]
  /\ state' = [state EXCEPT !.kept = @ \ {r}]
  /\ asked' = [asked EXCEPT ![r] = None]

(* RemoveRepo: the settings are saved, then the state.                       *)
RemoveRepo(r) == Forgets(r) /\ Save({"config", "state"}) /\ UNCHANGED <<running, adding>>

(* The backend dies between the two saves of RemoveRepo.                    *)
DiesRemoving(r) ==
  /\ Forgets(r) /\ Save({"config"}) /\ running' = FALSE /\ adding' = {}

(* What is remembered of a repo, monitored or not, and SetCollapsed.        *)
Keeps(s) ==
  /\ running /\ state' = s /\ s # state /\ Save({"state"})
  /\ UNCHANGED <<running, config, adding, asked>>

Remembers(r) == Keeps([state EXCEPT !.kept = @ \cup {r}])
Drops(r) == Keeps([state EXCEPT !.kept = @ \ {r}])
SetCollapsed == Keeps([state EXCEPT !.collapsed = ~ @])

-----------------------------------------------------------------------------
(* Starts, ends and other hands.                                           *)

(* What a person has asked for by writing config.toml, of repos in its list: *)
(* the settings of others are gone with the next save.                      *)
AskedIn(text) ==
  [r \in Repos |->
     IF text = None \/ Unusable(text) \/ r \notin text.repos THEN None
     ELSE IF text.notifications[r] = None \/ ~ text.notifications[r].valid THEN None
     ELSE Asks(text.notifications[r].notifyFor)]

(* Start: both files are loaded.                                           *)
Start ==
  /\ ~ running /\ running' = TRUE
  /\ config' = Load(file) /\ state' = LoadState(stateFile)
  /\ asked' = IF "config" \in edited \cup unsaved \/ Unusable(file) THEN AskedIn(file) ELSE asked
  /\ edited' = {} /\ unsaved' = {}
  /\ UNCHANGED <<adding, disk>>

(* Stop saves what is remembered.                                          *)
Stop ==
  /\ running /\ running' = FALSE /\ adding' = {} /\ UNCHANGED <<memory, asked>>
  /\ Save({"state"})

Crash ==
  /\ running /\ running' = FALSE /\ adding' = {}
  /\ UNCHANGED <<memory, disk, history>>

EditConfig ==
  /\ file' \in ConfigEdits \ {file} /\ edited' = edited \cup {"config"}
  /\ UNCHANGED <<running, memory, adding, stateFile, unsaved, asked>>

EditState ==
  /\ stateFile' \in StateEdits \ {stateFile} /\ edited' = edited \cup {"state"}
  /\ UNCHANGED <<running, memory, adding, file, unsaved, asked>>

-----------------------------------------------------------------------------
Init ==
  /\ running = FALSE /\ config = New /\ state = NewState /\ adding = {}
  /\ file \in ConfigEdits /\ stateFile \in StateEdits
  /\ edited = {"config", "state"} /\ unsaved = {}
  /\ asked = [r \in Repos |-> None]

Commands ==
  \/ \E seconds \in Intervals : SetPollInterval(seconds)
  \/ \E logins \in SUBSET Logins : SaveLogins(logins)
  \/ \E r \in Repos, notifyFor \in Settings \cup {"absent"} : SaveNotifications(r, notifyFor)
  \/ \E r \in Repos : AddRepo(r) \/ AddFetched(r) \/ AddFails(r) \/ RemoveRepo(r)
  \/ \E r \in Repos : DiesRemoving(r) \/ Remembers(r) \/ Drops(r)
  \/ SetCollapsed

Next == Commands \/ Start \/ Stop \/ Crash \/ EditConfig \/ EditState

Spec == Init /\ [][Next]_vars

-----------------------------------------------------------------------------
TypeOK ==
  /\ running \in BOOLEAN /\ config \in Config /\ state \in AppState
  /\ adding \subseteq Repos /\ (~ running => adding = {})
  /\ file \in ConfigFile /\ stateFile \in StateFile
  /\ edited \subseteq {"config", "state"} /\ unsaved \subseteq {"config", "state"}
  /\ asked \in [Repos -> {None, "everyone", "mine"}]

(* What the settings come to: a two-way table without a command is as good *)
(* as off, and an empty notify_for notifies for everyone.                   *)
Meaning(c) ==
  [c EXCEPT !.twoWay = IF c.twoWay \in {None, "handler"} THEN c.twoWay ELSE "",
            !.notifications = [r \in Repos |->
              IF r \notin c.repos THEN None
              ELSE IF c.notifications[r] = "empty" THEN "everyone" ELSE c.notifications[r]]]

(* The backend can die at any moment and the next one goes on as it did:    *)
(* unless the disk refused a save, or other hands changed a file, what the  *)
(* files would be loaded as is what the backend runs with, and a file that  *)
(* was saved can be read, but for the settings Save has no TOML for.  A      *)
(* refused change is no excuse: where the file was ignored, nothing is       *)
(* changed.                                                                *)
RestartChangesNothing ==
  running =>
    /\ "config" \notin edited /\ ("config" \in unsaved => config.ignored)
         => Meaning(Load(file)) = Meaning(config) \/ (file = Broken /\ Unreadable(config))
    /\ "state" \notin edited \cup unsaved => LoadState(stateFile) = state

(* A config.toml that cannot be used is the person's to mend: only a        *)
(* backend that had loaded it before it broke, or that made it unreadable   *)
(* itself, ever writes over it.                                             *)
IgnoredIsKept ==
  [][file' # file /\ "config" \notin edited \cup edited' /\ Unusable(file)
       => ~ config.ignored /\ (Unreadable(config) \/ "config" \in unsaved)]_vars

(* A monitored repo notifies for whom a person last asked, over saves of    *)
(* other settings and restarts: settings from before notify_for, in the     *)
(* file or from an old client, go on notifying for everyone.                *)
NotifiesAsAsked ==
  running =>
    \A r \in config.repos :
       asked[r] # None => (asked[r] = "mine" <=> config.notifications[r] = "mine")
=============================================================================
