------------------------ MODULE SavedSettings_proofs ------------------------
(***************************************************************************)
(* Why a backend that dies at any moment is followed by one that goes on   *)
(* as it did, why a monitored repo notifies for whom a person asked, and   *)
(* why a file that cannot be used is not saved over: for any repos, people *)
(* and files.                                                              *)
(*                                                                         *)
(* What is saved is loaded as what it meant (SavedMeans).  The invariant   *)
(* ties the memory to the file while a backend runs, and the file to what  *)
(* was asked for while none does: a file nobody touched says it.           *)
(***************************************************************************)
EXTENDS SavedSettings, TLAPS

----------------------------------------------------------------------------
(* The invariant.                                                          *)

Untouched == "config" \notin edited \cup unsaved

(* Whom settings notify for is whom was asked for, in the repos that count.  *)
AsksFor(c, wants) ==
  \A r \in Repos : wants[r] # None =>
    r \in c.repos /\ (wants[r] = "mine" <=> c.notifications[r] = "mine")

(* A file that is ignored is known to be so, and then nothing is changed; one *)
(* that cannot be used otherwise is what the last save made of it.            *)
IgnoredKnown ==
  running =>
    /\ "config" \notin edited =>
         /\ config.ignored => Unusable(file)
         /\ Unusable(file) => config.ignored \/ Unreadable(config) \/ "config" \in unsaved
    /\ adding # {} => ~ config.ignored

Asked ==
  /\ running => AsksFor(config, asked)
  /\ Untouched => Unusable(file) \/ AsksFor(Load(file), asked)

IInv == TypeOK /\ RestartChangesNothing /\ IgnoredKnown /\ Asked

----------------------------------------------------------------------------
(* The files.                                                              *)

LEMMA Apart ==
  /\ None # Broken
  /\ \A x \in {None, Broken} :
       /\ x \notin Int /\ x \notin Settings /\ x \notin NotifyFor /\ x \notin Table /\ x \notin TwoWayTable
       /\ x \notin BOOLEAN /\ x \notin SUBSET Repos /\ x \notin Written /\ x \notin AppState
BY ConstantsAssumption DEF Settings

LEMMA NewOK == New \in Config /\ Ignore \in Config /\ Ignore.ignored /\ ~ New.ignored
<1>1. New \in Config
  BY DEF New, Config, Default, TwoWay
<1> QED
  BY <1>1 DEF Ignore, New, Config

LEMMA ParsesOK ==
  /\ \A table \in Table \cup {None} : ParseNotify(table) \in Settings \cup {None}
  /\ \A table \in TwoWayTable \cup {None, Broken} : ParseTwoWay(table) \in TwoWay
<1>1. ASSUME NEW table \in Table \cup {None}
      PROVE  ParseNotify(table) \in Settings \cup {None}
  BY DEF ParseNotify, Settle, LegacyNotifyFor, Table, NotifyFor, Settings
<1>2. ASSUME NEW table \in TwoWayTable \cup {None, Broken}
      PROVE  ParseTwoWay(table) \in TwoWay
  BY DEF ParseTwoWay, TwoWayTable, TwoWay
<1> QED
  BY <1>1, <1>2

LEMMA LoadOK ==
  ASSUME NEW text \in ConfigFile
  PROVE  Load(text) \in Config /\ (Load(text).ignored <=> Unusable(text))
<1>1. CASE text = None
  BY <1>1, NewOK, Apart DEF Load, Unusable
<1>2. CASE Unusable(text)
  <2>1. text # None
    BY <1>2, Apart DEF Unusable
  <2> QED
    BY <1>2, <2>1, NewOK DEF Load
<1>3. CASE text # None /\ ~ Unusable(text)
  <2>1. text \in Written
    BY <1>3 DEF ConfigFile, Unusable
  <2> DEFINE poll == IF text.poll = None THEN Default ELSE text.poll
             active == Interval(text.active)
             logins == CleanList(text.logins)
             twoWay == ParseTwoWay(text.twoWay)
             notifications == [r \in Repos |-> ParseNotify(text.notifications[r])]
  <2>2. Load(text) = [repos |-> text.repos, twice |-> text.twice, poll |-> poll, active |-> active, logins |-> logins,
                      twoWay |-> twoWay, notifications |-> notifications, ignored |-> FALSE]
    BY <1>3 DEF Load
  <2>3. text.repos \in SUBSET Repos /\ text.twice \in SUBSET Repos
    BY <2>1 DEF Written
  <2>4. poll \in Nat \ {0}
    BY <1>3, <2>1 DEF Written, Unusable, Default
  <2>5. active \in Nat \ {0}
    BY <2>1 DEF Written, Interval, Default
  <2>6. logins \in SUBSET (Logins \ {Blank})
    BY <2>1 DEF Written, CleanList
  <2>7. twoWay \in TwoWay
    BY <2>1, ParsesOK DEF Written
  <2>8. notifications \in [Repos -> Settings \cup {None}]
    BY <2>1, ParsesOK DEF Written
  <2> HIDE DEF poll, active, logins, twoWay, notifications
  <2>9. Load(text) \in Config
    BY <2>2, <2>3, <2>4, <2>5, <2>6, <2>7, <2>8 DEF Config
  <2> QED
    BY <1>3, <2>2, <2>9
<1> QED
  BY <1>1, <1>2, <1>3

LEMMA SavedOK ==
  ASSUME NEW c \in Config, ~ Unreadable(c)
  PROVE  Saved(c) \in Written /\ Saved(c) \notin {None, Broken} /\ ~ Unusable(Saved(c))
<1> DEFINE twoWay == IF c.twoWay = None THEN None
                     ELSE [command |-> IF c.twoWay = "handler" THEN "handler" ELSE "", old |-> FALSE]
           table(r) == IF r \notin c.repos \/ c.notifications[r] = None THEN None
                       ELSE [notifyFor |-> IF c.notifications[r] = "empty" THEN "everyone" ELSE c.notifications[r],
                             valid |-> TRUE]
           notifications == [r \in Repos |-> table(r)]
<1>1. Saved(c) = [repos |-> c.repos, twice |-> c.twice, poll |-> c.poll, active |-> c.active, logins |-> c.logins,
                  twoWay |-> twoWay, notifications |-> notifications]
  BY DEF Saved
<1>2. twoWay \in TwoWayTable \cup {None, Broken}
  BY DEF TwoWayTable
<1>3. notifications \in [Repos -> Table \cup {None}]
  <2>1. ASSUME NEW r \in Repos PROVE table(r) \in Table \cup {None}
    <3>1. c.notifications[r] \in Settings \cup {None}
      BY DEF Config
    <3>2. r \in c.repos => c.notifications[r] # "null"
      BY DEF Unreadable
    <3> QED
      BY <3>1, <3>2 DEF Table, NotifyFor, Settings
  <2> QED
    BY <2>1
<1> HIDE DEF twoWay, notifications
<1>4. /\ c.repos \in SUBSET Repos /\ c.twice \in SUBSET Repos
      /\ c.poll \in Nat \ {0} /\ c.active \in Nat \ {0}
      /\ c.logins \in SUBSET Logins
  BY DEF Config
<1>5. Saved(c) \in Written
  BY <1>1, <1>2, <1>3, <1>4 DEF Written
<1>6. Saved(c) \notin {None, Broken}
  BY <1>5, Apart
<1>7. Saved(c).poll = c.poll
  BY <1>1
<1> QED
  BY <1>4, <1>5, <1>6, <1>7 DEF Unusable

(* What of the settings survives a save: all that they mean.                *)
LEMMA SavedLoads ==
  ASSUME NEW c \in Config, ~ Unreadable(c)
  PROVE  LET d == Load(Saved(c))
         IN /\ d.repos = c.repos /\ d.twice = c.twice /\ d.poll = c.poll /\ d.active = c.active /\ d.logins = c.logins
            /\ d.twoWay = IF c.twoWay \in {None, "handler"} THEN c.twoWay ELSE ""
            /\ \A r \in Repos : d.notifications[r] =
                 IF r \notin c.repos THEN None
                 ELSE IF c.notifications[r] = "empty" THEN "everyone" ELSE c.notifications[r]
            /\ ~ d.ignored
<1> DEFINE text == Saved(c)
           d == Load(text)
<1>1. text \in Written /\ text # None /\ text # Broken /\ ~ Unusable(text)
  BY SavedOK
<1>2. /\ d.repos = text.repos /\ d.twice = text.twice
      /\ d.poll = IF text.poll = None THEN Default ELSE text.poll
      /\ d.active = Interval(text.active) /\ d.logins = CleanList(text.logins)
      /\ d.twoWay = ParseTwoWay(text.twoWay)
      /\ d.notifications = [r \in Repos |-> ParseNotify(text.notifications[r])] /\ ~ d.ignored
  <2> HIDE DEF text
  <2> QED
    BY <1>1 DEF Load
<1>3. /\ text.repos = c.repos /\ text.twice = c.twice /\ text.poll = c.poll /\ text.active = c.active /\ text.logins = c.logins
      /\ text.twoWay = IF c.twoWay = None THEN None
              ELSE [command |-> IF c.twoWay = "handler" THEN "handler" ELSE "", old |-> FALSE]
      /\ \A r \in Repos : text.notifications[r] =
           IF r \notin c.repos \/ c.notifications[r] = None THEN None
           ELSE [notifyFor |-> IF c.notifications[r] = "empty" THEN "everyone" ELSE c.notifications[r],
                 valid |-> TRUE]
  BY DEF Saved
<1> HIDE DEF text, d
<1>4. c.poll \in Nat \ {0} /\ c.active \in Nat \ {0} /\ c.logins \subseteq Logins \ {Blank}
      /\ c.twoWay \in TwoWay
  BY DEF Config
<1>5. d.poll = c.poll /\ d.active = c.active /\ d.logins = c.logins
  BY <1>2, <1>3, <1>4, Apart DEF Interval, CleanList
<1>6. d.twoWay = IF c.twoWay \in {None, "handler"} THEN c.twoWay ELSE ""
  <2>1. CASE c.twoWay = None
    BY <1>2, <1>3, <2>1, Apart DEF ParseTwoWay
  <2>2. CASE c.twoWay # None
    <3> DEFINE command == IF c.twoWay = "handler" THEN "handler" ELSE ""
               table == [command |-> command, old |-> FALSE]
    <3>1. table \in TwoWayTable
      BY DEF TwoWayTable
    <3>2. table # None /\ table # Broken
      BY <3>1, Apart
    <3>3. text.twoWay = table /\ table.command = command
      BY <1>3, <2>2
    <3> HIDE DEF table
    <3> QED
      BY <1>2, <2>2, <3>2, <3>3 DEF ParseTwoWay
  <2> QED
    BY <2>1, <2>2
<1>7. ASSUME NEW r \in Repos
      PROVE  d.notifications[r] =
               IF r \notin c.repos THEN None
               ELSE IF c.notifications[r] = "empty" THEN "everyone" ELSE c.notifications[r]
  <2>1. c.notifications[r] \in Settings \cup {None} /\ (r \in c.repos => c.notifications[r] # "null")
    BY DEF Config, Unreadable
  <2>2. d.notifications[r] = ParseNotify(text.notifications[r])
    BY <1>2
  <2>3. CASE r \notin c.repos \/ c.notifications[r] = None
    BY <1>3, <2>1, <2>2, <2>3, Apart DEF ParseNotify, Settings, NotifyFor
  <2>4. CASE ~ (r \notin c.repos \/ c.notifications[r] = None)
    <3> DEFINE for == IF c.notifications[r] = "empty" THEN "everyone" ELSE c.notifications[r]
               table == [notifyFor |-> for, valid |-> TRUE]
    <3>1. for \in NotifyFor
      BY <2>1, <2>4 DEF NotifyFor, Settings
    <3>2. text.notifications[r] = table
      BY <1>3, <2>4
    <3> HIDE DEF for
    <3>3. table \in Table /\ table.valid /\ table.notifyFor = for
      BY <3>1 DEF Table
    <3>4. table # None
      BY <3>3, Apart
    <3>5. for # "absent"
      BY <3>1 DEF NotifyFor
    <3> HIDE DEF table
    <3> QED
      BY <2>2, <2>4, <3>2, <3>3, <3>4, <3>5 DEF ParseNotify, Settle, for
  <2> QED
    BY <2>3, <2>4
<1> QED
  BY <1>2, <1>3, <1>5, <1>6, <1>7 DEF d, text

LEMMA SavedAsks ==
  ASSUME NEW c \in Config, ~ Unreadable(c), NEW wants, AsksFor(c, wants)
  PROVE  AsksFor(Load(Saved(c)), wants)
<1> SUFFICES ASSUME NEW r \in Repos, wants[r] # None
             PROVE  r \in Load(Saved(c)).repos
                    /\ (wants[r] = "mine" <=> Load(Saved(c)).notifications[r] = "mine")
  BY DEF AsksFor
<1>1. r \in c.repos /\ (wants[r] = "mine" <=> c.notifications[r] = "mine")
  BY DEF AsksFor
<1>2. /\ Load(Saved(c)).repos = c.repos
      /\ Load(Saved(c)).notifications[r] =
           IF c.notifications[r] = "empty" THEN "everyone" ELSE c.notifications[r]
  BY <1>1, SavedLoads
<1> QED
  BY <1>1, <1>2

(* The file of what was saved is loaded as what it meant (Save, Load), if     *)
(* there is TOML for it.                                                     *)
LEMMA SavedMeans ==
  ASSUME NEW c \in Config, ~ Unreadable(c), ~ c.ignored
  PROVE  Meaning(Load(Saved(c))) = Meaning(c)
<1> DEFINE d == Load(Saved(c))
           twoWay == IF c.twoWay \in {None, "handler"} THEN c.twoWay ELSE ""
           notifications == [r \in Repos |->
              IF r \notin c.repos THEN None
              ELSE IF c.notifications[r] = "empty" THEN "everyone" ELSE c.notifications[r]]
           plain(x) == [x EXCEPT !.twoWay = twoWay, !.notifications = notifications]
<1>1. d \in Config
  BY SavedOK, LoadOK DEF ConfigFile
<1>2. /\ d.repos = c.repos /\ d.twice = c.twice /\ d.poll = c.poll /\ d.active = c.active /\ d.logins = c.logins
      /\ d.twoWay = twoWay /\ \A r \in Repos : d.notifications[r] = notifications[r]
      /\ ~ d.ignored
  BY SavedLoads
<1>3. d.ignored = c.ignored
  BY <1>1, <1>2 DEF Config
<1> HIDE DEF d
<1>4. Meaning(c) = plain(c)
  BY DEF Meaning
<1>5. twoWay = IF d.twoWay \in {None, "handler"} THEN d.twoWay ELSE ""
  BY <1>2
<1>6. notifications = [r \in Repos |->
              IF r \notin d.repos THEN None
              ELSE IF d.notifications[r] = "empty" THEN "everyone" ELSE d.notifications[r]]
  BY <1>2
<1>7. Meaning(d) = plain(d)
  BY <1>5, <1>6 DEF Meaning
<1> HIDE DEF twoWay, notifications
<1>8. plain(d) = plain(c)
  BY <1>1, <1>2, <1>3 DEF Config
<1> QED
  BY <1>4, <1>7, <1>8 DEF d

LEMMA StateLoads ==
  /\ \A text \in StateFile : LoadState(text) \in AppState
  /\ \A s \in AppState : LoadState(s) = s
<1>1. ASSUME NEW text \in StateFile PROVE LoadState(text) \in AppState
  <2>1. NewState \in AppState
    BY DEF NewState, AppState
  <2>2. CASE text \notin {None, Broken}
    <3> DEFINE keeps == IF text.kept = Broken THEN {} ELSE text.kept
               folded == text.collapsed = TRUE
    <3>1. keeps \in SUBSET Repos
      <4> DEFINE folds == BOOLEAN \cup {Broken}
      <4>1. text \in [kept : (SUBSET Repos) \cup {Broken}, collapsed : folds]
        BY <2>2, Zenon DEF StateFile
      <4> HIDE DEF folds
      <4>2. text.kept \in (SUBSET Repos) \cup {Broken}
        BY <4>1
      <4>3. CASE text.kept = Broken
        BY <4>3
      <4>4. CASE text.kept # Broken
        <5>1. keeps = text.kept
          BY <4>4
        <5>2. text.kept \in SUBSET Repos
          BY <4>2, <4>4, Zenon
        <5> QED
          BY <5>1, <5>2
      <4> QED
        BY <4>3, <4>4
    <3>2. folded \in BOOLEAN
      OBVIOUS
    <3>3. LoadState(text) = [kept |-> keeps, collapsed |-> folded]
      BY <2>2 DEF LoadState
    <3> HIDE DEF keeps, folded
    <3> QED
      BY <3>1, <3>2, <3>3 DEF AppState
  <2> QED
    BY <2>1, <2>2 DEF LoadState
<1>2. ASSUME NEW s \in AppState PROVE LoadState(s) = s
  <2>1. s \notin {None, Broken} /\ s.kept # Broken /\ s.collapsed \in BOOLEAN
    BY Apart DEF AppState
  <2>2. LoadState(s) = [kept |-> s.kept, collapsed |-> s.collapsed]
    BY <2>1 DEF LoadState
  <2> QED
    BY <2>2 DEF AppState
<1> QED
  BY <1>1, <1>2

----------------------------------------------------------------------------
(* Saves.                                                                  *)

(* A command under the mutex leaves memory and files that agree, if what it   *)
(* leaves in memory asks for whom a person asked: settings c, ignored as      *)
(* before, and the files of which.                                          *)
LEMMA SaveHolds ==
  ASSUME IInv, running, NEW which \in {{"config"}, {"state"}, {"config", "state"}}, Save(which),
         config' \in Config, state' \in AppState,
         "config" \in which => ~ config.ignored /\ ~ config'.ignored,
         "config" \notin which => config' = config,
         "state" \notin which => state' = state \/ ~ running',
         asked' \in [Repos -> {None, "everyone", "mine"}], AsksFor(config', asked'),
         "config" \notin which => asked' = asked,
         running' \in BOOLEAN, adding' \subseteq Repos, ~ running' => adding' = {},
         adding' # {} => adding # {} \/ ~ config.ignored
  PROVE  IInv'
<1>1. PICK ok \in SUBSET which :
        /\ "config" \in ok => ~ config'.ignored
        /\ WriteAtomic(ok)
        /\ edited' = edited \ ok
        /\ unsaved' = (unsaved \ ok) \cup (which \ ok)
  BY DEF Save
<1>2. /\ file' = IF "config" \in ok THEN Saved(config') ELSE file
      /\ stateFile' = IF "state" \in ok THEN state' ELSE stateFile
  BY <1>1 DEF WriteAtomic
<1>3. TypeOK'
  <2>1. file' \in ConfigFile
    <3>1. CASE "config" \in ok /\ Unreadable(config')
      BY <1>2, <3>1 DEF Saved, ConfigFile
    <3>2. CASE "config" \in ok /\ ~ Unreadable(config')
      BY <1>2, <3>2, SavedOK DEF ConfigFile
    <3>3. CASE "config" \notin ok
      BY <1>2, <3>3 DEF IInv, TypeOK
    <3> QED
      BY <3>1, <3>2, <3>3
  <2>2. stateFile' \in StateFile
    BY <1>2 DEF IInv, TypeOK, StateFile, AppState
  <2>3. edited' \subseteq {"config", "state"} /\ unsaved' \subseteq {"config", "state"}
    BY <1>1 DEF IInv, TypeOK
  <2> QED
    BY <2>1, <2>2, <2>3 DEF TypeOK
<1>4. RestartChangesNothing'
  <2>1. ASSUME "config" \notin edited', "config" \in unsaved' => config'.ignored
        PROVE  Meaning(Load(file')) = Meaning(config') \/ (file' = Broken /\ Unreadable(config'))
    <3>1. CASE "config" \in ok
      <4>1. CASE Unreadable(config')
        BY <1>2, <3>1, <4>1 DEF Saved
      <4>2. CASE ~ Unreadable(config')
        BY <1>1, <1>2, <3>1, <4>2, SavedMeans
      <4> QED
        BY <4>1, <4>2
    <3>2. CASE "config" \notin ok /\ "config" \in which
      BY <1>1, <2>1, <3>2
    <3>3. CASE "config" \notin which
      BY <1>1, <1>2, <2>1, <3>3 DEF IInv, RestartChangesNothing
    <3> QED
      BY <3>1, <3>2, <3>3
  <2>2. ASSUME running', "state" \notin edited' \cup unsaved'
        PROVE  LoadState(stateFile') = state'
    <3>1. CASE "state" \in ok
      BY <1>2, <3>1, StateLoads
    <3>2. CASE "state" \notin ok /\ "state" \in which
      BY <1>1, <2>2, <3>2
    <3>3. CASE "state" \notin which
      BY <1>1, <1>2, <2>2, <3>3 DEF IInv, RestartChangesNothing
    <3> QED
      BY <3>1, <3>2, <3>3
  <2> QED
    BY <2>1, <2>2 DEF RestartChangesNothing
<1>5. IgnoredKnown'
  <2>1. ASSUME "config" \notin edited'
        PROVE  /\ config'.ignored => Unusable(file')
               /\ Unusable(file') => config'.ignored \/ Unreadable(config') \/ "config" \in unsaved'
    <3>1. CASE "config" \in ok
      <4>1. ~ config'.ignored /\ file' = Saved(config')
        BY <1>1, <1>2, <3>1
      <4>2. ~ Unreadable(config') => ~ Unusable(file')
        BY <4>1, SavedOK
      <4> QED
        BY <4>1, <4>2
    <3>2. CASE "config" \notin ok /\ "config" \in which
      BY <1>1, <3>2
    <3>3. CASE "config" \notin which
      BY <1>1, <1>2, <2>1, <3>3 DEF IInv, IgnoredKnown
    <3> QED
      BY <3>1, <3>2, <3>3
  <2>2. adding' # {} => ~ config'.ignored
    BY DEF IInv, IgnoredKnown
  <2> QED
    BY <2>1, <2>2 DEF IgnoredKnown
<1>6. Asked'
  <2>1. ASSUME Untouched' PROVE Unusable(file') \/ AsksFor(Load(file'), asked')
    <3>1. CASE "config" \in ok
      <4>1. file' = Saved(config')
        BY <1>2, <3>1
      <4>2. CASE Unreadable(config')
        BY <4>1, <4>2 DEF Saved, Unusable
      <4>3. CASE ~ Unreadable(config')
        BY <4>1, <4>3, SavedAsks
      <4> QED
        BY <4>2, <4>3
    <3>2. CASE "config" \notin ok /\ "config" \in which
      BY <1>1, <2>1, <3>2 DEF Untouched
    <3>3. CASE "config" \notin which
      <4>1. file' = file /\ asked' = asked /\ Untouched
        BY <1>1, <1>2, <2>1, <3>3 DEF Untouched
      <4> QED
        BY <4>1 DEF IInv, Asked
    <3> QED
      BY <3>1, <3>2, <3>3
  <2> QED
    BY <2>1 DEF Asked
<1> QED
  BY <1>3, <1>4, <1>5, <1>6 DEF IInv

(* The settings commands.                                                  *)
LEMMA ChangesHolds ==
  ASSUME IInv, RequireSavable, NEW c \in Config, Changes(c), ~ c.ignored,
         asked' \in [Repos -> {None, "everyone", "mine"}], AsksFor(c, asked'),
         adding' \subseteq adding
  PROVE  IInv'
<1>1. /\ running /\ ~ config.ignored /\ running' = running /\ config' = c /\ state' = state
      /\ Save({"config"})
  BY DEF RequireSavable, Changes
<1> QED
  BY <1>1, SaveHolds DEF IInv, TypeOK

LEMMA CommandsHold ==
  ASSUME IInv, Commands
  PROVE  IInv'
<1>1. config \in Config /\ state \in AppState /\ asked \in [Repos -> {None, "everyone", "mine"}]
  BY DEF IInv, TypeOK
<1>2. running => AsksFor(config, asked)
  BY DEF IInv, Asked
<1>3. ASSUME NEW seconds \in Intervals, SetPollInterval(seconds) PROVE IInv'
  <2> DEFINE c == [config EXCEPT !.poll = seconds]
  <2>1. seconds \in Nat \ {0}
    BY ConstantsAssumption
  <2>2. /\ c \in Config /\ c.ignored = config.ignored /\ c.repos = config.repos
        /\ c.notifications = config.notifications
    BY <1>1, <2>1 DEF Config
  <2>3. RequireSavable /\ Changes(c) /\ UNCHANGED <<adding, asked>>
    BY <1>3 DEF SetPollInterval
  <2> HIDE DEF c
  <2> QED
    BY <1>1, <1>2, <2>2, <2>3, ChangesHolds DEF RequireSavable, AsksFor
<1>4. ASSUME NEW logins \in SUBSET Logins, SaveLogins(logins) PROVE IInv'
  <2> DEFINE clean == CleanList(logins)
             c == [config EXCEPT !.logins = clean]
  <2>1. clean \in SUBSET (Logins \ {Blank})
    BY DEF CleanList
  <2>2. RequireSavable /\ Changes(c) /\ UNCHANGED <<adding, asked>>
    BY <1>4 DEF SaveLogins
  <2> HIDE DEF clean
  <2>3. /\ c \in Config /\ c.ignored = config.ignored /\ c.repos = config.repos
        /\ c.notifications = config.notifications
    BY <1>1, <2>1 DEF Config
  <2> HIDE DEF c
  <2> QED
    BY <1>1, <1>2, <2>2, <2>3, ChangesHolds DEF RequireSavable, AsksFor
<1>5. ASSUME NEW r \in Repos, NEW notifyFor \in Settings \cup {"absent"}, SaveNotifications(r, notifyFor)
      PROVE  IInv'
  <2> DEFINE for == Settle(notifyFor)
             wants == Asks(notifyFor)
             c == [config EXCEPT !.notifications[r] = for]
  <2>1. /\ for \in Settings /\ wants \in {None, "everyone", "mine"}
        /\ wants # None => (for = "mine" <=> wants = "mine")
    BY DEF Settle, LegacyNotifyFor, Asks, NotifyFor, Settings
  <2>2. /\ RequireSavable /\ Changes(c) /\ adding' = adding /\ r \in config.repos
        /\ asked' = [asked EXCEPT ![r] = wants]
    BY <1>5 DEF SaveNotifications
  <2> HIDE DEF for, wants
  <2>3. /\ c \in Config /\ c.ignored = config.ignored /\ c.repos = config.repos
        /\ c.notifications = [config.notifications EXCEPT ![r] = for]
    BY <1>1, <2>1 DEF Config
  <2> HIDE DEF c
  <2>4. asked' \in [Repos -> {None, "everyone", "mine"}]
    BY <1>1, <2>1, <2>2
  <2>5. running /\ config.notifications \in [Repos -> Settings \cup {None}]
    BY <1>1, <2>2 DEF Config, RequireSavable
  <2>6. AsksFor(c, asked')
    BY <1>1, <1>2, <2>1, <2>2, <2>3, <2>5 DEF AsksFor
  <2> QED
    BY <2>2, <2>3, <2>4, <2>6, ChangesHolds DEF RequireSavable
<1>6. ASSUME NEW r \in Repos, AddRepo(r) \/ AddFails(r) PROVE IInv'
  <2>1. UNCHANGED <<running, config, state, file, stateFile, edited, unsaved, asked>>
    BY <1>6 DEF AddRepo, AddFails, memory, disk, history
  <2>2. adding' \subseteq Repos /\ (~ running' => adding' = {}) /\ (adding' # {} => ~ config.ignored)
    BY <1>6, <2>1 DEF AddRepo, AddFails, RequireSavable, IInv, TypeOK, IgnoredKnown
  <2> QED
    BY <2>1, <2>2 DEF IInv, TypeOK, RestartChangesNothing, IgnoredKnown, Asked, Untouched
<1>7. ASSUME NEW r \in Repos, AddFetched(r) PROVE IInv'
  <2> DEFINE repos == config.repos \cup {r}
             c == [config EXCEPT !.repos = repos]
  <2>1. repos \in SUBSET Repos
    BY <1>1 DEF Config
  <2>2. running /\ adding # {} /\ Changes(c) /\ adding' = adding \ {r} /\ asked' = asked
    BY <1>7 DEF AddFetched
  <2>3. /\ c \in Config /\ c.ignored = config.ignored /\ c.repos = repos
        /\ c.notifications = config.notifications
    BY <1>1, <2>1 DEF Config
  <2>4. config.repos \subseteq repos
    OBVIOUS
  <2> HIDE DEF c, repos
  <2>5. RequireSavable
    BY <2>2 DEF RequireSavable, IInv, IgnoredKnown
  <2>6. AsksFor(c, asked')
    BY <1>2, <2>2, <2>3, <2>4 DEF AsksFor
  <2>7. adding' \subseteq adding
    BY <2>2
  <2> QED
    BY <1>1, <2>2, <2>3, <2>5, <2>6, <2>7, ChangesHolds DEF RequireSavable
<1>8. ASSUME NEW r \in Repos, RemoveRepo(r) \/ DiesRemoving(r) PROVE IInv'
  <2> DEFINE repos == config.repos \ {r}
             twice == config.twice \ {r}
             c == [config EXCEPT !.repos = repos, !.twice = twice, !.notifications[r] = None]
             kept == state.kept \ {r}
             t == [state EXCEPT !.kept = kept]
  <2>1. /\ RequireSavable /\ config' = c /\ state' = t /\ asked' = [asked EXCEPT ![r] = None]
    BY <1>8 DEF RemoveRepo, DiesRemoving, Forgets
  <2>2. repos \in SUBSET Repos /\ twice \in SUBSET Repos /\ kept \in SUBSET Repos /\ \A x \in config.repos : x # r => x \in repos
    BY <1>1 DEF Config, AppState
  <2> HIDE DEF repos, twice, kept
  <2>3. /\ c \in Config /\ c.ignored = config.ignored /\ c.repos = repos
        /\ c.notifications = [config.notifications EXCEPT ![r] = None]
    BY <1>1, <2>2 DEF Config
  <2>4. t \in AppState
    BY <1>1, <2>2 DEF AppState
  <2> HIDE DEF c, t
  <2>5. asked' \in [Repos -> {None, "everyone", "mine"}]
    BY <1>1, <2>1
  <2>6. running /\ ~ config.ignored /\ config.notifications \in [Repos -> Settings \cup {None}]
    BY <1>1, <2>1 DEF Config, RequireSavable
  <2>7. AsksFor(c, asked')
    BY <1>1, <1>2, <2>1, <2>2, <2>3, <2>6 DEF AsksFor
  <2>8. CASE RemoveRepo(r)
    <3>1. Save({"config", "state"}) /\ UNCHANGED <<running, adding>>
      BY <2>8 DEF RemoveRepo
    <3> QED
      BY <2>1, <2>3, <2>4, <2>5, <2>6, <2>7, <3>1, SaveHolds DEF IInv, TypeOK
  <2>9. CASE DiesRemoving(r)
    <3>1. Save({"config"}) /\ running' = FALSE /\ adding' = {}
      BY <2>9 DEF DiesRemoving
    <3> QED
      BY <2>1, <2>3, <2>4, <2>5, <2>6, <2>7, <3>1, SaveHolds DEF IInv, TypeOK
  <2> QED
    BY <1>8, <2>8, <2>9
<1>9. ASSUME NEW s, s \in AppState, Keeps(s) PROVE IInv'
  <2>1. running /\ state' = s /\ Save({"state"}) /\ UNCHANGED <<running, config, adding, asked>>
    BY <1>9 DEF Keeps
  <2> QED
    BY <1>1, <1>2, <1>9, <2>1, SaveHolds DEF IInv, TypeOK
<1>10. ASSUME NEW r \in Repos, Remembers(r) \/ Drops(r) PROVE IInv'
  <2>1. \A x \in SUBSET Repos : [state EXCEPT !.kept = x] \in AppState
    BY <1>1 DEF AppState
  <2>2. state.kept \cup {r} \in SUBSET Repos /\ state.kept \ {r} \in SUBSET Repos
    BY <1>1 DEF AppState
  <2> QED
    BY <1>9, <1>10, <2>1, <2>2 DEF Remembers, Drops
<1>11. ASSUME SetCollapsed PROVE IInv'
  <2> DEFINE folded == ~ state.collapsed
  <2>1. folded \in BOOLEAN
    OBVIOUS
  <2>2. Keeps([state EXCEPT !.collapsed = folded])
    BY <1>11 DEF SetCollapsed
  <2> HIDE DEF folded
  <2>3. [state EXCEPT !.collapsed = folded] \in AppState
    BY <1>1, <2>1 DEF AppState
  <2> QED
    BY <1>9, <2>2, <2>3
<1> QED
  BY <1>3, <1>4, <1>5, <1>6, <1>7, <1>8, <1>10, <1>11 DEF Commands

----------------------------------------------------------------------------
(* The theorems.                                                           *)

(* Start reads whom a person asked for from a file that was touched, and        *)
(* from one that was not, what was asked for before.                        *)
LEMMA StartHolds ==
  ASSUME IInv, Start
  PROVE  IInv'
<1>1. /\ ~ running /\ running' /\ running' = TRUE /\ config' = Load(file) /\ state' = LoadState(stateFile)
      /\ edited' = {} /\ unsaved' = {} /\ file' = file /\ stateFile' = stateFile
      /\ adding' = adding
  BY DEF Start, disk
<1>2. config' \in Config /\ (config'.ignored <=> Unusable(file)) /\ state' \in AppState
  BY <1>1, LoadOK, StateLoads DEF IInv, TypeOK
<1>3. adding = {}
  BY <1>1 DEF IInv, TypeOK
<1>4. asked' \in [Repos -> {None, "everyone", "mine"}] /\ AsksFor(Load(file), asked')
  <2>1. CASE Untouched /\ ~ Unusable(file)
    <3>1. asked' = asked
      BY <2>1 DEF Start, Untouched
    <3> QED
      BY <2>1, <3>1 DEF IInv, Asked, TypeOK
  <2>2. CASE ~ Untouched \/ Unusable(file)
    <3>1. asked' = AskedIn(file)
      BY <2>2 DEF Start, Untouched
    <3>2. AskedIn(file) \in [Repos -> {None, "everyone", "mine"}]
      BY DEF AskedIn, Asks
    <3>3. AsksFor(Load(file), AskedIn(file))
      <4> SUFFICES ASSUME NEW r \in Repos, AskedIn(file)[r] # None
                   PROVE  r \in Load(file).repos
                          /\ (AskedIn(file)[r] = "mine" <=> Load(file).notifications[r] = "mine")
        BY DEF AsksFor
      <4>1. /\ file # None /\ ~ Unusable(file) /\ r \in file.repos
            /\ file.notifications[r] # None /\ file.notifications[r].valid
            /\ AskedIn(file)[r] = Asks(file.notifications[r].notifyFor)
        BY DEF AskedIn
      <4>2. /\ Load(file).repos = file.repos
            /\ Load(file).notifications[r] = Settle(file.notifications[r].notifyFor)
        BY <4>1 DEF Load, ParseNotify
      <4> QED
        BY <4>1, <4>2 DEF Asks, Settle, LegacyNotifyFor
    <3> QED
      BY <3>1, <3>2, <3>3
  <2> QED
    BY <2>1, <2>2
<1>5. TypeOK'
  BY <1>1, <1>2, <1>3, <1>4 DEF IInv, TypeOK
<1>6. RestartChangesNothing'
  BY <1>1 DEF RestartChangesNothing
<1>7. IgnoredKnown' /\ Asked'
  BY <1>1, <1>2, <1>3, <1>4 DEF IgnoredKnown, Asked
<1> QED
  BY <1>5, <1>6, <1>7 DEF IInv

LEMMA InitHolds == Init => IInv
<1> SUFFICES ASSUME Init PROVE IInv
  OBVIOUS
<1>1. NewState \in AppState
  BY DEF NewState, AppState
<1>2. TypeOK
  BY <1>1, NewOK, ConstantsAssumption DEF Init, TypeOK
<1> QED
  BY <1>2 DEF Init, IInv, RestartChangesNothing, IgnoredKnown, Asked, Untouched

LEMMA NextHolds == IInv /\ [Next]_vars => IInv'
<1> SUFFICES ASSUME IInv, [Next]_vars PROVE IInv'
  OBVIOUS
<1>1. CASE Stop
  <2>1. /\ running /\ running' = FALSE /\ adding' = {} /\ UNCHANGED <<config, state, asked>>
        /\ Save({"state"})
    BY <1>1 DEF Stop, memory
  <2> QED
    BY <2>1, SaveHolds DEF IInv, TypeOK, Asked
<1>2. CASE Crash
  BY <1>2 DEF Crash, memory, disk, history, IInv, TypeOK, RestartChangesNothing, IgnoredKnown, Asked, Untouched
<1>3. CASE EditConfig
  <2>1. file' \in ConfigFile /\ "config" \in edited' /\ edited' \subseteq {"config", "state"}
        /\ ("state" \in edited' <=> "state" \in edited)
        /\ UNCHANGED <<running, config, state, adding, stateFile, unsaved, asked>>
    BY <1>3, ConstantsAssumption DEF EditConfig, memory, IInv, TypeOK
  <2> QED
    BY <2>1 DEF IInv, TypeOK, RestartChangesNothing, IgnoredKnown, Asked, Untouched
<1>4. CASE EditState
  <2>1. stateFile' \in StateFile /\ "state" \in edited' /\ edited' \subseteq {"config", "state"}
        /\ ("config" \in edited' <=> "config" \in edited)
        /\ UNCHANGED <<running, config, state, adding, file, unsaved, asked>>
    BY <1>4, ConstantsAssumption DEF EditState, memory, IInv, TypeOK
  <2> QED
    BY <2>1 DEF IInv, TypeOK, RestartChangesNothing, IgnoredKnown, Asked, Untouched
<1>5. CASE UNCHANGED vars
  BY <1>5 DEF vars, memory, disk, history, IInv, TypeOK, RestartChangesNothing, IgnoredKnown, Asked, Untouched
<1> QED
  BY <1>1, <1>2, <1>3, <1>4, <1>5, StartHolds, CommandsHold DEF Next

LEMMA Holds == Spec => []IInv
BY InitHolds, NextHolds, PTL DEF Spec

(* The memory and the files hold what the code can put in them, whatever      *)
(* people make of the files (Load, Save).                                    *)
THEOREM SettingsTyped == Spec => []TypeOK
BY Holds, PTL DEF IInv

(* A backend that dies after any step of any history is followed by one that   *)
(* runs with the same settings and remembers the same, unless a save failed or *)
(* other hands changed the file; or the settings are such that what Save makes *)
(* of them is no TOML: null events, or a repo with settings that the list       *)
(* names twice (saveConfigLocked, saveStateLocked, Save, Load).                *)
THEOREM RestartsLoseNothing == Spec => []RestartChangesNothing
BY Holds, PTL DEF IInv

(* Whatever is saved, loaded and asked for by old clients in between, a        *)
(* monitored repo notifies for whom a person asked last (SaveNotifications,   *)
(* parseNotify, LegacyNotifyConfig, notifyFor).                              *)
THEOREM AskedIsNotified == Spec => []NotifiesAsAsked
<1>1. IInv => NotifiesAsAsked
  <2>1. TypeOK => (running => config.repos \subseteq Repos)
    BY DEF TypeOK, Config
  <2> QED
    BY <2>1 DEF IInv, Asked, AsksFor, NotifiesAsAsked
<1> QED
  BY <1>1, Holds, PTL

(* No command writes over a config.toml that could not be read, unless the     *)
(* backend had loaded it before it broke, or had made it unreadable itself     *)
(* (requireSavableConfigLocked, Save).                                        *)
THEOREM BrokenFileIsKept == Spec => IgnoredIsKept
<1>1. ASSUME IInv, [Next]_vars, file' # file, "config" \notin edited \cup edited', Unusable(file)
      PROVE  ~ config.ignored /\ (Unreadable(config) \/ "config" \in unsaved)
  <2>1. ASSUME running, ~ config.ignored
        PROVE  ~ config.ignored /\ (Unreadable(config) \/ "config" \in unsaved)
    BY <1>1, <2>1 DEF IInv, IgnoredKnown
  <2>2. ASSUME NEW which \in SUBSET {"config", "state"}, Save(which) PROVE "config" \in which
    BY <1>1, <2>2 DEF Save, WriteAtomic
  <2>3. CASE Commands
    <3>1. running
      BY <2>3 DEF Commands, SetPollInterval, SaveLogins, SaveNotifications, AddRepo, AddFetched,
                  AddFails, RemoveRepo, DiesRemoving, Forgets, Remembers, Drops, SetCollapsed, Keeps,
                  RequireSavable
    <3>2. CASE \/ \E seconds \in Intervals : SetPollInterval(seconds)
               \/ \E logins \in SUBSET Logins : SaveLogins(logins)
               \/ \E r \in Repos, notifyFor \in Settings \cup {"absent"} : SaveNotifications(r, notifyFor)
               \/ \E r \in Repos : AddRepo(r) \/ RemoveRepo(r) \/ DiesRemoving(r)
      <4>1. RequireSavable
        BY <3>2 DEF SetPollInterval, SaveLogins, SaveNotifications, AddRepo, RemoveRepo, DiesRemoving, Forgets
      <4> QED
        BY <2>1, <4>1 DEF RequireSavable
    <3>3. CASE \E r \in Repos : AddFetched(r)
      <4>1. adding # {}
        BY <3>3 DEF AddFetched
      <4> QED
        BY <1>1, <2>1, <3>1, <4>1 DEF IInv, IgnoredKnown
    <3>4. CASE \E r \in Repos : AddFails(r)
      BY <1>1, <3>4 DEF AddFails, disk
    <3>5. CASE (\E r \in Repos : Remembers(r) \/ Drops(r)) \/ SetCollapsed
      <4>1. Save({"state"})
        BY <3>5 DEF Remembers, Drops, SetCollapsed, Keeps
      <4> QED
        BY <2>2, <4>1
    <3> QED
      BY <2>3, <3>2, <3>3, <3>4, <3>5 DEF Commands
  <2>4. CASE Stop
    BY <2>2, <2>4 DEF Stop
  <2>5. CASE Start \/ Crash \/ EditConfig \/ EditState \/ UNCHANGED vars
    BY <1>1, <2>5 DEF Start, Crash, EditConfig, EditState, vars, disk
  <2> QED
    BY <1>1, <2>3, <2>4, <2>5 DEF Next
<1>2. IInv /\ [Next]_vars =>
        [file' # file /\ "config" \notin edited \cup edited' /\ Unusable(file)
           => ~ config.ignored /\ (Unreadable(config) \/ "config" \in unsaved)]_vars
  BY <1>1
<1> QED
  BY <1>2, Holds, PTL DEF Spec, IgnoredIsKept
=============================================================================
