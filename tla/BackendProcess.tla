-------------------------- MODULE BackendProcess --------------------------
(***************************************************************************)
(* The backend as a process (internal/daemon): the lock only one of them   *)
(* holds, the socket it answers on, the marker that says it was stopped on *)
(* purpose, and the commands that start, stop and replace it while others  *)
(* do the same.  On macOS launchd runs it: as the session job of `pr-mon   *)
(* start', or as the login agent of internal/autostart, which it restarts  *)
(* after a crash.                                                          *)
(*                                                                         *)
(* A caller runs one command of `pr-mon' (the dashboard's connect starts   *)
(* and restarts as `start' and `restart' do).  The Mac app keeps a         *)
(* connection, and starts a backend it lost unless the marker is there.    *)
(* Asking whether a backend runs holds the lock, shared, for a moment.     *)
(***************************************************************************)
EXTENDS Naturals, FiniteSets, Bags

CONSTANTS
  Callers,      \* people and programs that run pr-mon
  App,          \* the Mac app, which runs it too
  None,         \* no value
  Platforms,    \* which of macOS (TRUE) and Linux (FALSE) it may be
  MaxPids,      \* bound: backend processes started
  Budgets       \* bound: the commands and mishaps a behaviour may have, bags of them

Pids == 1..MaxPids
Clients == Callers \cup {App}
Commands == {"start", "stop", "restart", "enable", "disable"}
Mishaps == {"kill", "signal", "start fails", "write fails"}

ASSUME ConstantsAssumption ==
  /\ App \notin Callers /\ None \notin Nat
  /\ Platforms \subseteq BOOLEAN /\ Platforms # {}
  /\ MaxPids \in Nat
  /\ \A b \in Budgets : IsABag(b) /\ DOMAIN b \subseteq Commands \cup Mishaps

VARIABLES
  mac,       \* the platform
  proc,      \* each process: how far Run has come, and what it was told
  lock,      \* who holds the lock for good
  probes,    \* who holds it shared, to see whether it is free
  recorded,  \* the pid in the lock's file, which is the last holder's or None
  last,      \* who took the lock last, for the properties only
  unwritten, \* who could not write its pid, or the marker, likewise
  socket,    \* whose listener the socket's path leads to, alive or not
  marker,    \* the file that says the backend was stopped on purpose
  job,       \* launchd's login agent
  session,   \* launchd's session job: its last process, None if not loaded
  caller,    \* each client: its command and how far it has come
  app,       \* the Mac app's connection
  budget     \* the inputs that are left

files == <<recorded, marker, unwritten>>
procVars == <<proc, lock, last, socket, files>>
vars == <<mac, procVars, probes, job, session, caller, app, budget>>

Process ==
  [at : {"none", "starting", "recording", "locked", "unmarked", "serving", "closing", "draining",
         "closed", "returned", "gone"},
   asked : BOOLEAN,                            \* a client sent shutdown
   told : BOOLEAN,                             \* idle, or a signal
   why : {"", "shutdown", "signal", "killed"}, \* what ended it
   code : {"0", "1", "killed"}]

Caller ==
  [cmd : Commands \cup {""},
   at : {"idle", "info", "session", "load", "bootstrap", "await", "probe", "probing", "look",
         "ask", "recheck", "wait", "waited", "install", "ready", "remove", "was", "uninstall",
         "note", "kick", "kicked", "said"},
   child : Pids \cup {None},  \* the process it started, where that is not launchd
   first : BOOLEAN,           \* that was launchd's registered job: there is another way
   old : Pids \cup {None},    \* the backend it asked to go
   ok : BOOLEAN]              \* it succeeded

Alive(p) == proc[p].at \notin {"none", "gone"}

(* Whoever locked is past TakeLock and Run has not returned.                *)
Holding == {"recording", "locked", "unmarked", "serving", "closing", "draining", "closed"}

(* Run has returned, and what is left of the process ends by itself.         *)
Over == {"returned", "gone"}

(* hello, or any request, on the socket: the pid that answers (Info).       *)
Answering ==
  IF socket # None /\ proc[socket].at \in {"serving", "closing"} THEN socket ELSE None

Fresh == {p \in Pids : proc[p].at = "none" /\ \A q \in 1..(p - 1) : proc[q].at # "none"}
Started(p) == [proc EXCEPT ![p].at = "starting"]

Gone(p, code) ==
  [proc EXCEPT ![p].at = "gone", ![p].code = code, ![p].asked = FALSE, ![p].told = FALSE]
LockWithout(p) == IF lock = p THEN None ELSE lock

(* One of the inputs left is used.                                          *)
Input(kind) == BagIn(kind, budget) /\ budget' = budget (-) SetToBag({kind})

-----------------------------------------------------------------------------
(* Run, and how a process ends. *)

(* Who gets the lock has yet to write its pid; who is refused is content.    *)
Locks(p, free) ==
  /\ proc[p].at = "starting"
  /\ IF free
     THEN /\ lock' = p /\ last' = p
          /\ proc' = [proc EXCEPT ![p].at = "recording"]
     ELSE /\ proc' = Gone(p, "0")
          /\ UNCHANGED <<lock, last>>

(* A mutant of TakeLock: it asks for the lock to share it, as a probe does. *)
TakeLockShared(p) == Locks(p, lock = None) /\ UNCHANGED <<socket, files, budget>>

(* A mutant of TakeLock: the marker is removed before the lock is asked for. *)
TakeLockUnmarks(p) ==
  /\ Locks(p, lock = None /\ probes = {})
  /\ marker' = FALSE
  /\ UNCHANGED <<socket, recorded, unwritten, budget>>

(* AcquireLock: it is not waited for, and who is refused is content: a       *)
(* backend runs already (serveBackend).                                     *)
TakeLock(p) == Locks(p, lock = None /\ probes = {}) /\ UNCHANGED <<socket, files, budget>>

(* That a file cannot be written, or the marker removed, is only logged.     *)
Unwritten(p, file) == Input("write fails") /\ unwritten' = unwritten \cup {<<p, file>>}
Written == UNCHANGED <<unwritten, budget>>

(* It is truncated first: what fails may leave the pid that was there, or    *)
(* none.                                                                   *)
RecordPid(p) ==
  /\ proc[p].at = "recording"
  /\ \/ Written /\ recorded' = p
     \/ Unwritten(p, "pid") /\ recorded' \in {recorded, None}
  /\ proc' = [proc EXCEPT ![p].at = "locked"]
  /\ UNCHANGED <<lock, last, socket, marker>>

Unmark(p) ==
  /\ proc[p].at = "locked"
  /\ \/ marker' = FALSE /\ UNCHANGED budget
     \/ Input("write fails") /\ UNCHANGED marker
  /\ proc' = [proc EXCEPT ![p].at = "unmarked"]
  /\ UNCHANGED <<lock, last, recorded, unwritten, socket>>

(* Server.Start removes what a crash left at the path, and monitor.Start.   *)
Listen(p) ==
  /\ proc[p].at = "unmarked"
  /\ socket' = p
  /\ proc' = [proc EXCEPT ![p].at = "serving"]
  /\ UNCHANGED <<lock, last, files, budget>>

(* Run's select: if both are ready it takes either.                         *)
SeesShutdown(p) ==
  /\ proc[p].at = "serving" /\ proc[p].asked
  /\ \/ Written /\ marker' = TRUE
     \/ Unwritten(p, "marker") /\ UNCHANGED marker
  /\ proc' = [proc EXCEPT ![p].at = "closing", ![p].why = "shutdown"]
  /\ UNCHANGED <<lock, last, recorded, socket>>

SeesSignal(p) ==
  /\ proc[p].at = "serving" /\ proc[p].told
  /\ proc' = [proc EXCEPT ![p].at = "closing", ![p].why = "signal"]
  /\ UNCHANGED <<lock, last, socket, files, budget>>

(* A mutant of CloseListener: the lock is given up before the socket.       *)
CloseListenerUnlocked(p) ==
  /\ proc[p].at = "closing"
  /\ socket' = None
  /\ proc' = [proc EXCEPT ![p].at = "draining"]
  /\ lock' = LockWithout(p)
  /\ UNCHANGED <<last, files, budget>>

(* Server.Close: closing the listener removes the path, and once every       *)
(* connection has ended it is removed again.                                *)
CloseListener(p) ==
  /\ proc[p].at = "closing"
  /\ socket' = None
  /\ proc' = [proc EXCEPT ![p].at = "draining"]
  /\ UNCHANGED <<lock, last, files, budget>>

RemoveSocket(p) ==
  /\ proc[p].at = "draining"
  /\ socket' = None
  /\ proc' = [proc EXCEPT ![p].at = "closed"]
  /\ UNCHANGED <<lock, last, files, budget>>

(* monitor.Stop, and Run returns: its lock is closed first ...              *)
Return(p) ==
  /\ proc[p].at = "closed"
  /\ proc' = [proc EXCEPT ![p].at = "returned"] /\ lock' = LockWithout(p)
  /\ UNCHANGED <<last, socket, files, budget>>

(* ... and then the process ends.                                          *)
Exit(p) ==
  /\ proc[p].at = "returned"
  /\ proc' = Gone(p, "0")
  /\ UNCHANGED <<lock, last, socket, files, budget>>

Runs(p) ==
  /\ \/ TakeLock(p) \/ RecordPid(p) \/ Unmark(p) \/ Listen(p)
     \/ SeesShutdown(p) \/ SeesSignal(p)
     \/ CloseListener(p) \/ RemoveSocket(p) \/ Return(p) \/ Exit(p)
  /\ UNCHANGED <<mac, probes, job, session, caller, app>>

(* gh is missing, the socket's directory is not private, the log can't be    *)
(* opened: Run fails before it serves.                                      *)
StartFails(p) ==
  /\ proc[p].at \in {"starting", "unmarked"} /\ Input("start fails")
  /\ proc' = Gone(p, "1") /\ lock' = LockWithout(p)
  /\ UNCHANGED <<mac, last, socket, files, probes, job, session, caller, app>>

Kill(p) ==
  /\ Alive(p) /\ Input("kill")
  /\ proc' = [Gone(p, "killed") EXCEPT ![p].why = "killed"]
  /\ lock' = LockWithout(p)
  /\ UNCHANGED <<mac, last, socket, files, probes, job, session, caller, app>>

(* A signal, or no front end for IdleGrace: socket.Idle.                     *)
Tell(p) ==
  /\ proc[p].at = "serving" /\ ~ proc[p].told /\ Input("signal")
  /\ proc' = [proc EXCEPT ![p].told = TRUE]
  /\ UNCHANGED <<mac, lock, last, socket, files, probes, job, session, caller, app>>

-----------------------------------------------------------------------------
(* launchd: the login agent and the session job. *)

(* SIGTERM to a job's process: Run takes it once it serves; before that, and *)
(* when Run has returned, it is the end.                                    *)
Terminate(p) ==
  IF p = None \/ ~ Alive(p) THEN UNCHANGED <<proc, lock>>
  ELSE IF proc[p].at \in {"starting", "recording", "locked", "unmarked", "returned"}
  THEN /\ proc' = [Gone(p, "killed") EXCEPT ![p].why = "killed"]
       /\ lock' = LockWithout(p)
  ELSE /\ proc' = [proc EXCEPT ![p].told = TRUE]
       /\ UNCHANGED lock

NoJob == [loaded |-> FALSE, pid |-> None, again |-> FALSE]

(* KeepAlive unless it exits with 0, and `kickstart -k'.                    *)
Relaunch ==
  /\ job.loaded /\ job.pid # None /\ proc[job.pid].at = "gone"
  /\ job.again \/ proc[job.pid].code # "0"
  /\ \E p \in Fresh :
       /\ proc' = Started(p)
       /\ job' = [job EXCEPT !.pid = p, !.again = FALSE]
  /\ UNCHANGED <<mac, lock, last, socket, files, probes, session, caller, app, budget>>

-----------------------------------------------------------------------------
(* The commands.  A step of a caller leaves the processes alone unless it says otherwise. *)

NoCall == [cmd |-> "", at |-> "idle", child |-> None, first |-> FALSE, old |-> None, ok |-> FALSE]

Goes(c, at) == caller' = [caller EXCEPT ![c].at = at]
Said(c, ok) ==
  caller' = [caller EXCEPT ![c] = [NoCall EXCEPT !.at = "said", !.old = caller[c].old, !.ok = ok]]

(* Where a command begins (autostart.Restart asks launchd if it has the job). *)
Entry(cmd) ==
  CASE cmd = "start" -> "info"
    [] cmd = "disable" -> "was"
    [] cmd = "restart" /\ mac /\ job.loaded -> "note"
    [] OTHER -> "probe"

Begin(c, cmd) ==
  /\ caller[c].at \in {"idle", "said"} /\ Input(cmd)
  /\ cmd \in {"enable", "disable"} => mac
  /\ caller' = [caller EXCEPT ![c] = [NoCall EXCEPT !.cmd = cmd, !.at = Entry(cmd)]]
  /\ UNCHANGED <<mac, procVars, probes, job, session, app>>

(* Spawn: a backend that answers will do.  On macOS launchd runs the other,  *)
(* elsewhere it is the caller's child.                                      *)
Spawn(c) ==
  /\ caller[c].at = "info"
  /\ IF Answering # None THEN Said(c, TRUE) /\ UNCHANGED proc
     ELSE IF mac THEN Goes(c, "session") /\ UNCHANGED proc
     ELSE \E p \in Fresh :
       /\ proc' = Started(p)
       /\ caller' = [caller EXCEPT ![c].at = "await", ![c].child = p]
  /\ UNCHANGED <<job, session>>

(* kickstartSession: the session job is run, unless it runs, if launchd has  *)
(* it.                                                                     *)
KickSession(c) ==
  /\ caller[c].at = "session"
  /\ IF session = None THEN Goes(c, "load") /\ UNCHANGED <<proc, session>>
     ELSE /\ caller' = [caller EXCEPT ![c].at = "await", ![c].first = TRUE]
          /\ IF Alive(session) THEN UNCHANGED <<proc, session>>
             ELSE \E p \in Fresh : proc' = Started(p) /\ session' = p
  /\ UNCHANGED job

(* loadSession: bootout unloads the session job, whoever has loaded it, with *)
(* what it runs ...                                                        *)
Bootout(c) ==
  /\ caller[c].at = "load"
  /\ Terminate(session) /\ session' = None /\ Goes(c, "bootstrap")
  /\ UNCHANGED job

(* ... and bootstrap loads its own, unless another has done so meanwhile.    *)
Bootstrap(c) ==
  /\ caller[c].at = "bootstrap"
  /\ IF session # None THEN Said(c, FALSE) /\ UNCHANGED <<proc, session>>
     ELSE \E p \in Fresh :
       /\ proc' = Started(p) /\ session' = p
       /\ caller' = [caller EXCEPT ![c].at = "await", ![c].first = FALSE]
  /\ UNCHANGED job

(* It waits for an answer, whoever gives it.                                *)
SpawnAnswered(c) ==
  /\ caller[c].at = "await" /\ Answering # None
  /\ Said(c, TRUE)
  /\ UNCHANGED <<proc, job, session>>

(* The process is seen to have exited: on macOS that of the session job, and *)
(* only with a code.  The first time, that or its being gone is the          *)
(* registered job's fault, which is then replaced.                          *)
SessionFailed == session # None /\ proc[session].at = "gone" /\ proc[session].code = "1"

SpawnExited(c) ==
  /\ caller[c].at = "await" /\ Answering = None
  /\ \/ /\ mac /\ caller[c].first
        /\ session = None \/ SessionFailed
        /\ Goes(c, "load")
     \/ /\ mac /\ ~ caller[c].first /\ SessionFailed
        /\ Said(c, FALSE)
     \/ /\ ~ mac /\ proc[caller[c].child].at = "gone"
        /\ Said(c, FALSE)
  /\ UNCHANGED <<proc, job, session>>

(* Stop: RunningPID takes the lock to share it if nobody holds it for good, and *)
(* lets it go.                                                                *)
Probe(c) ==
  /\ \/ /\ caller[c].at = "probe" /\ lock # None
        /\ Goes(c, "ask") /\ UNCHANGED probes
     \/ /\ caller[c].at \in {"probe", "wait"} /\ lock = None
        /\ Goes(c, IF caller[c].at = "probe" THEN "probing" ELSE "waited")
        /\ probes' = probes \cup {c}
  /\ UNCHANGED <<proc, job, session>>

(* What Stop's caller does when it returns without an error.                 *)
Stopped(c) ==
  CASE caller[c].cmd = "restart" -> Goes(c, "info")
    [] caller[c].cmd = "enable" -> Goes(c, "install")
    [] OTHER -> Said(c, TRUE)

Unprobe(c) ==
  /\ probes' = probes \ {c}
  /\ \/ caller[c].at = "probing" /\ Goes(c, "look")
     \/ caller[c].at = "waited" /\ Stopped(c)
  /\ UNCHANGED <<proc, job, session>>

Look(c) ==
  /\ caller[c].at = "look"
  /\ IF Answering = None THEN Stopped(c) ELSE Goes(c, "ask")
  /\ UNCHANGED <<proc, job, session>>

(* A mutant of Ask: the answer to shutdown is taken for the end.            *)
AskOnly(c) ==
  /\ caller[c].at = "ask"
  /\ IF Answering = None
     THEN Goes(c, "recheck") /\ UNCHANGED proc
     ELSE /\ caller' = [caller EXCEPT ![c].at = IF caller[c].cmd = "restart" THEN "info" ELSE "said",
                                      ![c].old = Answering, ![c].ok = TRUE]
          /\ proc' = [proc EXCEPT ![Answering].asked = TRUE]
  /\ UNCHANGED <<job, session>>

(* The shutdown request, answered before it is seen to.                     *)
Ask(c) ==
  /\ caller[c].at = "ask"
  /\ IF Answering = None
     THEN Goes(c, "recheck") /\ UNCHANGED proc
     ELSE /\ caller' = [caller EXCEPT ![c].at = "wait", ![c].old = Answering]
          /\ proc' = [proc EXCEPT ![Answering].asked = TRUE]
  /\ UNCHANGED <<job, session>>

Recheck(c) ==
  /\ caller[c].at = "recheck"
  /\ IF Answering = None THEN Stopped(c) ELSE Said(c, FALSE)
  /\ UNCHANGED <<proc, job, session>>

(* Spawn, Stop and Restart give up in the end.                               *)
TimesOut(c) ==
  /\ caller[c].at \in {"await", "wait", "kicked"}
  /\ Said(c, FALSE)
  /\ UNCHANGED <<proc, job, session>>

(* Enable: Install replaces the agent, and launchd starts its process.       *)
Install(c) ==
  /\ caller[c].at = "install"
  /\ IF job.loaded
     THEN /\ Terminate(job.pid) /\ job' = NoJob
          /\ UNCHANGED caller
     ELSE \E p \in Fresh :
       /\ proc' = Started(p) /\ UNCHANGED lock
       /\ job' = [loaded |-> TRUE, pid |-> p, again |-> FALSE]
       /\ Goes(c, "ready")
  /\ UNCHANGED session

(* waitUntilReady: if nothing answers the agent is removed again.            *)
Ready(c) ==
  /\ caller[c].at = "ready"
  /\ IF Answering # None THEN Said(c, TRUE) ELSE Goes(c, "remove")
  /\ UNCHANGED <<proc, job, session>>

Remove(c) ==
  /\ caller[c].at = "remove"
  /\ Terminate(job.pid) /\ job' = NoJob /\ Said(c, FALSE)
  /\ UNCHANGED session

(* Disable: a backend that was running is replaced by an ordinary one.       *)
Was(c) ==
  /\ caller[c].at = "was"
  /\ caller' = [caller EXCEPT ![c].at = "uninstall", ![c].first = Answering # None]
  /\ UNCHANGED <<proc, job, session>>

Uninstall(c) ==
  /\ caller[c].at = "uninstall"
  /\ Terminate(job.pid) /\ job' = NoJob
  /\ IF job.loaded /\ caller[c].first THEN Goes(c, "info") ELSE Said(c, TRUE)
  /\ UNCHANGED session

(* Restart, of a backend launchd runs at login: whoever answers now is to go. *)
Note(c) ==
  /\ caller[c].at = "note"
  /\ caller' = [caller EXCEPT ![c].at = "kick", ![c].old = Answering]
  /\ UNCHANGED <<proc, job, session>>

Kick(c) ==
  /\ caller[c].at = "kick"
  /\ IF job.loaded
     THEN Terminate(job.pid) /\ job' = [job EXCEPT !.again = TRUE] /\ Goes(c, "kicked")
     ELSE Said(c, FALSE) /\ UNCHANGED <<proc, lock, job>>
  /\ UNCHANGED session

Kicked(c) ==
  /\ caller[c].at = "kicked" /\ Answering \notin {None, caller[c].old}
  /\ Said(c, TRUE)
  /\ UNCHANGED <<proc, job, session>>

Calls(c) ==
  /\ \/ /\ \/ Spawn(c) \/ KickSession(c) \/ Bootstrap(c) \/ SpawnAnswered(c) \/ SpawnExited(c)
           \/ Look(c) \/ Ask(c) \/ Recheck(c) \/ TimesOut(c)
           \/ Ready(c) \/ Was(c) \/ Note(c) \/ Kicked(c)
        /\ UNCHANGED <<lock, probes>>
     \/ (Probe(c) \/ Unprobe(c)) /\ UNCHANGED lock
     \/ /\ Bootout(c) \/ Install(c) \/ Remove(c) \/ Uninstall(c) \/ Kick(c)
        /\ UNCHANGED probes
  /\ UNCHANGED <<mac, last, socket, files, app, budget>>

-----------------------------------------------------------------------------
(* The Mac app's connection (Store.runConnection). *)

AppReady == mac /\ app.at = "away" /\ caller[App].at \in {"idle", "said"}

AppConnects ==
  /\ AppReady /\ Answering # None
  /\ app' = [at |-> "attached", pid |-> Answering, tried |-> FALSE]
  /\ UNCHANGED caller

AppLoses ==
  /\ app.at = "attached" /\ proc[app.pid].at \in {"draining", "closed"} \cup Over
  /\ app' = [app EXCEPT !.at = "away"]
  /\ UNCHANGED caller

AppRefused ==
  /\ AppReady /\ Answering = None /\ ~ app.tried
  /\ app' = [app EXCEPT !.at = "refused"]
  /\ UNCHANGED caller

(* It starts the backend once, when it opens or has lost one, and waits for   *)
(* that before it connects again.                                           *)
AppStarts ==
  /\ app.at = "refused" /\ ~ (app.pid # None /\ marker)
  /\ app' = [app EXCEPT !.at = "away", !.tried = TRUE]
  /\ caller' = [caller EXCEPT ![App] = [NoCall EXCEPT !.cmd = "start", !.at = "info"]]

AppLeavesIt ==
  /\ app.at = "refused" /\ app.pid # None /\ marker
  /\ app' = [app EXCEPT !.at = "away"]
  /\ UNCHANGED caller

AppMoves ==
  /\ AppConnects \/ AppLoses \/ AppRefused \/ AppStarts \/ AppLeavesIt
  /\ UNCHANGED <<mac, procVars, probes, job, session, budget>>

-----------------------------------------------------------------------------
Init ==
  /\ mac \in Platforms
  /\ proc = [p \in Pids |-> [at |-> "none", asked |-> FALSE, told |-> FALSE, why |-> "", code |-> "0"]]
  /\ lock = None /\ last = None /\ probes = {} /\ socket = None
  /\ recorded = None /\ marker = FALSE /\ unwritten = {}
  /\ job = NoJob /\ session = None
  /\ caller = [c \in Clients |-> NoCall]
  /\ app = [at |-> "away", pid |-> None, tried |-> FALSE]
  /\ budget \in Budgets

Next ==
  \/ \E p \in Pids : Runs(p) \/ StartFails(p) \/ Kill(p) \/ Tell(p)
  \/ \E c \in Clients : Calls(c)
  \/ \E c \in Callers, cmd \in Commands : Begin(c, cmd)
  \/ Relaunch \/ AppMoves

Spec == Init /\ [][Next]_vars

-----------------------------------------------------------------------------
(* Types; the lock is held for good by one process that lives, and by nobody *)
(* beside one that only looks; its file names the holder once that has       *)
(* written its pid, if it could (AcquireLock, RunningPID).                  *)
TypeOK ==
  /\ mac \in BOOLEAN
  /\ proc \in [Pids -> Process]
  /\ lock \in Pids \cup {None} /\ last \in Pids \cup {None}
  /\ recorded \in Pids \cup {None} /\ socket \in Pids \cup {None}
  /\ \A p \in Pids : lock = p <=> proc[p].at \in Holding
  /\ lock # None => probes = {}
  /\ lock # None /\ recorded # lock =>
       proc[lock].at = "recording" \/ <<lock, "pid">> \in unwritten
  /\ unwritten \subseteq Pids \X {"pid", "marker"}
  /\ probes \subseteq Clients /\ marker \in BOOLEAN
  /\ job \in [loaded : BOOLEAN, pid : Pids \cup {None}, again : BOOLEAN]
  /\ session \in Pids \cup {None}
  /\ caller \in [Clients -> Caller]
  /\ app \in [at : {"away", "attached", "refused"}, pid : Pids \cup {None}, tried : BOOLEAN]
  /\ IsABag(budget)

(* A backend that serves can be reached: the path leads to it, whatever its  *)
(* predecessors still remove and however they ended (Run, Server.Start,      *)
(* Server.Close).                                                           *)
ServingIsReachable == \A p \in Pids : proc[p].at = "serving" => socket = p

(* The app does not start a backend again that was stopped on purpose: the   *)
(* last one that ran, if it was the app's, ended for a shutdown request and  *)
(* could record that (Run, runConnection).                                  *)
StaysStopped ==
  [][AppStarts => ~ /\ app.pid # None /\ last = app.pid /\ proc[app.pid].why = "shutdown"
                    /\ <<app.pid, "marker">> \notin unwritten]_vars

(* Who has been told that a backend stopped, or that another runs in its     *)
(* place, finds it over for the one that was to go: it holds neither the     *)
(* lock nor the socket, and ends (Stop, Spawn, Restart).                    *)
ReplacedIsGone ==
  \A c \in Clients : LET call == caller[c]
    IN call.at = "said" /\ call.ok /\ call.old # None => proc[call.old].at \in Over
=============================================================================
