----------------------- MODULE BackendProcess_proofs -----------------------
(***************************************************************************)
(* Why one backend runs at a time and can be reached, why the app leaves   *)
(* one alone that was stopped on purpose, and why who replaced a backend   *)
(* finds it gone: for any number of processes, callers and commands.       *)
(*                                                                         *)
(* Everything rests on the lock.  The invariant says of a process what its *)
(* step shows (ProcInv) and of a command what it has waited for (CallsOK). *)
(* A process never goes back (Forward), so that what a command has seen of *)
(* one stays true.  The lemmas say what the steps of processes do to both; *)
(* those of callers only have to keep what concerns the caller.            *)
(***************************************************************************)
EXTENDS BackendProcess, TLAPS

----------------------------------------------------------------------------
(* The invariant.                                                          *)

(* What TypeOK says of the processes and their lock, of the files, and of all *)
(* the rest; and who has the lock is the last to have taken it.             *)
LockOK ==
  /\ proc \in [Pids -> Process]
  /\ lock \in Pids \cup {None} /\ last \in Pids \cup {None}
  /\ \A p \in Pids : lock = p <=> proc[p].at \in Holding
  /\ lock # None => last = lock /\ probes = {}

FilesOK ==
  /\ recorded \in Pids \cup {None} /\ marker \in BOOLEAN
  /\ unwritten \subseteq Pids \X {"pid", "marker"}
  /\ lock # None /\ recorded # lock =>
       proc[lock].at = "recording" \/ <<lock, "pid">> \in unwritten

RestOK ==
  /\ mac \in BOOLEAN
  /\ socket \in Pids \cup {None}
  /\ probes \subseteq Clients
  /\ job \in [loaded : BOOLEAN, pid : Pids \cup {None}, again : BOOLEAN]
  /\ session \in Pids \cup {None}
  /\ caller \in [Clients -> Caller]
  /\ app \in [at : {"away", "attached", "refused"}, pid : Pids \cup {None}, tried : BOOLEAN]
  /\ IsABag(budget)

LEMMA TypeParts == LockOK /\ FilesOK /\ RestOK => TypeOK
BY DEF TypeOK, LockOK, FilesOK, RestOK

(* Why it ended is said when it ends, and the marker tells it of the last    *)
(* one that ran, unless that could not write it: the next removes the marker *)
(* under the lock.                                                          *)
Early == {"none", "starting", "recording", "locked", "unmarked", "serving"}

EndsOK ==
  \A p \in Pids :
    /\ proc[p].at \in Early => proc[p].why = ""
    /\ last = p /\ proc[p].why = "shutdown" => marker \/ <<p, "marker">> \in unwritten

ProcInv == LockOK /\ FilesOK /\ ServingIsReachable /\ EndsOK

(* Steps of a process that has served.                                     *)
Served == {"serving", "closing", "draining", "closed"} \cup Over

(* A command asks a backend to go that serves, and past waiting for it, it   *)
(* has seen the lock free or held by another.                               *)
CallOK(call) ==
  call.old # None =>
    /\ proc[call.old].at \in Served
    /\ call.at \notin {"wait", "kick", "kicked"} /\ (call.at = "said" => call.ok) =>
         proc[call.old].at \in Over

CallsOK == \A c \in Clients : CallOK(caller[c])

IInv == ProcInv /\ RestOK /\ CallsOK

----------------------------------------------------------------------------
(* Processes.                                                              *)

LEMMA NoneIsNoPid == None \notin Pids
BY ConstantsAssumption DEF Pids

LEMMA InputOK ==
  ASSUME NEW kind, IsABag(budget), Input(kind)
  PROVE  IsABag(budget')
BY DEF Input, IsABag, SetToBag, (-)

LEMMA AnsweringHolds ==
  ASSUME LockOK, socket \in Pids \cup {None}
  PROVE  /\ Answering \in Pids \cup {None}
         /\ Answering # None => /\ proc[Answering].at \in {"serving", "closing"}
                                /\ lock = Answering
BY DEF Answering, LockOK, Holding

(* No process goes back to before it served, or comes back.                 *)
Forward ==
  \A p \in Pids : /\ proc[p].at \in Served => proc'[p].at \in Served
                  /\ proc[p].at \in Over => proc'[p].at \in Over

(* What a step of one process has to show: its new record r agrees with what *)
(* becomes of the lock.                                                     *)
LEMMA OneMoves ==
  ASSUME ProcInv, NEW p \in Pids, NEW r \in Process, proc' = [proc EXCEPT ![p] = r],
         \/ /\ r.at \in Holding <=> proc[p].at \in Holding
            /\ lock' = lock /\ last' = last
         \/ /\ r.at \notin Holding
            /\ lock' = LockWithout(p) /\ last' = last
         \/ /\ r.at \in Holding /\ lock = None /\ probes = {}
            /\ lock' = p /\ last' = p,
         probes' = probes,
         proc[p].at \in Served => r.at \in Served,
         proc[p].at \in Over => r.at \in Over
  PROVE  LockOK' /\ Forward
<1>1. /\ proc' \in [Pids -> Process] /\ proc'[p] = r
      /\ \A q \in Pids : q # p => proc'[q] = proc[q]
  BY DEF ProcInv, LockOK
<1>2. Forward
  BY <1>1 DEF Forward
<1>3. lock' \in Pids \cup {None} /\ last' \in Pids \cup {None}
  BY DEF ProcInv, LockOK, LockWithout
<1>4. \A q \in Pids : lock' = q <=> proc'[q].at \in Holding
  BY <1>1, NoneIsNoPid DEF ProcInv, LockOK, LockWithout
<1>5. lock' # None => last' = lock' /\ probes' = {}
  BY DEF ProcInv, LockOK, LockWithout
<1> QED
  BY <1>1, <1>2, <1>3, <1>4, <1>5 DEF LockOK

(* The lock's file goes on to name who has the lock, if that does not move   *)
(* past writing it.                                                         *)
LEMMA FilesKept ==
  ASSUME ProcInv, NEW p \in Pids, NEW r \in Process, proc' = [proc EXCEPT ![p] = r],
         lock' \in {lock, LockWithout(p), p}, UNCHANGED recorded,
         unwritten \subseteq unwritten', unwritten' \subseteq Pids \X {"pid", "marker"},
         marker' \in BOOLEAN,
         lock' = p => r.at = "recording" \/ (lock = p /\ proc[p].at # "recording")
  PROVE  FilesOK'
<1>1. /\ proc'[p] = r
      /\ \A q \in Pids : q # p => proc'[q] = proc[q]
  BY DEF ProcInv, LockOK
<1>2. lock' # None /\ lock' # p => lock' = lock
  BY DEF LockWithout
<1>3. ASSUME lock' # None, recorded' # lock'
      PROVE  proc'[lock'].at = "recording" \/ <<lock', "pid">> \in unwritten'
  <2>1. CASE lock' = p
    BY <1>1, <1>3, <2>1 DEF ProcInv, FilesOK
  <2>2. CASE lock' # p
    <3>1. lock' = lock /\ lock \in Pids
      BY <1>2, <1>3, <2>2 DEF ProcInv, LockOK
    <3> QED
      BY <1>1, <1>3, <2>2, <3>1 DEF ProcInv, FilesOK
  <2> QED
    BY <2>1, <2>2
<1> QED
  BY <1>3 DEF ProcInv, FilesOK

(* The records a step of Run leaves: the step's name, and what else it sets. *)
LEMMA RecordsOK ==
  ASSUME NEW r \in Process, NEW code \in {"0", "1", "killed"},
         NEW at \in {"starting", "recording", "locked", "unmarked", "serving", "closing", "draining",
                    "closed", "returned"},
         NEW why \in {"shutdown", "signal"}
  PROVE  /\ [r EXCEPT !.at = at] \in Process
         /\ [r EXCEPT !.at = at, !.why = why] \in Process
         /\ [r EXCEPT !.asked = TRUE] \in Process
         /\ [r EXCEPT !.told = TRUE] \in Process
         /\ [r EXCEPT !.at = "gone", !.code = code, !.asked = FALSE, !.told = FALSE] \in Process
         /\ [r EXCEPT !.at = "gone", !.code = code, !.asked = FALSE, !.told = FALSE,
                      !.why = "killed"] \in Process
BY ZenonT(40) DEF Process

(* A process ends, and the lock goes with it.                               *)
LEMMA GoneOK ==
  ASSUME ProcInv, NEW p \in Pids, proc[p].at # "none", NEW code \in {"0", "1", "killed"},
         \/ proc' = Gone(p, code)
         \/ proc' = [Gone(p, code) EXCEPT ![p].why = "killed"],
         lock' = LockWithout(p), UNCHANGED <<last, socket, files, probes>>
  PROVE  ProcInv' /\ Forward
<1> USE DEF files
<1> DEFINE gone   == [proc[p] EXCEPT !.at = "gone", !.code = code, !.asked = FALSE, !.told = FALSE]
           killed == [proc[p] EXCEPT !.at = "gone", !.code = code, !.asked = FALSE, !.told = FALSE,
                                     !.why = "killed"]
<1>1. PICK r \in Process : /\ r \in {gone, killed} /\ r.at = "gone"
                           /\ r.why \in {proc[p].why, "killed"}
                           /\ proc' = [proc EXCEPT ![p] = r]
  <2>1. proc[p] \in Process
    BY DEF ProcInv, LockOK
  <2>2. gone \in Process /\ killed \in Process
    BY <2>1, RecordsOK
  <2>3. CASE proc' = Gone(p, code)
    <3>1. proc' = [proc EXCEPT ![p] = gone]
      BY <2>3 DEF Gone
    <3> QED
      BY <2>1, <2>2, <3>1, ZenonT(40) DEF Process
  <2>4. CASE proc' = [Gone(p, code) EXCEPT ![p].why = "killed"]
    <3> DEFINE g == [proc EXCEPT ![p] = gone]
    <3>3. g = Gone(p, code)
      BY DEF Gone
    <3>4. g \in [Pids -> Process] /\ g[p] = gone
      BY <2>2 DEF ProcInv, LockOK
    <3>5. [g EXCEPT ![p].why = "killed"] = [g EXCEPT ![p] = [gone EXCEPT !.why = "killed"]]
      BY <3>4
    <3>6. [g EXCEPT ![p] = [gone EXCEPT !.why = "killed"]] =
            [proc EXCEPT ![p] = [gone EXCEPT !.why = "killed"]]
      OBVIOUS
    <3>7. [gone EXCEPT !.why = "killed"] = killed
      BY <2>1 DEF Process
    <3>1. proc' = [proc EXCEPT ![p] = killed]
      BY <2>4, <3>3, <3>5, <3>6, <3>7
    <3>2. killed.at = "gone" /\ killed.why = "killed"
      BY <2>1 DEF Process
    <3> HIDE DEF gone, killed
    <3> QED
      BY <2>2, <3>1, <3>2
  <2> QED
    BY <2>3, <2>4
<1> HIDE DEF gone, killed
<1>2. LockOK' /\ Forward
  BY <1>1, OneMoves DEF Holding, Served, Over
<1>3. /\ proc'[p] = r
      /\ \A q \in Pids : q # p => proc'[q] = proc[q]
  BY <1>1 DEF ProcInv, LockOK
<1>4. ServingIsReachable'
  BY <1>1, <1>3 DEF ProcInv, ServingIsReachable
<1>5. EndsOK'
  <2>1. r.why # "shutdown" \/ r.why = proc[p].why
    BY <1>1 DEF Early
  <2>2. r.at \notin Early
    BY <1>1 DEF Early
  <2> QED
    BY <1>3, <2>1, <2>2 DEF ProcInv, EndsOK
<1>6. FilesOK'
  <2>1. lock' # p
    BY NoneIsNoPid DEF LockWithout
  <2> QED
    BY <1>1, <2>1, FilesKept DEF ProcInv, FilesOK
<1> QED
  BY <1>2, <1>4, <1>5, <1>6 DEF ProcInv

(* A process starts: it has not been there before.                          *)
LEMMA StartedOK ==
  ASSUME ProcInv, NEW p \in Fresh, proc' = Started(p),
         UNCHANGED <<lock, last, socket, files, probes>>
  PROVE  p \in Pids /\ ProcInv' /\ Forward
<1> USE DEF files
<1>1. p \in Pids /\ proc[p].at = "none" /\ proc[p] \in Process
  BY DEF Fresh, ProcInv, LockOK
<1> DEFINE r == [proc[p] EXCEPT !.at = "starting"]
<1>2. r \in Process /\ r.at = "starting" /\ r.why = proc[p].why /\ proc' = [proc EXCEPT ![p] = r]
  <2>1. proc' = [proc EXCEPT ![p] = r]
    BY DEF Started
  <2> QED
    BY <1>1, <2>1 DEF Process
<1> HIDE DEF r
<1>3. LockOK' /\ Forward
  BY <1>1, <1>2, OneMoves DEF Holding, Served, Over
<1>4. /\ proc'[p] = r
      /\ \A q \in Pids : q # p => proc'[q] = proc[q]
  BY <1>1, <1>2 DEF ProcInv, LockOK
<1>5. ServingIsReachable' /\ EndsOK'
  BY <1>1, <1>2, <1>4 DEF ProcInv, ServingIsReachable, EndsOK, Early
<1>6. FilesOK'
  <2>1. lock # p
    BY <1>1 DEF ProcInv, LockOK, Holding
  <2> QED
    BY <1>1, <1>2, <2>1, FilesKept DEF ProcInv, FilesOK
<1> QED
  BY <1>1, <1>3, <1>5, <1>6 DEF ProcInv

(* Something is asked of a process, and it stays where it is.               *)
LEMMA AskedOK ==
  ASSUME ProcInv, NEW p \in Pids,
         proc' = [proc EXCEPT ![p].asked = TRUE] \/ proc' = [proc EXCEPT ![p].told = TRUE],
         UNCHANGED <<lock, last, socket, files, probes>>
  PROVE  ProcInv' /\ Forward
<1> USE DEF files
<1>1. PICK r \in Process : /\ r.at = proc[p].at /\ r.why = proc[p].why
                           /\ proc' = [proc EXCEPT ![p] = r]
  <2>1. proc[p] \in Process
    BY DEF ProcInv, LockOK
  <2>2. CASE proc' = [proc EXCEPT ![p].asked = TRUE]
    <3> DEFINE r == [proc[p] EXCEPT !.asked = TRUE]
    <3>1. r \in Process /\ r.at = proc[p].at /\ r.why = proc[p].why
      BY <2>1 DEF Process
    <3>2. proc' = [proc EXCEPT ![p] = r]
      BY <2>2
    <3> HIDE DEF r
    <3> QED
      BY <3>1, <3>2
  <2>3. CASE proc' = [proc EXCEPT ![p].told = TRUE]
    <3> DEFINE r == [proc[p] EXCEPT !.told = TRUE]
    <3>1. r \in Process /\ r.at = proc[p].at /\ r.why = proc[p].why
      BY <2>1 DEF Process
    <3>2. proc' = [proc EXCEPT ![p] = r]
      BY <2>3
    <3> HIDE DEF r
    <3> QED
      BY <3>1, <3>2
  <2> QED
    BY <2>2, <2>3
<1>2. LockOK' /\ Forward
  BY <1>1, OneMoves
<1>3. /\ proc'[p] = r
      /\ \A q \in Pids : q # p => proc'[q] = proc[q]
  BY <1>1 DEF ProcInv, LockOK
<1>4. ServingIsReachable' /\ EndsOK'
  BY <1>1, <1>3 DEF ProcInv, ServingIsReachable, EndsOK
<1>5. FilesOK'
  BY <1>1, FilesKept DEF ProcInv, FilesOK
<1> QED
  BY <1>2, <1>4, <1>5 DEF ProcInv

(* A step that leaves processes and their lock alone.                       *)
LEMMA Nothing ==
  ASSUME ProcInv, UNCHANGED <<proc, lock, last, socket, files, probes>>
  PROVE  ProcInv' /\ Forward
BY DEF ProcInv, LockOK, FilesOK, files, ServingIsReachable, EndsOK, Forward

LEMMA TerminateOK ==
  ASSUME ProcInv, NEW p \in Pids \cup {None}, Terminate(p),
         UNCHANGED <<last, socket, files, probes>>
  PROVE  ProcInv' /\ Forward
<1> DEFINE Unheard == {"starting", "recording", "locked", "unmarked", "returned"}
<1>1. CASE p = None \/ ~ Alive(p)
  BY <1>1, Nothing DEF Terminate
<1>2. CASE p # None /\ Alive(p) /\ proc[p].at \in Unheard
  BY <1>2, GoneOK DEF Terminate
<1>3. CASE p # None /\ Alive(p) /\ proc[p].at \notin Unheard
  BY <1>3, AskedOK DEF Terminate
<1> QED
  BY <1>1, <1>2, <1>3

(* A step of Run that keeps the lock and the recorded pid: a listener has     *)
(* the socket, and an end for a shutdown is marked, if it could be.          *)
LEMMA StepOK ==
  ASSUME ProcInv, NEW p \in Pids, proc[p].at \in Holding \ {"recording"},
         NEW r \in Process, proc' = [proc EXCEPT ![p] = r],
         r.at \in Holding \ {"recording"}, proc[p].at \in Served => r.at \in Served,
         UNCHANGED <<lock, last, recorded, probes>>,
         unwritten \subseteq unwritten', unwritten' \subseteq Pids \X {"pid", "marker"},
         marker' \in BOOLEAN,
         r.at = "serving" => socket' = p,
         r.at \in Early => r.why = "",
         r.why = "shutdown" => marker' \/ <<p, "marker">> \in unwritten'
  PROVE  ProcInv' /\ Forward
<1>1. /\ proc'[p] = r
      /\ \A q \in Pids : q # p => proc'[q] = proc[q]
  BY DEF ProcInv, LockOK
<1>2. lock = p /\ last = p
  BY NoneIsNoPid DEF ProcInv, LockOK
<1>3. LockOK' /\ Forward
  BY OneMoves DEF Holding, Over
<1>4. FilesOK'
  BY <1>2, FilesKept
<1>5. \A q \in Pids : q # p => proc[q].at \notin Holding
  BY <1>2 DEF ProcInv, LockOK
<1>6. ServingIsReachable'
  BY <1>1, <1>5 DEF ServingIsReachable, Holding
<1>7. EndsOK'
  BY <1>1, <1>2 DEF ProcInv, EndsOK
<1> QED
  BY <1>3, <1>4, <1>6, <1>7 DEF ProcInv

(* The steps of Run.                                                       *)
LEMMA TakeLockOK ==
  ASSUME ProcInv, NEW p \in Pids, TakeLock(p), UNCHANGED probes
  PROVE  ProcInv' /\ Forward
<1>0. proc[p] \in Process /\ proc[p].at = "starting" /\ UNCHANGED <<socket, files>>
  BY DEF ProcInv, LockOK, TakeLock, Locks
<1>1. CASE lock = None /\ probes = {}
  <2> DEFINE r == [proc[p] EXCEPT !.at = "recording"]
  <2>1. r \in Process /\ r.at = "recording" /\ r.why = proc[p].why
    BY <1>0 DEF Process
  <2>2. proc' = [proc EXCEPT ![p] = r] /\ lock' = p /\ last' = p
    BY <1>1 DEF TakeLock, Locks
  <2> HIDE DEF r
  <2>3. LockOK' /\ Forward
    BY <1>0, <1>1, <2>1, <2>2, OneMoves DEF Holding, Served, Over
  <2>4. /\ proc'[p] = r
        /\ \A q \in Pids : q # p => proc'[q] = proc[q]
    BY <2>1, <2>2 DEF ProcInv, LockOK
  <2>5. FilesOK'
    BY <1>0, <2>1, <2>2, FilesKept DEF ProcInv, FilesOK, files
  <2>6. ServingIsReachable'
    BY <1>0, <2>1, <2>4 DEF ProcInv, ServingIsReachable
  <2>7. r.why = ""
    BY <1>0, <2>1 DEF ProcInv, EndsOK, Early
  <2>8. EndsOK'
    BY <2>2, <2>4, <2>7 DEF ProcInv, EndsOK
  <2> QED
    BY <2>3, <2>5, <2>6, <2>8 DEF ProcInv
<1>2. CASE ~ (lock = None /\ probes = {})
  <2>1. proc' = Gone(p, "0") /\ UNCHANGED <<lock, last>>
    BY <1>2 DEF TakeLock, Locks
  <2>2. lock' = LockWithout(p)
    BY <1>0, <2>1 DEF LockWithout, ProcInv, LockOK, Holding
  <2> QED
    BY <1>0, <2>1, <2>2, GoneOK
<1> QED
  BY <1>1, <1>2

LEMMA RecordPidOK ==
  ASSUME ProcInv, NEW p \in Pids, RecordPid(p), UNCHANGED probes
  PROVE  ProcInv' /\ Forward
<1>0. /\ proc[p] \in Process /\ proc[p].at = "recording"
      /\ UNCHANGED <<lock, last, socket, marker>>
  BY DEF ProcInv, LockOK, RecordPid
<1> DEFINE r == [proc[p] EXCEPT !.at = "locked"]
<1>1. r \in Process /\ r.at = "locked" /\ r.why = proc[p].why
  BY <1>0 DEF Process
<1>2. proc' = [proc EXCEPT ![p] = r]
  BY DEF RecordPid
<1> HIDE DEF r
<1>3. LockOK' /\ Forward
  BY <1>0, <1>1, <1>2, OneMoves DEF Holding, Served, Over
<1>4. /\ proc'[p] = r
      /\ \A q \in Pids : q # p => proc'[q] = proc[q]
  BY <1>1, <1>2 DEF ProcInv, LockOK
<1>5. lock = p
  BY <1>0 DEF ProcInv, LockOK, Holding
<1>6. /\ recorded' = p \/ (recorded' \in {recorded, None} /\ <<p, "pid">> \in unwritten')
      /\ unwritten' \in {unwritten, unwritten \cup {<<p, "pid">>}}
  BY DEF RecordPid, Written, Unwritten
<1>7. FilesOK'
  BY <1>0, <1>5, <1>6 DEF ProcInv, FilesOK
<1>8. ServingIsReachable'
  BY <1>0, <1>1, <1>4 DEF ProcInv, ServingIsReachable
<1>9. r.why = ""
  BY <1>0, <1>1 DEF ProcInv, EndsOK, Early
<1>10. EndsOK'
  BY <1>0, <1>1, <1>4, <1>6, <1>9 DEF ProcInv, EndsOK
<1> QED
  BY <1>3, <1>7, <1>8, <1>10 DEF ProcInv

LEMMA ReturnOK ==
  ASSUME ProcInv, NEW p \in Pids, Return(p), UNCHANGED probes
  PROVE  ProcInv' /\ Forward
<1>0. /\ proc[p] \in Process /\ proc[p].at = "closed" /\ lock' = LockWithout(p)
      /\ UNCHANGED <<last, socket, files>>
  BY DEF ProcInv, LockOK, Return
<1> DEFINE r == [proc[p] EXCEPT !.at = "returned"]
<1>1. r \in Process /\ r.at = "returned" /\ r.why = proc[p].why
  BY <1>0 DEF Process
<1>2. proc' = [proc EXCEPT ![p] = r]
  BY DEF Return
<1> HIDE DEF r
<1>3. LockOK' /\ Forward
  BY <1>0, <1>1, <1>2, OneMoves DEF Holding, Served, Over
<1>4. /\ proc'[p] = r
      /\ \A q \in Pids : q # p => proc'[q] = proc[q]
  BY <1>1, <1>2 DEF ProcInv, LockOK
<1>5. lock' # p
  BY <1>0, NoneIsNoPid DEF LockWithout
<1>6. FilesOK'
  BY <1>0, <1>1, <1>2, <1>5, FilesKept DEF ProcInv, FilesOK, files
<1>7. ServingIsReachable'
  BY <1>0, <1>1, <1>4 DEF ProcInv, ServingIsReachable
<1>8. EndsOK'
  BY <1>0, <1>1, <1>4 DEF ProcInv, EndsOK, Early, files
<1> QED
  BY <1>3, <1>6, <1>7, <1>8 DEF ProcInv

(* The marker tells of the backend that has the lock, if it could.           *)
Closing(p) == proc[p].why = "shutdown" => marker \/ <<p, "marker">> \in unwritten

LEMMA ClosingOK ==
  ASSUME ProcInv, NEW p \in Pids, proc[p].at \in Holding
  PROVE  Closing(p)
<1>1. last = p
  BY NoneIsNoPid DEF ProcInv, LockOK
<1> QED
  BY <1>1 DEF Closing, ProcInv, EndsOK

LEMMA RunsOK ==
  ASSUME ProcInv, NEW p \in Pids, Runs(p)
  PROVE  ProcInv' /\ Forward
<1>0. proc[p] \in Process /\ probes' = probes /\ marker \in BOOLEAN
      /\ unwritten \subseteq Pids \X {"pid", "marker"}
  BY DEF ProcInv, LockOK, FilesOK, Runs
<1>1. ASSUME TakeLock(p) \/ RecordPid(p) \/ Return(p)
      PROVE  ProcInv' /\ Forward
  BY <1>0, <1>1, TakeLockOK, RecordPidOK, ReturnOK
<1>2. ASSUME Exit(p)
      PROVE  ProcInv' /\ Forward
  <2>1. proc[p].at = "returned" /\ proc' = Gone(p, "0") /\ UNCHANGED <<lock, last, socket, files>>
    BY <1>2 DEF Exit
  <2>2. lock' = LockWithout(p)
    BY <2>1 DEF LockWithout, ProcInv, LockOK, Holding
  <2> QED
    BY <1>0, <2>1, <2>2, GoneOK
<1>3. ASSUME Unmark(p)
      PROVE  ProcInv' /\ Forward
  <2> DEFINE r == [proc[p] EXCEPT !.at = "unmarked"]
  <2>1. /\ proc' = [proc EXCEPT ![p] = r] /\ proc[p].at = "locked" /\ marker' \in BOOLEAN
        /\ UNCHANGED <<lock, last, recorded, unwritten>>
    BY <1>0, <1>3 DEF Unmark
  <2>2. r \in Process /\ r.at = "unmarked" /\ r.why = proc[p].why
    BY <1>0 DEF Process
  <2>3. r.why = ""
    BY <2>1, <2>2 DEF ProcInv, EndsOK, Early
  <2> HIDE DEF r
  <2> QED
    BY <1>0, <2>1, <2>2, <2>3, StepOK DEF Holding, Served, Over
<1>4. ASSUME Listen(p)
      PROVE  ProcInv' /\ Forward
  <2> DEFINE r == [proc[p] EXCEPT !.at = "serving"]
  <2>1. /\ proc' = [proc EXCEPT ![p] = r] /\ proc[p].at = "unmarked" /\ socket' = p
        /\ UNCHANGED <<lock, last, recorded, unwritten, marker>>
    BY <1>4 DEF Listen, files
  <2>2. r \in Process /\ r.at = "serving" /\ r.why = proc[p].why
    BY <1>0 DEF Process
  <2>3. r.why = ""
    BY <2>1, <2>2 DEF ProcInv, EndsOK, Early
  <2> HIDE DEF r
  <2> QED
    BY <1>0, <2>1, <2>2, <2>3, StepOK DEF Holding, Served, Over
<1>5. ASSUME SeesShutdown(p)
      PROVE  ProcInv' /\ Forward
  <2> DEFINE r == [proc[p] EXCEPT !.at = "closing", !.why = "shutdown"]
  <2>1. /\ proc' = [proc EXCEPT ![p] = r] /\ proc[p].at = "serving" /\ marker' \in BOOLEAN
        /\ UNCHANGED <<lock, last, recorded>>
        /\ marker' \/ <<p, "marker">> \in unwritten'
        /\ unwritten' \in {unwritten, unwritten \cup {<<p, "marker">>}}
    BY <1>0, <1>5 DEF SeesShutdown, Written, Unwritten
  <2>2. r \in Process /\ r.at = "closing"
    BY <1>0 DEF Process
  <2> HIDE DEF r
  <2>3. /\ unwritten \subseteq unwritten' /\ unwritten' \subseteq Pids \X {"pid", "marker"}
        /\ <<p, "marker">> \in Pids \X {"pid", "marker"}
    BY <1>0, <2>1
  <2> QED
    BY <2>1, <2>2, <2>3, <1>0, StepOK DEF Holding, Served, Over, Early
<1>6. ASSUME SeesSignal(p)
      PROVE  ProcInv' /\ Forward
  <2> DEFINE r == [proc[p] EXCEPT !.at = "closing", !.why = "signal"]
  <2>1. /\ proc' = [proc EXCEPT ![p] = r] /\ proc[p].at = "serving"
        /\ UNCHANGED <<lock, last, recorded, unwritten, marker>>
    BY <1>6 DEF SeesSignal, files
  <2>2. r \in Process /\ r.at = "closing" /\ r.why = "signal"
    BY <1>0 DEF Process
  <2> HIDE DEF r
  <2> QED
    BY <1>0, <2>1, <2>2, StepOK DEF Holding, Served, Over, Early
<1>7. ASSUME CloseListener(p)
      PROVE  ProcInv' /\ Forward
  <2> DEFINE r == [proc[p] EXCEPT !.at = "draining"]
  <2>1. /\ proc' = [proc EXCEPT ![p] = r] /\ proc[p].at = "closing"
        /\ UNCHANGED <<lock, last, recorded, unwritten, marker>>
    BY <1>7 DEF CloseListener, files
  <2>2. r \in Process /\ r.at = "draining" /\ r.why = proc[p].why
    BY <1>0 DEF Process
  <2>3. Closing(p)
    BY <2>1, ClosingOK DEF Holding
  <2> HIDE DEF r
  <2> QED
    BY <1>0, <2>1, <2>2, <2>3, StepOK DEF Holding, Served, Over, Early, Closing
<1>8. ASSUME RemoveSocket(p)
      PROVE  ProcInv' /\ Forward
  <2> DEFINE r == [proc[p] EXCEPT !.at = "closed"]
  <2>1. /\ proc' = [proc EXCEPT ![p] = r] /\ proc[p].at = "draining"
        /\ UNCHANGED <<lock, last, recorded, unwritten, marker>>
    BY <1>8 DEF RemoveSocket, files
  <2>2. r \in Process /\ r.at = "closed" /\ r.why = proc[p].why
    BY <1>0 DEF Process
  <2>3. Closing(p)
    BY <2>1, ClosingOK DEF Holding
  <2> HIDE DEF r
  <2> QED
    BY <1>0, <2>1, <2>2, <2>3, StepOK DEF Holding, Served, Over, Early, Closing
<1> QED
  BY <1>1, <1>2, <1>3, <1>4, <1>5, <1>6, <1>7, <1>8 DEF Runs

----------------------------------------------------------------------------
(* Callers.                                                                *)

(* It is to wait yet, or has said that it failed.                           *)
Open(call) == call.at \in {"wait", "kick", "kicked"} \/ (call.at = "said" /\ ~ call.ok)

(* With nobody holding the lock, or another, whoever served has gone.        *)
LEMMA NotHoldingIsGone ==
  ASSUME ProcInv, NEW p \in Pids, proc[p].at \in Served, lock # p
  PROVE  proc[p].at \in Over
BY DEF ProcInv, LockOK, Served, Holding

(* A call keeps what it has seen of the backend it asked to go.              *)
LEMMA CallKept ==
  ASSUME ProcInv, Forward, NEW call \in Caller, NEW new \in Caller, new.old = call.old,
         CallOK(call),
         Open(call) => Open(new) \/ (call.old # None => lock # call.old)
  PROVE  CallOK(new)'
<1>1. CASE call.old = None
  BY <1>1 DEF CallOK
<1>2. CASE call.old # None
  <2>1. call.old \in Pids /\ call.ok \in BOOLEAN /\ new.ok \in BOOLEAN
    BY <1>2 DEF Caller
  <2>2. proc[call.old].at \in Served /\ proc'[call.old].at \in Served
    BY <1>2, <2>1 DEF CallOK, Forward
  <2>3. ASSUME proc[call.old].at \in Over
        PROVE  CallOK(new)'
    BY <2>1, <2>2, <2>3 DEF CallOK, Forward
  <2>4. ASSUME Open(new)
        PROVE  CallOK(new)'
    BY <2>1, <2>2, <2>4 DEF CallOK, Open
  <2>5. proc[call.old].at \in Over \/ Open(new)
    BY <1>2, <2>1, <2>2, NotHoldingIsGone DEF CallOK, Open
  <2> QED
    BY <2>3, <2>4, <2>5
<1> QED
  BY <1>1, <1>2

LEMMA CallsKept ==
  ASSUME IInv, Forward, caller' = caller
  PROVE  CallsOK'
<1> SUFFICES ASSUME NEW c \in Clients
             PROVE  CallOK(caller[c])'
  BY DEF CallsOK
<1>1. caller[c] \in Caller /\ CallOK(caller[c])
  BY DEF IInv, RestOK, CallsOK
<1> QED
  BY <1>1, CallKept DEF IInv

(* One caller moves on as r.                                               *)
LEMMA OneCalls ==
  ASSUME IInv, Forward, NEW c \in Clients, NEW r \in Caller,
         caller' = [caller EXCEPT ![c] = r], CallOK(r)'
  PROVE  CallsOK' /\ caller' \in [Clients -> Caller]
<1>1. caller' \in [Clients -> Caller] /\ caller'[c] = r
      /\ \A d \in Clients : d # c => caller'[d] = caller[d]
  BY DEF IInv, RestOK
<1>2. ASSUME NEW d \in Clients
      PROVE  CallOK(caller[d])'
  <2>1. caller[d] \in Caller /\ CallOK(caller[d])
    BY DEF IInv, RestOK, CallsOK
  <2>2. CASE d = c
    BY <1>1, <2>2 DEF CallOK
  <2>3. CASE d # c
    <3> DEFINE call == caller[d]
    <3>1. caller'[d] = call
      BY <1>1, <2>3
    <3> QED
      BY <2>1, <3>1, CallKept DEF IInv, CallOK
  <2> QED
    BY <2>2, <2>3
<1> QED
  BY <1>1, <1>2 DEF CallsOK

(* A caller goes to another step, or its command is over.                   *)
CallSteps ==
  {"idle", "info", "session", "load", "bootstrap", "await", "probe", "probing", "look", "ask", "recheck", "wait", "waited",
   "install", "ready", "remove", "was", "uninstall", "note", "kick", "kicked", "said"}

LEMMA GoesOK ==
  ASSUME IInv, Forward, NEW c \in Clients, NEW at \in CallSteps \ {"said"}, Goes(c, at),
         Open(caller[c]) => at \in {"wait", "kick", "kicked"}
                            \/ (caller[c].old # None => lock # caller[c].old)
  PROVE  CallsOK' /\ caller' \in [Clients -> Caller]
<1>1. caller[c] \in Caller /\ CallOK(caller[c])
  BY DEF IInv, RestOK, CallsOK
<1>2. PICK r \in Caller : /\ caller' = [caller EXCEPT ![c] = r]
                          /\ r.old = caller[c].old /\ r.at = at
  <2> DEFINE r == [caller[c] EXCEPT !.at = at]
  <2>1. caller' = [caller EXCEPT ![c] = r]
    BY DEF Goes
  <2>2. r \in Caller /\ r.old = caller[c].old /\ r.at = at
    BY <1>1 DEF Caller, CallSteps
  <2> HIDE DEF r
  <2> QED
    BY <2>1, <2>2
<1>3. Open(caller[c]) => Open(r) \/ (caller[c].old # None => lock # caller[c].old)
  BY <1>2 DEF Open
<1>4. CallOK(r)'
  BY <1>1, <1>2, <1>3, CallKept DEF IInv
<1> QED
  BY <1>2, <1>4, OneCalls

LEMMA SaidOK ==
  ASSUME IInv, Forward, NEW c \in Clients, NEW ok \in BOOLEAN, Said(c, ok),
         Open(caller[c]) => ~ ok \/ (caller[c].old # None => lock # caller[c].old)
  PROVE  CallsOK' /\ caller' \in [Clients -> Caller]
<1>1. caller[c] \in Caller /\ CallOK(caller[c])
  BY DEF IInv, RestOK, CallsOK
<1>2. PICK r \in Caller : /\ caller' = [caller EXCEPT ![c] = r]
                          /\ r.old = caller[c].old /\ r.at = "said" /\ r.ok = ok
  <2> DEFINE r == [NoCall EXCEPT !.at = "said", !.old = caller[c].old, !.ok = ok]
  <2>1. caller' = [caller EXCEPT ![c] = r]
    BY DEF Said
  <2>2. r \in Caller /\ r.old = caller[c].old /\ r.at = "said" /\ r.ok = ok
    BY <1>1 DEF Caller, NoCall
  <2> HIDE DEF r
  <2> QED
    BY <2>1, <2>2
<1>3. Open(caller[c]) => Open(r) \/ (caller[c].old # None => lock # caller[c].old)
  BY <1>2 DEF Open
<1>4. CallOK(r)'
  BY <1>1, <1>2, <1>3, CallKept DEF IInv
<1> QED
  BY <1>2, <1>4, OneCalls

(* A caller waits for an answer, of the process it has started or another.   *)
LEMMA AwaitsOK ==
  ASSUME IInv, Forward, NEW c \in Clients, NEW first \in BOOLEAN,
         ~ Open(caller[c]),
         \/ \E p \in Pids : caller' = [caller EXCEPT ![c].at = "await", ![c].child = p]
         \/ caller' = [caller EXCEPT ![c].at = "await", ![c].first = first]
  PROVE  CallsOK' /\ caller' \in [Clients -> Caller]
<1>1. caller[c] \in Caller /\ CallOK(caller[c])
  BY DEF IInv, RestOK, CallsOK
<1>2. PICK r \in Caller : caller' = [caller EXCEPT ![c] = r] /\ r.old = caller[c].old
  <2>1. ASSUME NEW p \in Pids, caller' = [caller EXCEPT ![c].at = "await", ![c].child = p]
        PROVE  \E r \in Caller : caller' = [caller EXCEPT ![c] = r] /\ r.old = caller[c].old
    <3> DEFINE r == [caller[c] EXCEPT !.at = "await", !.child = p]
    <3>1. caller' = [caller EXCEPT ![c] = r]
      BY <2>1
    <3>2. r \in Caller /\ r.old = caller[c].old
      BY <1>1 DEF Caller
    <3> HIDE DEF r
    <3> QED
      BY <3>1, <3>2
  <2>2. CASE caller' = [caller EXCEPT ![c].at = "await", ![c].first = first]
    <3> DEFINE r == [caller[c] EXCEPT !.at = "await", !.first = first]
    <3>1. caller' = [caller EXCEPT ![c] = r]
      BY <2>2
    <3>2. r \in Caller /\ r.old = caller[c].old
      BY <1>1 DEF Caller
    <3> HIDE DEF r
    <3> QED
      BY <3>1, <3>2
  <2> QED
    BY <2>1, <2>2
<1>3. CallOK(r)'
  BY <1>1, <1>2, CallKept DEF IInv
<1> QED
  BY <1>2, <1>3, OneCalls

(* What each step of a caller shows: the rest of TypeOK follows from it.     *)
CallInv ==
  /\ ProcInv' /\ CallsOK' /\ caller' \in [Clients -> Caller]
  /\ job' \in [loaded : BOOLEAN, pid : Pids \cup {None}, again : BOOLEAN]
  /\ session' \in Pids \cup {None}

LEMMA SpawnOK ==
  ASSUME IInv, NEW c \in Clients, Spawn(c), UNCHANGED <<last, socket, files, lock, probes>>
  PROVE  CallInv
<1>0. UNCHANGED <<job, session>> /\ caller[c].at = "info" /\ ~ Open(caller[c])
  BY DEF Spawn, Open
<1>1. CASE Answering # None
  BY <1>0, <1>1, Nothing, SaidOK DEF Spawn, IInv, RestOK, CallInv
<1>2. CASE Answering = None /\ mac
  <2>1. "session" \in CallSteps \ {"said"}
    BY DEF CallSteps
  <2> QED
    BY <1>0, <1>2, <2>1, Nothing, GoesOK DEF Spawn, IInv, RestOK, CallInv
<1>3. CASE Answering = None /\ ~ mac
  <2>1. PICK p \in Fresh :
          /\ proc' = Started(p)
          /\ caller' = [caller EXCEPT ![c].at = "await", ![c].child = p]
    BY <1>3 DEF Spawn
  <2>2. p \in Pids /\ ProcInv' /\ Forward
    BY <2>1, StartedOK DEF IInv
  <2>3. CallsOK' /\ caller' \in [Clients -> Caller]
    BY <1>0, <2>1, <2>2, AwaitsOK
  <2> QED
    BY <1>0, <2>2, <2>3 DEF IInv, RestOK, CallInv
<1> QED
  BY <1>1, <1>2, <1>3

(* The steps that have launchd run the session job.                         *)
LEMMA SessionOK ==
  ASSUME IInv, NEW c \in Clients, KickSession(c) \/ Bootstrap(c),
         UNCHANGED <<last, socket, files, lock, probes>>
  PROVE  CallInv
<1>0. UNCHANGED job /\ ~ Open(caller[c]) /\ session \in Pids \cup {None}
      /\ job \in [loaded : BOOLEAN, pid : Pids \cup {None}, again : BOOLEAN]
  BY DEF KickSession, Bootstrap, Open, IInv, RestOK
<1>1. CASE /\ UNCHANGED <<proc, session>>
           /\ Goes(c, "load") \/ Said(c, FALSE)
              \/ caller' = [caller EXCEPT ![c].at = "await", ![c].first = TRUE]
  <2>1. "load" \in CallSteps \ {"said"}
    BY DEF CallSteps
  <2>2. ProcInv' /\ Forward
    BY <1>1, Nothing DEF IInv
  <2>3. CallsOK' /\ caller' \in [Clients -> Caller]
    <3>1. CASE Goes(c, "load")
      BY <1>0, <2>1, <2>2, <3>1, GoesOK
    <3>2. CASE Said(c, FALSE)
      BY <1>0, <2>2, <3>2, SaidOK
    <3>3. CASE caller' = [caller EXCEPT ![c].at = "await", ![c].first = TRUE]
      BY <1>0, <2>2, <3>3, AwaitsOK
    <3> QED
      BY <1>1, <3>1, <3>2, <3>3
  <2> QED
    BY <1>0, <1>1, <2>2, <2>3 DEF CallInv
<1>2. CASE \E p \in Fresh, first \in BOOLEAN :
             /\ proc' = Started(p) /\ session' = p
             /\ caller' = [caller EXCEPT ![c].at = "await", ![c].first = first]
  <2>1. PICK p \in Fresh, first \in BOOLEAN :
          /\ proc' = Started(p) /\ session' = p
          /\ caller' = [caller EXCEPT ![c].at = "await", ![c].first = first]
    BY <1>2
  <2>2. p \in Pids /\ ProcInv' /\ Forward
    BY <2>1, StartedOK DEF IInv
  <2>3. CallsOK' /\ caller' \in [Clients -> Caller]
    BY <1>0, <2>1, <2>2, AwaitsOK
  <2> QED
    BY <1>0, <2>1, <2>2, <2>3 DEF CallInv
<1> QED
  BY <1>1, <1>2 DEF KickSession, Bootstrap

LEMMA SpawnExitedOK ==
  ASSUME IInv, NEW c \in Clients, SpawnExited(c),
         UNCHANGED <<last, socket, files, lock, probes>>
  PROVE  CallInv
<1>0. /\ UNCHANGED <<proc, job, session>> /\ ~ Open(caller[c])
      /\ Goes(c, "load") \/ Said(c, FALSE)
  BY DEF SpawnExited, Open
<1>1. "load" \in CallSteps \ {"said"}
  BY DEF CallSteps
<1>2. ProcInv' /\ Forward
  BY <1>0, Nothing DEF IInv
<1>3. CallsOK' /\ caller' \in [Clients -> Caller]
  BY <1>0, <1>1, <1>2, GoesOK, SaidOK
<1> QED
  BY <1>0, <1>2, <1>3 DEF IInv, RestOK, CallInv

(* What follows a Stop: its backend has gone, or there was none to go.      *)
LEMMA StoppedOK ==
  ASSUME IInv, Forward, NEW c \in Clients, Stopped(c), ~ Open(caller[c])
  PROVE  CallsOK' /\ caller' \in [Clients -> Caller]
<1>1. Goes(c, "info") \/ Goes(c, "install") \/ Said(c, TRUE)
  BY DEF Stopped
<1>2. {"info", "install"} \subseteq CallSteps \ {"said"}
  BY DEF CallSteps
<1>3. CASE Goes(c, "info")
  BY <1>2, <1>3, GoesOK
<1>4. CASE Goes(c, "install")
  BY <1>2, <1>4, GoesOK
<1> QED
  BY <1>1, <1>3, <1>4, SaidOK

LEMMA ProbeOK ==
  ASSUME IInv, NEW c \in Clients, Probe(c) \/ Unprobe(c), UNCHANGED <<last, socket, files, lock>>
  PROVE  CallInv /\ probes' \subseteq Clients
<1>1. UNCHANGED <<proc, job, session>>
  BY DEF Probe, Unprobe
<1>2. probes' \subseteq Clients /\ (lock # None => probes' = {})
  BY DEF Probe, Unprobe, IInv, RestOK, ProcInv, LockOK
<1>3. ProcInv' /\ Forward
  BY <1>1, <1>2 DEF IInv, ProcInv, LockOK, FilesOK, files, ServingIsReachable, EndsOK, Forward
<1>4. {"ask", "probing", "waited", "look"} \subseteq CallSteps \ {"said"}
  BY DEF CallSteps
<1>5. CallsOK' /\ caller' \in [Clients -> Caller]
  <2>1. CASE caller[c].at = "probe" /\ Goes(c, "ask")
    BY <1>3, <1>4, <2>1, GoesOK DEF Open
  <2>2. CASE caller[c].at = "probe" /\ Goes(c, "probing")
    BY <1>3, <1>4, <2>2, GoesOK DEF Open
  <2>3. CASE lock = None /\ Goes(c, "waited")
    BY <1>3, <1>4, <2>3, GoesOK
  <2>4. CASE caller[c].at = "probing" /\ Goes(c, "look")
    BY <1>3, <1>4, <2>4, GoesOK DEF Open
  <2>5. CASE caller[c].at = "waited" /\ Stopped(c)
    BY <1>3, <2>5, StoppedOK DEF Open
  <2> QED
    BY <2>1, <2>2, <2>3, <2>4, <2>5 DEF Probe, Unprobe
<1> QED
  BY <1>1, <1>2, <1>3, <1>5 DEF CallInv, IInv, RestOK

(* The backend that answers is asked to go, or noted as the one to go.       *)
LEMMA OldOK ==
  ASSUME IInv, Forward, NEW c \in Clients, NEW at \in {"wait", "kick"},
         caller' = [caller EXCEPT ![c].at = at, ![c].old = Answering]
  PROVE  CallsOK' /\ caller' \in [Clients -> Caller]
<1>1. /\ Answering \in Pids \cup {None}
      /\ Answering # None => proc[Answering].at \in Served
  BY AnsweringHolds DEF IInv, ProcInv, RestOK, Served
<1>2. PICK r \in Caller : /\ caller' = [caller EXCEPT ![c] = r]
                          /\ r.old = Answering /\ r.at = at
  <2> DEFINE r == [caller[c] EXCEPT !.at = at, !.old = Answering]
  <2>1. caller' = [caller EXCEPT ![c] = r]
    OBVIOUS
  <2>2. caller[c] \in Caller
    BY DEF IInv, RestOK
  <2>3. r \in Caller /\ r.old = Answering /\ r.at = at
    BY <1>1, <2>2 DEF Caller
  <2> HIDE DEF r
  <2> QED
    BY <2>1, <2>3
<1>3. CallOK(r)'
  BY <1>1, <1>2 DEF CallOK, Forward
<1> QED
  BY <1>2, <1>3, OneCalls

LEMMA AskOK ==
  ASSUME IInv, NEW c \in Clients, Ask(c), UNCHANGED <<last, socket, files, lock, probes>>
  PROVE  CallInv
<1>1. caller[c].at = "ask" /\ UNCHANGED <<job, session>> /\ "recheck" \in CallSteps \ {"said"}
  BY DEF Ask, CallSteps
<1>2. CASE Answering = None
  BY <1>1, <1>2, Nothing, GoesOK DEF Ask, Open, CallInv, IInv, RestOK
<1>3. CASE Answering # None
  <2>1. proc' = [proc EXCEPT ![Answering].asked = TRUE] /\ Answering \in Pids
    BY <1>3, AnsweringHolds DEF Ask, IInv, ProcInv, RestOK
  <2>2. ProcInv' /\ Forward
    BY <2>1, AskedOK DEF IInv
  <2> QED
    BY <1>1, <1>3, <2>2, OldOK DEF Ask, CallInv, IInv, RestOK
<1> QED
  BY <1>2, <1>3

(* The steps in which a caller only looks, and says or goes on.             *)
LEMMA LooksOK ==
  ASSUME IInv, NEW c \in Clients, UNCHANGED <<last, socket, files, lock, probes>>,
         \/ SpawnAnswered(c) \/ Look(c) \/ Recheck(c) \/ TimesOut(c) \/ Ready(c)
         \/ Was(c) \/ Note(c) \/ Kicked(c)
  PROVE  CallInv
<1>1. UNCHANGED <<proc, job, session>>
  BY DEF SpawnAnswered, Look, Recheck, TimesOut, Ready, Was, Note, Kicked
<1>2. ProcInv' /\ Forward
  BY <1>1, Nothing DEF IInv
<1>3. {"ask", "remove"} \subseteq CallSteps \ {"said"}
  BY DEF CallSteps
<1>4. CallsOK' /\ caller' \in [Clients -> Caller]
  <2>1. CASE SpawnAnswered(c)
    BY <1>2, <2>1, SaidOK DEF SpawnAnswered, Open
  <2>2. CASE Look(c)
    <3>1. ~ Open(caller[c]) /\ (Stopped(c) \/ Goes(c, "ask"))
      BY <2>2 DEF Look, Open
    <3> QED
      BY <1>2, <1>3, <3>1, StoppedOK, GoesOK
  <2>3. CASE Recheck(c)
    <3>1. ~ Open(caller[c]) /\ (Stopped(c) \/ Said(c, FALSE))
      BY <2>3 DEF Recheck, Open
    <3> QED
      BY <1>2, <3>1, StoppedOK, SaidOK
  <2>4. CASE TimesOut(c)
    BY <1>2, <2>4, SaidOK DEF TimesOut
  <2>5. CASE Ready(c)
    <3>1. ~ Open(caller[c]) /\ (Said(c, TRUE) \/ Goes(c, "remove"))
      BY <2>5 DEF Ready, Open
    <3> QED
      BY <1>2, <1>3, <3>1, SaidOK, GoesOK
  <2>6. CASE Was(c)
    <3> DEFINE first == Answering # None
    <3>1. /\ ~ Open(caller[c]) /\ first \in BOOLEAN
          /\ caller' = [caller EXCEPT ![c].at = "uninstall", ![c].first = first]
      BY <2>6 DEF Was, Open
    <3> HIDE DEF first
    <3>2. caller[c] \in Caller /\ CallOK(caller[c])
      BY DEF IInv, RestOK, CallsOK
    <3>3. PICK r \in Caller : caller' = [caller EXCEPT ![c] = r] /\ r.old = caller[c].old
      <4> DEFINE r == [caller[c] EXCEPT !.at = "uninstall", !.first = first]
      <4>1. caller' = [caller EXCEPT ![c] = r]
        BY <3>1
      <4>2. r \in Caller /\ r.old = caller[c].old
        BY <3>1, <3>2 DEF Caller
      <4> HIDE DEF r
      <4> QED
        BY <4>1, <4>2
    <3>4. CallOK(r)'
      BY <1>2, <3>1, <3>2, <3>3, CallKept DEF IInv
    <3> QED
      BY <1>2, <3>3, <3>4, OneCalls
  <2>7. CASE Note(c)
    BY <1>2, <2>7, OldOK DEF Note
  <2>8. CASE Kicked(c)
    <3>1. Said(c, TRUE) /\ Answering # None /\ Answering # caller[c].old
      BY <2>8 DEF Kicked
    <3>2. lock # caller[c].old
      BY <3>1, AnsweringHolds DEF IInv, ProcInv, RestOK
    <3> QED
      BY <1>2, <3>1, <3>2, SaidOK
  <2> QED
    BY <2>1, <2>2, <2>3, <2>4, <2>5, <2>6, <2>7, <2>8
<1> QED
  BY <1>1, <1>2, <1>4 DEF CallInv, IInv, RestOK

(* The steps that have launchd end a job, or start its login agent.         *)
LEMMA AgentOK ==
  ASSUME IInv, NEW c \in Clients, UNCHANGED <<last, socket, files, probes>>,
         Bootout(c) \/ Install(c) \/ Remove(c) \/ Uninstall(c) \/ Kick(c)
  PROVE  CallInv
<1>1. {"bootstrap", "ready", "info", "kicked"} \subseteq CallSteps \ {"said"}
  BY DEF CallSteps
<1>2. /\ job.pid \in Pids \cup {None} /\ job.loaded \in BOOLEAN
      /\ session \in Pids \cup {None}
      /\ job \in [loaded : BOOLEAN, pid : Pids \cup {None}, again : BOOLEAN]
      /\ NoJob \in [loaded : BOOLEAN, pid : Pids \cup {None}, again : BOOLEAN]
      /\ [job EXCEPT !.again = TRUE] \in [loaded : BOOLEAN, pid : Pids \cup {None}, again : BOOLEAN]
  BY DEF IInv, RestOK, NoJob
<1>3. ASSUME Terminate(job.pid) \/ Terminate(session)
      PROVE  ProcInv' /\ Forward
  BY <1>2, <1>3, TerminateOK DEF IInv
<1>8. CASE Bootout(c)
  <2>1. ~ Open(caller[c]) /\ Goes(c, "bootstrap") /\ Terminate(session) /\ session' = None /\ job' = job
    BY <1>8 DEF Bootout, Open
  <2>2. ProcInv' /\ Forward
    BY <1>3, <2>1
  <2> QED
    BY <1>1, <1>2, <2>1, <2>2, GoesOK DEF CallInv
<1>4. CASE Install(c)
  <2>1. CASE job.loaded
    <3>1. Terminate(job.pid) /\ job' = NoJob /\ caller' = caller
      BY <1>4, <2>1 DEF Install
    <3> QED
      BY <1>2, <1>3, <1>4, <3>1, CallsKept DEF Install, IInv, RestOK, CallInv
  <2>2. CASE ~ job.loaded
    <3>1. PICK p \in Fresh :
            /\ proc' = Started(p) /\ UNCHANGED lock
            /\ job' = [loaded |-> TRUE, pid |-> p, again |-> FALSE]
            /\ Goes(c, "ready")
      BY <1>4, <2>2 DEF Install
    <3>2. p \in Pids /\ ProcInv' /\ Forward
      BY <3>1, StartedOK DEF IInv
    <3>3. CallsOK' /\ caller' \in [Clients -> Caller]
      BY <1>1, <1>4, <3>1, <3>2, GoesOK DEF Install, Open
    <3> QED
      BY <1>2, <1>4, <3>1, <3>2, <3>3 DEF Install, CallInv
  <2> QED
    BY <2>1, <2>2
<1>5. CASE Remove(c)
  BY <1>1, <1>2, <1>3, <1>5, SaidOK DEF Remove, IInv, RestOK, CallInv
<1>6. CASE Uninstall(c)
  <2>1. /\ ~ Open(caller[c]) /\ Terminate(job.pid) /\ job' = NoJob
        /\ Goes(c, "info") \/ Said(c, TRUE)
    BY <1>6 DEF Uninstall, Open
  <2> QED
    BY <1>1, <1>2, <1>3, <1>6, <2>1, GoesOK, SaidOK DEF Uninstall, IInv, RestOK, CallInv
<1>7. CASE Kick(c)
  <2>1. CASE job.loaded
    BY <1>1, <1>2, <1>3, <1>7, <2>1, GoesOK DEF Kick, IInv, RestOK, CallInv
  <2>2. CASE ~ job.loaded
    BY <1>1, <1>2, <1>7, <2>2, Nothing, SaidOK DEF Kick, IInv, RestOK, CallInv
  <2> QED
    BY <2>1, <2>2
<1> QED
  BY <1>4, <1>5, <1>6, <1>7, <1>8

LEMMA CallsInv ==
  ASSUME IInv, NEW c \in Clients, Calls(c)
  PROVE  IInv'
<1>1. UNCHANGED <<mac, last, socket, files, app, budget>>
  BY DEF Calls
<1>2. CallInv /\ probes' \subseteq Clients
  <2>1. CASE /\ \/ Spawn(c) \/ KickSession(c) \/ Bootstrap(c) \/ SpawnAnswered(c)
                \/ SpawnExited(c) \/ Look(c) \/ Ask(c) \/ Recheck(c) \/ TimesOut(c) \/ Ready(c) \/ Was(c) \/ Note(c) \/ Kicked(c)
             /\ UNCHANGED <<lock, probes>>
    BY <1>1, <2>1, SpawnOK, SessionOK, SpawnExitedOK, AskOK, LooksOK DEF IInv, RestOK
  <2>2. CASE (Probe(c) \/ Unprobe(c)) /\ UNCHANGED lock
    BY <1>1, <2>2, ProbeOK
  <2>3. CASE (Bootout(c) \/ Install(c) \/ Remove(c) \/ Uninstall(c) \/ Kick(c)) /\ UNCHANGED probes
    BY <1>1, <2>3, AgentOK DEF IInv, RestOK
  <2> QED
    BY <2>1, <2>2, <2>3 DEF Calls
<1>3. IsABag(budget')
  BY <1>1 DEF IInv, RestOK
<1> QED
  BY <1>1, <1>2, <1>3 DEF CallInv, IInv, RestOK

----------------------------------------------------------------------------
(* The other steps, and the theorems.                                      *)

(* Steps that leave callers alone.                                         *)
LEMMA OthersInv ==
  ASSUME IInv,
         \/ \E p \in Pids : Runs(p) \/ StartFails(p) \/ Kill(p) \/ Tell(p)
         \/ Relaunch
  PROVE  IInv'
<1>1. UNCHANGED <<mac, probes, session, caller, app>>
  BY DEF Runs, StartFails, Kill, Tell, Relaunch
<1>2. ProcInv' /\ Forward
  <2>1. ASSUME NEW p \in Pids, Runs(p)
        PROVE  ProcInv' /\ Forward
    BY <2>1, RunsOK DEF IInv
  <2>2. ASSUME NEW p \in Pids, StartFails(p)
        PROVE  ProcInv' /\ Forward
    <3>1. proc[p].at # "none" /\ proc' = Gone(p, "1") /\ lock' = LockWithout(p)
          /\ UNCHANGED <<last, socket, files, probes>>
      BY <2>2 DEF StartFails
    <3> QED
      BY <3>1, GoneOK DEF IInv
  <2>3. ASSUME NEW p \in Pids, Kill(p)
        PROVE  ProcInv' /\ Forward
    <3>1. /\ proc[p].at # "none" /\ proc' = [Gone(p, "killed") EXCEPT ![p].why = "killed"]
          /\ lock' = LockWithout(p) /\ UNCHANGED <<last, socket, files, probes>>
      BY <2>3 DEF Kill, Alive
    <3> QED
      BY <3>1, GoneOK DEF IInv
  <2>4. ASSUME NEW p \in Pids, Tell(p)
        PROVE  ProcInv' /\ Forward
    BY <2>4, AskedOK DEF Tell, IInv
  <2>5. ASSUME Relaunch
        PROVE  ProcInv' /\ Forward
    BY <2>5, StartedOK DEF Relaunch, IInv
  <2> QED
    BY <2>1, <2>2, <2>3, <2>4, <2>5
<1>3. CallsOK'
  BY <1>1, <1>2, CallsKept
<1>4. IsABag(budget')
  <2>1. budget' = budget \/ \E kind \in Mishaps : Input(kind)
    BY DEF Runs, TakeLock, RecordPid, Unmark, Listen, SeesShutdown, SeesSignal, CloseListener,
           RemoveSocket, Return, Exit, Written, Unwritten, StartFails, Kill, Tell, Relaunch, Mishaps
  <2> QED
    BY <2>1, InputOK DEF IInv, RestOK
<1>5. job' \in [loaded : BOOLEAN, pid : Pids \cup {None}, again : BOOLEAN]
  <2>1. job' = job \/ \E p \in Fresh : job' = [job EXCEPT !.pid = p, !.again = FALSE]
    BY DEF Runs, StartFails, Kill, Tell, Relaunch
  <2> QED
    BY <2>1 DEF Fresh, IInv, RestOK
<1>6. socket' \in Pids \cup {None}
  <2>1. socket' = socket \/ socket' = None \/ \E p \in Pids : socket' = p
    BY DEF Runs, TakeLock, RecordPid, Unmark, Listen, SeesShutdown, SeesSignal, CloseListener,
           RemoveSocket, Return, Exit, StartFails, Kill, Tell, Relaunch
  <2> QED
    BY <2>1 DEF IInv, RestOK
<1> QED
  BY <1>1, <1>2, <1>3, <1>4, <1>5, <1>6 DEF IInv, RestOK

LEMMA BeginInv ==
  ASSUME IInv, NEW c \in Callers, NEW cmd \in Commands, Begin(c, cmd)
  PROVE  IInv'
<1>1. UNCHANGED <<mac, procVars, probes, job, session, app>> /\ IsABag(budget')
  BY InputOK DEF Begin, IInv, RestOK
<1>2. ProcInv' /\ Forward
  BY <1>1, Nothing DEF IInv, procVars
<1>3. PICK r \in Caller : caller' = [caller EXCEPT ![c] = r] /\ r.old = None
  <2> DEFINE r == [NoCall EXCEPT !.cmd = cmd, !.at = Entry(cmd)]
  <2>1. caller' = [caller EXCEPT ![c] = r]
    BY DEF Begin
  <2>2. Entry(cmd) \in {"info", "was", "note", "probe"}
    BY DEF Entry
  <2>3. r \in Caller /\ r.old = None
    BY <2>2 DEF NoCall, Caller
  <2> HIDE DEF r
  <2> QED
    BY <2>1, <2>3
<1>4. CallOK(r)'
  BY <1>3 DEF CallOK
<1>5. CallsOK' /\ caller' \in [Clients -> Caller]
  BY <1>2, <1>3, <1>4, OneCalls DEF Clients
<1> QED
  BY <1>1, <1>2, <1>5 DEF IInv, RestOK, procVars

LEMMA AppInv ==
  ASSUME IInv, AppMoves
  PROVE  IInv'
<1>1. UNCHANGED <<mac, procVars, probes, job, session, budget>>
  BY DEF AppMoves
<1>2. ProcInv' /\ Forward
  BY <1>1, Nothing DEF IInv, procVars
<1>3. CallsOK' /\ caller' \in [Clients -> Caller]
  <2>1. CASE caller' = caller
    BY <1>2, <2>1, CallsKept DEF IInv, RestOK
  <2>2. CASE AppStarts
    <3>1. PICK r \in Caller : caller' = [caller EXCEPT ![App] = r] /\ r.old = None
      <4> DEFINE r == [NoCall EXCEPT !.cmd = "start", !.at = "info"]
      <4>1. caller' = [caller EXCEPT ![App] = r]
        BY <2>2 DEF AppStarts
      <4>2. r \in Caller /\ r.old = None
        BY DEF NoCall, Caller, Commands
      <4> HIDE DEF r
      <4> QED
        BY <4>1, <4>2
    <3>2. CallOK(r)'
      BY <3>1 DEF CallOK
    <3> QED
      BY <1>2, <3>1, <3>2, OneCalls DEF Clients
  <2> QED
    BY <2>1, <2>2 DEF AppMoves, AppConnects, AppLoses, AppRefused, AppLeavesIt
<1>4. app' \in [at : {"away", "attached", "refused"}, pid : Pids \cup {None}, tried : BOOLEAN]
  <2>1. Answering \in Pids \cup {None}
    BY AnsweringHolds DEF IInv, ProcInv, RestOK
  <2>2. \/ app' = [at |-> "attached", pid |-> Answering, tried |-> FALSE]
        \/ app' = [app EXCEPT !.at = "away"]
        \/ app' = [app EXCEPT !.at = "refused"]
        \/ app' = [app EXCEPT !.at = "away", !.tried = TRUE]
    BY DEF AppMoves, AppConnects, AppLoses, AppRefused, AppStarts, AppLeavesIt
  <2>3. app \in [at : {"away", "attached", "refused"}, pid : Pids \cup {None}, tried : BOOLEAN]
    BY DEF IInv, RestOK
  <2>4. CASE app' = [at |-> "attached", pid |-> Answering, tried |-> FALSE]
    BY <2>1, <2>4
  <2>5. CASE app' # [at |-> "attached", pid |-> Answering, tried |-> FALSE]
    BY <2>2, <2>3, <2>5
  <2> QED
    BY <2>4, <2>5
<1>5. IsABag(budget')
  BY <1>1 DEF IInv, RestOK
<1> QED
  BY <1>1, <1>2, <1>3, <1>4, <1>5 DEF IInv, RestOK, procVars

LEMMA InitInv == Init => IInv
<1> SUFFICES ASSUME Init
             PROVE  IInv
  OBVIOUS
<1>1. proc \in [Pids -> Process] /\ \A p \in Pids : proc[p].at = "none" /\ proc[p].why = ""
  BY DEF Init, Process
<1>2. ProcInv
  BY <1>1, NoneIsNoPid DEF Init, ProcInv, LockOK, FilesOK, ServingIsReachable, EndsOK, Holding
<1>3. NoCall \in Caller /\ NoCall.old = None
  BY DEF NoCall, Caller
<1>4. caller \in [Clients -> Caller] /\ CallsOK
  BY <1>3 DEF Init, CallsOK, CallOK
<1>5. mac \in BOOLEAN /\ IsABag(budget)
  BY ConstantsAssumption DEF Init
<1>6. /\ job \in [loaded : BOOLEAN, pid : Pids \cup {None}, again : BOOLEAN]
      /\ app \in [at : {"away", "attached", "refused"}, pid : Pids \cup {None}, tried : BOOLEAN]
  BY DEF Init, NoJob
<1> QED
  BY <1>2, <1>4, <1>5, <1>6 DEF Init, IInv, RestOK

LEMMA StepInv == IInv /\ [Next]_vars => IInv'
<1> SUFFICES ASSUME IInv, [Next]_vars
             PROVE  IInv'
  OBVIOUS
<1>1. CASE UNCHANGED vars
  <2>1. UNCHANGED <<mac, procVars, probes, job, session, caller, app, budget>>
    BY <1>1 DEF vars
  <2>2. ProcInv' /\ Forward
    BY <2>1, Nothing DEF IInv, procVars
  <2>3. CallsOK'
    BY <2>1, <2>2, CallsKept
  <2>4. IsABag(budget')
    BY <2>1 DEF IInv, RestOK
  <2> QED
    BY <2>1, <2>2, <2>3, <2>4 DEF IInv, RestOK, procVars
<1>2. CASE Next
  BY <1>2, OthersInv, CallsInv, BeginInv, AppInv DEF Next
<1> QED
  BY <1>1, <1>2

LEMMA Invariant == Spec => []IInv
BY InitInv, StepInv, PTL DEF Spec

(* Of all backend processes, however many are started at once, one at most   *)
(* is past taking the lock, which is one that lives; nobody who only looks   *)
(* whether a backend runs has the lock with it; and the lock's file names    *)
(* it once that has written its pid, unless it could not, whatever its       *)
(* predecessors wrote or failed to write (AcquireLock, RunningPID).         *)
THEOREM OneBackend == Spec => []TypeOK
<1>1. IInv => TypeOK
  BY TypeParts DEF IInv, ProcInv
<1> QED
  BY <1>1, Invariant, PTL

(* A backend that serves is the one the socket's path leads to: what its      *)
(* predecessors remove when they close, they remove before it listens        *)
(* (Run, which closes the server and removes the socket, with the lock).    *)
THEOREM BackendReachable == Spec => []ServingIsReachable
<1>1. IInv => ServingIsReachable
  BY DEF IInv, ProcInv
<1> QED
  BY <1>1, Invariant, PTL

(* Who is told that a backend was stopped or replaced finds it over, without  *)
(* the lock and the socket, whatever others have started, stopped and killed *)
(* in between (Stop, restartBackend).                                       *)
THEOREM BackendReplaced == Spec => []ReplacedIsGone
<1>1. IInv => ReplacedIsGone
  BY DEF IInv, CallsOK, CallOK, ReplacedIsGone
<1> QED
  BY <1>1, Invariant, PTL

(* The Mac app never starts a backend that was the last to run and was        *)
(* stopped for a shutdown request, if that backend could write the marker    *)
(* (Paths.Stopped, Run, Store.runConnection).                                *)
THEOREM BackendStaysStopped == Spec => StaysStopped
<1>1. IInv /\ AppStarts => ~ (/\ app.pid # None /\ last = app.pid
                              /\ proc[app.pid].why = "shutdown"
                              /\ <<app.pid, "marker">> \notin unwritten)
  <2> SUFFICES ASSUME IInv, AppStarts, app.pid # None, last = app.pid,
                      proc[app.pid].why = "shutdown", <<app.pid, "marker">> \notin unwritten
               PROVE  FALSE
    OBVIOUS
  <2>1. app.pid \in Pids
    BY DEF IInv, RestOK
  <2>2. marker
    BY <2>1 DEF IInv, ProcInv, EndsOK
  <2> QED
    BY <2>2 DEF AppStarts
<1> QED
  BY <1>1, Invariant, PTL DEF StaysStopped, Spec
====
