------------------------- MODULE HandlerRunner --------------------------
(***************************************************************************)
(* The runner of the two-way handler program, with the program: requests    *)
(* go down its stdin, replies and taps come up its stdout, and a supervisor *)
(* starts it again when it ends.  internal/twoway/handler/runner.go; the   *)
(* program is the Telegram one, notifiers/telegram/internal/protocol/      *)
(* session.go, which may also stop answering, close stdin or die.          *)
(*                                                                         *)
(* A session is one run of the program.  The next one starts after the     *)
(* last has exited, so that one session record is enough: the calls begun  *)
(* in earlier ones know their number.  Timers may go off whenever they run. *)
(***************************************************************************)
EXTENDS Naturals, FiniteSets, BagsExt, SequencesExt

CONSTANTS
  Callers,      \* the service's goroutines that call the channel
  Hello,        \* the supervisor's own call
  MaxSessions,  \* bound: times the program is started
  Budgets       \* bound: bags of calls, taps and failures

ASSUME ConstantsAssumption ==
  /\ IsFiniteSet(Callers) /\ Hello \notin Callers /\ MaxSessions \in Nat
  /\ \A b \in Budgets : IsABag(b)

VARIABLES
  cancelled,  \* the monitor's context has ended, and with it the runner's
  sup,        \* the supervisor: its step, and where it goes once the program is stopped
  n,          \* the number of the session
  s,          \* the session and its process
  calls,      \* session.call: one per caller
  current,    \* r.current, by number; 0: nil
  avail,      \* r.avail: what OnChange was told last
  taps,       \* r.taps
  tapped,     \* r.tapped, a channel that holds one signal
  receive,    \* the service's Receive
  waiting,    \* external: taps queued at the chat service
  sent,       \* external: those this session has sent
  begun,      \* calls begun, for the properties only
  skipped,    \* taps the reader skipped, for the properties only
  budget      \* bound: what may still happen

tapping == <<taps, tapped, receive, waiting, sent, skipped>>
runner  == <<cancelled, sup, n, current, avail>>
vars    == <<runner, s, calls, tapping, begun, budget>>

AllCalls == Callers \cup {Hello}

(* A line down stdin: the id, whether it is hello, and the call it is of.    *)
Request == [id : Nat, hello : BOOLEAN, of : Nat]

(* A line up stdout; id = 0 is a tap.  "refused" asks for hello first.       *)
Answers == {"ok", "error", "refused", "other protocol"}

Line == [id : Nat, of : Nat, what : Answers \cup {"tap"}]

NoLine == [id |-> 0, of |-> 0, what |-> "tap"]

(* session, and the program: in is what stdin holds, doing the requests in   *)
(* its goroutines, writing that hello's reply is being written.            *)
Session ==
  [proc : {"running", "ending", "exited"}, deaf : BOOLEAN, stdin : BOOLEAN,
   in : Seq(Request), out : Seq(Line), exited : BOOLEAN, helloAnswered : BOOLEAN,
   nextID : Nat, helloDone : BOOLEAN, writing : BOOLEAN, doing : SUBSET Request]

NewSession ==
  [proc |-> "running", deaf |-> FALSE, stdin |-> TRUE, in |-> <<>>, out |-> <<>>,
   exited |-> FALSE, helloAnswered |-> FALSE, nextID |-> 0, helloDone |-> FALSE,
   writing |-> FALSE, doing |-> {}]

(* What is left of a session that has exited.                              *)
OldSession == [NewSession EXCEPT !.proc = "exited", !.exited = TRUE, !.stdin = FALSE]

Outcomes == Answers \cup {"unavailable", "no reply", "cancelled"}

(* reply is the call's channel, which holds one.                            *)
Call ==
  [at : {"idle", "register", "write", "wait", "ended"}, session : Nat, id : Nat, of : Nat,
   reply : Line, outcome : Outcomes \cup {"none"}]

NoCall == [at |-> "idle", session |-> 0, id |-> 0, of |-> 0, reply |-> NoLine, outcome |-> "none"]

Input(kind) ==
  /\ BagIn(kind, budget)
  /\ budget' = BagRemove(budget, kind)

----------------------------------------------------------------------------
(* Calls: session.call and request.                                        *)

NewCall(session) ==
  [NoCall EXCEPT !.at = "register", !.session = session, !.of = begun + 1]

(* request: it goes to the current session, or fails at once.               *)
Begin(c) ==
  /\ Input("call") /\ calls[c].at = "idle" /\ current # 0
  /\ calls' = [calls EXCEPT ![c] = NewCall(current)]
  /\ begun' = begun + 1
  /\ UNCHANGED <<runner, s, tapping>>

(* The outcome is the caller's; the supervisor waits for its own.  With it   *)
(* the call is no longer pending.                                          *)
Ends(c, outcome) ==
  calls' = [calls EXCEPT ![c] =
              IF c = Hello THEN [@ EXCEPT !.at = "ended", !.outcome = outcome] ELSE NoCall]

Elsewhere == UNCHANGED <<runner, tapping, begun>>

(* The call's session has exited.                                          *)
Dead(c) == calls[c].session < n \/ s.exited

(* s.pending: the calls of the session that wait under this id.             *)
Pending(id) ==
  {c \in AllCalls : calls[c].session = n /\ calls[c].id = id /\ calls[c].at \in {"write", "wait"}}

(* A mutant of NextID: the lowest number no call waits under.               *)
NextIDFree == Min({id \in 1..(Cardinality(AllCalls) + 1) : Pending(id) = {}})

NextID == s.nextID + 1

Register(c) ==
  /\ calls[c].at = "register"
  /\ IF Dead(c) THEN Ends(c, "unavailable") /\ UNCHANGED s
     ELSE /\ s' = [s EXCEPT !.nextID = NextID]
          /\ calls' = [calls EXCEPT ![c].id = NextID, ![c].at = "write"]
  /\ UNCHANGED budget /\ Elsewhere

(* It fails when either end of the pipe is closed.                          *)
Write(c) ==
  /\ calls[c].at = "write"
  /\ IF Dead(c) \/ ~ s.stdin \/ s.deaf \/ s.proc = "exited"
     THEN Ends(c, "unavailable") /\ UNCHANGED s
     ELSE /\ s' = [s EXCEPT !.in = Append(@, [id |-> calls[c].id, hello |-> c = Hello,
                                              of |-> calls[c].of])]
          /\ calls' = [calls EXCEPT ![c].at = "wait"]
  /\ UNCHANGED budget /\ Elsewhere

GetsReply(c) ==
  /\ calls[c].at = "wait" /\ calls[c].reply # NoLine
  /\ Ends(c, calls[c].reply.what)
  /\ UNCHANGED <<s, budget>> /\ Elsewhere

(* A mutant of SeesExit: a call that waits does not notice the exit.         *)
SeesExitLate(c) == FALSE /\ UNCHANGED vars

(* The session has exited; it may have answered just before.                *)
SeesExit(c) ==
  /\ calls[c].at = "wait" /\ Dead(c)
  /\ Ends(c, IF calls[c].reply # NoLine THEN calls[c].reply.what ELSE "unavailable")
  /\ UNCHANGED <<s, budget>> /\ Elsewhere

(* The deadline, of the write and of the wait.                              *)
TimesOut(c) ==
  /\ calls[c].at \in {"write", "wait"} /\ ~ Dead(c)
  /\ Ends(c, "no reply")
  /\ UNCHANGED <<s, budget>> /\ Elsewhere

IsCancelled(c) ==
  /\ calls[c].at = "wait" /\ cancelled
  /\ Ends(c, "cancelled")
  /\ UNCHANGED <<s, budget>> /\ Elsewhere

----------------------------------------------------------------------------
(* The supervisor: supervise, runOnce and hello.                           *)

Goes(at, then) == sup' = [at |-> at, then |-> then]

(* stop: stdin is closed; what follows once the process has exited.         *)
Stops(then) ==
  /\ Goes("stop", then)
  /\ s' = [s EXCEPT !.stdin = FALSE]

StartSession ==
  /\ sup.at = "start"
  /\ \/ /\ Input("no start") /\ Goes("off", "pause")
        /\ UNCHANGED <<n, s, calls, sent, begun>>
     \/ /\ n' = n + 1 /\ s' = NewSession /\ sent' = {}
        /\ calls' = [calls EXCEPT ![Hello] = NewCall(n + 1)]
        /\ begun' = begun + 1
        /\ Goes("hello", "pause")
        /\ UNCHANGED budget
  /\ UNCHANGED <<cancelled, current, avail, taps, tapped, receive, waiting, skipped>>

(* setCurrent, of a session: Receive is woken for the taps waiting on it.    *)
Becomes == current' = n /\ tapped' = TRUE

(* hello has its outcome.  A handler of another protocol is not tried again. *)
Greeted ==
  /\ sup.at = "hello" /\ calls[Hello].at = "ended"
  /\ calls' = [calls EXCEPT ![Hello] = NoCall]
  /\ LET outcome == calls[Hello].outcome
     IN IF outcome = "ok" /\ ~ cancelled
        THEN Becomes /\ Goes("announce", "pause") /\ UNCHANGED s
        ELSE /\ Stops(CASE cancelled -> "done"
                        [] ~ cancelled /\ outcome = "unavailable" -> "look"
                        [] ~ cancelled /\ outcome = "other protocol" -> "quit"
                        [] OTHER -> "off")
             /\ UNCHANGED <<current, tapped>>
  /\ UNCHANGED <<cancelled, n, avail, taps, receive, waiting, sent, skipped, begun, budget>>

(* setAvailability                                                         *)
Announce ==
  /\ sup.at = "announce" /\ avail' = "ready" /\ Goes("up", "pause")
  /\ UNCHANGED <<cancelled, n, current, s, calls, tapping, begun, budget>>

Leaves == current' = 0

(* A mutant of AfterExit: the exit is not reported.                         *)
AfterExitQuiet == "pause"

(* The handler is reported off, then tried again.                           *)
AfterExit == "off"

(* runOnce, once the session is ready.                                      *)
Up ==
  /\ sup.at = "up"
  /\ \/ cancelled /\ Leaves /\ Stops("done")
     \/ s.exited /\ Leaves /\ Goes(AfterExit, "pause") /\ UNCHANGED s
  /\ UNCHANGED <<cancelled, n, avail, calls, tapping, begun, budget>>

(* A mutant of HasExited: a process told to stop counts as gone.             *)
HasExitedSoon == s.exited \/ ~ s.stdin

HasExited == s.exited

Stopped ==
  /\ sup.at = "stop" /\ HasExited
  /\ Goes(IF sup.then = "look" THEN (IF cancelled THEN "done" ELSE "off") ELSE sup.then, "pause")
  /\ UNCHANGED <<cancelled, n, current, avail, s, calls, tapping, begun, budget>>

(* The grace is over.                                                      *)
Kill ==
  /\ sup.at = "stop" /\ s.proc # "exited"
  /\ s' = [s EXCEPT !.proc = "exited"]
  /\ UNCHANGED <<runner, calls, tapping, begun, budget>>

AnnounceOff ==
  /\ sup.at \in {"off", "quit"} /\ avail' = "off"
  /\ Goes(IF sup.at = "off" THEN "pause" ELSE "done", "pause")
  /\ UNCHANGED <<cancelled, n, current, s, calls, tapping, begun, budget>>

Pause ==
  /\ sup.at = "pause"
  /\ \/ cancelled /\ Goes("done", "pause")
     \/ n < MaxSessions /\ Goes("start", "pause")
  /\ UNCHANGED <<cancelled, n, current, avail, s, calls, tapping, begun, budget>>

(* The monitor stops: Close waits until the supervisor is done.             *)
Cancel ==
  /\ ~ cancelled /\ Input("stop") /\ cancelled' = TRUE
  /\ UNCHANGED <<sup, n, current, avail, s, calls, tapping, begun>>

----------------------------------------------------------------------------
(* The session's goroutines: the reader and the one that waits for the exit.*)

(* The calls a reply can go to: of each id the first reply is kept.          *)
Waits(id) == {c \in Pending(id) : calls[c].reply = NoLine}

(* readStdout and handle.                                                  *)
Read ==
  /\ ~ s.exited /\ s.out # <<>>
  /\ LET line == Head(s.out)
     IN /\ s' = [s EXCEPT !.out = Tail(@), !.helloAnswered = @ \/ line.id = 1]
        /\ calls' = [c \in AllCalls |-> IF line.id # 0 /\ c \in Waits(line.id)
                                        THEN [calls[c] EXCEPT !.reply = line] ELSE calls[c]]
        /\ IF line.id # 0 THEN UNCHANGED <<taps, tapped, skipped>>
           ELSE IF s.helloAnswered
           THEN taps' = Append(taps, line.of) /\ tapped' = TRUE /\ UNCHANGED skipped
           ELSE skipped' = skipped \cup {line.of} /\ UNCHANGED <<taps, tapped>>
  /\ UNCHANGED <<runner, receive, waiting, sent, begun, budget>>

(* The process has exited.  What it wrote is read first, as far as drainWait *)
(* allows.                                                                 *)
Exit ==
  /\ s.proc = "exited" /\ ~ s.exited
  /\ s' = OldSession
  /\ UNCHANGED <<runner, calls, tapping, begun, budget>>

----------------------------------------------------------------------------
(* The service's receiveLoop calls Receive again and again.                 *)

CanTake == current # 0 /\ taps # <<>>

ReceiveLooks ==
  /\ receive = "look"
  /\ IF CanTake THEN taps' = <<>> /\ UNCHANGED receive
     ELSE receive' = "wait" /\ UNCHANGED taps
  /\ UNCHANGED <<runner, s, calls, tapped, waiting, sent, skipped, begun, budget>>

ReceiveWakes ==
  /\ receive = "wait" /\ tapped
  /\ receive' = "look" /\ tapped' = FALSE
  /\ UNCHANGED <<runner, s, calls, taps, waiting, sent, skipped, begun, budget>>

(* ReceiveWait is over: it is called again, and looks.                      *)
ReceiveTimer ==
  /\ receive = "wait" /\ CanTake
  /\ receive' = "look"
  /\ UNCHANGED <<runner, s, calls, taps, tapped, waiting, sent, skipped, begun, budget>>

ReceiveEnds ==
  /\ receive = "wait" /\ cancelled
  /\ receive' = "ended"
  /\ UNCHANGED <<runner, s, calls, taps, tapped, waiting, sent, skipped, begun, budget>>

----------------------------------------------------------------------------
(* The program: protocol.Run.  It takes its time; nothing makes it go on.    *)

Running == s.proc = "running"

InProgram == UNCHANGED <<runner, calls, taps, tapped, receive, waiting, skipped, begun>>

(* ready waits for a write in progress.                                    *)
Ready == ~ s.writing

(* handle: each request in a goroutine of its own.                          *)
Handle ==
  /\ Running /\ ~ s.deaf /\ s.in # <<>>
  /\ LET r == Head(s.in)
         refusal == [id |-> r.id, of |-> r.of, what |-> "refused"]
     IN IF r.hello \/ (Ready /\ s.helloDone)
        THEN s' = [s EXCEPT !.in = Tail(@), !.doing = @ \cup {r}]
        ELSE Ready /\ s' = [s EXCEPT !.in = Tail(@), !.out = Append(@, refusal)]
  /\ UNCHANGED <<sent, budget>> /\ InProgram

(* do and write.  Requests in flight when the session ends are answered.     *)
Answer(r) ==
  /\ s.proc # "exited" /\ r \in s.doing /\ ~ s.writing
  /\ \E what \in Answers \ {"refused"} :
       /\ what = "other protocol" => r.hello /\ Input("other protocol")
       /\ what = "error" => Input("error")
       /\ what = "ok" => UNCHANGED budget
       /\ s' = [s EXCEPT !.doing = @ \ {r},
                  !.out = Append(@, [id |-> r.id, of |-> r.of, what |-> what]),
                  !.writing = r.hello /\ what # "error"]
  /\ UNCHANGED sent /\ InProgram

(* hello's reply is written, and the taps are received from now on.          *)
Written ==
  /\ s.proc # "exited" /\ s.writing
  /\ s' = [s EXCEPT !.writing = FALSE, !.helloDone = TRUE]
  /\ UNCHANGED <<sent, budget>> /\ InProgram

(* A mutant of Receiving: taps are received while hello is on its way.       *)
ReceivingEarly == Running

Receiving == Running /\ s.helloDone

SendTap(tap) ==
  /\ Receiving /\ tap \in waiting \ sent
  /\ sent' = sent \cup {tap}
  /\ s' = [s EXCEPT !.out = Append(@, [id |-> 0, of |-> tap, what |-> "tap"])]
  /\ UNCHANGED budget /\ InProgram

(* stdin's end, or a signal.                                               *)
Ending ==
  /\ Running
  /\ \/ ~ s.stdin /\ s.in = <<>> /\ UNCHANGED budget
     \/ Input("signal")
  /\ s' = [s EXCEPT !.proc = "ending"]
  /\ UNCHANGED sent /\ InProgram

Ended ==
  /\ s.proc = "ending" /\ s.doing = {} /\ ~ s.writing
  /\ s' = [s EXCEPT !.proc = "exited"]
  /\ UNCHANGED <<sent, budget>> /\ InProgram

Dies ==
  /\ Running /\ Input("dies")
  /\ s' = [s EXCEPT !.proc = "exited", !.in = <<>>, !.doing = {}, !.writing = FALSE]
  /\ UNCHANGED sent /\ InProgram

(* It closes stdin and goes on.                                            *)
ClosesStdin ==
  /\ Running /\ Input("closes stdin")
  /\ s' = [s EXCEPT !.deaf = TRUE]
  /\ UNCHANGED sent /\ InProgram

(* Somebody taps a button.                                                 *)
Press ==
  /\ Input("tap")
  /\ waiting' = waiting \cup {Cardinality(waiting) + 1}
  /\ UNCHANGED <<runner, s, calls, taps, tapped, receive, sent, skipped, begun>>

----------------------------------------------------------------------------
Init ==
  /\ cancelled = FALSE /\ sup = [at |-> "start", then |-> "pause"]
  /\ n = 0 /\ s = OldSession
  /\ calls = [c \in AllCalls |-> NoCall]
  /\ current = 0 /\ avail = "none"
  /\ taps = <<>> /\ tapped = FALSE /\ receive = "look"
  /\ waiting = {} /\ sent = {} /\ begun = 0 /\ skipped = {}
  /\ budget \in Budgets

Supervises ==
  StartSession \/ Greeted \/ Announce \/ Up \/ Stopped \/ Kill \/ AnnounceOff

Calls(c) == Register(c) \/ Write(c) \/ GetsReply(c) \/ SeesExit(c) \/ TimesOut(c) \/ IsCancelled(c)

Receives == ReceiveLooks \/ ReceiveWakes \/ ReceiveEnds

Program ==
  \/ Handle \/ Written \/ Ending \/ Ended \/ Dies \/ ClosesStdin
  \/ \E r \in s.doing : Answer(r)
  \/ \E tap \in waiting : SendTap(tap)

Next ==
  \/ Supervises \/ Pause \/ Cancel \/ Read \/ Exit \/ Receives \/ ReceiveTimer
  \/ Program \/ Press
  \/ \E c \in Callers : Begin(c)
  \/ \E c \in AllCalls : Calls(c)

Spec == Init /\ [][Next]_vars

(* Goroutines go on, the grace of stop is a while and so is a call's timeout;*)
(* a cancelled pause ends.  The program and ReceiveWait promise nothing.     *)
Fairness ==
  /\ WF_vars(Supervises) /\ WF_vars(Pause)
  /\ WF_vars(Read) /\ WF_vars(Exit) /\ WF_vars(Receives)
  /\ \A c \in AllCalls : WF_vars(Calls(c))

FairSpec == Spec /\ Fairness

----------------------------------------------------------------------------
(* Properties.                                                             *)

(* Each variable holds what the code keeps in it.                          *)
TypeOK ==
  /\ cancelled \in BOOLEAN
  /\ sup \in [at : {"start", "hello", "announce", "up", "stop", "off", "quit", "pause", "done"},
              then : {"pause", "done", "look", "quit", "off"}]
  /\ n \in Nat /\ s \in Session /\ current \in {0, n}
  /\ calls \in [AllCalls -> Call]
  /\ avail \in {"none", "ready", "off"}
  /\ taps \in Seq(Nat) /\ tapped \in BOOLEAN /\ receive \in {"look", "wait", "ended"}
  /\ waiting \subseteq Nat /\ sent \subseteq waiting /\ skipped \subseteq waiting
  /\ begun \in Nat /\ IsABag(budget)

(* A call is answered by what the program did for it: never by the late      *)
(* answer to one that timed out, nor by one of an earlier session, nor is it *)
(* refused because hello's reply is still being written (call, handle, ready).*)
AnswersOwn ==
  \A c \in AllCalls : calls[c].reply # NoLine =>
    calls[c].reply.of = calls[c].of /\ calls[c].reply.what # "refused"

(* A program is started, and Close returns, only once the one before it has   *)
(* exited (runOnce, stop, supervise).                                        *)
OneProgram == sup.at \in {"start", "off", "quit", "pause", "done"} => s.exited

(* No tap comes up before hello's reply, where the reader would throw it      *)
(* away: hello's goroutine writes the reply before the taps are received      *)
(* (do, write, handle).                                                      *)
NoTapSkipped == skipped = {}

(* What the service hears of the handler, and when its calls are answered,   *)
(* is what TwoWayMessages assumes: HandlerChannel.                          *)
Alive == Running /\ ~ s.deaf

Channel == INSTANCE HandlerChannel WITH
  handler <- IF current = 0 THEN (IF avail = "ready" THEN "lost" ELSE "down")
             ELSE IF avail = "ready" THEN (IF Alive THEN "up" ELSE "lost")
             ELSE IF Alive THEN "opened" ELSE "died"

Implements == Channel!Spec

(* Nothing waits for ever on a program that hangs, dies or no longer reads.  *)
(* Every call returns, and one to a program that has exited does not wait    *)
(* for its deadline.  Close returns, and the program has exited by then.  A  *)
(* tap waits in the queue while no session is current, and Receive is woken  *)
(* for it then, without its timer.                                         *)
NothingHangs ==
  /\ \A c \in AllCalls : []<> (calls[c].at \in {"idle", "ended"})
  /\ []<> (cancelled => sup.at = "done" /\ s.exited /\ receive = "ended")
  /\ []<> (taps = <<>> \/ current = 0 \/ cancelled)
==========================================================================
