-------------------------- MODULE ServerClients --------------------------
(***************************************************************************)
(* The backend's socket server (internal/server), the mirror its clients   *)
(* keep of its state (internal/client) and the exit of a backend nobody    *)
(* uses.                                                                   *)
(*                                                                         *)
(* A client dials, says hello and asks for a snapshot, which subscribes    *)
(* its connection to events.  The server answers every request in a        *)
(* goroutine of its own; a change of the monitor's state is broadcast by   *)
(* the goroutine that made it, as the state it reads afterwards.  Both     *)
(* write to a connection under Server.mutex, one message at a time, and    *)
(* both may come late.  A step is one section under a mutex, or one        *)
(* message put into or taken from a connection.                            *)
(*                                                                         *)
(* The monitor's state is the number of its changes: a snapshot and an     *)
(* event both say what that was when they were made.  Events are those     *)
(* about one repo.                                                         *)
(***************************************************************************)
EXTENDS Naturals, Sequences, FiniteSets

CONSTANTS
  Clients,      \* front ends: Client objects
  Threads,      \* the monitor's goroutines
  None,         \* no value
  KeepRunning,  \* started at login: no exit when idle
  MaxDials,     \* bound: connections a client makes
  MaxChanges,   \* bound: changes of the monitor's state
  MaxInputs,    \* bound: the other inputs in a behaviour
  Inputs        \* which of those happen

Conns == Clients \X (1..MaxDials)

Of(conn) == conn[1]

VARIABLES
  version,      \* the monitor's state
  merging,      \* Monitor.Merging
  emits,        \* what each of the monitor's goroutines is doing
  phase,        \* the server: serving, or how far Close has come
  served,       \* the serve goroutine of each connection
  subscribers,  \* s.subscribers
  dropping,     \* the subscribers Close took, which it has yet to close
  answers,      \* goroutines answering a request
  vacancy,      \* s.vacantSince, as the number of times the last front end left
  checks,       \* idle checks that are scheduled or running
  idle,         \* s.Idle is closed
  requests,     \* what a connection holds for the server ...
  messages,     \* ... and for the client
  shut,         \* connections the server has closed
  hung,         \* connections the client has closed
  reading,      \* connections with a readLoop
  client,       \* the Client objects
  got,          \* the newest state each connection brought, for the properties only
  left,         \* requests in flight when their client closed its connection, likewise
  dropped,      \* the last subscriber went because a write failed, likewise
  overtaken,    \* clients that an older state may reach after the newest, likewise
  inputs        \* inputs so far, for the bound only

monitor  == <<version, merging, emits>>
sockets  == <<requests, messages, shut, hung>>
idling   == <<vacancy, checks, idle>>
server   == <<phase, served, subscribers, dropping, answers>>
clients  == <<reading, client>>
history  == <<got, left, dropped, overtaken>>
vars     == <<monitor, server, idling, sockets, clients, history, inputs>>

Versions == 0..MaxChanges

(* A client asks twice to connect, and whatever else is put in.             *)
Ids == 1..(2 * MaxDials + MaxInputs)

Ops == {"hello", "snapshot", "other"}

Request == [id : Ids, op : Ops]

Message == [id : Ids, op : Ops, version : Versions \cup {None}]
           \cup [event : Versions]

Answer == [conn : Conns, id : Ids, op : Ops, version : Versions \cup {None},
           at : {"dispatch", "write"}]

Emit == [at : {"idle", "list", "read", "write"}, conns : SUBSET Conns,
         version : Versions \cup {None}]

NoEmit == [at |-> "idle", conns |-> {}, version |-> None]

Replies == [kind : {"hello", "snapshot", "stopped"}, version : Versions \cup {None}]

Stopped == [kind |-> "stopped", version |-> None]

(* at: how far Connect has come.  reply: what came for the request Connect   *)
(* made.  pending: c.pending.  waiting: requests whose caller waits.        *)
Client == [conn : Conns \cup {None}, dials : 0..MaxDials,
           at : {"off", "hello", "snapshot", "on", "crashed"},
           call : Ids \cup {None}, reply : Replies \cup {None},
           mirror : Versions \cup {None}, asked : Nat,
           pending : SUBSET Ids, waiting : SUBSET Ids]

ASSUME ConstantsAssumption ==
  /\ None \notin Nat \cup Conns \cup Replies /\ KeepRunning \in BOOLEAN
  /\ MaxDials \in Nat /\ MaxChanges \in Nat /\ MaxInputs \in Nat

Input(kind) ==
  /\ kind \in Inputs
  /\ inputs < MaxInputs
  /\ inputs' = inputs + 1

Larger(a, b) == IF a > b THEN a ELSE b

----------------------------------------------------------------------------
(* The monitor, of which only this is seen here.                            *)

(* A connection the client no longer has is still read, and holds something. *)
StillRead(c) ==
  \E conn \in reading \ {client[c].conn} : Of(conn) = c /\ messages[conn] # << >>

(* What the client is yet to be told may be older than the monitor's state:  *)
(* an event that is made, a snapshot it has asked for.                      *)
Overtaken(c) ==
  \/ client[c].at = "snapshot"
  \/ \E t \in Threads : emits[t].at = "write" /\ \E conn \in emits[t].conns : Of(conn) = c
  \/ StillRead(c)

Change(t) ==
  /\ emits[t] = NoEmit
  /\ phase # "gone" /\ version < MaxChanges
  /\ version' = version + 1
  /\ emits' = [emits EXCEPT ![t].at = "list"]
  /\ overtaken' = {c \in Clients : Overtaken(c)}
  /\ UNCHANGED <<merging, server, idling, sockets, clients, got, left, dropped,
                 inputs>>

MergeBegins ==
  /\ Input("merge") /\ ~ merging /\ phase # "gone"
  /\ merging' = TRUE
  /\ UNCHANGED <<version, emits, server, idling, sockets, clients, history>>

MergeEnds ==
  /\ merging
  /\ merging' = FALSE
  /\ UNCHANGED <<version, emits, server, idling, sockets, clients, history, inputs>>

----------------------------------------------------------------------------
(* Server.write, under the mutex.  It fails on a connection either side has *)
(* closed, and on one whose client does not read in time; the connection is *)
(* then closed and no longer subscribed, and that is all.                   *)

Sent(conn, message) ==
  /\ conn \notin shut \cup hung
  /\ messages' = [messages EXCEPT ![conn] = Append(@, message)]
  /\ UNCHANGED <<shut, subscribers, dropped, inputs>>

NotSent(conn) ==
  /\ \/ conn \in shut \cup hung /\ UNCHANGED inputs
     \/ messages[conn] # << >> /\ Input("write times out")
  /\ subscribers' = subscribers \ {conn}
  /\ shut' = shut \cup {conn}
  /\ dropped' = IF subscribers = {conn} THEN TRUE ELSE dropped
  /\ UNCHANGED messages

Write(conn, message) == Sent(conn, message) \/ NotSent(conn)

(* Server.broadcast, of a goroutine that changed the state.                 *)

(* A mutant of ListSubscribers: those yet to be sent their snapshot get none. *)
ListFollowers(t) ==
  /\ emits[t].at = "list"
  /\ LET following == {conn \in subscribers :
                         ~ \E a \in answers : a.conn = conn /\ a.op = "snapshot"}
     IN emits' = [emits EXCEPT ![t] = IF following = {} THEN NoEmit
                                      ELSE [@ EXCEPT !.at = "read", !.conns = following]]
  /\ UNCHANGED <<version, merging, server, idling, sockets, clients, history, inputs>>

ListSubscribers(t) ==
  /\ emits[t].at = "list"
  /\ emits' = [emits EXCEPT ![t] = IF subscribers = {} THEN NoEmit
                                   ELSE [@ EXCEPT !.at = "read", !.conns = subscribers]]
  /\ UNCHANGED <<version, merging, server, idling, sockets, clients, history, inputs>>

ReadState(t) ==
  /\ emits[t].at = "read"
  /\ emits' = [emits EXCEPT ![t].at = "write", ![t].version = version]
  /\ UNCHANGED <<version, merging, server, idling, sockets, clients, history, inputs>>

WriteEvent(t, conn) ==
  /\ emits[t].at = "write" /\ conn \in emits[t].conns
  /\ Write(conn, [event |-> emits[t].version])
  /\ LET rest == emits[t].conns \ {conn}
     IN emits' = [emits EXCEPT ![t] = IF rest = {} THEN NoEmit ELSE [@ EXCEPT !.conns = rest]]
  /\ UNCHANGED <<version, merging, phase, served, dropping, answers, idling, requests,
                 hung, clients, got, left, overtaken>>

----------------------------------------------------------------------------
(* Server.serve and the answers it starts.                                  *)

Scan(conn) ==
  /\ served[conn] = "open" /\ requests[conn] # << >>
  /\ LET request == Head(requests[conn])
     IN answers' = answers \cup {[conn |-> conn, id |-> request.id, op |-> request.op,
                                  version |-> None, at |-> "dispatch"]}
  /\ requests' = [requests EXCEPT ![conn] = Tail(@)]
  /\ UNCHANGED <<monitor, phase, served, subscribers, dropping, idling, messages, shut,
                 hung, clients, history, inputs>>

Subscribed(a) == IF a.op = "snapshot" /\ phase = "serving"
                 THEN subscribers \cup {a.conn} ELSE subscribers

(* A snapshot is taken with the connection subscribed, both under the mutex, *)
(* and written under it later.                                             *)
Dispatch(a) ==
  /\ a \in answers /\ a.at = "dispatch"
  /\ subscribers' = Subscribed(a)
  /\ answers' = (answers \ {a}) \cup
       {[a EXCEPT !.at = "write", !.version = IF a.op = "snapshot" THEN version ELSE None]}
  /\ UNCHANGED <<monitor, phase, served, dropping, idling, sockets, clients, history, inputs>>

WriteAnswer(a) ==
  /\ a \in answers /\ a.at = "write"
  /\ Write(a.conn, [id |-> a.id, op |-> a.op, version |-> a.version])
  /\ answers' = answers \ {a}
  /\ UNCHANGED <<monitor, phase, served, dropping, idling, requests, hung, clients,
                 got, left, overtaken>>

(* The scanner ends when either side has closed the connection, which lines  *)
(* it has read already may delay, or at a malformed request.  When the last *)
(* front end leaves, an idle check is scheduled.                           *)
ScanEnds(conn) ==
  /\ served[conn] = "open"
  /\ \/ conn \in shut \cup hung /\ UNCHANGED inputs
     \/ requests[conn] # << >> /\ Input("malformed")
  /\ LET vacated == subscribers = {conn}
     IN /\ served' = [served EXCEPT ![conn] = IF vacated THEN "vacated" ELSE "left"]
        /\ vacancy' = IF vacated THEN vacancy + 1 ELSE vacancy
        /\ dropped' = IF vacated THEN FALSE ELSE dropped
  /\ subscribers' = subscribers \ {conn}
  /\ UNCHANGED <<monitor, phase, dropping, answers, checks, idle, sockets, clients,
                 got, left, overtaken>>

ServeEnds(conn) ==
  /\ served[conn] \in {"left", "vacated"}
  /\ served' = [served EXCEPT ![conn] = "ended"]
  /\ shut' = shut \cup {conn}
  /\ requests' = [requests EXCEPT ![conn] = << >>]
  /\ checks' = IF served[conn] = "vacated" /\ ~ KeepRunning
               THEN checks \cup {[of |-> vacancy, at |-> "timer"]} ELSE checks
  /\ UNCHANGED <<monitor, phase, subscribers, dropping, answers, vacancy, idle,
                 messages, hung, clients, history, inputs>>

----------------------------------------------------------------------------
(* Server.checkIdleIn.  A check that was scheduled when the last front end    *)
(* left this time finds that IdleExit ago; an older one may not.            *)

Look(k) ==
  /\ k \in checks /\ k.at = "timer"
  /\ checks' = checks \ {k}
  /\ UNCHANGED <<vacancy, idle>>

LookVacant(k) ==
  /\ k \in checks /\ k.at = "timer"
  /\ subscribers = {} /\ phase = "serving"
  /\ checks' = (checks \ {k}) \cup {[of |-> vacancy, at |-> "merging?"]}
  /\ UNCHANGED <<vacancy, idle>>

CheckVacant(k) ==
  /\ \/ Look(k) /\ ~ (subscribers = {} /\ phase = "serving" /\ k.of = vacancy)
     \/ LookVacant(k)
  /\ UNCHANGED <<monitor, server, sockets, clients, history, inputs>>

(* A mutant of CheckMerging: a merge ends the check for good.               *)
CheckMergingOnce(k) ==
  /\ k \in checks /\ k.at = "merging?"
  /\ checks' = checks \ {k}
  /\ idle' = IF merging THEN idle ELSE TRUE
  /\ UNCHANGED <<monitor, server, vacancy, sockets, clients, history, inputs>>

CheckMerging(k) ==
  /\ k \in checks /\ k.at = "merging?"
  /\ checks' = (checks \ {k}) \cup (IF merging THEN {[k EXCEPT !.at = "timer"]} ELSE {})
  /\ idle' = IF merging THEN idle ELSE TRUE
  /\ UNCHANGED <<monitor, server, vacancy, sockets, clients, history, inputs>>

----------------------------------------------------------------------------
(* Server.Close, when the backend is idle, asked to stop or signalled.      *)

Close ==
  /\ phase = "serving"
  /\ \/ idle /\ UNCHANGED inputs
     \/ Input("stop")
  /\ phase' = "closing"
  /\ dropping' = subscribers
  /\ subscribers' = {}
  /\ UNCHANGED <<monitor, served, answers, idling, sockets, clients, history>>

(* A mutant of CloseConns: those that subscribed are left open.             *)
CloseConnsNone ==
  /\ phase = "closing"
  /\ phase' = "waiting"
  /\ UNCHANGED <<monitor, served, subscribers, dropping, answers, idling, sockets, clients,
                 history, inputs>>

CloseConns ==
  /\ phase = "closing"
  /\ phase' = "waiting"
  /\ shut' = shut \cup dropping
  /\ dropping' = {}
  /\ UNCHANGED <<monitor, served, subscribers, answers, idling, requests, messages, hung,
                 clients, history, inputs>>

(* What is left when the process is gone.                                   *)
Gone ==
  /\ phase' = "gone"
  /\ served' = [conn \in Conns |-> IF served[conn] = "none" THEN "none" ELSE "ended"]
  /\ shut' = shut \cup {conn \in Conns : served[conn] # "none"}
  /\ subscribers' = {} /\ dropping' = {} /\ answers' = {} /\ checks' = {}
  /\ emits' = [t \in Threads |-> NoEmit] /\ merging' = FALSE
  /\ UNCHANGED <<version, vacancy, idle, requests, messages, hung, clients, history>>

(* Close waits for every serve goroutine, and the process ends soon after.  *)
Exit ==
  /\ phase = "waiting"
  /\ \A conn \in Conns : served[conn] \in {"none", "ended"}
  /\ Gone
  /\ UNCHANGED inputs

Crash ==
  /\ phase # "gone" /\ Input("crash")
  /\ Gone

----------------------------------------------------------------------------
(* Client.                                                                 *)

(* Client.request on a connection, by the goroutine that connects or by     *)
(* another.  The write may fail, and then the caller hears at once.         *)
Asked(j, id, op) ==
  LET written == IF j.conn \in shut THEN {} ELSE {id}
  IN [j EXCEPT !.asked = id,
               !.pending = @ \cup written,
               !.waiting = @ \cup written,
               !.call = IF op = "other" THEN @ ELSE id,
               !.reply = IF op = "other" THEN @
                         ELSE IF j.conn \in shut THEN Stopped ELSE None]

Ask(c, op, j) ==
  LET id == j.asked + 1
  IN /\ requests' = IF j.conn \in shut THEN requests
                    ELSE [requests EXCEPT ![j.conn] = Append(@, [id |-> id, op |-> op])]
     /\ client' = [client EXCEPT ![c] = Asked(j, id, op)]

Connect(c) ==
  /\ client[c].at = "off" /\ client[c].conn = None
  /\ client[c].dials < MaxDials
  /\ phase \in {"serving", "closing"}
  /\ LET n == client[c].dials + 1
     IN /\ Ask(c, "hello", [client[c] EXCEPT !.conn = <<c, n>>, !.dials = n, !.at = "hello"])
        /\ served' = [served EXCEPT ![<<c, n>>] = "open"]
        /\ reading' = reading \cup {<<c, n>>}
  /\ overtaken' = IF StillRead(c) THEN overtaken \cup {c} ELSE overtaken
  /\ UNCHANGED <<monitor, phase, subscribers, dropping, answers, idling, messages, shut,
                 hung, got, left, dropped, inputs>>

(* Client.Close, of a connection that may have requests in flight.          *)
Hangup(c, j) ==
  /\ hung' = IF client[c].conn = None THEN hung ELSE hung \cup {client[c].conn}
  /\ left' = IF client[c].conn = None THEN left
             ELSE [left EXCEPT ![c] = @ \cup client[c].pending]
  /\ client' = [client EXCEPT ![c] = [j EXCEPT !.conn = None]]

(* What Connect does with the answer to its request, which may have come     *)
(* although another goroutine has closed the connection since.              *)
Connecting(c) ==
  /\ client[c].reply # None
  /\ LET reply == client[c].reply
         j == [client[c] EXCEPT !.reply = None, !.call = None]
     IN \/ /\ reply.kind = "stopped" \/ (reply.kind = "hello" /\ j.conn = None)
           /\ Hangup(c, [j EXCEPT !.at = "off"])
           /\ UNCHANGED <<requests, inputs>>
        \/ /\ reply.kind = "hello" /\ j.conn # None /\ Input("mismatch")
           /\ Hangup(c, [j EXCEPT !.at = "off"])
           /\ UNCHANGED requests
        \/ /\ reply.kind = "hello" /\ j.conn # None
           /\ Ask(c, "snapshot", [j EXCEPT !.at = "snapshot"])
           /\ UNCHANGED <<hung, left, inputs>>
        \/ /\ reply.kind = "snapshot"
           /\ client' = [client EXCEPT ![c] =
                [j EXCEPT !.mirror = reply.version, !.at = IF j.conn = None THEN "off" ELSE "on"]]
           /\ UNCHANGED <<requests, hung, left, inputs>>
  /\ UNCHANGED <<monitor, server, idling, messages, shut, reading, got, dropped, overtaken>>

Send(c) ==
  /\ client[c].conn # None /\ Input("ask")
  /\ Ask(c, "other", client[c])
  /\ UNCHANGED <<monitor, server, idling, messages, shut, hung, reading, history>>

(* The client's process ends, with what it waited for.                      *)
ProcessEnds(c, at) ==
  LET own == {conn \in Conns : Of(conn) = c /\ conn[2] <= client[c].dials}
  IN /\ client' = [client EXCEPT ![c] = [@ EXCEPT !.at = at, !.conn = None, !.mirror = None,
                     !.call = None, !.reply = None, !.pending = {}, !.waiting = {}]]
     /\ reading' = reading \ own
     /\ hung' = hung \cup own
     /\ messages' = [conn \in Conns |-> IF conn \in own THEN << >> ELSE messages[conn]]
     /\ got' = [conn \in Conns |-> IF conn \in own THEN 0 ELSE got[conn]]

(* The user closes the front end, and may open it again.                    *)
Quit(c) ==
  /\ client[c].conn # None /\ Input("quit")
  /\ ProcessEnds(c, "off")
  /\ UNCHANGED <<monitor, server, idling, requests, shut, left, dropped, overtaken>>

(* Client.readLoop.  It goes on with the lines it has read when the client   *)
(* closes the connection.                                                  *)

Take(conn) ==
  /\ conn \in reading /\ messages[conn] # << >>
  /\ messages' = [messages EXCEPT ![conn] = Tail(@)]

IsEvent(message) == "event" \in DOMAIN message

ReadResponse(conn) ==
  LET c == Of(conn)
      m == Head(messages[conn])
      called == m.id = client[c].call
  IN /\ Take(conn) /\ ~ IsEvent(m)
     /\ IF m.id \in client[c].pending
        THEN client' = [client EXCEPT ![c].pending = @ \ {m.id}, ![c].waiting = @ \ {m.id},
                          ![c].reply = IF called THEN [kind |-> m.op, version |-> m.version]
                                       ELSE @]
        ELSE UNCHANGED client
     /\ got' = IF m.op = "snapshot" THEN [got EXCEPT ![conn] = Larger(@, m.version)] ELSE got
     /\ UNCHANGED <<monitor, server, idling, requests, shut, hung, reading, left, dropped,
                    overtaken, inputs>>

(* applyEvent                                                              *)
ReadEvent(conn) ==
  LET c == Of(conn)
      m == Head(messages[conn])
  IN /\ Take(conn) /\ IsEvent(m)
     /\ client[c].mirror # None
     /\ client' = [client EXCEPT ![c].mirror = m.event]
     /\ got' = [got EXCEPT ![conn] = Larger(@, m.event)]
     /\ UNCHANGED <<monitor, server, idling, requests, shut, hung, reading, left, dropped,
                    overtaken, inputs>>

(* A client without a snapshot has no map to put the repo into, and panics.  *)
Panic(conn) ==
  LET c == Of(conn)
  IN /\ conn \in reading /\ messages[conn] # << >> /\ IsEvent(Head(messages[conn]))
     /\ client[c].mirror = None
     /\ ProcessEnds(c, "crashed")
     /\ UNCHANGED <<monitor, server, idling, requests, shut, left, dropped, overtaken, inputs>>

(* A mutant of Dropped: requests in flight are left waiting.                *)
DroppedWaiting(c) ==
  [client[c] EXCEPT !.conn = None, !.pending = {},
                    !.at = IF @ = "on" THEN "off" ELSE @]

(* dropConnection, of the connection the client has.                        *)
Dropped(c) ==
  LET j == client[c]
  IN [j EXCEPT !.conn = None, !.pending = {}, !.waiting = @ \ j.pending,
               !.reply = IF j.call \in j.pending THEN Stopped ELSE @,
               !.at = IF @ = "on" THEN "off" ELSE @]

ReadEnds(conn) ==
  LET c == Of(conn)
  IN /\ conn \in reading
     /\ conn \in hung \/ (conn \in shut /\ messages[conn] = << >>)
     /\ reading' = reading \ {conn}
     /\ messages' = [messages EXCEPT ![conn] = << >>]
     /\ got' = [got EXCEPT ![conn] = 0]
     /\ client' = IF client[c].conn = conn THEN [client EXCEPT ![c] = Dropped(c)] ELSE client
     /\ UNCHANGED <<monitor, server, idling, requests, shut, hung, left, dropped,
                    overtaken, inputs>>

----------------------------------------------------------------------------
Init ==
  /\ version = 0 /\ merging = FALSE /\ emits = [t \in Threads |-> NoEmit]
  /\ phase = "serving" /\ served = [conn \in Conns |-> "none"]
  /\ subscribers = {} /\ dropping = {} /\ answers = {}
  /\ vacancy = 0 /\ idle = FALSE
  /\ checks = IF KeepRunning THEN {} ELSE {[of |-> 0, at |-> "timer"]}
  /\ requests = [conn \in Conns |-> << >>] /\ messages = requests
  /\ shut = {} /\ hung = {} /\ reading = {}
  /\ client = [c \in Clients |->
       [conn |-> None, dials |-> 0, at |-> "off", call |-> None, reply |-> None,
        mirror |-> None, asked |-> 0, pending |-> {}, waiting |-> {}]]
  /\ got = [conn \in Conns |-> 0] /\ left = [c \in Clients |-> {}] /\ dropped = FALSE
  /\ overtaken = {}
  /\ inputs = 0

Emits(t) == ListSubscribers(t) \/ ReadState(t) \/ \E conn \in Conns : WriteEvent(t, conn)

Answers(conn) == \E a \in answers : a.conn = conn /\ (Dispatch(a) \/ WriteAnswer(a))

ReadLoop(conn) ==
  ReadResponse(conn) \/ ReadEvent(conn) \/ Panic(conn) \/ ReadEnds(conn)

CheckIdle == \E k \in checks : CheckVacant(k) \/ CheckMerging(k)

Next ==
  \/ \E t \in Threads : Change(t) \/ Emits(t)
  \/ MergeBegins \/ MergeEnds
  \/ \E conn \in Conns : Scan(conn) \/ ScanEnds(conn) \/ ServeEnds(conn)
  \/ \E conn \in Conns : Answers(conn) \/ ReadLoop(conn)
  \/ CheckIdle
  \/ Close \/ CloseConns \/ Exit \/ Crash
  \/ \E c \in Clients : Connect(c) \/ Connecting(c) \/ Send(c) \/ Quit(c)

Spec == Init /\ [][Next]_vars

(* What goes on by itself; nobody need dial, ask, change anything or stop    *)
(* the backend.                                                            *)
Goes(conn) ==
  \/ Scan(conn) \/ (ScanEnds(conn) /\ conn \in shut \cup hung) \/ ServeEnds(conn)
  \/ Answers(conn) \/ ReadLoop(conn)

Work ==
  \/ \E t \in Threads : Emits(t)
  \/ \E conn \in Conns : Goes(conn)
  \/ (Close /\ idle) \/ CloseConns \/ Exit
  \/ \E c \in Clients : Connecting(c)

(* Goroutines run as long as any can.  That each of them runs, as the Go     *)
(* scheduler sees to, is more than is needed: all but the idle check end.   *)
Fairness == WF_vars(Work) /\ WF_vars(CheckIdle) /\ WF_vars(MergeEnds)

FairSpec == Spec /\ Fairness

----------------------------------------------------------------------------
TypeOK ==
  /\ version \in Versions /\ merging \in BOOLEAN /\ emits \in [Threads -> Emit]
  /\ phase \in {"serving", "closing", "waiting", "gone"}
  /\ served \in [Conns -> {"none", "open", "left", "vacated", "ended"}]
  /\ subscribers \subseteq Conns /\ dropping \subseteq Conns
  /\ answers \subseteq Answer
  /\ vacancy \in Nat /\ idle \in BOOLEAN
  /\ \A k \in checks : k.of \in 0..vacancy /\ k.at \in {"timer", "merging?"}
  /\ \A conn \in Conns : requests[conn] \in Seq(Request) /\ messages[conn] \in Seq(Message)
  /\ shut \subseteq Conns /\ hung \subseteq Conns /\ reading \subseteq Conns
  /\ client \in [Clients -> Client]
  /\ got \in [Conns -> Versions] /\ left \in [Clients -> SUBSET Ids] /\ dropped \in BOOLEAN
  /\ overtaken \subseteq Clients
  /\ inputs \in 0..MaxInputs

(* Whoever follows the backend is brought its newest state, again and again: *)
(* a change made while it subscribed, or while older changes are on their   *)
(* way, is in the snapshot or in an event that is not skipped, unless the   *)
(* connection ends.  Its mirror then shows that state, unless an older one   *)
(* was on its way when the newest change was made: a snapshot is written    *)
(* some time after it was taken, and an event after it was made, and what   *)
(* comes last stays.                                                       *)
NoEventLost ==
  []<> \A conn \in subscribers \cap reading :
         /\ got[conn] = version
         /\ Of(conn) \notin overtaken => client[Of(conn)].mirror = version

(* A request ends: with its answer, or when the connection drops, however    *)
(* these cross.  Only a client that closes the connection itself leaves     *)
(* those in flight.                                                        *)
RequestsAnswered ==
  []<> \A c \in Clients : client[c].waiting \subseteq left[c]

(* A backend nobody uses exits: unless the last front end to go was one that *)
(* stopped reading, and once merges have ended.                            *)
IdleExits ==
  ~ KeepRunning => []<> ~ (phase = "serving" /\ subscribers = {} /\ ~ merging /\ ~ dropped)

(* A backend that is stopping waits for connections that never subscribed,   *)
(* until their clients close them, and for nothing else.                    *)
StopEnds ==
  []<> \/ phase \in {"serving", "gone"}
       \/ \E conn \in Conns : /\ served[conn] = "open"
                              /\ conn \notin subscribers \cup dropping \cup shut \cup hung
==========================================================================
