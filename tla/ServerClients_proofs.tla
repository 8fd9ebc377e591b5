----------------------- MODULE ServerClients_proofs -----------------------
(***************************************************************************)
(* What the liveness of the server and its clients rests on, for any       *)
(* clients, connections, goroutines and bounds.  TLC checks that the       *)
(* newest state is brought, requests are answered and an unused backend    *)
(* exits; here it is proved that at no step any of them is out of reach:   *)
(* the newest state is with whoever follows or on its way (NewestOnItsWay), *)
(* and is what the mirror comes to show unless the client was overtaken     *)
(* (MirrorSettles); an answer that is waited for is under way or its        *)
(* connection has ended (AnswerUnderWay); and an unused backend has a check *)
(* to come (ExitUnderWay).                                                 *)
(*                                                                         *)
(* The rest of the invariant says what these need: which connections there *)
(* are (ServedOK, ConnOK), that versions are of the past (VersionsOK), and  *)
(* that an answer is to what was asked (CallsOK, KnownOK), which bounds how *)
(* often a client asks (AskedOK).                                          *)
(***************************************************************************)
EXTENDS ServerClients, TLAPS

----------------------------------------------------------------------------
(* What a sequence holds.                                                  *)
Held(s) == {s[i] : i \in 1..Len(s)}

(* What a message says of the monitor's state.                             *)
Brings(m, v) == IF IsEvent(m) THEN m.event = v ELSE m.op = "snapshot" /\ m.version = v

(* The newest state is with the connection, in a message, in a snapshot or   *)
(* event yet to be written, or in the hands of a goroutine yet to read it.  *)
Newest(conn) ==
  \/ got[conn] = version
  \/ \E m \in Held(messages[conn]) : Brings(m, version)
  \/ \E a \in answers : /\ a.conn = conn /\ a.op = "snapshot"
                        /\ a.at = "write" /\ a.version = version
  \/ \E t \in Threads : \/ emits[t].at = "list"
                        \/ emits[t].at = "read" /\ conn \in emits[t].conns
                        \/ /\ emits[t].at = "write" /\ conn \in emits[t].conns
                           /\ emits[t].version = version

(* Whoever follows the backend misses nothing: what changed last is with the *)
(* client or on its way to it, however broadcasts and snapshots overlap.    *)
NewestOnItsWay == \A conn \in subscribers \cap reading : Newest(conn)

(* The request, or the answer to it, is on the connection or in the server.  *)
OnTheWay(conn, id) ==
  \/ \E m \in Held(requests[conn]) : m.id = id
  \/ \E a \in answers : a.conn = conn /\ a.id = id
  \/ \E m \in Held(messages[conn]) : ~ IsEvent(m) /\ m.id = id

(* A caller that waits has its request under way on a connection that is     *)
(* read, or one that was closed, whose end the reader will see.  Those that  *)
(* their own client left in flight are left.                               *)
AnswerUnderWay ==
  \A c \in Clients : \A id \in client[c].waiting \ left[c] :
    LET conn == client[c].conn
    IN /\ conn # None /\ conn \in reading
       /\ conn \in shut \cup hung \/ OnTheWay(conn, id)

(* A backend nobody uses is told to exit, or the last front end's goroutine  *)
(* has yet to schedule a check, or a check of this time is to come.         *)
ExitUnderWay ==
  ~ KeepRunning /\ phase = "serving" /\ subscribers = {} /\ ~ dropped =>
    \/ idle
    \/ \E conn \in Conns : served[conn] = "vacated"
    \/ \E k \in checks : k.of = vacancy

----------------------------------------------------------------------------
(* The invariant.                                                          *)

Shapes ==
  /\ TypeOK
  /\ requests \in [Conns -> Seq(Request)] /\ messages \in [Conns -> Seq(Message)]
  /\ checks \subseteq [of : Nat, at : {"timer", "merging?"}]

(* A client asks twice a dial, and once for each other input.               *)
AskedOK ==
  \A c \in Clients :
    client[c].asked + (IF client[c].at = "hello" THEN 1 ELSE 0) <= 2 * client[c].dials + inputs

(* What Connect waits for is what it asked.                                 *)
CallsOK ==
  \A c \in Clients :
    /\ client[c].call # None =>
         client[c].at \in {"hello", "snapshot"} /\ client[c].call <= client[c].asked
    /\ client[c].reply # None /\ client[c].reply.kind # "stopped" =>
         client[c].reply.kind = client[c].at

(* The client's connection is its own, and is read.                         *)
ConnOK ==
  \A c \in Clients :
    client[c].conn # None =>
      /\ client[c].conn \in reading
      /\ Of(client[c].conn) = c /\ client[c].conn[2] <= client[c].dials

(* What is asked or answered was asked by the client, as m.op.              *)
Known(conn, m) ==
  /\ m.id <= client[Of(conn)].asked
  /\ m.id = client[Of(conn)].call => m.op = client[Of(conn)].at

KnownOK ==
  /\ \A conn \in Conns :
       /\ \A m \in Held(requests[conn]) : Known(conn, m)
       /\ \A m \in Held(messages[conn]) : IsEvent(m) \/ Known(conn, m)
  /\ \A a \in answers : Known(a.conn, a)

(* A state that was read is one the monitor had.                            *)
VersionsOK ==
  /\ \A conn \in Conns :
       /\ got[conn] <= version
       /\ \A m \in Held(messages[conn]) :
            IF IsEvent(m) THEN m.event \in 0..version
            ELSE m.op = "snapshot" => m.version \in 0..version
  /\ \A a \in answers : a.at = "write" /\ a.op = "snapshot" => a.version \in 0..version
  /\ \A t \in Threads : emits[t].at = "write" => emits[t].version \in 0..version

(* The connections that were dialled, and those that subscribed.            *)
ServedOK ==
  /\ \A conn \in Conns : served[conn] # "none" <=> conn[2] <= client[Of(conn)].dials
  /\ \A conn \in subscribers : served[conn] # "none"
  /\ \A a \in answers : served[a.conn] # "none"

(* A caller that waits is one of pending, unless its client hung up.        *)
WaitingOK == \A c \in Clients : client[c].waiting \subseteq client[c].pending \cup left[c]

IInv ==
  /\ Shapes /\ AskedOK /\ CallsOK /\ ConnOK /\ KnownOK /\ VersionsOK /\ ServedOK /\ WaitingOK
  /\ NewestOnItsWay /\ AnswerUnderWay /\ ExitUnderWay

----------------------------------------------------------------------------
(* Sequences.                                                              *)

LEMMA HeldAppend ==
  ASSUME NEW S, NEW s \in Seq(S), NEW x
  PROVE  Held(Append(s, x)) = Held(s) \cup {x}
<1>1. Len(s) \in Nat /\ Len(Append(s, x)) = Len(s) + 1
  OBVIOUS
<1>2. /\ \A i \in 1..Len(s) : Append(s, x)[i] = s[i]
      /\ Append(s, x)[Len(s) + 1] = x
  OBVIOUS
<1>3. 1..(Len(s) + 1) = (1..Len(s)) \cup {Len(s) + 1}
  BY <1>1
<1> QED
  BY <1>1, <1>2, <1>3 DEF Held

LEMMA HeldTail ==
  ASSUME NEW S, NEW s \in Seq(S), s # << >>
  PROVE  /\ Head(s) \in S /\ Tail(s) \in Seq(S)
         /\ Held(s) = {Head(s)} \cup Held(Tail(s))
<1>1. Len(s) \in Nat /\ Len(s) >= 1 /\ Head(s) = s[1] /\ Head(s) \in S
  OBVIOUS
<1>2. Tail(s) \in Seq(S) /\ Len(Tail(s)) = Len(s) - 1
  OBVIOUS
<1>3. \A i \in 1..(Len(s) - 1) : Tail(s)[i] = s[i + 1]
  OBVIOUS
<1>4. ASSUME NEW i \in 1..Len(s)
      PROVE  s[i] \in {Head(s)} \cup Held(Tail(s))
  <2>1. CASE i = 1
    BY <1>1, <2>1
  <2>2. CASE i # 1
    <3>1. i - 1 \in 1..(Len(s) - 1) /\ (i - 1) + 1 = i
      BY <1>1, <2>2
    <3>2. Tail(s)[i - 1] = s[i]
      BY <1>3, <3>1
    <3> QED
      BY <1>2, <3>1, <3>2 DEF Held
  <2> QED
    BY <2>1, <2>2
<1>5. ASSUME NEW i \in 1..Len(Tail(s))
      PROVE  Tail(s)[i] \in Held(s)
  <2>1. i + 1 \in 1..Len(s) /\ Tail(s)[i] = s[i + 1]
    BY <1>1, <1>2, <1>3
  <2> QED
    BY <2>1 DEF Held
<1>6. Head(s) \in Held(s)
  BY <1>1 DEF Held
<1> QED
  BY <1>1, <1>2, <1>4, <1>5, <1>6 DEF Held

LEMMA HeldNone == Held(<< >>) = {}
BY DEF Held

LEMMA HeldOf ==
  ASSUME NEW S, NEW s \in Seq(S)
  PROVE  \A x \in Held(s) : x \in S
BY DEF Held

----------------------------------------------------------------------------
(* What several steps have in common.                                      *)

LEMMA NoneApart ==
  /\ None \notin Nat /\ None \notin Conns /\ None \notin Replies
  /\ MaxDials \in Nat /\ MaxChanges \in Nat /\ MaxInputs \in Nat
BY ConstantsAssumption

LEMMA InputCounted ==
  ASSUME TypeOK, (\E kind : Input(kind)) \/ UNCHANGED inputs
  PROVE  inputs' \in 0..MaxInputs /\ inputs' >= inputs /\ inputs \in 0..MaxInputs
BY NoneApart DEF TypeOK, Input

(* The server's steps leave the clients alone.                             *)
LEMMA ClientsKept ==
  ASSUME IInv, UNCHANGED <<clients, left>>, (\E kind : Input(kind)) \/ UNCHANGED inputs
  PROVE  /\ inputs' \in 0..MaxInputs
         /\ AskedOK' /\ CallsOK' /\ ConnOK' /\ WaitingOK'
<1>1. inputs' \in 0..MaxInputs /\ inputs' >= inputs /\ inputs \in Nat /\ inputs' \in Nat
  BY InputCounted DEF IInv, Shapes
<1>2. client' = client /\ reading' = reading /\ left' = left
  BY DEF clients
<1>3. AskedOK'
  <2> SUFFICES ASSUME NEW c \in Clients
               PROVE  client[c].asked + (IF client[c].at = "hello" THEN 1 ELSE 0)
                        <= 2 * client[c].dials + inputs'
    BY <1>2 DEF AskedOK
  <2>1. client[c].asked + (IF client[c].at = "hello" THEN 1 ELSE 0) <= 2 * client[c].dials + inputs
    BY DEF IInv, AskedOK
  <2>2. client[c].asked \in Nat /\ client[c].dials \in Nat
    BY DEF IInv, Shapes, TypeOK, Client
  <2> QED
    BY <1>1, <2>1, <2>2
<1>4. CallsOK'
  BY <1>2 DEF IInv, CallsOK
<1>5. ConnOK'
  BY <1>2 DEF IInv, ConnOK
<1>6. WaitingOK'
  BY <1>2 DEF IInv, WaitingOK
<1> QED
  BY <1>1, <1>3, <1>4, <1>5, <1>6

(* What was asked stays asked, whatever else the server does.               *)
LEMMA KnownKept ==
  ASSUME IInv, UNCHANGED <<client, requests, messages>>,
         \A a \in answers' : \E b \in answers : a.conn = b.conn /\ a.id = b.id /\ a.op = b.op
  PROVE  KnownOK'
<1>1. \A conn, m : Known(conn, m) => Known(conn, m)'
  BY DEF Known, Of
<1>2. \A conn \in Conns : /\ \A m \in Held(requests'[conn]) : Known(conn, m)'
                          /\ \A m \in Held(messages'[conn]) : IsEvent(m) \/ Known(conn, m)'
  BY <1>1 DEF IInv, KnownOK
<1>3. ASSUME NEW a \in answers'
      PROVE  Known(a.conn, a)'
  <2>1. PICK b \in answers : a.conn = b.conn /\ a.id = b.id /\ a.op = b.op
    BY <1>3
  <2>2. Known(b.conn, b)
    BY DEF IInv, KnownOK
  <2> QED
    BY <2>1, <2>2 DEF Known, Of
<1>4. \A conn \in Conns : Held(requests'[conn]) = Held(requests[conn])' /\ Held(messages'[conn]) = Held(messages[conn])'
  BY DEF Held
<1> QED
  BY <1>2, <1>3, <1>4 DEF KnownOK, IsEvent

(* What is under way stays so while clients stand still, if what is on a     *)
(* connection in use stays on the way.                                     *)
LEMMA UnderWayKept ==
  ASSUME IInv, UNCHANGED <<clients, left>>, shut \subseteq shut', hung \subseteq hung',
         \A conn \in Conns : \A id : OnTheWay(conn, id) => conn \in shut' \cup hung' \/ OnTheWay(conn, id)'
  PROVE  AnswerUnderWay'
<1>1. client' = client /\ reading' = reading /\ left' = left
  BY DEF clients
<1>2. ASSUME NEW c \in Clients, NEW id \in client[c].waiting \ left[c], NEW conn, conn = client[c].conn
      PROVE  conn # None /\ conn \in reading /\ (conn \in shut' \cup hung' \/ OnTheWay(conn, id)')
  <2>1. /\ conn # None /\ conn \in reading
        /\ conn \in shut \cup hung \/ OnTheWay(conn, id)
    BY <1>2 DEF IInv, AnswerUnderWay
  <2>2. conn \in Conns
    BY <2>1 DEF IInv, Shapes, TypeOK
  <2> QED
    BY <2>1, <2>2
<1> QED
  BY <1>1, <1>2 DEF AnswerUnderWay

LEMMA SameWay ==
  ASSUME UNCHANGED <<requests, messages, answers>>
  PROVE  \A conn, id : OnTheWay(conn, id) => OnTheWay(conn, id)'
BY DEF OnTheWay, IsEvent, Held

(* The clients' steps leave the exit alone.                                *)
LEMMA ExitKept ==
  ASSUME IInv, UNCHANGED <<server, idling, dropped>>
  PROVE  ExitUnderWay'
BY DEF IInv, ExitUnderWay, server, idling

LEMMA NewestSame ==
  ASSUME IInv, UNCHANGED <<messages, got>>, version' = version,
         subscribers' \subseteq subscribers, reading' \subseteq reading,
         \A conn \in Conns :
           \A a \in answers : a.conn = conn /\ a.at = "write" => a \in answers',
         \A t \in Threads : emits'[t] = emits[t]
  PROVE  NewestOnItsWay'
<1> SUFFICES ASSUME NEW conn \in subscribers', conn \in reading'
             PROVE  Newest(conn)'
  BY DEF NewestOnItsWay
<1>1. conn \in Conns /\ Newest(conn)
  BY DEF IInv, NewestOnItsWay, Shapes, TypeOK
<1>2. CASE got[conn] = version
  BY <1>2 DEF Newest
<1>3. CASE \E m \in Held(messages[conn]) : Brings(m, version)
  BY <1>3 DEF Newest, Brings, IsEvent, Held
<1>4. CASE \E a \in answers : /\ a.conn = conn /\ a.op = "snapshot"
                              /\ a.at = "write" /\ a.version = version
  BY <1>1, <1>4 DEF Newest
<1>5. CASE \E t \in Threads : \/ emits[t].at = "list"
                              \/ emits[t].at = "read" /\ conn \in emits[t].conns
                              \/ /\ emits[t].at = "write" /\ conn \in emits[t].conns
                                 /\ emits[t].version = version
  BY <1>5 DEF Newest
<1> QED
  BY <1>1, <1>2, <1>3, <1>4, <1>5 DEF Newest


----------------------------------------------------------------------------
(* The monitor.                                                            *)

LEMMA ChangeInv ==
  ASSUME IInv, NEW t \in Threads, Change(t)
  PROVE  IInv'
<1>0. /\ version' = version + 1 /\ version \in Versions /\ version + 1 \in Versions
      /\ emits' = [emits EXCEPT ![t].at = "list"]
      /\ overtaken' \subseteq Clients
      /\ UNCHANGED <<merging, server, idling, sockets, clients, got, left, dropped, inputs>>
  BY NoneApart DEF Change, IInv, Shapes, TypeOK, Versions
<1>1. emits \in [Threads -> Emit] /\ emits' \in [Threads -> Emit] /\ emits'[t].at = "list"
  <2>1. emits \in [Threads -> Emit]
    BY DEF IInv, Shapes, TypeOK
  <2>2. emits[t] \in Emit
    BY <2>1
  <2>3. PICK next : next = [emits[t] EXCEPT !.at = "list"]
    OBVIOUS
  <2>4. next \in Emit /\ next.at = "list"
    BY <2>2, <2>3 DEF Emit
  <2>5. emits' = [emits EXCEPT ![t] = next]
    BY <1>0, <2>3
  <2> QED
    BY <2>1, <2>4, <2>5
<1>2. Shapes'
  BY <1>0, <1>1 DEF IInv, Shapes, TypeOK, server, idling, sockets, clients
<1>3. AskedOK' /\ CallsOK' /\ ConnOK' /\ WaitingOK'
  BY <1>0, ClientsKept
<1>4. KnownOK'
  BY <1>0, KnownKept DEF clients, sockets, server
<1>5. VersionsOK'
  <2>1. \A n \in Nat : n <= version => n <= version'
    BY <1>0 DEF Versions
  <2>2. 0..version \subseteq 0..version'
    BY <1>0 DEF Versions
  <2>3. \A conn \in Conns : got[conn] \in Nat
    BY DEF IInv, Shapes, TypeOK, Versions
  <2>4. \A conn \in Conns :
          /\ got[conn] <= version'
          /\ \A m \in Held(messages[conn]) :
               IF IsEvent(m) THEN m.event \in 0..version'
               ELSE m.op = "snapshot" => m.version \in 0..version'
    BY <2>1, <2>2, <2>3 DEF IInv, VersionsOK
  <2>5. \A a \in answers : a.at = "write" /\ a.op = "snapshot" => a.version \in 0..version'
    BY <2>2 DEF IInv, VersionsOK
  <2>6. \A u \in Threads : emits'[u].at = "write" => emits'[u].version \in 0..version'
    BY <1>0, <1>1, <2>2 DEF IInv, VersionsOK
  <2> QED
    BY <1>0, <2>4, <2>5, <2>6 DEF VersionsOK, IsEvent, Held, sockets, server
<1>6. ServedOK'
  BY <1>0 DEF IInv, ServedOK, Of, server, clients
<1>7. NewestOnItsWay'
  BY <1>1 DEF NewestOnItsWay, Newest
<1>8. AnswerUnderWay'
  BY <1>0, SameWay, UnderWayKept DEF sockets, server
<1>9. ExitUnderWay'
  BY <1>0, ExitKept
<1> QED
  BY <1>2, <1>3, <1>4, <1>5, <1>6, <1>7, <1>8, <1>9 DEF IInv

(* Steps that touch nothing but the merge and what is counted.              *)
LEMMA MergeInv ==
  ASSUME IInv, MergeBegins \/ MergeEnds
  PROVE  IInv'
<1>0. /\ merging' \in BOOLEAN
      /\ UNCHANGED <<version, emits, server, idling, sockets, clients, history>>
      /\ (\E kind : Input(kind)) \/ UNCHANGED inputs
  BY DEF MergeBegins, MergeEnds
<1>3. inputs' \in 0..MaxInputs /\ AskedOK' /\ CallsOK' /\ ConnOK' /\ WaitingOK'
  BY <1>0, ClientsKept DEF history
<1>2. Shapes'
  BY <1>0, <1>3 DEF IInv, Shapes, TypeOK, server, idling, sockets, clients, history
<1>4. KnownOK'
  BY <1>0, KnownKept DEF clients, sockets, server
<1>5. VersionsOK'
  BY <1>0 DEF IInv, VersionsOK, IsEvent, Held, sockets, server, history
<1>6. ServedOK'
  BY <1>0 DEF IInv, ServedOK, Of, server, clients
<1>7. NewestOnItsWay'
  BY <1>0, NewestSame DEF sockets, server, clients, history
<1>8. AnswerUnderWay'
  BY <1>0, SameWay, UnderWayKept DEF sockets, server, history
<1>9. ExitUnderWay'
  BY <1>0, ExitKept DEF history
<1> QED
  BY <1>2, <1>3, <1>4, <1>5, <1>6, <1>7, <1>8, <1>9 DEF IInv

(* A broadcast goes on: what matters of it is NewestOnItsWay.               *)
LEMMA EmitsGoOn ==
  ASSUME IInv, UNCHANGED <<version, merging, server, idling, sockets, clients, history, inputs>>,
         emits' \in [Threads -> Emit],
         \A u \in Threads : emits'[u].at = "write" => emits'[u].version \in 0..version,
         \A conn \in subscribers : Newest(conn) => Newest(conn)'
  PROVE  IInv'
<1>2. Shapes'
  BY DEF IInv, Shapes, TypeOK, server, idling, sockets, clients, history
<1>3. AskedOK' /\ CallsOK' /\ ConnOK' /\ WaitingOK'
  BY ClientsKept DEF history
<1>4. KnownOK'
  BY KnownKept DEF clients, sockets, server
<1>5. VersionsOK'
  BY DEF IInv, VersionsOK, IsEvent, Held, sockets, server, history
<1>6. ServedOK'
  BY DEF IInv, ServedOK, Of, server, clients
<1>7. NewestOnItsWay'
  BY DEF IInv, NewestOnItsWay, server, clients
<1>8. AnswerUnderWay'
  BY SameWay, UnderWayKept DEF sockets, server, history
<1>9. ExitUnderWay'
  BY ExitKept DEF history
<1> QED
  BY <1>2, <1>3, <1>4, <1>5, <1>6, <1>7, <1>8, <1>9 DEF IInv

LEMMA NoEmitTyped == NoEmit \in Emit
BY DEF NoEmit, Emit

LEMMA ListSubscribersInv ==
  ASSUME IInv, NEW t \in Threads, ListSubscribers(t)
  PROVE  IInv'
<1>1. PICK e : e = IF subscribers = {} THEN NoEmit
                   ELSE [emits[t] EXCEPT !.at = "read", !.conns = subscribers]
  OBVIOUS
<1>2. /\ emits[t].at = "list" /\ emits' = [emits EXCEPT ![t] = e]
      /\ UNCHANGED <<version, merging, server, idling, sockets, clients, history, inputs>>
  BY <1>1 DEF ListSubscribers
<1>3. emits \in [Threads -> Emit] /\ subscribers \subseteq Conns
  BY DEF IInv, Shapes, TypeOK
<1>4. e \in Emit /\ e.at # "write"
  BY <1>1, <1>3, NoEmitTyped DEF Emit, NoEmit
<1>5. emits' \in [Threads -> Emit]
  BY <1>2, <1>3, <1>4
<1>6. \A u \in Threads : emits'[u].at = "write" => emits'[u].version \in 0..version
  BY <1>2, <1>3, <1>4 DEF IInv, VersionsOK
<1>7. ASSUME NEW conn \in subscribers
      PROVE  Newest(conn)'
  <2>1. e.at = "read" /\ conn \in e.conns
    BY <1>1, <1>3 DEF Emit
  <2>2. emits'[t] = e
    BY <1>2, <1>3
  <2> QED
    BY <2>1, <2>2 DEF Newest
<1> QED
  BY <1>2, <1>5, <1>6, <1>7, EmitsGoOn

LEMMA ReadStateInv ==
  ASSUME IInv, NEW t \in Threads, ReadState(t)
  PROVE  IInv'
<1>1. PICK e : e = [emits[t] EXCEPT !.at = "write", !.version = version]
  OBVIOUS
<1>3. emits \in [Threads -> Emit] /\ version \in Versions /\ version \in 0..version
  BY DEF IInv, Shapes, TypeOK, Versions
<1>2. /\ emits[t].at = "read" /\ emits' = [emits EXCEPT ![t] = e]
      /\ UNCHANGED <<version, merging, server, idling, sockets, clients, history, inputs>>
  BY <1>1, <1>3 DEF ReadState, Emit
<1>4. e \in Emit /\ e.at = "write" /\ e.version = version /\ e.conns = emits[t].conns
  BY <1>1, <1>3 DEF Emit
<1>5. emits' \in [Threads -> Emit]
  BY <1>2, <1>3, <1>4
<1>6. \A u \in Threads : emits'[u].at = "write" => emits'[u].version \in 0..version
  BY <1>2, <1>3, <1>4 DEF IInv, VersionsOK
<1>7. ASSUME NEW conn \in subscribers, Newest(conn)
      PROVE  Newest(conn)'
  <2>1. emits'[t] = e /\ \A u \in Threads : u # t => emits'[u] = emits[u]
    BY <1>2, <1>3
  <2>2. UNCHANGED <<got, messages, answers, version>>
    BY <1>2 DEF sockets, server, history
  <2> QED
    BY <1>2, <1>4, <1>7, <2>1, <2>2 DEF Newest, Brings, IsEvent, Held
<1> QED
  BY <1>2, <1>5, <1>6, <1>7, EmitsGoOn

----------------------------------------------------------------------------
(* The server.                                                             *)

(* Server.write: the message is on the connection, or the connection is     *)
(* closed, and no longer subscribed.                                       *)
LEMMA Written ==
  ASSUME IInv, NEW conn \in Conns, NEW m \in Message, Write(conn, m)
  PROVE  /\ messages' \in [Conns -> Seq(Message)]
         /\ \A d \in Conns : Held(messages[d]) \subseteq Held(messages'[d])
         /\ \A d \in Conns : \A x \in Held(messages'[d]) : x \in Held(messages[d]) \/ (d = conn /\ x = m)
         /\ m \in Held(messages'[conn]) \/ (conn \in shut' /\ conn \notin subscribers')
         /\ shut \subseteq shut' /\ shut' \subseteq Conns
         /\ subscribers' \subseteq subscribers
         /\ dropped' \in BOOLEAN
         /\ subscribers' = {} /\ ~ dropped' => subscribers = {} /\ ~ dropped
         /\ (\E kind : Input(kind)) \/ UNCHANGED inputs
<1>0. /\ messages \in [Conns -> Seq(Message)] /\ shut \subseteq Conns /\ subscribers \subseteq Conns
      /\ dropped \in BOOLEAN
  BY DEF IInv, Shapes, TypeOK
<1>1. CASE Sent(conn, m)
  <2>1. messages' = [messages EXCEPT ![conn] = Append(messages[conn], m)]
    BY <1>1 DEF Sent
  <2>2. Held(messages'[conn]) = Held(messages[conn]) \cup {m} /\ Append(messages[conn], m) \in Seq(Message)
    BY <1>0, <2>1, HeldAppend
  <2>3. \A d \in Conns : d # conn => messages'[d] = messages[d]
    BY <1>0, <2>1
  <2>4. messages' \in [Conns -> Seq(Message)]
    BY <1>0, <2>1, <2>2
  <2>5. UNCHANGED <<shut, subscribers, dropped, inputs>>
    BY <1>1 DEF Sent
  <2> QED
    BY <1>0, <2>2, <2>3, <2>4, <2>5
<1>2. CASE NotSent(conn)
  <2>1. /\ messages' = messages /\ shut' = shut \cup {conn} /\ subscribers' = subscribers \ {conn}
        /\ dropped' = IF subscribers = {conn} THEN TRUE ELSE dropped
        /\ (\E kind : Input(kind)) \/ UNCHANGED inputs
    BY <1>2 DEF NotSent
  <2>2. subscribers' = {} /\ ~ dropped' => subscribers = {} /\ ~ dropped
    BY <2>1
  <2> QED
    BY <1>0, <2>1, <2>2
<1> QED
  BY <1>1, <1>2 DEF Write

(* A message that was written keeps Newest of every other connection, and of *)
(* its own.                                                                *)
LEMMA WriteEventInv ==
  ASSUME IInv, NEW t \in Threads, NEW conn \in Conns, WriteEvent(t, conn)
  PROVE  IInv'
<1>1. PICK e : e = IF emits[t].conns \ {conn} = {} THEN NoEmit
                   ELSE [emits[t] EXCEPT !.conns = emits[t].conns \ {conn}]
  OBVIOUS
<1>2. PICK m : m = [event |-> emits[t].version]
  OBVIOUS
<1>3. /\ emits[t].at = "write" /\ conn \in emits[t].conns
      /\ Write(conn, m) /\ emits' = [emits EXCEPT ![t] = e]
      /\ UNCHANGED <<version, merging, phase, served, dropping, answers, idling, requests,
                     hung, clients, got, left,
                     overtaken>>
  BY <1>1, <1>2 DEF WriteEvent
<1>4. /\ emits \in [Threads -> Emit] /\ version \in Versions
      /\ emits[t].version \in 0..version
  BY <1>3 DEF IInv, Shapes, TypeOK, VersionsOK
<1>5. m \in Message /\ IsEvent(m) /\ m.event = emits[t].version
  <2>1. emits[t].version \in Versions
    BY <1>4, NoneApart DEF Versions
  <2> QED
    BY <1>2, <2>1 DEF Message, IsEvent
<1>6. /\ e \in Emit /\ \A d \in emits[t].conns : d # conn => d \in e.conns
      /\ e.at = "write" => e.version = emits[t].version
      /\ e.at # "write" => emits[t].conns = {conn}
  <2>1. CASE emits[t].conns \ {conn} = {}
    BY <1>1, <1>3, <2>1, NoEmitTyped DEF NoEmit
  <2>2. CASE emits[t].conns \ {conn} # {}
    <3>1. e = [emits[t] EXCEPT !.conns = emits[t].conns \ {conn}]
      BY <1>1, <2>2
    <3> QED
      BY <1>3, <1>4, <3>1 DEF Emit
  <2> QED
    BY <2>1, <2>2
<1>7. /\ messages' \in [Conns -> Seq(Message)]
      /\ \A d \in Conns : Held(messages[d]) \subseteq Held(messages'[d])
      /\ \A d \in Conns : \A x \in Held(messages'[d]) : x \in Held(messages[d]) \/ (d = conn /\ x = m)
      /\ m \in Held(messages'[conn]) \/ (conn \in shut' /\ conn \notin subscribers')
      /\ shut \subseteq shut' /\ shut' \subseteq Conns
      /\ subscribers' \subseteq subscribers
      /\ dropped' \in BOOLEAN
      /\ subscribers' = {} /\ ~ dropped' => subscribers = {} /\ ~ dropped
      /\ (\E kind : Input(kind)) \/ UNCHANGED inputs
  BY <1>3, <1>5, Written
<1>8. inputs' \in 0..MaxInputs /\ AskedOK' /\ CallsOK' /\ ConnOK' /\ WaitingOK'
  BY <1>3, <1>7, ClientsKept
<1>9. Shapes'
  <2>1. emits' \in [Threads -> Emit]
    BY <1>3, <1>4, <1>6
  <2> QED
    BY <1>3, <1>7, <1>8, <2>1 DEF IInv, Shapes, TypeOK, idling, clients
<1>10. KnownOK'
  <2>1. \A d, x : Known(d, x) => Known(d, x)'
    BY <1>3 DEF Known, Of, clients
  <2>2. ASSUME NEW d \in Conns
        PROVE  /\ \A x \in Held(requests'[d]) : Known(d, x)'
               /\ \A x \in Held(messages'[d]) : IsEvent(x) \/ Known(d, x)'
    BY <1>3, <1>5, <1>7, <2>1 DEF IInv, KnownOK
  <2>3. \A a \in answers' : Known(a.conn, a)'
    BY <1>3, <2>1 DEF IInv, KnownOK
  <2> QED
    BY <2>2, <2>3 DEF KnownOK, Held, IsEvent
<1>11. VersionsOK'
  <2>1. ASSUME NEW d \in Conns
        PROVE  \A x \in Held(messages'[d]) :
                 IF IsEvent(x) THEN x.event \in 0..version
                 ELSE x.op = "snapshot" => x.version \in 0..version
    BY <1>4, <1>5, <1>7 DEF IInv, VersionsOK
  <2>2. \A u \in Threads : emits'[u].at = "write" => emits'[u].version \in 0..version
    BY <1>3, <1>4, <1>6 DEF IInv, VersionsOK
  <2> QED
    BY <1>3, <2>1, <2>2 DEF IInv, VersionsOK, Held, IsEvent
<1>12. ServedOK'
  BY <1>3, <1>7 DEF IInv, ServedOK, Of, clients
<1>13. ASSUME NEW d \in subscribers', d \in reading'
       PROVE  Newest(d)'
  <2>0. d \in Conns /\ Newest(d) /\ d \in subscribers
    BY <1>3, <1>7, <1>13 DEF IInv, NewestOnItsWay, Shapes, TypeOK, clients
  <2>1. CASE got[d] = version
    BY <1>3, <2>1 DEF Newest
  <2>2. CASE \E x \in Held(messages[d]) : Brings(x, version)
    BY <1>3, <1>7, <2>0, <2>2 DEF Newest, Brings, IsEvent, Held
  <2>3. CASE \E a \in answers : /\ a.conn = d /\ a.op = "snapshot"
                                /\ a.at = "write" /\ a.version = version
    BY <1>3, <2>3 DEF Newest
  <2>4. CASE \E u \in Threads : \/ emits[u].at = "list"
                                \/ emits[u].at = "read" /\ d \in emits[u].conns
                                \/ /\ emits[u].at = "write" /\ d \in emits[u].conns
                                   /\ emits[u].version = version
    <3>1. PICK u \in Threads : \/ emits[u].at = "list"
                               \/ emits[u].at = "read" /\ d \in emits[u].conns
                               \/ /\ emits[u].at = "write" /\ d \in emits[u].conns
                                  /\ emits[u].version = version
      BY <2>4
    <3>2. CASE u # t
      <4>1. emits'[u] = emits[u]
        BY <1>3, <1>4, <3>2
      <4> QED
        BY <1>3, <3>1, <4>1 DEF Newest
    <3>3. CASE u = t /\ d # conn
      <4>1. e.at = "write" /\ d \in e.conns /\ e.version = version /\ emits'[t] = e
        BY <1>3, <1>4, <1>6, <3>1, <3>3
      <4> QED
        BY <1>3, <4>1 DEF Newest
    <3>4. CASE u = t /\ d = conn
      <4>1. m \in Held(messages'[d]) /\ m.event = version
        BY <1>3, <1>5, <1>7, <1>13, <3>1, <3>4
      <4>2. Brings(m, version)
        BY <1>5, <4>1 DEF Brings
      <4> QED
        BY <1>3, <4>1, <4>2 DEF Newest, Brings, IsEvent, Held
    <3> QED
      BY <3>2, <3>3, <3>4
  <2> QED
    BY <2>0, <2>1, <2>2, <2>3, <2>4 DEF Newest
<1>14. NewestOnItsWay'
  BY <1>13 DEF NewestOnItsWay
<1>15. AnswerUnderWay'
  <2>1. ASSUME NEW d \in Conns, NEW id, OnTheWay(d, id)
        PROVE  OnTheWay(d, id)'
    BY <1>3, <1>7, <2>1 DEF OnTheWay, IsEvent, Held
  <2> QED
    BY <1>3, <1>7, <2>1, UnderWayKept
<1>16. ExitUnderWay'
  BY <1>3, <1>7 DEF IInv, ExitUnderWay, idling
<1> QED
  BY <1>8, <1>9, <1>10, <1>11, <1>12, <1>14, <1>15, <1>16 DEF IInv

(* What a step of the server keeps on its way to a connection.              *)
LEMMA NewestGoesOn ==
  ASSUME NEW conn \in Conns, Newest(conn), version' = version, got'[conn] = got[conn],
         Held(messages[conn]) \subseteq Held(messages'[conn]),
         \A a \in answers : a.conn = conn /\ a.at = "write" => a \in answers',
         emits' = emits
  PROVE  Newest(conn)'
<1>1. CASE got[conn] = version
  BY <1>1 DEF Newest
<1>2. CASE \E m \in Held(messages[conn]) : Brings(m, version)
  BY <1>2 DEF Newest, Brings, IsEvent, Held
<1>3. CASE \E a \in answers : /\ a.conn = conn /\ a.op = "snapshot"
                              /\ a.at = "write" /\ a.version = version
  BY <1>3 DEF Newest
<1>4. CASE \E t \in Threads : \/ emits[t].at = "list"
                              \/ emits[t].at = "read" /\ conn \in emits[t].conns
                              \/ /\ emits[t].at = "write" /\ conn \in emits[t].conns
                                 /\ emits[t].version = version
  BY <1>4 DEF Newest
<1> QED
  BY <1>1, <1>2, <1>3, <1>4 DEF Newest

LEMMA ScanInv ==
  ASSUME IInv, NEW conn \in Conns, Scan(conn)
  PROVE  IInv'
<1>1. PICK request : request = Head(requests[conn])
  OBVIOUS
<1>2. PICK a : a = [conn |-> conn, id |-> request.id, op |-> request.op,
                    version |-> None, at |-> "dispatch"]
  OBVIOUS
<1>3. /\ served[conn] = "open" /\ requests[conn] # << >>
      /\ answers' = answers \cup {a}
      /\ requests' = [requests EXCEPT ![conn] = Tail(requests[conn])]
      /\ UNCHANGED <<monitor, phase, served, subscribers, dropping, idling, messages, shut,
                     hung, clients, history, inputs>>
  BY <1>1, <1>2 DEF Scan
<1>4. requests \in [Conns -> Seq(Request)] /\ requests[conn] \in Seq(Request)
  BY DEF IInv, Shapes
<1>5. /\ request \in Request /\ Tail(requests[conn]) \in Seq(Request)
      /\ Held(requests[conn]) = {request} \cup Held(Tail(requests[conn]))
  BY <1>1, <1>3, <1>4, HeldTail
<1>6. /\ a \in Answer /\ a.conn = conn /\ a.id = request.id /\ a.op = request.op
      /\ a.at = "dispatch"
  BY <1>2, <1>5 DEF Answer, Request
<1>7. /\ requests' \in [Conns -> Seq(Request)]
      /\ requests'[conn] = Tail(requests[conn])
      /\ \A d \in Conns : d # conn => requests'[d] = requests[d]
  BY <1>3, <1>4, <1>5
<1>8. AskedOK' /\ CallsOK' /\ ConnOK' /\ WaitingOK'
  BY <1>3, ClientsKept DEF history
<1>9. Shapes'
  <2>1. answers' \subseteq Answer
    BY <1>3, <1>6 DEF IInv, Shapes, TypeOK
  <2> QED
    BY <1>3, <1>7, <2>1 DEF IInv, Shapes, TypeOK, monitor, idling, clients, history
<1>10. KnownOK'
  <2>1. \A d, x : Known(d, x) => Known(d, x)'
    BY <1>3 DEF Known, Of, clients
  <2>2. ASSUME NEW d \in Conns
        PROVE  /\ \A x \in Held(requests'[d]) : Known(d, x)'
               /\ \A x \in Held(messages'[d]) : IsEvent(x) \/ Known(d, x)'
    <3>1. Held(requests'[d]) \subseteq Held(requests[d])
      BY <1>5, <1>7
    <3>2. messages' = messages
      BY <1>3
    <3> QED
      BY <2>1, <3>1, <3>2 DEF IInv, KnownOK
  <2>3. ASSUME NEW b \in answers'
        PROVE  Known(b.conn, b)'
    <3>1. CASE b \in answers
      BY <2>1, <3>1 DEF IInv, KnownOK
    <3>2. CASE b = a
      <4>1. Known(conn, request)
        BY <1>5 DEF IInv, KnownOK
      <4>2. Known(conn, request)'
        BY <2>1, <4>1
      <4> QED
        BY <1>6, <3>2, <4>2 DEF Known
    <3> QED
      BY <1>3, <3>1, <3>2
  <2> QED
    BY <2>2, <2>3 DEF KnownOK, Held, IsEvent
<1>11. VersionsOK'
  <2>1. \A b \in answers' : b.at = "write" /\ b.op = "snapshot" => b.version \in 0..version
    BY <1>3, <1>6 DEF IInv, VersionsOK
  <2> QED
    BY <1>3, <2>1 DEF IInv, VersionsOK, Held, IsEvent, monitor, history
<1>12. ServedOK'
  BY <1>3, <1>6 DEF IInv, ServedOK, Of, clients
<1>13. ASSUME NEW d \in subscribers', d \in reading'
       PROVE  Newest(d)'
  <2>1. d \in Conns /\ Newest(d)
    BY <1>3, <1>13 DEF IInv, NewestOnItsWay, Shapes, TypeOK, clients
  <2> QED
    BY <1>3, <2>1, NewestGoesOn DEF monitor, history
<1>14. NewestOnItsWay'
  BY <1>13 DEF NewestOnItsWay
<1>15. AnswerUnderWay'
  <2>1. ASSUME NEW d \in Conns, NEW id, OnTheWay(d, id)
        PROVE  OnTheWay(d, id)'
    <3>1. CASE \E m \in Held(requests[d]) : m.id = id
      <4>1. PICK m \in Held(requests[d]) : m.id = id
        BY <3>1
      <4>2. CASE m \in Held(requests'[d])
        BY <4>1, <4>2 DEF OnTheWay, Held
      <4>3. CASE m \notin Held(requests'[d])
        <5>1. d = conn /\ m = request
          BY <1>5, <1>7, <4>1, <4>3
        <5> QED
          BY <1>3, <1>6, <4>1, <5>1 DEF OnTheWay
      <4> QED
        BY <4>2, <4>3
    <3>2. CASE \E b \in answers : b.conn = d /\ b.id = id
      BY <1>3, <3>2 DEF OnTheWay
    <3>3. CASE \E m \in Held(messages[d]) : ~ IsEvent(m) /\ m.id = id
      BY <1>3, <3>3 DEF OnTheWay, IsEvent, Held
    <3> QED
      BY <2>1, <3>1, <3>2, <3>3 DEF OnTheWay
  <2> QED
    BY <1>3, <2>1, UnderWayKept DEF history
<1>16. ExitUnderWay'
  BY <1>3 DEF IInv, ExitUnderWay, idling, history
<1> QED
  BY <1>8, <1>9, <1>10, <1>11, <1>12, <1>14, <1>15, <1>16 DEF IInv

LEMMA DispatchInv ==
  ASSUME IInv, NEW a \in answers, Dispatch(a)
  PROVE  IInv'
<1>0. version \in Versions /\ version \in 0..version /\ a \in Answer
  BY DEF IInv, Shapes, TypeOK, Versions
<1>1. PICK b : b = [a EXCEPT !.at = "write",
                             !.version = IF a.op = "snapshot" THEN version ELSE None]
  OBVIOUS
<1>2. /\ b \in Answer /\ b.conn = a.conn /\ b.id = a.id /\ b.op = a.op /\ b.at = "write"
      /\ a.op = "snapshot" => b.version = version
  BY <1>0, <1>1 DEF Answer
<1>3. /\ a.at = "dispatch" /\ answers' = (answers \ {a}) \cup {b}
      /\ subscribers' = Subscribed(a)
      /\ UNCHANGED <<monitor, phase, served, dropping, idling, sockets, clients, history, inputs>>
  BY <1>1 DEF Dispatch
<1>4. /\ subscribers \subseteq subscribers'
      /\ \A d \in subscribers' : d \in subscribers \/ (d = a.conn /\ a.op = "snapshot")
  BY <1>3 DEF Subscribed
<1>8. AskedOK' /\ CallsOK' /\ ConnOK' /\ WaitingOK'
  BY <1>3, ClientsKept DEF history
<1>9. Shapes'
  <2>1. answers' \subseteq Answer /\ subscribers' \subseteq Conns
    BY <1>0, <1>2, <1>3, <1>4 DEF IInv, Shapes, TypeOK, Answer
  <2> QED
    BY <1>3, <2>1 DEF IInv, Shapes, TypeOK, monitor, idling, sockets, clients, history
<1>10. KnownOK'
  <2>1. \A x \in answers' : \E y \in answers : x.conn = y.conn /\ x.id = y.id /\ x.op = y.op
    BY <1>2, <1>3
  <2> QED
    BY <1>3, <2>1, KnownKept DEF clients, sockets
<1>11. VersionsOK'
  <2>1. \A x \in answers' : x.at = "write" /\ x.op = "snapshot" => x.version \in 0..version
    BY <1>0, <1>2, <1>3 DEF IInv, VersionsOK
  <2> QED
    BY <1>3, <2>1 DEF IInv, VersionsOK, Held, IsEvent, monitor, sockets, history
<1>12. ServedOK'
  <2>1. served[a.conn] # "none" /\ \A x \in answers' : served[x.conn] # "none"
    BY <1>2, <1>3 DEF IInv, ServedOK
  <2> QED
    BY <1>3, <1>4, <2>1 DEF IInv, ServedOK, Of, clients
<1>13. ASSUME NEW d \in subscribers', d \in reading'
       PROVE  Newest(d)'
  <2>1. CASE d \in subscribers
    <3>1. d \in Conns /\ Newest(d)
      BY <1>3, <1>13, <2>1 DEF IInv, NewestOnItsWay, Shapes, TypeOK, clients
    <3>2. \A x \in answers : x.conn = d /\ x.at = "write" => x \in answers'
      BY <1>3
    <3> QED
      BY <1>3, <3>1, <3>2, NewestGoesOn DEF monitor, sockets, history
  <2>2. CASE d \notin subscribers
    <3>1. b \in answers' /\ b.conn = d /\ b.op = "snapshot" /\ b.at = "write" /\ b.version = version'
      BY <1>2, <1>3, <1>4, <1>13, <2>2 DEF monitor
    <3> QED
      BY <3>1 DEF Newest
  <2> QED
    BY <2>1, <2>2
<1>14. NewestOnItsWay'
  BY <1>13 DEF NewestOnItsWay
<1>15. AnswerUnderWay'
  <2>1. ASSUME NEW d \in Conns, NEW id, OnTheWay(d, id)
        PROVE  OnTheWay(d, id)'
    BY <1>2, <1>3, <2>1 DEF OnTheWay, IsEvent, Held, sockets
  <2> QED
    BY <1>3, <2>1, UnderWayKept DEF sockets, history
<1>16. ExitUnderWay'
  BY <1>3, <1>4 DEF IInv, ExitUnderWay, idling, history
<1> QED
  BY <1>8, <1>9, <1>10, <1>11, <1>12, <1>14, <1>15, <1>16 DEF IInv

LEMMA WriteAnswerInv ==
  ASSUME IInv, NEW a \in answers, WriteAnswer(a)
  PROVE  IInv'
<1>1. PICK m : m = [id |-> a.id, op |-> a.op, version |-> a.version]
  OBVIOUS
<1>2. a \in Answer /\ a.conn \in Conns
  BY DEF IInv, Shapes, TypeOK, Answer
<1>3. /\ a.at = "write" /\ Write(a.conn, m) /\ answers' = answers \ {a}
      /\ UNCHANGED <<monitor, phase, served, dropping, idling, requests, hung, clients, got, left,
                     overtaken>>
  BY <1>1 DEF WriteAnswer
<1>5. /\ m \in Message /\ ~ IsEvent(m) /\ m.id = a.id /\ m.op = a.op /\ m.version = a.version
  BY <1>1, <1>2 DEF Message, IsEvent, Answer
<1>6. PICK conn \in Conns : conn = a.conn
  BY <1>2
<1>7. /\ messages' \in [Conns -> Seq(Message)]
      /\ \A d \in Conns : Held(messages[d]) \subseteq Held(messages'[d])
      /\ \A d \in Conns : \A x \in Held(messages'[d]) : x \in Held(messages[d]) \/ (d = conn /\ x = m)
      /\ m \in Held(messages'[conn]) \/ (conn \in shut' /\ conn \notin subscribers')
      /\ shut \subseteq shut' /\ shut' \subseteq Conns
      /\ subscribers' \subseteq subscribers
      /\ dropped' \in BOOLEAN
      /\ subscribers' = {} /\ ~ dropped' => subscribers = {} /\ ~ dropped
      /\ (\E kind : Input(kind)) \/ UNCHANGED inputs
  BY <1>3, <1>5, <1>6, Written
<1>8. inputs' \in 0..MaxInputs /\ AskedOK' /\ CallsOK' /\ ConnOK' /\ WaitingOK'
  BY <1>3, <1>7, ClientsKept
<1>9. Shapes'
  <2>1. answers' \subseteq Answer /\ subscribers' \subseteq Conns
    BY <1>3, <1>7 DEF IInv, Shapes, TypeOK
  <2> QED
    BY <1>3, <1>7, <1>8, <2>1 DEF IInv, Shapes, TypeOK, monitor, idling, clients
<1>10. KnownOK'
  <2>1. \A d, x : Known(d, x) => Known(d, x)'
    BY <1>3 DEF Known, Of, clients
  <2>2. Known(conn, m)
    BY <1>5, <1>6 DEF IInv, KnownOK, Known
  <2>3. ASSUME NEW d \in Conns
        PROVE  /\ \A x \in Held(requests'[d]) : Known(d, x)'
               /\ \A x \in Held(messages'[d]) : IsEvent(x) \/ Known(d, x)'
    BY <1>3, <1>7, <2>1, <2>2 DEF IInv, KnownOK
  <2>4. \A x \in answers' : Known(x.conn, x)'
    BY <1>3, <2>1 DEF IInv, KnownOK
  <2> QED
    BY <2>3, <2>4 DEF KnownOK, Held, IsEvent
<1>11. VersionsOK'
  <2>1. m.op = "snapshot" => m.version \in 0..version
    BY <1>3, <1>5 DEF IInv, VersionsOK
  <2>2. ASSUME NEW d \in Conns
        PROVE  \A x \in Held(messages'[d]) :
                 IF IsEvent(x) THEN x.event \in 0..version
                 ELSE x.op = "snapshot" => x.version \in 0..version
    BY <1>5, <1>7, <2>1 DEF IInv, VersionsOK
  <2>3. \A x \in answers' : x.at = "write" /\ x.op = "snapshot" => x.version \in 0..version
    BY <1>3 DEF IInv, VersionsOK
  <2> QED
    BY <1>3, <2>2, <2>3 DEF IInv, VersionsOK, Held, IsEvent, monitor
<1>12. ServedOK'
  BY <1>3, <1>7 DEF IInv, ServedOK, Of, clients
<1>13. ASSUME NEW d \in subscribers', d \in reading'
       PROVE  Newest(d)'
  <2>0. d \in Conns /\ Newest(d) /\ version' = version /\ got' = got /\ emits' = emits
    BY <1>3, <1>7, <1>13 DEF IInv, NewestOnItsWay, Shapes, TypeOK, clients, monitor
  <2>1. CASE a.conn = d /\ a.op = "snapshot" /\ a.version = version
    <3>1. m \in Held(messages'[d]) /\ Brings(m, version)
      BY <1>5, <1>6, <1>7, <1>13, <2>1 DEF Brings
    <3> QED
      BY <2>0, <3>1 DEF Newest, Brings, IsEvent, Held
  <2>2. CASE ~ (a.conn = d /\ a.op = "snapshot" /\ a.version = version)
    <3>1. CASE got[d] = version
      BY <2>0, <3>1 DEF Newest
    <3>2. CASE \E x \in Held(messages[d]) : Brings(x, version)
      BY <1>7, <2>0, <3>2 DEF Newest, Brings, IsEvent, Held
    <3>3. CASE \E x \in answers : /\ x.conn = d /\ x.op = "snapshot"
                                  /\ x.at = "write" /\ x.version = version
      <4>1. PICK x \in answers : /\ x.conn = d /\ x.op = "snapshot"
                                 /\ x.at = "write" /\ x.version = version
        BY <3>3
      <4>2. x \in answers'
        BY <1>3, <2>2, <4>1
      <4> QED
        BY <2>0, <4>1, <4>2 DEF Newest
    <3>4. CASE \E u \in Threads : \/ emits[u].at = "list"
                                  \/ emits[u].at = "read" /\ d \in emits[u].conns
                                  \/ /\ emits[u].at = "write" /\ d \in emits[u].conns
                                     /\ emits[u].version = version
      BY <2>0, <3>4 DEF Newest
    <3> QED
      BY <2>0, <3>1, <3>2, <3>3, <3>4 DEF Newest
  <2> QED
    BY <2>1, <2>2
<1>14. NewestOnItsWay'
  BY <1>13 DEF NewestOnItsWay
<1>15. AnswerUnderWay'
  <2>1. ASSUME NEW d \in Conns, NEW id, OnTheWay(d, id)
        PROVE  d \in shut' \cup hung' \/ OnTheWay(d, id)'
    <3>1. CASE \E x \in Held(requests[d]) : x.id = id
      BY <1>3, <3>1 DEF OnTheWay, Held
    <3>2. CASE \E x \in answers : x.conn = d /\ x.id = id
      <4>1. PICK x \in answers : x.conn = d /\ x.id = id
        BY <3>2
      <4>2. CASE x # a
        BY <1>3, <4>1, <4>2 DEF OnTheWay
      <4>3. CASE x = a
        BY <1>5, <1>6, <1>7, <4>1, <4>3 DEF OnTheWay, IsEvent, Held
      <4> QED
        BY <4>2, <4>3
    <3>3. CASE \E x \in Held(messages[d]) : ~ IsEvent(x) /\ x.id = id
      BY <1>7, <3>3 DEF OnTheWay, IsEvent, Held
    <3> QED
      BY <2>1, <3>1, <3>2, <3>3 DEF OnTheWay
  <2> QED
    BY <1>3, <1>7, <2>1, UnderWayKept
<1>16. ExitUnderWay'
  BY <1>3, <1>7 DEF IInv, ExitUnderWay, idling
<1> QED
  BY <1>8, <1>9, <1>10, <1>11, <1>12, <1>14, <1>15, <1>16 DEF IInv

LEMMA ScanEndsInv ==
  ASSUME IInv, NEW conn \in Conns, ScanEnds(conn)
  PROVE  IInv'
<1>1. PICK s : s = IF subscribers = {conn} THEN "vacated" ELSE "left"
  OBVIOUS
<1>2. /\ served[conn] = "open"
      /\ (\E kind : Input(kind)) \/ UNCHANGED inputs
      /\ served' = [served EXCEPT ![conn] = s]
      /\ vacancy' = IF subscribers = {conn} THEN vacancy + 1 ELSE vacancy
      /\ dropped' = IF subscribers = {conn} THEN FALSE ELSE dropped
      /\ subscribers' = subscribers \ {conn}
      /\ UNCHANGED <<monitor, phase, dropping, answers, checks, idle, sockets, clients, got, left,
                     overtaken>>
  BY <1>1 DEF ScanEnds
<1>3. /\ served \in [Conns -> {"none", "open", "left", "vacated", "ended"}]
      /\ vacancy \in Nat /\ dropped \in BOOLEAN
  BY DEF IInv, Shapes, TypeOK
<1>4. /\ served'[conn] \in {"vacated", "left"} /\ served' \in [Conns -> {"none", "open", "left", "vacated", "ended"}]
      /\ \A d \in Conns : d # conn => served'[d] = served[d]
      /\ vacancy' \in Nat /\ vacancy' >= vacancy /\ dropped' \in BOOLEAN
  <2>1. s \in {"vacated", "left"}
    BY <1>1
  <2>2. /\ served' \in [Conns -> {"none", "open", "left", "vacated", "ended"}]
        /\ served'[conn] = s /\ \A d \in Conns : d # conn => served'[d] = served[d]
    BY <1>2, <1>3, <2>1
  <2>3. dropped' \in BOOLEAN
    BY <1>2, <1>3, Zenon
  <2>4. vacancy' \in Nat /\ vacancy' >= vacancy
    <3>1. CASE subscribers = {conn}
      BY <1>2, <1>3, <3>1
    <3>2. CASE subscribers # {conn}
      BY <1>2, <1>3, <3>2
    <3> QED
      BY <3>1, <3>2
  <2> QED
    BY <2>1, <2>2, <2>3, <2>4
<1>8. inputs' \in 0..MaxInputs /\ AskedOK' /\ CallsOK' /\ ConnOK' /\ WaitingOK'
  BY <1>2, ClientsKept
<1>9. Shapes'
  <2>1. \A k \in checks' : k.of \in 0..vacancy' /\ k.at \in {"timer", "merging?"}
    <3>1. \A k \in checks : k.of \in 0..vacancy /\ k.at \in {"timer", "merging?"}
      BY DEF IInv, Shapes, TypeOK
    <3>2. 0..vacancy \subseteq 0..vacancy'
      BY <1>3, <1>4
    <3> QED
      BY <1>2, <3>1, <3>2
  <2> QED
    BY <1>2, <1>4, <1>8, <2>1 DEF IInv, Shapes, TypeOK, monitor, sockets, clients
<1>10. KnownOK'
  BY <1>2, KnownKept DEF clients, sockets
<1>11. VersionsOK'
  BY <1>2 DEF IInv, VersionsOK, Held, IsEvent, monitor, sockets
<1>12. ServedOK'
  <2>1. \A d \in Conns : served'[d] = "none" <=> served[d] = "none"
    BY <1>2, <1>4
  <2>2. subscribers \subseteq Conns /\ \A a \in answers : a.conn \in Conns
    BY DEF IInv, Shapes, TypeOK, Answer
  <2>3. \A d \in Conns : served'[d] # "none" <=> d[2] <= client'[Of(d)].dials
    BY <1>2, <2>1 DEF IInv, ServedOK, clients
  <2>4. \A d \in subscribers' : served'[d] # "none"
    BY <1>2, <2>1, <2>2 DEF IInv, ServedOK
  <2>5. \A a \in answers' : served'[a.conn] # "none"
    BY <1>2, <2>1, <2>2 DEF IInv, ServedOK
  <2> QED
    BY <2>3, <2>4, <2>5 DEF ServedOK, Of
<1>14. NewestOnItsWay'
  BY <1>2, NewestSame DEF monitor, sockets, clients
<1>15. AnswerUnderWay'
  BY <1>2, SameWay, UnderWayKept DEF sockets
<1>16. ExitUnderWay'
  <2>1. CASE subscribers = {conn}
    <3>1. served'[conn] = "vacated"
      BY <1>1, <1>2, <1>3, <2>1
    <3> QED
      BY <3>1 DEF ExitUnderWay
  <2>2. CASE subscribers # {conn}
    <3>1. ASSUME ~ KeepRunning, phase = "serving", subscribers \ {conn} = {}, ~ dropped
          PROVE  \/ idle
                 \/ \E d \in Conns : served'[d] = "vacated"
                 \/ \E k \in checks : k.of = vacancy
      <4>1. \/ idle
            \/ \E d \in Conns : served[d] = "vacated"
            \/ \E k \in checks : k.of = vacancy
        BY <2>2, <3>1 DEF IInv, ExitUnderWay
      <4>2. ASSUME NEW d \in Conns, served[d] = "vacated"
            PROVE  served'[d] = "vacated"
        BY <1>2, <1>4, <4>2
      <4> QED
        BY <4>1, <4>2
    <3> QED
      BY <1>2, <2>2, <3>1 DEF ExitUnderWay
  <2> QED
    BY <2>1, <2>2
<1> QED
  BY <1>8, <1>9, <1>10, <1>11, <1>12, <1>14, <1>15, <1>16 DEF IInv

LEMMA ServeEndsInv ==
  ASSUME IInv, NEW conn \in Conns, ServeEnds(conn)
  PROVE  IInv'
<1>2. /\ served[conn] \in {"left", "vacated"}
      /\ served' = [served EXCEPT ![conn] = "ended"]
      /\ shut' = shut \cup {conn}
      /\ requests' = [requests EXCEPT ![conn] = << >>]
      /\ checks' = IF served[conn] = "vacated" /\ ~ KeepRunning
                   THEN checks \cup {[of |-> vacancy, at |-> "timer"]} ELSE checks
      /\ UNCHANGED <<monitor, phase, subscribers, dropping, answers, vacancy, idle,
                     messages, hung, clients, history, inputs>>
  BY DEF ServeEnds
<1>3. /\ served \in [Conns -> {"none", "open", "left", "vacated", "ended"}]
      /\ requests \in [Conns -> Seq(Request)] /\ vacancy \in Nat
      /\ checks \subseteq [of : Nat, at : {"timer", "merging?"}]
      /\ \A k \in checks : k.of \in 0..vacancy /\ k.at \in {"timer", "merging?"}
  BY DEF IInv, Shapes, TypeOK
<1>4. /\ served'[conn] = "ended" /\ served' \in [Conns -> {"none", "open", "left", "vacated", "ended"}]
      /\ \A d \in Conns : d # conn => served'[d] = served[d]
      /\ requests' \in [Conns -> Seq(Request)] /\ requests'[conn] = << >>
      /\ \A d \in Conns : d # conn => requests'[d] = requests[d]
  BY <1>2, <1>3
<1>5. /\ checks' \subseteq [of : Nat, at : {"timer", "merging?"}]
      /\ \A k \in checks' : k.of \in 0..vacancy /\ k.at \in {"timer", "merging?"}
      /\ checks \subseteq checks'
      /\ served[conn] = "vacated" /\ ~ KeepRunning => \E k \in checks' : k.of = vacancy
  <2>1. PICK k : k = [of |-> vacancy, at |-> "timer"]
    OBVIOUS
  <2>2. k \in [of : Nat, at : {"timer", "merging?"}] /\ k.of = vacancy /\ vacancy \in 0..vacancy /\ k.at = "timer"
    BY <1>3, <2>1
  <2>3. /\ (checks' = checks \cup {k} \/ checks' = checks)
        /\ served[conn] = "vacated" /\ ~ KeepRunning => checks' = checks \cup {k}
    BY <1>2, <2>1
  <2> QED
    BY <1>3, <2>2, <2>3
<1>8. AskedOK' /\ CallsOK' /\ ConnOK' /\ WaitingOK'
  BY <1>2, ClientsKept DEF history
<1>9. Shapes'
  BY <1>2, <1>4, <1>5 DEF IInv, Shapes, TypeOK, monitor, clients, history
<1>10. KnownOK'
  <2>1. \A d, x : Known(d, x) => Known(d, x)'
    BY <1>2 DEF Known, Of, clients
  <2>2. ASSUME NEW d \in Conns
        PROVE  Held(requests'[d]) \subseteq Held(requests[d])
    BY <1>4, HeldNone
  <2>3. ASSUME NEW d \in Conns
        PROVE  /\ \A x \in Held(requests'[d]) : Known(d, x)'
               /\ \A x \in Held(messages'[d]) : IsEvent(x) \/ Known(d, x)'
    BY <1>2, <2>1, <2>2 DEF IInv, KnownOK
  <2>4. \A x \in answers' : Known(x.conn, x)'
    BY <1>2, <2>1 DEF IInv, KnownOK
  <2> QED
    BY <2>3, <2>4 DEF KnownOK, Held, IsEvent
<1>11. VersionsOK'
  BY <1>2 DEF IInv, VersionsOK, Held, IsEvent, monitor, history
<1>12. ServedOK'
  <2>1. \A d \in Conns : served'[d] = "none" <=> served[d] = "none"
    BY <1>2, <1>4
  <2>2. subscribers \subseteq Conns /\ \A a \in answers : a.conn \in Conns
    BY DEF IInv, Shapes, TypeOK, Answer
  <2>3. \A d \in Conns : served'[d] # "none" <=> d[2] <= client'[Of(d)].dials
    BY <1>2, <2>1 DEF IInv, ServedOK, clients
  <2>4. \A d \in subscribers' : served'[d] # "none"
    BY <1>2, <2>1, <2>2 DEF IInv, ServedOK
  <2>5. \A a \in answers' : served'[a.conn] # "none"
    BY <1>2, <2>1, <2>2 DEF IInv, ServedOK
  <2> QED
    BY <2>3, <2>4, <2>5 DEF ServedOK, Of
<1>14. NewestOnItsWay'
  BY <1>2, NewestSame DEF monitor, clients, history
<1>15. AnswerUnderWay'
  <2>1. ASSUME NEW d \in Conns, NEW id, OnTheWay(d, id)
        PROVE  d \in shut' \cup hung' \/ OnTheWay(d, id)'
    <3>1. CASE d = conn
      BY <1>2, <3>1
    <3>2. CASE d # conn
      BY <1>2, <1>4, <2>1, <3>2 DEF OnTheWay, IsEvent, Held
    <3> QED
      BY <3>1, <3>2
  <2> QED
    BY <1>2, <2>1, UnderWayKept DEF history
<1>16. ExitUnderWay'
  <2>1. ASSUME ~ KeepRunning, phase = "serving", subscribers = {}, ~ dropped
        PROVE  \/ idle
               \/ \E d \in Conns : served'[d] = "vacated"
               \/ \E k \in checks' : k.of = vacancy
    <3>1. \/ idle
          \/ \E d \in Conns : served[d] = "vacated"
          \/ \E k \in checks : k.of = vacancy
      BY <2>1 DEF IInv, ExitUnderWay
    <3>2. ASSUME NEW d \in Conns, served[d] = "vacated"
          PROVE  served'[d] = "vacated" \/ \E k \in checks' : k.of = vacancy
      BY <1>4, <1>5, <2>1, <3>2
    <3> QED
      BY <1>5, <3>1, <3>2
  <2> QED
    BY <1>2, <2>1 DEF ExitUnderWay, history
<1> QED
  BY <1>8, <1>9, <1>10, <1>11, <1>12, <1>14, <1>15, <1>16 DEF IInv

----------------------------------------------------------------------------
(* The exit.                                                               *)

(* An idle check goes on: what matters of it is ExitUnderWay.               *)
LEMMA ChecksGoOn ==
  ASSUME IInv, UNCHANGED <<monitor, server, vacancy, sockets, clients, history, inputs>>,
         checks' \subseteq [of : Nat, at : {"timer", "merging?"}],
         \A k \in checks' : k.of \in 0..vacancy, idle' \in BOOLEAN,
         ~ KeepRunning /\ phase = "serving" /\ subscribers = {} /\ ~ dropped =>
           \/ idle'
           \/ \E conn \in Conns : served[conn] = "vacated"
           \/ \E k \in checks' : k.of = vacancy
  PROVE  IInv'
<1>2. Shapes'
  BY DEF IInv, Shapes, TypeOK, monitor, server, sockets, clients, history
<1>3. AskedOK' /\ CallsOK' /\ ConnOK' /\ WaitingOK'
  BY ClientsKept DEF history
<1>4. KnownOK'
  BY KnownKept DEF clients, sockets, server
<1>5. VersionsOK'
  BY DEF IInv, VersionsOK, IsEvent, Held, monitor, sockets, server, history
<1>6. ServedOK'
  BY DEF IInv, ServedOK, Of, server, clients
<1>7. NewestOnItsWay'
  BY NewestSame DEF monitor, sockets, server, clients, history
<1>8. AnswerUnderWay'
  BY SameWay, UnderWayKept DEF sockets, server, history
<1>9. ExitUnderWay'
  BY DEF ExitUnderWay, server, history
<1> QED
  BY <1>2, <1>3, <1>4, <1>5, <1>6, <1>7, <1>8, <1>9 DEF IInv

LEMMA CheckVacantInv ==
  ASSUME IInv, NEW k \in checks, CheckVacant(k)
  PROVE  IInv'
<1>1. /\ checks \subseteq [of : Nat, at : {"timer", "merging?"}]
      /\ \A c \in checks : c.of \in 0..vacancy
      /\ vacancy \in Nat /\ idle \in BOOLEAN
  BY DEF IInv, Shapes, TypeOK
<1>2. UNCHANGED <<monitor, server, vacancy, sockets, clients, history, inputs>> /\ idle' = idle
  BY DEF CheckVacant, Look, LookVacant
<1>3. CASE Look(k) /\ ~ (subscribers = {} /\ phase = "serving" /\ k.of = vacancy)
  <2>1. checks' = checks \ {k}
    BY <1>3 DEF Look
  <2>2. ASSUME ~ KeepRunning, phase = "serving", subscribers = {}, ~ dropped
        PROVE  \/ idle
               \/ \E conn \in Conns : served[conn] = "vacated"
               \/ \E c \in checks' : c.of = vacancy
    BY <1>3, <2>1, <2>2 DEF IInv, ExitUnderWay
  <2> QED
    BY <1>1, <1>2, <2>1, <2>2, ChecksGoOn
<1>4. CASE LookVacant(k)
  <2>1. PICK c : c = [of |-> vacancy, at |-> "merging?"]
    OBVIOUS
  <2>2. checks' = (checks \ {k}) \cup {c}
    BY <1>4, <2>1 DEF LookVacant
  <2>3. c.of = vacancy /\ c.of \in 0..vacancy /\ c \in [of : Nat, at : {"timer", "merging?"}]
    BY <1>1, <2>1
  <2> QED
    BY <1>1, <1>2, <2>2, <2>3, ChecksGoOn
<1> QED
  BY <1>3, <1>4 DEF CheckVacant

LEMMA CheckMergingInv ==
  ASSUME IInv, NEW k \in checks, CheckMerging(k)
  PROVE  IInv'
<1>1. /\ checks \subseteq [of : Nat, at : {"timer", "merging?"}]
      /\ \A c \in checks : c.of \in 0..vacancy
      /\ vacancy \in Nat /\ idle \in BOOLEAN
  BY DEF IInv, Shapes, TypeOK
<1>2. UNCHANGED <<monitor, server, vacancy, sockets, clients, history, inputs>>
  BY DEF CheckMerging
<1>3. CASE ~ merging
  <2>1. checks' = checks \ {k} /\ idle' = TRUE
    BY <1>3 DEF CheckMerging
  <2> QED
    BY <1>1, <1>2, <2>1, ChecksGoOn
<1>4. CASE merging
  <2>1. PICK c : c = [k EXCEPT !.at = "timer"]
    OBVIOUS
  <2>2. checks' = (checks \ {k}) \cup {c} /\ idle' = idle
    BY <1>4, <2>1 DEF CheckMerging
  <2>3. c.of = k.of /\ c.of \in 0..vacancy /\ c \in [of : Nat, at : {"timer", "merging?"}]
    BY <1>1, <2>1
  <2>4. ASSUME ~ KeepRunning, phase = "serving", subscribers = {}, ~ dropped
        PROVE  \/ idle
               \/ \E conn \in Conns : served[conn] = "vacated"
               \/ \E d \in checks' : d.of = vacancy
    BY <2>2, <2>3, <2>4 DEF IInv, ExitUnderWay
  <2> QED
    BY <1>1, <1>2, <2>2, <2>3, <2>4, ChecksGoOn
<1> QED
  BY <1>3, <1>4

LEMMA CloseInv ==
  ASSUME IInv, Close
  PROVE  IInv'
<1>1. /\ phase' = "closing" /\ dropping' = subscribers /\ subscribers' = {}
      /\ (\E kind : Input(kind)) \/ UNCHANGED inputs
      /\ UNCHANGED <<monitor, served, answers, idling, sockets, clients, history>>
  BY DEF Close
<1>3. inputs' \in 0..MaxInputs /\ AskedOK' /\ CallsOK' /\ ConnOK' /\ WaitingOK'
  BY <1>1, ClientsKept DEF history
<1>2. Shapes'
  BY <1>1, <1>3 DEF IInv, Shapes, TypeOK, monitor, idling, sockets, clients, history
<1>4. KnownOK'
  BY <1>1, KnownKept DEF clients, sockets
<1>5. VersionsOK'
  BY <1>1 DEF IInv, VersionsOK, IsEvent, Held, monitor, sockets, history
<1>6. ServedOK'
  BY <1>1 DEF IInv, ServedOK, Of, clients
<1>7. NewestOnItsWay'
  BY <1>1 DEF NewestOnItsWay
<1>8. AnswerUnderWay'
  BY <1>1, SameWay, UnderWayKept DEF sockets, history
<1>9. ExitUnderWay'
  BY <1>1 DEF ExitUnderWay
<1> QED
  BY <1>2, <1>3, <1>4, <1>5, <1>6, <1>7, <1>8, <1>9 DEF IInv

LEMMA CloseConnsInv ==
  ASSUME IInv, CloseConns
  PROVE  IInv'
<1>1. /\ phase' = "waiting" /\ shut' = shut \cup dropping /\ dropping' = {}
      /\ UNCHANGED <<monitor, served, subscribers, answers, idling, requests, messages, hung,
                     clients, history, inputs>>
  BY DEF CloseConns
<1>3. AskedOK' /\ CallsOK' /\ ConnOK' /\ WaitingOK'
  BY <1>1, ClientsKept DEF history
<1>2. Shapes'
  BY <1>1 DEF IInv, Shapes, TypeOK, monitor, idling, clients, history
<1>4. KnownOK'
  BY <1>1, KnownKept DEF clients
<1>5. VersionsOK'
  BY <1>1 DEF IInv, VersionsOK, IsEvent, Held, monitor, history
<1>6. ServedOK'
  BY <1>1 DEF IInv, ServedOK, Of, clients
<1>7. NewestOnItsWay'
  BY <1>1, NewestSame DEF monitor, clients, history
<1>8. AnswerUnderWay'
  BY <1>1, SameWay, UnderWayKept DEF history
<1>9. ExitUnderWay'
  BY <1>1 DEF ExitUnderWay
<1> QED
  BY <1>2, <1>3, <1>4, <1>5, <1>6, <1>7, <1>8, <1>9 DEF IInv

(* The process is gone, and with it every connection that was dialled.       *)
LEMMA GoneInv ==
  ASSUME IInv, Gone, (\E kind : Input(kind)) \/ UNCHANGED inputs
  PROVE  IInv'
<1>1. /\ phase' = "gone"
      /\ served' = [conn \in Conns |-> IF served[conn] = "none" THEN "none" ELSE "ended"]
      /\ shut' = shut \cup {conn \in Conns : served[conn] # "none"}
      /\ subscribers' = {} /\ dropping' = {} /\ answers' = {} /\ checks' = {}
      /\ emits' = [t \in Threads |-> NoEmit] /\ merging' = FALSE
      /\ UNCHANGED <<version, vacancy, idle, requests, messages, hung, clients, history>>
  BY DEF Gone
<1>3. inputs' \in 0..MaxInputs /\ AskedOK' /\ CallsOK' /\ ConnOK' /\ WaitingOK'
  BY <1>1, ClientsKept DEF history
<1>2. Shapes'
  <2>1. served' \in [Conns -> {"none", "open", "left", "vacated", "ended"}]
    BY <1>1
  <2>2. emits' \in [Threads -> Emit]
    BY <1>1, NoEmitTyped
  <2> QED
    BY <1>1, <1>3, <2>1, <2>2 DEF IInv, Shapes, TypeOK, clients, history
<1>4. KnownOK'
  BY <1>1, KnownKept DEF clients
<1>5. VersionsOK'
  <2>1. \A t \in Threads : emits'[t].at # "write"
    BY <1>1 DEF NoEmit
  <2> QED
    BY <1>1, <2>1 DEF IInv, VersionsOK, IsEvent, Held, history
<1>6. ServedOK'
  <2>1. \A d \in Conns : served'[d] = "none" <=> served[d] = "none"
    BY <1>1
  <2>2. \A d \in Conns : served'[d] # "none" <=> d[2] <= client'[Of(d)].dials
    BY <1>1, <2>1 DEF IInv, ServedOK, clients
  <2> QED
    BY <1>1, <2>2 DEF ServedOK, Of
<1>7. NewestOnItsWay'
  BY <1>1 DEF NewestOnItsWay
<1>8. AnswerUnderWay'
  <2>1. ASSUME NEW c \in Clients, NEW id \in client[c].waiting \ left[c], NEW conn, conn = client[c].conn
        PROVE  conn # None /\ conn \in reading /\ conn \in shut'
    <3>1. conn # None /\ conn \in reading
      BY <2>1 DEF IInv, AnswerUnderWay
    <3>2. conn \in Conns /\ Of(conn) = c /\ conn[2] <= client[c].dials
      BY <2>1, <3>1 DEF IInv, ConnOK, Shapes, TypeOK
    <3>3. served[conn] # "none"
      BY <3>2 DEF IInv, ServedOK
    <3> QED
      BY <1>1, <3>1, <3>2, <3>3
  <2> QED
    BY <1>1, <2>1 DEF AnswerUnderWay, clients, history
<1>9. ExitUnderWay'
  BY <1>1 DEF ExitUnderWay
<1> QED
  BY <1>2, <1>3, <1>4, <1>5, <1>6, <1>7, <1>8, <1>9 DEF IInv

----------------------------------------------------------------------------
(* What the steps of a client have in common.                              *)

LEMMA IdsAreNumbers == Ids \subseteq Nat /\ None \notin Ids
BY NoneApart DEF Ids

(* Of one client, with the record j, all but what others do.                *)
LEMMA RecordOK ==
  ASSUME IInv, NEW c \in Clients, NEW j \in Client, client' = [client EXCEPT ![c] = j],
         inputs' \in Nat, inputs' >= inputs,
         j.asked + (IF j.at = "hello" THEN 1 ELSE 0) <= 2 * j.dials + inputs',
         j.call # None => j.at \in {"hello", "snapshot"} /\ j.call <= j.asked,
         j.reply # None /\ j.reply.kind # "stopped" => j.reply.kind = j.at,
         j.conn # None => j.conn \in reading' /\ Of(j.conn) = c /\ j.conn[2] <= j.dials,
         \A conn \in reading : Of(conn) # c => conn \in reading',
         \A d \in Clients : d # c => left'[d] = left[d],
         j.waiting \subseteq j.pending \cup left'[c]
  PROVE  client' \in [Clients -> Client] /\ AskedOK' /\ CallsOK' /\ ConnOK' /\ WaitingOK'
<1>1. client \in [Clients -> Client] /\ inputs \in Nat
  BY NoneApart DEF IInv, Shapes, TypeOK
<1>2. /\ client' \in [Clients -> Client] /\ client'[c] = j
      /\ \A d \in Clients : d # c => client'[d] = client[d]
  BY <1>1
<1>3. AskedOK'
  <2>1. ASSUME NEW d \in Clients, d # c
        PROVE  client[d].asked + (IF client[d].at = "hello" THEN 1 ELSE 0)
                 <= 2 * client[d].dials + inputs'
    <3>1. client[d].asked + (IF client[d].at = "hello" THEN 1 ELSE 0) <= 2 * client[d].dials + inputs
      BY DEF IInv, AskedOK
    <3>2. client[d].asked \in Nat /\ client[d].dials \in Nat
      BY <1>1 DEF Client
    <3> QED
      BY <1>1, <3>1, <3>2
  <2> QED
    BY <1>2, <2>1 DEF AskedOK
<1>4. CallsOK'
  <2>1. ASSUME NEW d \in Clients, d # c
        PROVE  /\ client'[d].call # None =>
                    client'[d].at \in {"hello", "snapshot"} /\ client'[d].call <= client'[d].asked
               /\ client'[d].reply # None /\ client'[d].reply.kind # "stopped" =>
                    client'[d].reply.kind = client'[d].at
    BY <1>2, <2>1 DEF IInv, CallsOK
  <2> QED
    BY <1>2, <2>1 DEF CallsOK
<1>5. ConnOK'
  <2>1. ASSUME NEW d \in Clients, d # c, client[d].conn # None
        PROVE  /\ client[d].conn \in reading'
               /\ Of(client[d].conn) = d /\ client[d].conn[2] <= client[d].dials
    BY <2>1 DEF IInv, ConnOK
  <2> QED
    BY <1>2, <2>1 DEF ConnOK, Of
<1>6. WaitingOK'
  BY <1>2 DEF IInv, WaitingOK
<1> QED
  BY <1>2, <1>3, <1>4, <1>5, <1>6

(* What is known stays so, if the client has called nothing else.           *)
LEMMA KnownGoesOn ==
  ASSUME IInv, NEW c \in Clients, NEW j \in Client, client' = [client EXCEPT ![c] = j],
         j.asked >= client[c].asked,
         j.call = None \/ (j.call = client[c].call /\ j.at = client[c].at),
         answers' = answers,
         \A d \in Conns : Held(requests'[d]) \subseteq Held(requests[d]),
         \A d \in Conns : Held(messages'[d]) \subseteq Held(messages[d])
  PROVE  KnownOK'
<1>1. /\ client \in [Clients -> Client] /\ client'[c] = j
      /\ \A d \in Clients : d # c => client'[d] = client[d]
  BY DEF IInv, Shapes, TypeOK
<1>2. ASSUME NEW d \in Conns, NEW x, x.id \in Ids, Known(d, x)
      PROVE  Known(d, x)'
  <2>1. x.id \in Nat /\ x.id # None /\ j.asked \in Nat /\ client[c].asked \in Nat
    BY <1>1, <1>2, IdsAreNumbers DEF Client
  <2>2. Of(d) \in Clients
    BY DEF Of, Conns
  <2>3. CASE Of(d) = c
    BY <1>1, <1>2, <2>1, <2>3 DEF Known, Of
  <2>4. CASE Of(d) # c
    BY <1>1, <1>2, <2>2, <2>4 DEF Known, Of
  <2> QED
    BY <2>3, <2>4
<1>3. ASSUME NEW d \in Conns
      PROVE  /\ \A x \in Held(requests[d]) : x.id \in Ids
             /\ \A x \in Held(messages[d]) : IsEvent(x) \/ x.id \in Ids
  <2>1. requests[d] \in Seq(Request) /\ messages[d] \in Seq(Message)
    BY DEF IInv, Shapes
  <2>2. /\ \A x \in Held(requests[d]) : x \in Request
        /\ \A x \in Held(messages[d]) : x \in Message
    BY <2>1, HeldOf
  <2> QED
    BY <2>2 DEF Request, Message, IsEvent
<1>4. ASSUME NEW d \in Conns
      PROVE  /\ \A x \in Held(requests'[d]) : Known(d, x)'
             /\ \A x \in Held(messages'[d]) : IsEvent(x) \/ Known(d, x)'
  BY <1>2, <1>3 DEF IInv, KnownOK
<1>5. ASSUME NEW a \in answers
      PROVE  Known(a.conn, a)'
  <2>1. a.conn \in Conns /\ a.id \in Ids
    BY DEF IInv, Shapes, TypeOK, Answer
  <2> QED
    BY <1>2, <2>1 DEF IInv, KnownOK
<1> QED
  BY <1>4, <1>5 DEF KnownOK, Held, IsEvent

(* What other clients wait for stays under way.                            *)
LEMMA OthersWait ==
  ASSUME IInv, NEW c \in Clients, NEW j, client' = [client EXCEPT ![c] = j],
         \A d \in Clients : d # c => left'[d] = left[d],
         \A conn \in Conns : Of(conn) # c =>
           /\ conn \in reading => conn \in reading'
           /\ Held(requests[conn]) \subseteq Held(requests'[conn])
           /\ Held(messages[conn]) \subseteq Held(messages'[conn]),
         answers' = answers, shut' = shut, hung \subseteq hung',
         \A id \in j.waiting \ left'[c] :
           /\ j.conn # None /\ j.conn \in reading'
           /\ j.conn \in shut' \cup hung' \/ OnTheWay(j.conn, id)'
  PROVE  AnswerUnderWay'
<1>1. /\ client \in [Clients -> Client] /\ client'[c] = j
      /\ \A d \in Clients : d # c => client'[d] = client[d]
  BY DEF IInv, Shapes, TypeOK
<1>2. ASSUME NEW d \in Clients, NEW id \in client'[d].waiting \ left'[d], NEW conn,
             conn = client'[d].conn
      PROVE  conn # None /\ conn \in reading' /\ (conn \in shut' \cup hung' \/ OnTheWay(conn, id)')
  <2>1. CASE d = c
    BY <1>1, <1>2, <2>1 DEF OnTheWay, Held, IsEvent
  <2>2. CASE d # c
    <3>1. /\ conn = client[d].conn /\ conn # None /\ conn \in reading
          /\ conn \in shut \cup hung \/ OnTheWay(conn, id)
      BY <1>1, <1>2, <2>2 DEF IInv, AnswerUnderWay
    <3>2. conn \in Conns /\ Of(conn) # c
      BY <2>2, <3>1 DEF IInv, ConnOK, Shapes, TypeOK
    <3>3. OnTheWay(conn, id) => OnTheWay(conn, id)'
      BY <3>2 DEF OnTheWay, Held, IsEvent
    <3> QED
      BY <3>1, <3>2, <3>3
  <2> QED
    BY <2>1, <2>2
<1> QED
  BY <1>2 DEF AnswerUnderWay, OnTheWay, Held, IsEvent

LEMMA ServedKept ==
  ASSUME IInv, NEW c \in Clients, NEW j, client' = [client EXCEPT ![c] = j],
         j.dials = client[c].dials, UNCHANGED <<served, subscribers, answers>>
  PROVE  ServedOK'
<1>1. \A d \in Clients : client'[d].dials = client[d].dials
  BY DEF IInv, Shapes, TypeOK
<1>2. \A conn \in Conns : Of(conn) \in Clients
  BY DEF Of, Conns
<1>3. \A conn \in Conns : served'[conn] # "none" <=> conn[2] <= client'[Of(conn)].dials
  BY <1>1, <1>2 DEF IInv, ServedOK
<1> QED
  BY <1>3 DEF IInv, ServedOK, Of

LEMMA VersionsKept ==
  ASSUME IInv, UNCHANGED <<monitor, answers>>,
         \A conn \in Conns : got'[conn] <= version,
         \A conn \in Conns : Held(messages'[conn]) \subseteq Held(messages[conn])
  PROVE  VersionsOK'
<1>1. ASSUME NEW d \in Conns
      PROVE  /\ got'[d] <= version
             /\ \A m \in Held(messages'[d]) :
                  IF IsEvent(m) THEN m.event \in 0..version
                  ELSE m.op = "snapshot" => m.version \in 0..version
  BY DEF IInv, VersionsOK
<1> QED
  BY <1>1 DEF IInv, VersionsOK, Held, IsEvent, monitor

----------------------------------------------------------------------------
(* A client asks.                                                          *)
LEMMA AskKeeps ==
  ASSUME IInv, NEW c \in Clients, NEW op \in Ops, NEW j \in Client, Ask(c, op, j),
         j.conn \in Conns, Of(j.conn) = c, j.conn[2] <= j.dials,
         j.conn \in reading', reading \subseteq reading',
         j.asked = client[c].asked, j.asked + 1 \in Ids,
         j.pending = client[c].pending, j.waiting = client[c].waiting,
         client[c].conn = None \/ client[c].conn = j.conn,
         op # "other" => op = j.at,
         op = "other" => /\ j.call = client[c].call /\ j.at = client[c].at
                         /\ j.reply = client[c].reply,
         UNCHANGED <<answers, messages, shut, hung, left>>,
         inputs' \in Nat, inputs' >= inputs,
         j.asked + 1 + (IF j.at = "hello" THEN 1 ELSE 0) <= 2 * j.dials + inputs'
  PROVE  /\ client' \in [Clients -> Client] /\ requests' \in [Conns -> Seq(Request)]
         /\ AskedOK' /\ CallsOK' /\ ConnOK' /\ KnownOK' /\ WaitingOK' /\ AnswerUnderWay'
<1>0. PICK id : id = j.asked + 1
  OBVIOUS
<1>1. PICK w : w = IF j.conn \in shut THEN {} ELSE {id}
  OBVIOUS
<1>2. PICK call : call = IF op = "other" THEN j.call ELSE id
  OBVIOUS
<1>3. PICK reply : reply = IF op = "other" THEN j.reply
                           ELSE IF j.conn \in shut THEN Stopped ELSE None
  OBVIOUS
<1>4. PICK k : k = [j EXCEPT !.asked = id, !.pending = j.pending \cup w,
                             !.waiting = j.waiting \cup w, !.call = call, !.reply = reply]
  OBVIOUS
<1>5. PICK q : q = [id |-> id, op |-> op]
  OBVIOUS
<1>6. /\ requests' = IF j.conn \in shut THEN requests
                     ELSE [requests EXCEPT ![j.conn] = Append(requests[j.conn], q)]
      /\ client' = [client EXCEPT ![c] = Asked(j, id, op)]
  BY <1>0, <1>5 DEF Ask
<1>7. Asked(j, id, op) = k
  BY <1>1, <1>2, <1>3, <1>4 DEF Asked
<1>8. /\ id \in Ids /\ id \in Nat /\ id # None
      /\ j.asked \in Nat /\ client[c].asked \in Nat /\ id = client[c].asked + 1
  BY <1>0, IdsAreNumbers DEF Client
<1>9. /\ w \subseteq {id} /\ (j.conn \notin shut => w = {id}) /\ (j.conn \in shut => w = {})
  BY <1>1
<1>10. call \in Ids \cup {None} /\ reply \in Replies \cup {None}
  <2>1. Stopped \in Replies
    BY DEF Stopped, Replies
  <2> QED
    BY <1>2, <1>3, <1>8, <2>1 DEF Client
<1>11. /\ k \in Client /\ k.asked = id /\ k.call = call /\ k.reply = reply
       /\ k.pending = j.pending \cup w /\ k.waiting = j.waiting \cup w
       /\ k.conn = j.conn /\ k.at = j.at /\ k.dials = j.dials
  BY <1>4, <1>8, <1>9, <1>10 DEF Client
<1>12. client \in [Clients -> Client] /\ requests \in [Conns -> Seq(Request)]
  BY DEF IInv, Shapes, TypeOK
<1>13. /\ client' = [client EXCEPT ![c] = k] /\ client'[c] = k
       /\ \A d \in Clients : d # c => client'[d] = client[d]
  BY <1>6, <1>7, <1>12
<1>14. q \in Request /\ q.id = id /\ q.op = op
  BY <1>5, <1>8 DEF Request
<1>15. /\ requests' \in [Conns -> Seq(Request)]
       /\ \A d \in Conns : Held(requests[d]) \subseteq Held(requests'[d])
       /\ \A d \in Conns : \A x \in Held(requests'[d]) : x \in Held(requests[d]) \/ (d = j.conn /\ x = q)
       /\ j.conn \notin shut => q \in Held(requests'[j.conn])
  <2>1. CASE j.conn \in shut
    <3>1. requests' = requests
      BY <1>6, <2>1
    <3> QED
      BY <1>12, <2>1, <3>1
  <2>2. CASE j.conn \notin shut
    <3>1. /\ requests' = [requests EXCEPT ![j.conn] = Append(requests[j.conn], q)]
          /\ requests[j.conn] \in Seq(Request)
      BY <1>6, <1>12, <2>2
    <3>2. /\ Append(requests[j.conn], q) \in Seq(Request)
          /\ Held(Append(requests[j.conn], q)) = Held(requests[j.conn]) \cup {q}
      BY <1>14, <3>1, HeldAppend
    <3>3. /\ requests' \in [Conns -> Seq(Request)]
          /\ requests'[j.conn] = Append(requests[j.conn], q)
          /\ \A d \in Conns : d # j.conn => requests'[d] = requests[d]
      BY <1>12, <3>1, <3>2
    <3>4. Held(requests'[j.conn]) = Held(requests[j.conn]) \cup {q}
      BY <3>2, <3>3
    <3>5. \A d \in Conns : Held(requests[d]) \subseteq Held(requests'[d])
      BY <3>3, <3>4
    <3>6. \A d \in Conns : \A x \in Held(requests'[d]) :
            x \in Held(requests[d]) \/ (d = j.conn /\ x = q)
      BY <3>3, <3>4
    <3> QED
      BY <3>3, <3>4, <3>5, <3>6
  <2> QED
    BY <2>1, <2>2
<1>16. client' \in [Clients -> Client] /\ AskedOK' /\ CallsOK' /\ ConnOK' /\ WaitingOK'
  <2>1. k.asked + (IF k.at = "hello" THEN 1 ELSE 0) <= 2 * k.dials + inputs'
    BY <1>0, <1>11
  <2>2. k.call # None => k.at \in {"hello", "snapshot"} /\ k.call <= k.asked
    <3>1. CASE op = "other"
      <4>1. client[c].call # None =>
              client[c].at \in {"hello", "snapshot"} /\ client[c].call <= client[c].asked
        BY DEF IInv, CallsOK
      <4>2. client[c].call # None => client[c].call \in Nat
        BY <1>12, IdsAreNumbers DEF Client
      <4> QED
        BY <1>2, <1>8, <1>11, <3>1, <4>1, <4>2
    <3>2. CASE op # "other"
      BY <1>2, <1>8, <1>11, <3>2 DEF Ops
    <3> QED
      BY <3>1, <3>2
  <2>3. k.reply # None /\ k.reply.kind # "stopped" => k.reply.kind = k.at
    <3>1. CASE op = "other"
      BY <1>3, <1>11, <3>1 DEF IInv, CallsOK
    <3>2. CASE op # "other"
      BY <1>3, <1>11, <3>2 DEF Stopped
    <3> QED
      BY <3>1, <3>2
  <2>4. k.waiting \subseteq k.pending \cup left'[c]
    BY <1>11 DEF IInv, WaitingOK
  <2> QED
    BY <1>11, <1>13, <2>1, <2>2, <2>3, <2>4, RecordOK
<1>17. KnownOK'
  <2>1. ASSUME NEW d \in Conns, NEW x, x.id \in Ids, Known(d, x)
        PROVE  Known(d, x)'
    <3>1. Of(d) \in Clients /\ x.id \in Nat
      BY <2>1, IdsAreNumbers DEF Of, Conns
    <3>2. CASE Of(d) = c
      <4>1. x.id <= client[c].asked
        BY <2>1, <3>2 DEF Known
      <4>2. x.id <= id /\ x.id # id
        BY <1>8, <3>1, <4>1
      <4>3. x.id = call => x.op = k.at
        <5>1. CASE op = "other"
          BY <1>2, <1>11, <2>1, <3>2, <5>1 DEF Known
        <5>2. CASE op # "other"
          BY <1>2, <4>2, <5>2
        <5> QED
          BY <5>1, <5>2
      <4> QED
        BY <1>11, <1>13, <3>2, <4>2, <4>3 DEF Known, Of
    <3>3. CASE Of(d) # c
      BY <1>13, <2>1, <3>1, <3>3 DEF Known, Of
    <3> QED
      BY <3>2, <3>3
  <2>2. Known(j.conn, q)'
    <3>1. q.id <= k.asked
      BY <1>8, <1>11, <1>14
    <3>2. q.id = k.call => q.op = k.at
      <4>1. CASE op = "other"
        <5>1. ASSUME id = call
              PROVE  FALSE
          <6>1. client[c].call = id /\ client[c].call # None
            BY <1>2, <1>8, <4>1, <5>1
          <6>2. client[c].call <= client[c].asked
            BY <6>1 DEF IInv, CallsOK
          <6> QED
            BY <1>8, <6>1, <6>2
        <5> QED
          BY <1>11, <1>14, <5>1
      <4>2. CASE op # "other"
        BY <1>11, <1>14, <4>2
      <4> QED
        BY <4>1, <4>2
    <3> QED
      BY <1>13, <3>1, <3>2 DEF Known, Of
  <2>3. ASSUME NEW d \in Conns
        PROVE  /\ \A x \in Held(requests[d]) : x.id \in Ids
               /\ \A x \in Held(messages[d]) : IsEvent(x) \/ x.id \in Ids
    <3>1. requests[d] \in Seq(Request) /\ messages[d] \in Seq(Message)
      BY DEF IInv, Shapes
    <3>2. /\ \A x \in Held(requests[d]) : x \in Request
          /\ \A x \in Held(messages[d]) : x \in Message
      BY <3>1, HeldOf
    <3> QED
      BY <3>2 DEF Request, Message, IsEvent
  <2>4. ASSUME NEW d \in Conns
        PROVE  /\ \A x \in Held(requests'[d]) : Known(d, x)'
               /\ \A x \in Held(messages'[d]) : IsEvent(x) \/ Known(d, x)'
    <3>1. \A x \in Held(requests[d]) : Known(d, x)'
      BY <2>1, <2>3 DEF IInv, KnownOK
    <3>2. \A x \in Held(messages[d]) : IsEvent(x) \/ Known(d, x)'
      BY <2>1, <2>3 DEF IInv, KnownOK
    <3> QED
      BY <1>15, <2>2, <3>1, <3>2
  <2>5. ASSUME NEW a \in answers
        PROVE  Known(a.conn, a)'
    <3>1. a.conn \in Conns /\ a.id \in Ids
      BY DEF IInv, Shapes, TypeOK, Answer
    <3> QED
      BY <2>1, <3>1 DEF IInv, KnownOK
  <2> QED
    BY <2>4, <2>5 DEF KnownOK, Held, IsEvent
<1>18. AnswerUnderWay'
  <2>1. ASSUME NEW x \in k.waiting \ left'[c]
        PROVE  /\ k.conn # None /\ k.conn \in reading'
               /\ k.conn \in shut' \cup hung' \/ OnTheWay(k.conn, x)'
    <3>1. k.conn # None /\ k.conn \in reading'
      BY <1>11, NoneApart
    <3>2. CASE x \in w
      <4>1. j.conn \notin shut /\ x = id
        BY <1>9, <3>2
      <4>2. q \in Held(requests'[j.conn]) /\ q.id = x
        BY <1>14, <1>15, <4>1
      <4> QED
        BY <1>11, <3>1, <4>2 DEF OnTheWay, Held
    <3>3. CASE x \notin w
      <4>1. x \in client[c].waiting \ left[c]
        BY <1>11, <2>1, <3>3
      <4>2. /\ client[c].conn = j.conn
            /\ j.conn \in shut \cup hung \/ OnTheWay(j.conn, x)
        BY <4>1 DEF IInv, AnswerUnderWay
      <4>3. OnTheWay(j.conn, x) => OnTheWay(j.conn, x)'
        BY <1>15 DEF OnTheWay, Held, IsEvent
      <4> QED
        BY <1>11, <3>1, <4>2, <4>3
    <3> QED
      BY <3>2, <3>3
  <2>2. \A d \in Conns : /\ d \in reading => d \in reading'
                         /\ Held(requests[d]) \subseteq Held(requests'[d])
                         /\ Held(messages[d]) \subseteq Held(messages'[d])
    BY <1>15
  <2> QED
    BY <1>13, <2>1, <2>2, OthersWait
<1> QED
  BY <1>15, <1>16, <1>17, <1>18

LEMMA ConnectInv ==
  ASSUME IInv, NEW c \in Clients, Connect(c)
  PROVE  IInv'
<1>0. PICK n : n = client[c].dials + 1
  OBVIOUS
<1>1. PICK conn : conn = <<c, n>>
  OBVIOUS
<1>2. PICK j : j = [client[c] EXCEPT !.conn = conn, !.dials = n, !.at = "hello"]
  OBVIOUS
<1>3. /\ client[c].at = "off" /\ client[c].conn = None /\ client[c].dials < MaxDials
      /\ phase \in {"serving", "closing"}
      /\ Ask(c, "hello", j)
      /\ served' = [served EXCEPT ![conn] = "open"]
      /\ reading' = reading \cup {conn}
      /\ UNCHANGED <<monitor, phase, subscribers, dropping, answers, idling, messages, shut,
                     hung, got, left, dropped, inputs>>
      /\ overtaken' = IF StillRead(c) THEN overtaken \cup {c} ELSE overtaken
  BY <1>0, <1>1, <1>2 DEF Connect
<1>4. /\ client[c] \in Client /\ inputs \in 0..MaxInputs /\ inputs \in Nat
      /\ reading \subseteq Conns /\ subscribers \subseteq Conns
      /\ served \in [Conns -> {"none", "open", "left", "vacated", "ended"}]
      /\ client[c].asked \in Nat /\ client[c].dials \in 0..MaxDials
      /\ overtaken \subseteq Clients
  BY NoneApart DEF IInv, Shapes, TypeOK, Client
<1>5. n \in 1..MaxDials /\ n \in Nat /\ n = client[c].dials + 1
  BY <1>0, <1>3, <1>4, NoneApart
<1>6. conn \in Conns /\ Of(conn) = c /\ conn[2] = n
  BY <1>1, <1>5 DEF Conns, Of
<1>7. /\ j \in Client /\ j.conn = conn /\ j.dials = n /\ j.at = "hello"
      /\ j.asked = client[c].asked /\ j.pending = client[c].pending
      /\ j.waiting = client[c].waiting
  <2>1. n \in 0..MaxDials
    BY <1>5, NoneApart
  <2> QED
    BY <1>2, <1>4, <1>6, <2>1 DEF Client
<1>8. /\ j.asked + 1 \in Ids /\ j.asked + 1 + 1 <= 2 * n + inputs
  <2>1. client[c].asked <= 2 * client[c].dials + inputs
    <3>1. client[c].asked + 0 <= 2 * client[c].dials + inputs
      BY <1>3 DEF IInv, AskedOK
    <3> QED
      BY <1>4, <3>1
  <2>2. client[c].dials \in Nat /\ client[c].dials + 1 <= MaxDials /\ inputs <= MaxInputs
    BY <1>4, <1>5, NoneApart
  <2>3. client[c].asked + 1 <= 2 * MaxDials + MaxInputs
    BY <1>4, <2>1, <2>2, NoneApart
  <2>4. client[c].asked + 1 \in Ids
    BY <1>4, <2>3, NoneApart DEF Ids
  <2>5. client[c].asked + 1 + 1 <= 2 * n + inputs
    BY <1>4, <1>5, <2>1, <2>2
  <2> QED
    BY <1>7, <2>4, <2>5
<1>9. UNCHANGED <<answers, messages, shut, hung, left>> /\ inputs' = inputs
  BY <1>3
<1>10. /\ client' \in [Clients -> Client] /\ requests' \in [Conns -> Seq(Request)]
       /\ AskedOK' /\ CallsOK' /\ ConnOK' /\ KnownOK' /\ WaitingOK' /\ AnswerUnderWay'
  <2>1. "hello" \in Ops
    BY DEF Ops
  <2>2. j.conn \in reading' /\ reading \subseteq reading'
    BY <1>3, <1>7
  <2>3. j.asked + 1 + (IF j.at = "hello" THEN 1 ELSE 0) <= 2 * j.dials + inputs'
    BY <1>7, <1>8, <1>9
  <2>4. j.conn[2] <= j.dials
    BY <1>5, <1>6, <1>7
  <2> QED
    BY <1>3, <1>4, <1>6, <1>7, <1>8, <1>9, <2>1, <2>2, <2>3, <2>4, AskKeeps
<1>11. served[conn] = "none" /\ conn \notin subscribers
  <2>1. ~ (conn[2] <= client[Of(conn)].dials)
    BY <1>4, <1>5, <1>6
  <2> QED
    BY <1>6, <2>1 DEF IInv, ServedOK
<1>12. /\ served' \in [Conns -> {"none", "open", "left", "vacated", "ended"}]
       /\ served'[conn] = "open" /\ \A d \in Conns : d # conn => served'[d] = served[d]
  BY <1>3, <1>4, <1>6
<1>13. Shapes'
  <2>1. overtaken' \subseteq Clients
    BY <1>3, <1>4
  <2> QED
    BY <1>3, <1>6, <1>10, <1>12, <2>1 DEF IInv, Shapes, TypeOK, monitor, idling
<1>14. VersionsOK'
  BY <1>3, VersionsKept DEF IInv, VersionsOK
<1>15. ServedOK'
  <2>1. /\ client'[c].dials = n
        /\ \A d \in Clients : d # c => client'[d] = client[d]
    <3>1. PICK id : id = j.asked + 1
      OBVIOUS
    <3>2. client' = [client EXCEPT ![c] = Asked(j, id, "hello")]
      BY <1>3, <3>1 DEF Ask
    <3>3. Asked(j, id, "hello").dials = n
      BY <1>7 DEF Asked, Client
    <3>4. client \in [Clients -> Client]
      BY DEF IInv, Shapes, TypeOK
    <3> QED
      BY <3>2, <3>3, <3>4
  <2>2. ASSUME NEW d \in Conns
        PROVE  served'[d] # "none" <=> d[2] <= client'[Of(d)].dials
    <3>0. Of(d) \in Clients /\ d[2] \in Nat /\ d = <<Of(d), d[2]>>
      BY NoneApart DEF Conns, Of
    <3>1. served[d] # "none" <=> d[2] <= client[Of(d)].dials
      BY DEF IInv, ServedOK
    <3>2. CASE d = conn
      BY <1>5, <1>6, <1>12, <2>1, <3>2
    <3>3. CASE d # conn /\ Of(d) # c
      BY <1>12, <2>1, <3>0, <3>1, <3>3
    <3>4. CASE d # conn /\ Of(d) = c
      <4>1. d[2] # n
        BY <1>1, <3>0, <3>4
      <4>2. d[2] <= n <=> d[2] <= client[c].dials
        BY <1>4, <1>5, <3>0, <4>1
      <4> QED
        BY <1>12, <2>1, <3>1, <3>4, <4>2
    <3> QED
      BY <3>2, <3>3, <3>4
  <2>3. \A d \in Conns : served[d] # "none" => served'[d] # "none"
    BY <1>12
  <2>4. subscribers \subseteq Conns /\ \A a \in answers : a.conn \in Conns
    BY DEF IInv, Shapes, TypeOK, Answer
  <2>5. (\A d \in subscribers : served'[d] # "none") /\ \A a \in answers : served'[a.conn] # "none"
    BY <2>3, <2>4 DEF IInv, ServedOK
  <2> QED
    BY <1>3, <2>2, <2>5 DEF ServedOK, Of
<1>16. NewestOnItsWay'
  <2>1. ASSUME NEW d \in subscribers', d \in reading'
        PROVE  Newest(d)'
    <3>1. d \in Conns /\ Newest(d)
      BY <1>3, <1>4, <1>11, <2>1 DEF IInv, NewestOnItsWay
    <3> QED
      BY <1>3, <3>1, NewestGoesOn DEF monitor
  <2> QED
    BY <2>1 DEF NewestOnItsWay
<1>17. ExitUnderWay'
  <2>1. ASSUME ~ KeepRunning, phase = "serving", subscribers = {}, ~ dropped
        PROVE  \/ idle
               \/ \E d \in Conns : served'[d] = "vacated"
               \/ \E k \in checks : k.of = vacancy
    <3>1. \/ idle
          \/ \E d \in Conns : served[d] = "vacated"
          \/ \E k \in checks : k.of = vacancy
      BY <2>1 DEF IInv, ExitUnderWay
    <3>2. ASSUME NEW d \in Conns, served[d] = "vacated"
          PROVE  served'[d] = "vacated"
      BY <1>11, <1>12, <3>2
    <3> QED
      BY <3>1, <3>2
  <2> QED
    BY <1>3, <2>1 DEF ExitUnderWay, idling
<1> QED
  BY <1>10, <1>13, <1>14, <1>15, <1>16, <1>17 DEF IInv

(* A step of a client that changes its record and no more of what it holds.  *)
LEMMA ClientStep ==
  ASSUME IInv, NEW c \in Clients, NEW j \in Client, client' = [client EXCEPT ![c] = j],
         UNCHANGED <<monitor, server, idling, requests, messages, shut, reading, got, dropped,
                    overtaken>>,
         inputs' \in 0..MaxInputs, inputs' >= inputs,
         j.dials = client[c].dials, j.asked = client[c].asked, j.call = None, j.reply = None,
         j.at # "hello", j.pending = client[c].pending, j.waiting = client[c].waiting,
         \/ j.conn = client[c].conn /\ UNCHANGED <<hung, left>>
         \/ j.conn = None /\ client[c].conn = None /\ UNCHANGED <<hung, left>>
         \/ /\ j.conn = None /\ client[c].conn # None
            /\ hung' = hung \cup {client[c].conn}
            /\ left' = [left EXCEPT ![c] = left[c] \cup client[c].pending]
  PROVE  IInv'
<1>1. /\ client \in [Clients -> Client] /\ left \in [Clients -> SUBSET Ids]
      /\ inputs \in 0..MaxInputs /\ inputs \in Nat /\ inputs' \in Nat /\ hung \subseteq Conns
      /\ client[c] \in Client
  BY NoneApart DEF IInv, Shapes, TypeOK
<1>2. /\ left' \in [Clients -> SUBSET Ids] /\ hung' \subseteq Conns /\ hung \subseteq hung'
      /\ \A d \in Clients : d # c => left'[d] = left[d]
      /\ left[c] \subseteq left'[c]
      /\ j.conn # None => j.conn = client[c].conn
      /\ j.conn # client[c].conn => client[c].pending \subseteq left'[c]
  <2>1. CASE UNCHANGED <<hung, left>>
    BY <1>1, <2>1
  <2>2. CASE /\ j.conn = None /\ client[c].conn # None
             /\ hung' = hung \cup {client[c].conn}
             /\ left' = [left EXCEPT ![c] = left[c] \cup client[c].pending]
    <3>1. client[c].conn \in Conns /\ client[c].pending \subseteq Ids
      BY <1>1, <2>2 DEF Client
    <3> QED
      BY <1>1, <2>2, <3>1
  <2> QED
    BY <2>1, <2>2
<1>3. client' \in [Clients -> Client] /\ AskedOK' /\ CallsOK' /\ ConnOK' /\ WaitingOK'
  <2>1. j.asked + (IF j.at = "hello" THEN 1 ELSE 0) <= 2 * j.dials + inputs'
    <3>1. client[c].asked + (IF client[c].at = "hello" THEN 1 ELSE 0) <= 2 * client[c].dials + inputs
      BY DEF IInv, AskedOK
    <3>2. client[c].asked \in Nat /\ client[c].dials \in Nat
      BY <1>1, NoneApart DEF Client
    <3> QED
      BY <1>1, <3>1, <3>2
  <2>2. j.conn # None => j.conn \in reading' /\ Of(j.conn) = c /\ j.conn[2] <= j.dials
    BY <1>2 DEF IInv, ConnOK
  <2>3. j.waiting \subseteq j.pending \cup left'[c]
    BY <1>2 DEF IInv, WaitingOK
  <2> QED
    BY <1>1, <1>2, <2>1, <2>2, <2>3, RecordOK
<1>4. Shapes'
  BY <1>2, <1>3 DEF IInv, Shapes, TypeOK, monitor, server, idling
<1>5. KnownOK'
  <2>1. client[c].asked \in Nat /\ answers' = answers
    BY <1>1 DEF Client, server
  <2>2. j.asked >= client[c].asked
    BY <2>1
  <2> QED
    BY <2>1, <2>2, KnownGoesOn
<1>6. VersionsOK'
  BY VersionsKept DEF IInv, VersionsOK, server
<1>7. ServedOK'
  BY ServedKept DEF server
<1>8. NewestOnItsWay'
  BY NewestSame DEF monitor, server
<1>9. AnswerUnderWay'
  <2>1. ASSUME NEW id \in j.waiting \ left'[c]
        PROVE  /\ j.conn # None /\ j.conn \in reading'
               /\ j.conn \in shut' \cup hung' \/ OnTheWay(j.conn, id)'
    <3>1. id \in client[c].waiting \ left[c] /\ id \in client[c].pending
      BY <1>2, <2>1 DEF IInv, WaitingOK
    <3>2. j.conn = client[c].conn
      BY <1>2, <2>1, <3>1
    <3>3. /\ j.conn # None /\ j.conn \in reading
          /\ j.conn \in shut \cup hung \/ OnTheWay(j.conn, id)
      BY <3>1, <3>2 DEF IInv, AnswerUnderWay
    <3> QED
      BY <1>2, <3>3 DEF OnTheWay, Held, IsEvent, server
  <2>2. answers' = answers
    BY DEF server
  <2> QED
    BY <1>2, <2>1, <2>2, OthersWait
<1>10. ExitUnderWay'
  BY ExitKept
<1> QED
  BY <1>3, <1>4, <1>5, <1>6, <1>7, <1>8, <1>9, <1>10 DEF IInv

(* A request of a client that has its connection already.                   *)
LEMMA AskStep ==
  ASSUME IInv, NEW c \in Clients, NEW op \in Ops, NEW j \in Client, Ask(c, op, j),
         client[c].conn # None, j.conn = client[c].conn, j.dials = client[c].dials,
         j.asked = client[c].asked, j.pending = client[c].pending,
         j.waiting = client[c].waiting, op # "other" => op = j.at,
         op = "other" => /\ j.call = client[c].call /\ j.at = client[c].at
                         /\ j.reply = client[c].reply,
         UNCHANGED <<monitor, server, idling, messages, shut, hung, reading, history>>,
         inputs' \in 0..MaxInputs, inputs' >= inputs,
         j.asked + 1 + (IF j.at = "hello" THEN 1 ELSE 0) <= 2 * j.dials + inputs'
  PROVE  IInv'
<1>1. /\ j.conn \in Conns /\ Of(j.conn) = c /\ j.conn[2] <= j.dials /\ j.conn \in reading
  BY DEF IInv, ConnOK, Shapes, TypeOK
<1>2. j.asked + 1 \in Ids /\ inputs' \in Nat
  <2>1. j.asked \in Nat /\ j.dials \in Nat /\ j.dials <= MaxDials /\ inputs' \in Nat /\ inputs' <= MaxInputs
    BY NoneApart DEF Client
  <2>2. j.asked + 1 <= 2 * j.dials + inputs'
    BY <2>1
  <2>3. j.asked + 1 <= 2 * MaxDials + MaxInputs
    BY <2>1, <2>2, NoneApart
  <2> QED
    BY <2>1, <2>3, NoneApart DEF Ids
<1>3. UNCHANGED <<answers, messages, shut, hung, left>> /\ reading' = reading
  BY DEF server, history
<1>4. /\ client' \in [Clients -> Client] /\ requests' \in [Conns -> Seq(Request)]
      /\ AskedOK' /\ CallsOK' /\ ConnOK' /\ KnownOK' /\ WaitingOK' /\ AnswerUnderWay'
  BY <1>1, <1>2, <1>3, AskKeeps
<1>5. Shapes'
  BY <1>3, <1>4 DEF IInv, Shapes, TypeOK, monitor, server, idling, history
<1>6. VersionsOK'
  BY <1>3, VersionsKept DEF IInv, VersionsOK, history
<1>7. ServedOK'
  <2>1. PICK id : id = j.asked + 1
    OBVIOUS
  <2>2. PICK k : k = Asked(j, id, op)
    OBVIOUS
  <2>3. client' = [client EXCEPT ![c] = k]
    BY <2>1, <2>2 DEF Ask
  <2>4. k.dials = client[c].dials
    BY <2>2 DEF Asked, Client
  <2> QED
    BY <2>3, <2>4, ServedKept DEF server
<1>8. NewestOnItsWay'
  BY <1>3, NewestSame DEF monitor, server, history
<1>9. ExitUnderWay'
  BY ExitKept DEF history
<1> QED
  BY <1>4, <1>5, <1>6, <1>7, <1>8, <1>9 DEF IInv

LEMMA SendInv ==
  ASSUME IInv, NEW c \in Clients, Send(c)
  PROVE  IInv'
<1>1. /\ client[c].conn # None /\ inputs < MaxInputs /\ inputs' = inputs + 1
      /\ Ask(c, "other", client[c])
      /\ UNCHANGED <<monitor, server, idling, messages, shut, hung, reading, history>>
  BY DEF Send, Input
<1>2. client[c] \in Client /\ inputs \in 0..MaxInputs /\ "other" \in Ops
  BY DEF IInv, Shapes, TypeOK, Ops
<1>3. inputs' \in 0..MaxInputs /\ inputs' >= inputs
  BY <1>1, <1>2, NoneApart
<1>4. client[c].asked + 1 + (IF client[c].at = "hello" THEN 1 ELSE 0) <= 2 * client[c].dials + inputs'
  <2>1. client[c].asked + (IF client[c].at = "hello" THEN 1 ELSE 0) <= 2 * client[c].dials + inputs
    BY DEF IInv, AskedOK
  <2>2. client[c].asked \in Nat /\ client[c].dials \in Nat /\ inputs \in Nat
    BY <1>2, NoneApart DEF Client
  <2> QED
    BY <1>1, <2>1, <2>2
<1> QED
  BY <1>1, <1>2, <1>3, <1>4, AskStep

LEMMA ConnectingInv ==
  ASSUME IInv, NEW c \in Clients, Connecting(c)
  PROVE  IInv'
<1>1. PICK reply : reply = client[c].reply
  OBVIOUS
<1>2. PICK j : j = [client[c] EXCEPT !.reply = None, !.call = None]
  OBVIOUS
<1>3. client[c] \in Client /\ reply \in Replies
  <2>1. client[c] \in Client /\ client[c].reply # None
    BY DEF IInv, Shapes, TypeOK, Connecting
  <2> QED
    BY <1>1, <2>1 DEF Client
<1>4. /\ j \in Client /\ j.conn = client[c].conn /\ j.at = client[c].at
      /\ j.dials = client[c].dials /\ j.asked = client[c].asked
      /\ j.pending = client[c].pending /\ j.waiting = client[c].waiting
      /\ j.reply = None /\ j.call = None
  BY <1>2, <1>3 DEF Client
<1>5. UNCHANGED <<monitor, server, idling, messages, shut, reading, got, dropped,
                    overtaken>>
  BY DEF Connecting
<1>6. /\ reply.kind # "stopped" => reply.kind = client[c].at
      /\ inputs \in 0..MaxInputs /\ inputs \in Nat
  BY <1>1, <1>3, NoneApart DEF IInv, CallsOK, Shapes, TypeOK
<1>7. ASSUME Hangup(c, [j EXCEPT !.at = "off"]), requests' = requests,
             (\E kind : Input(kind)) \/ UNCHANGED inputs
      PROVE  IInv'
  <2>1. PICK k : k = [j EXCEPT !.at = "off", !.conn = None]
    OBVIOUS
  <2>2. client' = [client EXCEPT ![c] = k]
    BY <1>7, <2>1, <1>4 DEF Hangup, Client
  <2>3. /\ k \in Client /\ k.conn = None /\ k.at = "off" /\ k.call = None /\ k.reply = None
        /\ k.dials = j.dials /\ k.asked = j.asked /\ k.pending = j.pending /\ k.waiting = j.waiting
    BY <1>4, <2>1 DEF Client
  <2>4. \/ client[c].conn = None /\ UNCHANGED <<hung, left>>
        \/ /\ client[c].conn # None
           /\ hung' = hung \cup {client[c].conn}
           /\ left' = [left EXCEPT ![c] = left[c] \cup client[c].pending]
    <3>1. CASE client[c].conn = None
      BY <1>7, <3>1 DEF Hangup
    <3>2. CASE client[c].conn # None
      BY <1>7, <3>2 DEF Hangup
    <3> QED
      BY <3>1, <3>2
  <2>5. inputs' \in 0..MaxInputs /\ inputs' >= inputs
    BY <1>7, InputCounted DEF IInv, Shapes
  <2> QED
    BY <1>4, <1>5, <1>7, <2>2, <2>3, <2>4, <2>5, ClientStep
<1>8. ASSUME reply.kind = "hello", j.conn # None,
             Ask(c, "snapshot", [j EXCEPT !.at = "snapshot"]), UNCHANGED <<hung, left, inputs>>
      PROVE  IInv'
  <2>1. PICK k : k = [j EXCEPT !.at = "snapshot"]
    OBVIOUS
  <2>2. /\ k \in Client /\ k.conn = j.conn /\ k.at = "snapshot" /\ k.dials = j.dials
        /\ k.asked = j.asked /\ k.pending = j.pending /\ k.waiting = j.waiting
    BY <1>4, <2>1 DEF Client
  <2>3. k.asked + 1 + (IF k.at = "hello" THEN 1 ELSE 0) <= 2 * k.dials + inputs'
    <3>1. client[c].at = "hello"
      BY <1>6, <1>8
    <3>2. client[c].asked + 1 <= 2 * client[c].dials + inputs
      BY <3>1 DEF IInv, AskedOK
    <3>3. client[c].asked \in Nat /\ client[c].dials \in Nat
      BY <1>3, NoneApart DEF Client
    <3> QED
      BY <1>4, <1>6, <1>8, <2>2, <3>2, <3>3
  <2>4. Ask(c, "snapshot", k) /\ "snapshot" \in Ops /\ inputs' \in 0..MaxInputs /\ inputs' >= inputs
    BY <1>6, <1>8, <2>1 DEF Ops
  <2>5. UNCHANGED <<monitor, server, idling, messages, shut, hung, reading, history>>
    BY <1>5, <1>8 DEF history
  <2> QED
    BY <1>4, <1>8, <2>2, <2>3, <2>4, <2>5, AskStep
<1>9. ASSUME client' = [client EXCEPT ![c] =
               [j EXCEPT !.mirror = reply.version, !.at = IF j.conn = None THEN "off" ELSE "on"]],
             UNCHANGED <<requests, hung, left, inputs>>
      PROVE  IInv'
  <2>1. PICK at : at = IF j.conn = None THEN "off" ELSE "on"
    OBVIOUS
  <2>2. PICK k : k = [j EXCEPT !.mirror = reply.version, !.at = at]
    OBVIOUS
  <2>3. client' = [client EXCEPT ![c] = k]
    BY <1>9, <2>1, <2>2
  <2>4. at \in {"off", "on"} /\ reply.version \in Versions \cup {None}
    BY <1>3, <2>1 DEF Replies
  <2>5. /\ k \in Client /\ k.conn = j.conn /\ k.at = at /\ k.dials = j.dials
        /\ k.asked = j.asked /\ k.pending = j.pending /\ k.waiting = j.waiting
        /\ k.call = None /\ k.reply = None
    BY <1>4, <2>2, <2>4 DEF Client
  <2>6. k.at # "hello" /\ inputs' \in 0..MaxInputs /\ inputs' >= inputs
    BY <1>6, <1>9, <2>4, <2>5
  <2>7. /\ k.conn = client[c].conn /\ UNCHANGED <<hung, left>>
        /\ k.dials = client[c].dials /\ k.asked = client[c].asked
        /\ k.pending = client[c].pending /\ k.waiting = client[c].waiting
        /\ UNCHANGED <<monitor, server, idling, requests, messages, shut, reading, got, dropped,
                    overtaken>>
    BY <1>4, <1>5, <1>9, <2>5
  <2> QED
    BY <2>3, <2>5, <2>6, <2>7, ClientStep
<1>10. \/ /\ Hangup(c, [j EXCEPT !.at = "off"])
          /\ UNCHANGED <<requests, inputs>>
       \/ /\ Input("mismatch")
          /\ Hangup(c, [j EXCEPT !.at = "off"])
          /\ UNCHANGED requests
       \/ /\ reply.kind = "hello" /\ j.conn # None
          /\ Ask(c, "snapshot", [j EXCEPT !.at = "snapshot"])
          /\ UNCHANGED <<hung, left, inputs>>
       \/ /\ client' = [client EXCEPT ![c] =
               [j EXCEPT !.mirror = reply.version, !.at = IF j.conn = None THEN "off" ELSE "on"]]
          /\ UNCHANGED <<requests, hung, left, inputs>>
  BY <1>1, <1>2 DEF Connecting
<1> QED
  BY <1>7, <1>8, <1>9, <1>10

(* The process of a client ends: its front end is closed, or has panicked.   *)
LEMMA ProcessEndsInv ==
  ASSUME IInv, NEW c \in Clients, NEW at \in {"off", "crashed"}, ProcessEnds(c, at),
         UNCHANGED <<monitor, server, idling, requests, shut, left, dropped,
                    overtaken>>,
         (\E kind : Input(kind)) \/ UNCHANGED inputs
  PROVE  IInv'
<1>1. PICK own : own = {conn \in Conns : Of(conn) = c /\ conn[2] <= client[c].dials}
  OBVIOUS
<1>2. PICK j : j = [client[c] EXCEPT !.at = at, !.conn = None, !.mirror = None,
                      !.call = None, !.reply = None, !.pending = {}, !.waiting = {}]
  OBVIOUS
<1>3. /\ client' = [client EXCEPT ![c] = j]
      /\ reading' = reading \ own /\ hung' = hung \cup own
      /\ messages' = [conn \in Conns |-> IF conn \in own THEN << >> ELSE messages[conn]]
      /\ got' = [conn \in Conns |-> IF conn \in own THEN 0 ELSE got[conn]]
  BY <1>1, <1>2 DEF ProcessEnds
<1>4. /\ client \in [Clients -> Client] /\ client[c] \in Client
      /\ messages \in [Conns -> Seq(Message)] /\ got \in [Conns -> Versions]
      /\ left \in [Clients -> SUBSET Ids] /\ version \in Versions
  BY DEF IInv, Shapes, TypeOK
<1>5. /\ j \in Client /\ j.at = at /\ j.conn = None /\ j.call = None /\ j.reply = None
      /\ j.pending = {} /\ j.waiting = {}
      /\ j.dials = client[c].dials /\ j.asked = client[c].asked
  BY <1>2, <1>4 DEF Client
<1>6. own \subseteq Conns /\ \A conn \in own : Of(conn) = c
  BY <1>1
<1>7. /\ \A conn \in own : messages'[conn] = << >> /\ got'[conn] = 0
      /\ \A conn \in Conns : conn \notin own => messages'[conn] = messages[conn] /\ got'[conn] = got[conn]
      /\ messages' \in [Conns -> Seq(Message)] /\ got' \in [Conns -> Versions]
  <2>1. 0 \in Versions /\ << >> \in Seq(Message)
    BY NoneApart DEF Versions
  <2>2. ASSUME NEW conn \in Conns
        PROVE  /\ conn \in own => messages'[conn] = << >> /\ got'[conn] = 0
               /\ conn \notin own => messages'[conn] = messages[conn] /\ got'[conn] = got[conn]
    BY <1>3
  <2>3. /\ messages' = [conn \in Conns |-> messages'[conn]]
        /\ got' = [conn \in Conns |-> got'[conn]]
    BY <1>3
  <2>4. \A conn \in Conns : messages'[conn] \in Seq(Message) /\ got'[conn] \in Versions
    BY <1>4, <2>1, <2>2
  <2> QED
    BY <1>6, <2>2, <2>3, <2>4
<1>8. inputs' \in 0..MaxInputs /\ inputs' \in Nat /\ inputs \in Nat /\ inputs' >= inputs
  BY InputCounted, NoneApart DEF IInv, Shapes
<1>9. client' \in [Clients -> Client] /\ AskedOK' /\ CallsOK' /\ ConnOK' /\ WaitingOK'
  <2>1. j.asked + (IF j.at = "hello" THEN 1 ELSE 0) <= 2 * j.dials + inputs'
    <3>1. client[c].asked + (IF client[c].at = "hello" THEN 1 ELSE 0) <= 2 * client[c].dials + inputs
      BY DEF IInv, AskedOK
    <3>2. client[c].asked \in Nat /\ client[c].dials \in Nat /\ j.at # "hello"
      BY <1>4, <1>5, NoneApart DEF Client
    <3> QED
      BY <1>5, <1>8, <3>1, <3>2
  <2>2. \A conn \in reading : Of(conn) # c => conn \in reading'
    BY <1>3, <1>6
  <2> QED
    BY <1>3, <1>5, <1>8, <2>1, <2>2, RecordOK
<1>10. Shapes'
  <2>1. hung' \subseteq Conns /\ reading' \subseteq Conns
    BY <1>3, <1>6 DEF IInv, Shapes, TypeOK
  <2> QED
    BY <1>7, <1>8, <1>9, <2>1 DEF IInv, Shapes, TypeOK, monitor, server, idling
<1>11. \A conn \in Conns : Held(messages'[conn]) \subseteq Held(messages[conn])
  BY <1>7, HeldNone
<1>12. KnownOK'
  <2>1. j.asked >= client[c].asked /\ answers' = answers
    BY <1>4, <1>5 DEF Client, server
  <2> QED
    BY <1>3, <1>5, <1>11, <2>1, KnownGoesOn
<1>13. VersionsOK'
  <2>1. \A conn \in Conns : got'[conn] <= version
    <3>1. 0 <= version
      BY <1>4 DEF Versions
    <3> QED
      BY <1>7, <3>1 DEF IInv, VersionsOK
  <2> QED
    BY <1>11, <2>1, VersionsKept DEF server
<1>14. ServedOK'
  BY <1>3, <1>5, ServedKept DEF server
<1>15. NewestOnItsWay'
  <2>1. ASSUME NEW d \in subscribers', d \in reading'
        PROVE  Newest(d)'
    <3>1. d \in Conns /\ d \notin own /\ Newest(d)
      BY <1>3, <2>1 DEF IInv, NewestOnItsWay, Shapes, TypeOK, server
    <3> QED
      BY <1>7, <3>1, NewestGoesOn DEF monitor, server
  <2> QED
    BY <2>1 DEF NewestOnItsWay
<1>16. AnswerUnderWay'
  <2>1. answers' = answers /\ shut' = shut /\ hung \subseteq hung' /\ left' = left
    BY <1>3 DEF server
  <2>2. \A conn \in Conns : Of(conn) # c =>
          /\ conn \in reading => conn \in reading'
          /\ Held(requests[conn]) \subseteq Held(requests'[conn])
          /\ Held(messages[conn]) \subseteq Held(messages'[conn])
    BY <1>3, <1>6, <1>7
  <2>3. j.waiting \ left'[c] = {}
    BY <1>5
  <2> QED
    BY <1>3, <2>1, <2>2, <2>3, OthersWait
<1>17. ExitUnderWay'
  BY ExitKept
<1> QED
  BY <1>9, <1>10, <1>12, <1>13, <1>14, <1>15, <1>16, <1>17 DEF IInv

LEMMA QuitInv ==
  ASSUME IInv, NEW c \in Clients, Quit(c)
  PROVE  IInv'
BY ProcessEndsInv DEF Quit

LEMMA PanicInv ==
  ASSUME IInv, NEW conn \in Conns, Panic(conn)
  PROVE  IInv'
<1>1. PICK c : c = Of(conn)
  OBVIOUS
<1>2. c \in Clients
  BY <1>1 DEF Of, Conns
<1>3. /\ ProcessEnds(c, "crashed")
      /\ UNCHANGED <<monitor, server, idling, requests, shut, left, dropped,
                     overtaken, inputs>>
  BY <1>1 DEF Panic
<1> QED
  BY <1>2, <1>3, ProcessEndsInv

----------------------------------------------------------------------------
(* The read loop.                                                          *)

(* A message is taken, and the client's record becomes j: what matters is    *)
(* that the state it brings is kept in got, and that whoever waits for it   *)
(* waits no longer.                                                        *)
LEMMA TakeKeeps ==
  ASSUME IInv, NEW conn \in Conns, Take(conn), NEW c \in Clients, c = Of(conn),
         NEW m, m = Head(messages[conn]), NEW g \in Versions, g <= version,
         got' = [got EXCEPT ![conn] = g],
         got[conn] = version \/ Brings(m, version) => g = version,
         NEW j \in Client, client' = [client EXCEPT ![c] = j],
         UNCHANGED <<monitor, server, idling, requests, shut, hung, reading, left, dropped,
                     overtaken, inputs>>,
         j.dials = client[c].dials, j.asked = client[c].asked, j.at = client[c].at,
         j.conn = client[c].conn, j.call = client[c].call,
         j.reply # None /\ j.reply.kind # "stopped" => j.reply.kind = j.at,
         j.waiting \subseteq client[c].waiting, j.waiting \subseteq j.pending \cup left[c],
         ~ IsEvent(m) => m.id \notin j.waiting \ left[c]
  PROVE  IInv'
<1>1. /\ client \in [Clients -> Client] /\ client[c] \in Client
      /\ messages \in [Conns -> Seq(Message)] /\ messages[conn] \in Seq(Message)
      /\ got \in [Conns -> Versions] /\ inputs \in Nat /\ inputs' = inputs
  BY NoneApart DEF IInv, Shapes, TypeOK
<1>2. /\ conn \in reading /\ messages[conn] # << >>
      /\ messages' = [messages EXCEPT ![conn] = Tail(messages[conn])]
  BY DEF Take
<1>3. /\ Tail(messages[conn]) \in Seq(Message)
      /\ Held(messages[conn]) = {m} \cup Held(Tail(messages[conn]))
  BY <1>1, <1>2, HeldTail
<1>4. /\ messages' \in [Conns -> Seq(Message)] /\ messages'[conn] = Tail(messages[conn])
      /\ \A d \in Conns : d # conn => messages'[d] = messages[d]
  BY <1>1, <1>2, <1>3
<1>5. /\ got' \in [Conns -> Versions] /\ got'[conn] = g
      /\ \A d \in Conns : d # conn => got'[d] = got[d]
  BY <1>1
<1>6. \A d \in Conns : Held(messages'[d]) \subseteq Held(messages[d])
  BY <1>3, <1>4
<1>7. client' \in [Clients -> Client] /\ AskedOK' /\ CallsOK' /\ ConnOK' /\ WaitingOK'
  <2>1. j.asked + (IF j.at = "hello" THEN 1 ELSE 0) <= 2 * j.dials + inputs'
    BY <1>1 DEF IInv, AskedOK
  <2>2. j.call # None => j.at \in {"hello", "snapshot"} /\ j.call <= j.asked
    BY DEF IInv, CallsOK
  <2>3. j.conn # None => j.conn \in reading' /\ Of(j.conn) = c /\ j.conn[2] <= j.dials
    BY DEF IInv, ConnOK
  <2>4. inputs' \in Nat /\ inputs' >= inputs
    BY <1>1
  <2> QED
    BY <2>1, <2>2, <2>3, <2>4, RecordOK
<1>8. Shapes'
  BY <1>4, <1>5, <1>7 DEF IInv, Shapes, TypeOK, monitor, server, idling
<1>9. KnownOK'
  <2>1. j.asked >= client[c].asked /\ answers' = answers
    BY <1>1 DEF Client, server
  <2> QED
    BY <1>6, <2>1, KnownGoesOn
<1>10. VersionsOK'
  <2>1. \A d \in Conns : got'[d] <= version
    BY <1>5 DEF IInv, VersionsOK
  <2> QED
    BY <1>6, <2>1, VersionsKept DEF server
<1>11. ServedOK'
  BY ServedKept DEF server
<1>12. NewestOnItsWay'
  <2>1. ASSUME NEW d \in subscribers', d \in reading'
        PROVE  Newest(d)'
    <3>1. d \in Conns /\ Newest(d)
      BY <2>1 DEF IInv, NewestOnItsWay, Shapes, TypeOK, server
    <3>2. CASE d # conn
      BY <1>4, <1>5, <3>1, <3>2, NewestGoesOn DEF monitor, server
    <3>3. CASE d = conn /\ g = version
      BY <1>5, <3>3 DEF Newest, monitor
    <3>4. CASE d = conn /\ g # version
      <4>1. ~ (got[conn] = version) /\ ~ Brings(m, version)
        BY <3>4
      <4>2. \/ \E x \in Held(messages[conn]) : Brings(x, version)
            \/ \E a \in answers : /\ a.conn = conn /\ a.op = "snapshot"
                                  /\ a.at = "write" /\ a.version = version
            \/ \E t \in Threads : \/ emits[t].at = "list"
                                  \/ emits[t].at = "read" /\ conn \in emits[t].conns
                                  \/ /\ emits[t].at = "write" /\ conn \in emits[t].conns
                                     /\ emits[t].version = version
        BY <3>1, <3>4, <4>1 DEF Newest
      <4>3. ASSUME NEW x \in Held(messages[conn]), Brings(x, version)
            PROVE  x \in Held(messages'[conn])
        BY <1>3, <1>4, <4>1, <4>3
      <4>4. answers' = answers /\ emits' = emits /\ version' = version
        BY DEF monitor, server
      <4> QED
        BY <3>4, <4>2, <4>3, <4>4 DEF Newest, Brings, IsEvent, Held
    <3> QED
      BY <3>2, <3>3, <3>4
  <2> QED
    BY <2>1 DEF NewestOnItsWay
<1>13. AnswerUnderWay'
  <2>1. ASSUME NEW id \in j.waiting \ left'[c]
        PROVE  /\ j.conn # None /\ j.conn \in reading'
               /\ j.conn \in shut' \cup hung' \/ OnTheWay(j.conn, id)'
    <3>1. id \in client[c].waiting \ left[c] /\ id \in j.waiting \ left[c]
      BY <2>1
    <3>2. /\ j.conn # None /\ j.conn \in reading
          /\ j.conn \in shut \cup hung \/ OnTheWay(j.conn, id)
      BY <3>1 DEF IInv, AnswerUnderWay
    <3>3. j.conn \in Conns
      BY <3>2 DEF Client
    <3>4. ASSUME OnTheWay(j.conn, id)
          PROVE  OnTheWay(j.conn, id)'
      <4>1. CASE \E x \in Held(requests[j.conn]) : x.id = id
        BY <4>1 DEF OnTheWay, Held
      <4>2. CASE \E a \in answers : a.conn = j.conn /\ a.id = id
        BY <4>2 DEF OnTheWay, server
      <4>3. CASE \E x \in Held(messages[j.conn]) : ~ IsEvent(x) /\ x.id = id
        <5>1. PICK x \in Held(messages[j.conn]) : ~ IsEvent(x) /\ x.id = id
          BY <4>3
        <5>2. x # m
          BY <3>1, <5>1
        <5>3. x \in Held(messages'[j.conn])
          BY <1>3, <1>4, <3>3, <5>1, <5>2
        <5> QED
          BY <5>1, <5>3 DEF OnTheWay, IsEvent, Held
      <4> QED
        BY <3>4, <4>1, <4>2, <4>3 DEF OnTheWay
    <3> QED
      BY <3>2, <3>4
  <2>2. \A d \in Conns : Of(d) # c =>
          /\ d \in reading => d \in reading'
          /\ Held(requests[d]) \subseteq Held(requests'[d])
          /\ Held(messages[d]) \subseteq Held(messages'[d])
    BY <1>4
  <2>3. answers' = answers /\ left' = left /\ hung \subseteq hung'
    BY DEF server
  <2> QED
    BY <2>1, <2>2, <2>3, OthersWait
<1>14. ExitUnderWay'
  BY ExitKept
<1> QED
  BY <1>7, <1>8, <1>9, <1>10, <1>11, <1>12, <1>13, <1>14 DEF IInv

LEMMA LargerOK ==
  ASSUME NEW v \in Versions, NEW a \in Versions, a <= v, NEW b \in 0..v
  PROVE  /\ Larger(a, b) \in Versions /\ Larger(a, b) <= v
         /\ a = v \/ b = v => Larger(a, b) = v
BY NoneApart DEF Larger, Versions

LEMMA ReadResponseInv ==
  ASSUME IInv, NEW conn \in Conns, ReadResponse(conn)
  PROVE  IInv'
<1>1. PICK c : c = Of(conn)
  OBVIOUS
<1>2. PICK m : m = Head(messages[conn])
  OBVIOUS
<1>3. PICK g : g = IF m.op = "snapshot" THEN Larger(got[conn], m.version) ELSE got[conn]
  OBVIOUS
<1>4. PICK reply : reply = IF m.id = client[c].call THEN [kind |-> m.op, version |-> m.version]
                           ELSE client[c].reply
  OBVIOUS
<1>5. PICK j : j = IF m.id \in client[c].pending
                   THEN [client[c] EXCEPT !.pending = client[c].pending \ {m.id},
                                          !.waiting = client[c].waiting \ {m.id},
                                          !.reply = reply]
                   ELSE client[c]
  OBVIOUS
<1>6. /\ c \in Clients /\ client \in [Clients -> Client] /\ client[c] \in Client
      /\ messages[conn] \in Seq(Message) /\ got \in [Conns -> Versions]
      /\ got[conn] \in Versions /\ version \in Versions /\ got[conn] <= version
  BY <1>1 DEF Of, Conns, IInv, Shapes, TypeOK, VersionsOK
<1>7. /\ Take(conn) /\ ~ IsEvent(m) /\ messages[conn] # << >>
      /\ UNCHANGED <<monitor, server, idling, requests, shut, hung, reading, left, dropped,
                     overtaken, inputs>>
  BY <1>2 DEF ReadResponse, Take
<1>8. m \in Held(messages[conn]) /\ m \in Message
  BY <1>2, <1>6, <1>7, HeldTail
<1>9. /\ m.id \in Ids /\ m.op \in Ops /\ m.version \in Versions \cup {None}
      /\ m.op = "snapshot" => m.version \in 0..version
      /\ m.id = client[c].call => m.op = client[c].at
  <2>1. m.id \in Ids /\ m.op \in Ops /\ m.version \in Versions \cup {None}
    BY <1>7, <1>8 DEF Message, IsEvent
  <2>2. m.op = "snapshot" => m.version \in 0..version
    BY <1>7, <1>8 DEF IInv, VersionsOK
  <2>3. Known(conn, m)
    BY <1>7, <1>8 DEF IInv, KnownOK
  <2> QED
    BY <1>1, <2>1, <2>2, <2>3 DEF Known
<1>10. client' = [client EXCEPT ![c] = j]
  <2>1. CASE m.id \in client[c].pending
    <3>1. client' = [client EXCEPT ![c].pending = @ \ {m.id}, ![c].waiting = @ \ {m.id},
                                   ![c].reply = reply]
      BY <1>1, <1>2, <1>4, <2>1 DEF ReadResponse
    <3> QED
      BY <1>5, <1>6, <2>1, <3>1 DEF Client
  <2>2. CASE m.id \notin client[c].pending
    <3>1. client' = client
      BY <1>1, <1>2, <2>2 DEF ReadResponse
    <3> QED
      BY <1>5, <1>6, <2>2, <3>1
  <2> QED
    BY <2>1, <2>2
<1>11. got' = [got EXCEPT ![conn] = g]
  <2>1. CASE m.op = "snapshot"
    BY <1>1, <1>2, <1>3, <2>1 DEF ReadResponse
  <2>2. CASE m.op # "snapshot"
    <3>1. got' = got
      BY <1>1, <1>2, <2>2 DEF ReadResponse
    <3> QED
      BY <1>3, <1>6, <2>2, <3>1
  <2> QED
    BY <2>1, <2>2
<1>12. /\ g \in Versions /\ g <= version
       /\ got[conn] = version \/ Brings(m, version) => g = version
  <2>1. CASE m.op = "snapshot"
    <3>1. g = Larger(got[conn], m.version)
      BY <1>3, <2>1
    <3>2. Brings(m, version) => m.version = version
      BY <1>7 DEF Brings
    <3> QED
      BY <1>6, <1>9, <2>1, <3>1, <3>2, LargerOK
  <2>2. CASE m.op # "snapshot"
    BY <1>3, <1>6, <1>7, <2>2 DEF Brings
  <2> QED
    BY <2>1, <2>2
<1>13. /\ j \in Client /\ j.dials = client[c].dials /\ j.asked = client[c].asked
       /\ j.at = client[c].at /\ j.conn = client[c].conn /\ j.call = client[c].call
       /\ j.reply # None /\ j.reply.kind # "stopped" => j.reply.kind = j.at
       /\ j.waiting \subseteq client[c].waiting /\ j.waiting \subseteq j.pending \cup left[c]
       /\ m.id \notin j.waiting \ left[c]
  <2>0. client[c].waiting \subseteq client[c].pending \cup left[c]
    BY <1>6 DEF IInv, WaitingOK
  <2>1. CASE m.id \in client[c].pending
    <3>1. reply \in Replies \cup {None} /\ (reply # None /\ reply.kind # "stopped" => reply.kind = client[c].at)
      <4>1. CASE m.id = client[c].call
        <5>1. m.op \in {"hello", "snapshot"}
          BY <1>6, <1>9, <4>1, NoneApart, IdsAreNumbers DEF IInv, CallsOK
        <5>2. reply = [kind |-> m.op, version |-> m.version]
          BY <1>4, <4>1
        <5> QED
          BY <1>9, <4>1, <5>1, <5>2 DEF Replies
      <4>2. CASE m.id # client[c].call
        <5>1. reply = client[c].reply
          BY <1>4, <4>2
        <5> QED
          BY <1>6, <5>1 DEF IInv, CallsOK, Client
      <4> QED
        BY <4>1, <4>2
    <3>2. j = [client[c] EXCEPT !.pending = client[c].pending \ {m.id},
                                !.waiting = client[c].waiting \ {m.id}, !.reply = reply]
      BY <1>5, <2>1
    <3>3. /\ j \in Client /\ j.dials = client[c].dials /\ j.asked = client[c].asked
          /\ j.at = client[c].at /\ j.conn = client[c].conn /\ j.call = client[c].call
          /\ j.reply = reply /\ j.pending = client[c].pending \ {m.id}
          /\ j.waiting = client[c].waiting \ {m.id}
      BY <1>6, <3>1, <3>2 DEF Client
    <3> QED
      BY <2>0, <3>1, <3>3
  <2>2. CASE m.id \notin client[c].pending
    <3>1. j = client[c]
      BY <1>5, <2>2
    <3>2. j.reply # None /\ j.reply.kind # "stopped" => j.reply.kind = j.at
      BY <1>6, <3>1 DEF IInv, CallsOK
    <3> QED
      BY <1>6, <2>0, <2>2, <3>1, <3>2
  <2> QED
    BY <2>1, <2>2
<1> QED
  BY <1>1, <1>2, <1>6, <1>7, <1>10, <1>11, <1>12, <1>13, TakeKeeps

LEMMA ReadEventInv ==
  ASSUME IInv, NEW conn \in Conns, ReadEvent(conn)
  PROVE  IInv'
<1>1. PICK c : c = Of(conn)
  OBVIOUS
<1>2. PICK m : m = Head(messages[conn])
  OBVIOUS
<1>3. PICK g : g = Larger(got[conn], m.event)
  OBVIOUS
<1>4. PICK j : j = [client[c] EXCEPT !.mirror = m.event]
  OBVIOUS
<1>6. /\ c \in Clients /\ client \in [Clients -> Client] /\ client[c] \in Client
      /\ messages[conn] \in Seq(Message) /\ got \in [Conns -> Versions]
      /\ got[conn] \in Versions /\ version \in Versions /\ got[conn] <= version
  BY <1>1 DEF Of, Conns, IInv, Shapes, TypeOK, VersionsOK
<1>7. /\ Take(conn) /\ IsEvent(m) /\ messages[conn] # << >>
      /\ client' = [client EXCEPT ![c] = j] /\ got' = [got EXCEPT ![conn] = g]
      /\ UNCHANGED <<monitor, server, idling, requests, shut, hung, reading, left, dropped,
                     overtaken, inputs>>
  BY <1>1, <1>2, <1>3, <1>4 DEF ReadEvent, Take
<1>8. m \in Held(messages[conn]) /\ m \in Message
  BY <1>2, <1>6, <1>7, HeldTail
<1>9. m.event \in Versions /\ m.event \in 0..version
  <2>1. m.event \in 0..version
    BY <1>7, <1>8 DEF IInv, VersionsOK
  <2> QED
    BY <1>6, <2>1, NoneApart DEF Versions
<1>10. /\ g \in Versions /\ g <= version
       /\ got[conn] = version \/ Brings(m, version) => g = version
  <2>1. Brings(m, version) => m.event = version
    BY <1>7 DEF Brings
  <2> QED
    BY <1>3, <1>6, <1>9, <2>1, LargerOK
<1>11. /\ j \in Client /\ j.dials = client[c].dials /\ j.asked = client[c].asked
       /\ j.at = client[c].at /\ j.conn = client[c].conn /\ j.call = client[c].call
       /\ j.reply = client[c].reply /\ j.waiting = client[c].waiting
       /\ j.pending = client[c].pending
  BY <1>4, <1>6, <1>9 DEF Client
<1>12. /\ j.reply # None /\ j.reply.kind # "stopped" => j.reply.kind = j.at
       /\ j.waiting \subseteq j.pending \cup left[c]
  BY <1>6, <1>11 DEF IInv, CallsOK, WaitingOK
<1> QED
  BY <1>1, <1>2, <1>6, <1>7, <1>10, <1>11, <1>12, TakeKeeps

(* The record of a client whose connection has ended.                       *)
LEMMA DroppedOK ==
  ASSUME IInv, NEW c \in Clients, client[c].conn # None
  PROVE  /\ Dropped(c) \in Client /\ Dropped(c).conn = None
         /\ Dropped(c).dials = client[c].dials /\ Dropped(c).asked = client[c].asked
         /\ Dropped(c).call = client[c].call
         /\ Dropped(c).at = client[c].at \/ (client[c].at = "on" /\ Dropped(c).at = "off")
         /\ Dropped(c).reply = client[c].reply \/ Dropped(c).reply = Stopped
         /\ Dropped(c).waiting = client[c].waiting \ client[c].pending
<1>1. PICK reply : reply = IF client[c].call \in client[c].pending THEN Stopped ELSE client[c].reply
  OBVIOUS
<1>2. PICK at : at = IF client[c].at = "on" THEN "off" ELSE client[c].at
  OBVIOUS
<1>3. Dropped(c) = [client[c] EXCEPT !.conn = None, !.pending = {},
                                     !.waiting = client[c].waiting \ client[c].pending,
                                     !.reply = reply, !.at = at]
  BY <1>1, <1>2 DEF Dropped
<1>4. client[c] \in Client
  BY DEF IInv, Shapes, TypeOK
<1>5. /\ reply \in Replies \cup {None} /\ (reply = client[c].reply \/ reply = Stopped)
      /\ at \in {"off", "hello", "snapshot", "on", "crashed"}
      /\ at = client[c].at \/ (client[c].at = "on" /\ at = "off")
  <2>1. Stopped \in Replies
    BY DEF Stopped, Replies
  <2> QED
    BY <1>1, <1>2, <1>4, <2>1 DEF Client
<1>6. PICK k : k = Dropped(c)
  OBVIOUS
<1>7. k = [client[c] EXCEPT !.conn = None, !.pending = {},
                            !.waiting = client[c].waiting \ client[c].pending,
                            !.reply = reply, !.at = at]
  BY <1>3, <1>6
<1>8. /\ k \in Client /\ k.conn = None /\ k.dials = client[c].dials /\ k.asked = client[c].asked
      /\ k.call = client[c].call /\ k.at = at /\ k.reply = reply
      /\ k.waiting = client[c].waiting \ client[c].pending
  BY <1>4, <1>5, <1>7 DEF Client
<1> QED
  BY <1>5, <1>6, <1>8

LEMMA ReadEndsInv ==
  ASSUME IInv, NEW conn \in Conns, ReadEnds(conn)
  PROVE  IInv'
<1>1. PICK c : c = Of(conn)
  OBVIOUS
<1>2. PICK j : j = IF client[c].conn = conn THEN Dropped(c) ELSE client[c]
  OBVIOUS
<1>3. /\ c \in Clients /\ client \in [Clients -> Client] /\ client[c] \in Client
      /\ messages \in [Conns -> Seq(Message)] /\ got \in [Conns -> Versions]
      /\ version \in Versions /\ inputs \in Nat
  BY <1>1, NoneApart DEF Of, Conns, IInv, Shapes, TypeOK
<1>4. /\ reading' = reading \ {conn}
      /\ messages' = [messages EXCEPT ![conn] = << >>]
      /\ got' = [got EXCEPT ![conn] = 0]
      /\ client' = [client EXCEPT ![c] = j]
      /\ UNCHANGED <<monitor, server, idling, requests, shut, hung, left, dropped,
                     overtaken, inputs>>
  <2>1. client' = [client EXCEPT ![c] = j]
    <3>1. CASE client[c].conn = conn
      BY <1>1, <1>2, <3>1 DEF ReadEnds
    <3>2. CASE client[c].conn # conn
      <4>1. client' = client /\ j = client[c]
        BY <1>1, <1>2, <3>2 DEF ReadEnds
      <4> QED
        BY <1>3, <4>1
    <3> QED
      BY <3>1, <3>2
  <2> QED
    BY <2>1 DEF ReadEnds
<1>5. /\ messages' \in [Conns -> Seq(Message)] /\ messages'[conn] = << >>
      /\ \A d \in Conns : d # conn => messages'[d] = messages[d]
      /\ got' \in [Conns -> Versions] /\ got'[conn] = 0
      /\ \A d \in Conns : d # conn => got'[d] = got[d]
  <2>1. 0 \in Versions /\ << >> \in Seq(Message)
    BY NoneApart DEF Versions
  <2> QED
    BY <1>3, <1>4, <2>1
<1>6. \A d \in Conns : Held(messages'[d]) \subseteq Held(messages[d])
  BY <1>5, HeldNone
<1>7. /\ j \in Client /\ j.dials = client[c].dials /\ j.asked = client[c].asked
      /\ j.call = client[c].call
      /\ j.at = client[c].at \/ (client[c].at = "on" /\ j.at = "off")
      /\ j.reply = client[c].reply \/ j.reply = Stopped
      /\ j.waiting \subseteq client[c].waiting /\ j.waiting \subseteq j.pending \cup left[c]
      /\ \/ j.conn = None /\ j.waiting \subseteq left[c]
         \/ j.conn = client[c].conn /\ j.conn # conn
  <2>0. client[c].waiting \subseteq client[c].pending \cup left[c]
    BY <1>3 DEF IInv, WaitingOK
  <2>1. CASE client[c].conn = conn
    <3>1. j = Dropped(c) /\ client[c].conn # None
      <4>1. client[c].conn # None
        BY <2>1, NoneApart
      <4> QED
        BY <1>2, <2>1, <4>1
    <3>2. /\ j \in Client /\ j.dials = client[c].dials /\ j.asked = client[c].asked
          /\ j.call = client[c].call
          /\ j.at = client[c].at \/ (client[c].at = "on" /\ j.at = "off")
          /\ j.reply = client[c].reply \/ j.reply = Stopped
          /\ j.conn = None /\ j.waiting = client[c].waiting \ client[c].pending
      BY <1>3, <3>1, DroppedOK
    <3> QED
      BY <2>0, <3>2
  <2>2. CASE client[c].conn # conn
    BY <1>2, <1>3, <2>0, <2>2
  <2> QED
    BY <2>1, <2>2
<1>8. client' \in [Clients -> Client] /\ AskedOK' /\ CallsOK' /\ ConnOK' /\ WaitingOK'
  <2>1. j.asked + (IF j.at = "hello" THEN 1 ELSE 0) <= 2 * j.dials + inputs'
    <3>1. client[c].asked + (IF client[c].at = "hello" THEN 1 ELSE 0) <= 2 * client[c].dials + inputs
      BY <1>3 DEF IInv, AskedOK
    <3>2. client[c].at = "hello" <=> j.at = "hello"
      BY <1>7
    <3> QED
      BY <1>4, <1>7, <3>1, <3>2
  <2>2. /\ client[c].call # None => client[c].at \in {"hello", "snapshot"} /\ client[c].call <= client[c].asked
        /\ client[c].reply # None /\ client[c].reply.kind # "stopped" =>
             client[c].reply.kind = client[c].at
    BY <1>3 DEF IInv, CallsOK
  <2>3. j.call # None => j.at \in {"hello", "snapshot"} /\ j.call <= j.asked
    BY <1>7, <2>2
  <2>4. j.reply # None /\ j.reply.kind # "stopped" => j.reply.kind = j.at
    <3>1. client[c].reply # None => client[c].reply.kind \in {"hello", "snapshot", "stopped"}
      BY <1>3 DEF Client, Replies
    <3>2. Stopped.kind = "stopped"
      BY DEF Stopped
    <3> QED
      BY <1>7, <2>2, <3>1, <3>2
  <2>5. j.conn # None => j.conn \in reading' /\ Of(j.conn) = c /\ j.conn[2] <= j.dials
    BY <1>3, <1>4, <1>7 DEF IInv, ConnOK
  <2>6. (\A d \in reading : Of(d) # c => d \in reading') /\ inputs' \in Nat /\ inputs' >= inputs /\ left' = left
    BY <1>1, <1>3, <1>4
  <2> QED
    BY <1>3, <1>4, <1>7, <2>1, <2>3, <2>4, <2>5, <2>6, RecordOK
<1>9. Shapes'
  <2>1. reading' \subseteq Conns
    BY <1>4 DEF IInv, Shapes, TypeOK
  <2> QED
    BY <1>4, <1>5, <1>8, <2>1 DEF IInv, Shapes, TypeOK, monitor, server, idling
<1>10. KnownOK'
  <2>1. j.asked >= client[c].asked /\ answers' = answers /\ requests' = requests
    BY <1>3, <1>4, <1>7 DEF Client, server
  <2>2. j.call = None \/ (j.call = client[c].call /\ j.at = client[c].at)
    BY <1>3, <1>7 DEF IInv, CallsOK
  <2> QED
    BY <1>3, <1>4, <1>6, <1>7, <2>1, <2>2, KnownGoesOn
<1>11. VersionsOK'
  <2>1. \A d \in Conns : got'[d] <= version
    <3>1. 0 <= version
      BY <1>3, NoneApart DEF Versions
    <3> QED
      BY <1>5, <3>1 DEF IInv, VersionsOK
  <2> QED
    BY <1>4, <1>6, <2>1, VersionsKept DEF server
<1>12. ServedOK'
  BY <1>3, <1>4, <1>7, ServedKept DEF server
<1>13. NewestOnItsWay'
  <2>1. ASSUME NEW d \in subscribers', d \in reading'
        PROVE  Newest(d)'
    <3>1. d \in Conns /\ d # conn /\ Newest(d)
      BY <1>4, <2>1 DEF IInv, NewestOnItsWay, Shapes, TypeOK, server
    <3> QED
      BY <1>4, <1>5, <3>1, NewestGoesOn DEF monitor, server
  <2> QED
    BY <2>1 DEF NewestOnItsWay
<1>14. AnswerUnderWay'
  <2>1. ASSUME NEW id \in j.waiting \ left'[c]
        PROVE  /\ j.conn # None /\ j.conn \in reading'
               /\ j.conn \in shut' \cup hung' \/ OnTheWay(j.conn, id)'
    <3>1. id \in client[c].waiting \ left[c] /\ j.conn = client[c].conn /\ j.conn # conn
      BY <1>4, <1>7, <2>1
    <3>2. /\ j.conn # None /\ j.conn \in reading
          /\ j.conn \in shut \cup hung \/ OnTheWay(j.conn, id)
      BY <1>3, <3>1 DEF IInv, AnswerUnderWay
    <3>3. j.conn \in Conns
      BY <1>7, <3>2 DEF Client
    <3>4. OnTheWay(j.conn, id) => OnTheWay(j.conn, id)'
      BY <1>4, <1>5, <3>1, <3>3 DEF OnTheWay, Held, IsEvent, server
    <3> QED
      BY <1>4, <3>1, <3>2, <3>4
  <2>2. \A d \in Conns : Of(d) # c =>
          /\ d \in reading => d \in reading'
          /\ Held(requests[d]) \subseteq Held(requests'[d])
          /\ Held(messages[d]) \subseteq Held(messages'[d])
    BY <1>1, <1>4, <1>5
  <2>3. answers' = answers /\ left' = left /\ hung \subseteq hung' /\ shut' = shut
    BY <1>4 DEF server
  <2> QED
    BY <1>3, <1>4, <2>1, <2>2, <2>3, OthersWait
<1>15. ExitUnderWay'
  BY <1>4, ExitKept
<1> QED
  BY <1>8, <1>9, <1>10, <1>11, <1>12, <1>13, <1>14, <1>15 DEF IInv

----------------------------------------------------------------------------
LEMMA InitInv ==
  ASSUME Init
  PROVE  IInv
<1>1. /\ version = 0 /\ merging = FALSE /\ emits = [t \in Threads |-> NoEmit]
      /\ phase = "serving" /\ served = [conn \in Conns |-> "none"]
      /\ subscribers = {} /\ dropping = {} /\ answers = {}
      /\ vacancy = 0 /\ idle = FALSE
      /\ checks = IF KeepRunning THEN {} ELSE {[of |-> 0, at |-> "timer"]}
      /\ requests = [conn \in Conns |-> << >>] /\ messages = [conn \in Conns |-> << >>]
      /\ shut = {} /\ hung = {} /\ reading = {}
      /\ got = [conn \in Conns |-> 0] /\ left = [c \in Clients |-> {}] /\ dropped = FALSE
      /\ overtaken = {}
      /\ inputs = 0
  BY DEF Init
<1>2. PICK j : j = [conn |-> None, dials |-> 0, at |-> "off", call |-> None, reply |-> None,
                    mirror |-> None, asked |-> 0, pending |-> {}, waiting |-> {}]
  OBVIOUS
<1>3. client = [c \in Clients |-> j]
  BY <1>2 DEF Init
<1>4. /\ j \in Client /\ j.conn = None /\ j.dials = 0 /\ j.at = "off" /\ j.call = None
      /\ j.reply = None /\ j.asked = 0 /\ j.pending = {} /\ j.waiting = {}
  <2>1. 0 \in 0..MaxDials /\ 0 \in Nat
    BY NoneApart
  <2> QED
    BY <1>2, <2>1 DEF Client
<1>5. \A c \in Clients : client[c] = j
  BY <1>3
<1>6. /\ checks \subseteq [of : Nat, at : {"timer", "merging?"}]
      /\ \A k \in checks : k.of \in 0..vacancy /\ k.at \in {"timer", "merging?"}
      /\ ~ KeepRunning => \E k \in checks : k.of = vacancy
  <2>1. PICK k : k = [of |-> 0, at |-> "timer"]
    OBVIOUS
  <2>2. k \in [of : Nat, at : {"timer", "merging?"}] /\ k.of = 0 /\ k.at = "timer" /\ 0 \in 0..0
    BY <2>1
  <2>3. CASE KeepRunning
    BY <1>1, <2>3
  <2>4. CASE ~ KeepRunning
    <3>1. checks = {k}
      BY <1>1, <2>1, <2>4
    <3> QED
      BY <1>1, <2>2, <3>1
  <2> QED
    BY <2>3, <2>4
<1>7. 0 \in Versions /\ << >> \in Seq(Request) /\ << >> \in Seq(Message) /\ 0 \in 0..MaxInputs
  BY NoneApart DEF Versions
<1>8. Shapes
  <2>1. client \in [Clients -> Client]
    BY <1>3, <1>4
  <2>2. /\ requests \in [Conns -> Seq(Request)] /\ messages \in [Conns -> Seq(Message)]
        /\ got \in [Conns -> Versions] /\ left \in [Clients -> SUBSET Ids]
        /\ served \in [Conns -> {"none", "open", "left", "vacated", "ended"}]
    BY <1>1, <1>7
  <2>3. emits \in [Threads -> Emit]
    BY <1>1, NoEmitTyped
  <2> QED
    BY <1>1, <1>6, <1>7, <2>1, <2>2, <2>3 DEF Shapes, TypeOK
<1>9. AskedOK /\ CallsOK /\ ConnOK /\ WaitingOK
  BY <1>1, <1>4, <1>5 DEF AskedOK, CallsOK, ConnOK, WaitingOK
<1>10. KnownOK /\ VersionsOK
  <2>1. \A conn \in Conns : requests[conn] = << >> /\ messages[conn] = << >> /\ got[conn] = 0
    BY <1>1
  <2>2. \A t \in Threads : emits[t].at # "write"
    BY <1>1 DEF NoEmit
  <2> QED
    BY <1>1, <2>1, <2>2, HeldNone DEF KnownOK, VersionsOK
<1>11. ServedOK
  <2>1. ASSUME NEW conn \in Conns
        PROVE  served[conn] = "none" /\ ~ (conn[2] <= client[Of(conn)].dials)
    <3>1. Of(conn) \in Clients /\ conn[2] \in 1..MaxDials
      BY DEF Of, Conns
    <3> QED
      BY <1>1, <1>4, <1>5, <3>1, NoneApart
  <2> QED
    BY <1>1, <2>1 DEF ServedOK
<1>12. NewestOnItsWay
  BY <1>1 DEF NewestOnItsWay
<1>13. AnswerUnderWay
  BY <1>4, <1>5 DEF AnswerUnderWay
<1>14. ExitUnderWay
  BY <1>6 DEF ExitUnderWay
<1> QED
  BY <1>8, <1>9, <1>10, <1>11, <1>12, <1>13, <1>14 DEF IInv

LEMMA StutterInv ==
  ASSUME IInv, UNCHANGED vars
  PROVE  IInv'
<1>1. UNCHANGED <<monitor, server, vacancy, sockets, clients, history, inputs>>
  BY DEF vars, idling
<1>2. checks' = checks /\ idle' = idle
  BY DEF vars, idling
<1>3. /\ checks \subseteq [of : Nat, at : {"timer", "merging?"}]
      /\ \A k \in checks : k.of \in 0..vacancy
      /\ idle \in BOOLEAN
  BY DEF IInv, Shapes, TypeOK
<1> QED
  BY <1>1, <1>2, <1>3, ChecksGoOn DEF IInv, ExitUnderWay

LEMMA NextInv ==
  ASSUME IInv, [Next]_vars
  PROVE  IInv'
<1>1. ASSUME NEW t \in Threads, Change(t) \/ Emits(t)
      PROVE  IInv'
  BY <1>1, ChangeInv, ListSubscribersInv, ReadStateInv, WriteEventInv DEF Emits
<1>2. CASE MergeBegins \/ MergeEnds
  BY <1>2, MergeInv
<1>3. ASSUME NEW conn \in Conns, Scan(conn) \/ ScanEnds(conn) \/ ServeEnds(conn)
      PROVE  IInv'
  BY <1>3, ScanInv, ScanEndsInv, ServeEndsInv
<1>4. ASSUME NEW conn \in Conns, Answers(conn)
      PROVE  IInv'
  BY <1>4, DispatchInv, WriteAnswerInv DEF Answers
<1>5. ASSUME NEW conn \in Conns, ReadLoop(conn)
      PROVE  IInv'
  BY <1>5, ReadResponseInv, ReadEventInv, PanicInv, ReadEndsInv DEF ReadLoop
<1>6. CASE CheckIdle
  BY <1>6, CheckVacantInv, CheckMergingInv DEF CheckIdle
<1>7. CASE Close \/ CloseConns
  BY <1>7, CloseInv, CloseConnsInv
<1>8. CASE Exit \/ Crash
  BY <1>8, GoneInv DEF Exit, Crash
<1>9. ASSUME NEW c \in Clients, Connect(c) \/ Connecting(c) \/ Send(c) \/ Quit(c)
      PROVE  IInv'
  BY <1>9, ConnectInv, ConnectingInv, SendInv, QuitInv
<1>10. CASE UNCHANGED vars
  BY <1>10, StutterInv
<1> QED
  BY <1>1, <1>2, <1>3, <1>4, <1>5, <1>6, <1>7, <1>8, <1>9, <1>10 DEF Next

LEMMA Invariant == Spec => []IInv
<1>1. Init => IInv
  BY InitInv
<1>2. IInv /\ [Next]_vars => IInv'
  BY NextInv
<1> QED
  BY <1>1, <1>2, PTL DEF Spec

----------------------------------------------------------------------------
(* What is shown in the end.                                               *)

(* A connection that neither side has closed, of a backend that serves.     *)
Standing(conn) ==
  served[conn] = "open" /\ conn \notin shut \cup hung /\ phase = "serving"

(* A mirror that shows v will show the newest state when s is read.         *)
Settles(s, v, newest) ==
  \E i \in 0..Len(s) :
    /\ IF i = 0 THEN v = newest ELSE IsEvent(s[i]) /\ s[i].event = newest
    /\ \A k \in (i + 1)..Len(s) : IsEvent(s[k]) => s[k].event = newest

(* A broadcast has yet to write to the connection.                         *)
ToCome(conn) ==
  \E t \in Threads : \/ emits[t].at = "list"
                     \/ emits[t].at \in {"read", "write"} /\ conn \in emits[t].conns

(* The client has a connection of this stage.                              *)
Stage(c, at) == client[c].conn # None /\ client[c].at = at

(* A connected client's mirror comes to show the newest state, by what is on *)
(* the connection or by a broadcast, unless it has been overtaken.         *)
MirrorSettles ==
  \A c \in Clients \ overtaken :
    LET conn == client[c].conn
    IN Stage(c, "on") /\ Standing(conn) =>
         ToCome(conn) \/ Settles(messages[conn], client[c].mirror, version)

(* Nothing is on its way to a connected client, and it shows the newest state. *)
ShownInTheEnd ==
  \A c \in Clients \ overtaken :
    LET conn == client[c].conn
    IN Stage(c, "on") /\ Standing(conn) /\ ~ ToCome(conn) /\ messages[conn] = << >> =>
         client[c].mirror = version

(* Nobody knows a connection that was not dialled.                          *)
FreshOK ==
  \A conn \in Conns : served[conn] = "none" =>
    /\ requests[conn] = << >> /\ messages[conn] = << >>
    /\ \A t \in Threads : conn \notin emits[t].conns

(* A client has one connection, and has closed the others.                  *)
OneConnOK == \A conn \in reading : conn # client[Of(conn)].conn => conn \in hung

(* What Connect waits for was asked on the connection the client has.       *)
Here(conn, id) ==
  LET j == client[Of(conn)] IN id = j.call /\ j.conn # None => conn = j.conn

HereOK ==
  /\ \A conn \in Conns :
       /\ \A m \in Held(requests[conn]) : Here(conn, m.id)
       /\ \A m \in Held(messages[conn]) : IsEvent(m) \/ Here(conn, m.id)
  /\ \A a \in answers : Here(a.conn, a.id)

(* Who has said hello has asked for no snapshot, and follows nothing.       *)
HelloOK ==
  \A c \in Clients : Stage(c, "hello") =>
    LET conn == client[c].conn
    IN /\ conn \notin subscribers /\ \A t \in Threads : conn \notin emits[t].conns
       /\ \A m \in Held(requests[conn]) : m.op # "snapshot"
       /\ \A m \in Held(messages[conn]) : ~ IsEvent(m) /\ m.op # "snapshot"
       /\ \A a \in answers : a.conn = conn => a.op # "snapshot"

(* Who is sent a snapshot follows the backend.                              *)
Follows(conn) == Standing(conn) => conn \in subscribers

FollowsOK ==
  /\ \A a \in answers : a.op = "snapshot" /\ a.at = "write" => Follows(a.conn)
  /\ \A conn \in Conns : \A m \in Held(messages[conn]) :
       ~ IsEvent(m) /\ m.op = "snapshot" => Follows(conn)
  /\ \A c \in Clients :
       /\ Stage(c, "on") => Follows(client[c].conn)
       /\ client[c].conn # None /\ client[c].reply # None /\ client[c].reply.kind = "snapshot" =>
            Follows(client[c].conn)

(* What is yet to reach a client that was not overtaken is not older than    *)
(* the newest state: events that are made, what is on another connection of  *)
(* its, and all it is sent while it waits for the snapshot.                 *)
EventsNew ==
  \A t \in Threads : emits[t].at = "write" =>
    \A conn \in emits[t].conns : Of(conn) \in overtaken \/ emits[t].version = version

OthersRead ==
  \A conn \in reading : LET c == Of(conn)
                        IN c \in overtaken \/ client[c].conn \in {None, conn} \/ messages[conn] = << >>

SnapshotNew ==
  \A c \in Clients \ overtaken : Stage(c, "snapshot") =>
    LET conn == client[c].conn
    IN /\ \A a \in answers : a.conn = conn /\ a.op = "snapshot" /\ a.at = "write" => a.version = version
       /\ \A m \in Held(messages[conn]) :
            IF IsEvent(m) THEN m.event = version ELSE m.op = "snapshot" => m.version = version
       /\ client[c].reply # None /\ client[c].reply.kind = "snapshot" =>
            client[c].reply.version = version

MInv ==
  /\ FreshOK /\ OneConnOK /\ HereOK /\ HelloOK /\ FollowsOK
  /\ EventsNew /\ OthersRead /\ SnapshotNew /\ MirrorSettles

----------------------------------------------------------------------------
(* What the state is made of.                                              *)
LEMMA MTypes ==
  ASSUME IInv
  PROVE  /\ version \in Nat /\ emits \in [Threads -> Emit]
         /\ served \in [Conns -> {"none", "open", "left", "vacated", "ended"}]
         /\ subscribers \subseteq Conns /\ answers \subseteq Answer
         /\ requests \in [Conns -> Seq(Request)] /\ messages \in [Conns -> Seq(Message)]
         /\ shut \subseteq Conns /\ hung \subseteq Conns /\ reading \subseteq Conns
         /\ client \in [Clients -> Client] /\ overtaken \subseteq Clients
         /\ \A conn \in Conns : Of(conn) \in Clients
         /\ \A conn \in subscribers : served[conn] # "none"
         /\ \A a \in answers : served[a.conn] # "none"
         /\ \A c \in Clients : client[c].conn # None =>
              /\ client[c].conn \in Conns /\ Of(client[c].conn) = c
              /\ client[c].conn \in reading /\ served[client[c].conn] # "none"
<1>1. /\ version \in Nat /\ emits \in [Threads -> Emit]
      /\ served \in [Conns -> {"none", "open", "left", "vacated", "ended"}]
      /\ subscribers \subseteq Conns /\ answers \subseteq Answer
      /\ requests \in [Conns -> Seq(Request)] /\ messages \in [Conns -> Seq(Message)]
      /\ shut \subseteq Conns /\ hung \subseteq Conns /\ reading \subseteq Conns
      /\ client \in [Clients -> Client] /\ overtaken \subseteq Clients
  BY NoneApart DEF IInv, Shapes, TypeOK, Versions
<1>2. \A conn \in Conns : Of(conn) \in Clients
  BY DEF Conns, Of
<1>3. /\ \A conn \in subscribers : served[conn] # "none"
      /\ \A a \in answers : served[a.conn] # "none"
  BY DEF IInv, ServedOK
<1>4. ASSUME NEW c \in Clients, client[c].conn # None
      PROVE  /\ client[c].conn \in Conns /\ Of(client[c].conn) = c
             /\ client[c].conn \in reading /\ served[client[c].conn] # "none"
  <2>1. /\ client[c].conn \in reading
        /\ Of(client[c].conn) = c /\ client[c].conn[2] <= client[c].dials
    BY <1>4 DEF IInv, ConnOK
  <2>2. client[c].conn \in Conns
    BY <1>1, <2>1
  <2> QED
    BY <2>1, <2>2 DEF IInv, ServedOK
<1> QED
  BY <1>1, <1>2, <1>3, <1>4

(* The server's steps that send nothing: connections end, requests are       *)
(* taken, broadcasts end with the process.                                 *)
LEMMA ServerEnds ==
  ASSUME IInv, MInv, UNCHANGED <<version, overtaken, client, reading, messages, hung>>,
         \A conn \in Conns :
           /\ Held(requests'[conn]) \subseteq Held(requests[conn])
           /\ served'[conn] = "none" => served[conn] = "none" /\ requests'[conn] = requests[conn]
           /\ Standing(conn)' => Standing(conn) /\ (conn \in subscribers => conn \in subscribers'),
         \A a \in answers' :
           \/ a \in answers
           \/ /\ a.at = "dispatch" /\ a.conn \in Conns
              /\ \E m \in Held(requests[a.conn]) : m.id = a.id /\ m.op = a.op,
         \/ emits' = emits
         \/ phase' = "gone" /\ emits' = [t \in Threads |-> NoEmit],
         subscribers' \subseteq subscribers
  PROVE  MInv'
<1>1. /\ \A conn \in Conns : Of(conn) \in Clients
      /\ \A c \in Clients : client[c].conn # None => client[c].conn \in Conns
  BY MTypes
<1>2. \A t \in Threads : emits'[t] = emits[t] \/ (emits'[t].conns = {} /\ emits'[t].at = "idle")
  BY DEF NoEmit
<1>3. FreshOK'
  <2> SUFFICES ASSUME NEW conn \in Conns, served'[conn] = "none"
               PROVE  /\ requests'[conn] = << >> /\ messages[conn] = << >>
                      /\ \A t \in Threads : conn \notin emits'[t].conns
    BY DEF FreshOK
  <2> QED
    BY <1>2 DEF MInv, FreshOK
<1>4. OneConnOK'
  BY DEF MInv, OneConnOK, Of
<1>5. HereOK'
  <2>1. \A conn, id : Here(conn, id) => Here(conn, id)'
    BY DEF Here, Of
  <2>2. ASSUME NEW conn \in Conns
        PROVE  /\ \A m \in Held(requests'[conn]) : Here(conn, m.id)'
               /\ \A m \in Held(messages'[conn]) : IsEvent(m) \/ Here(conn, m.id)'
    BY <2>1 DEF MInv, HereOK
  <2>3. ASSUME NEW a \in answers'
        PROVE  Here(a.conn, a.id)'
    <3>1. CASE a \in answers
      BY <2>1, <3>1 DEF MInv, HereOK
    <3>2. CASE a \notin answers
      BY <2>1, <2>3, <3>2 DEF MInv, HereOK
    <3> QED
      BY <3>1, <3>2
  <2> QED
    BY <2>2, <2>3 DEF HereOK, Held, IsEvent
<1>6. HelloOK'
  <2> SUFFICES ASSUME NEW c \in Clients, NEW conn, conn = client[c].conn, Stage(c, "hello")
               PROVE  /\ conn \notin subscribers' /\ \A t \in Threads : conn \notin emits'[t].conns
                      /\ \A m \in Held(requests'[conn]) : m.op # "snapshot"
                      /\ \A m \in Held(messages[conn]) : ~ IsEvent(m) /\ m.op # "snapshot"
                      /\ \A a \in answers' : a.conn = conn => a.op # "snapshot"
    BY DEF HelloOK, Stage, Held, IsEvent
  <2>1. /\ conn \notin subscribers /\ \A t \in Threads : conn \notin emits[t].conns
        /\ \A m \in Held(requests[conn]) : m.op # "snapshot"
        /\ \A m \in Held(messages[conn]) : ~ IsEvent(m) /\ m.op # "snapshot"
        /\ \A a \in answers : a.conn = conn => a.op # "snapshot"
    BY DEF MInv, HelloOK
  <2>2. conn \in Conns
    BY <1>1 DEF Stage
  <2>3. \A t \in Threads : conn \notin emits'[t].conns
    BY <1>2, <2>1
  <2>4. ASSUME NEW a \in answers', a.conn = conn
        PROVE  a.op # "snapshot"
    <3>1. CASE a \in answers
      BY <2>1, <2>4, <3>1
    <3>2. CASE a \notin answers
      BY <2>1, <2>4, <3>2
    <3> QED
      BY <3>1, <3>2
  <2> QED
    BY <2>1, <2>2, <2>3, <2>4
<1>7. FollowsOK'
  <2>1. \A conn \in Conns : Follows(conn) => Follows(conn)'
    BY DEF Follows
  <2>2. ASSUME NEW a \in answers', a.op = "snapshot", a.at = "write"
        PROVE  Follows(a.conn)'
    <3>1. a \in answers /\ a.conn \in Conns
      BY <2>2, MTypes DEF Answer
    <3> QED
      BY <2>1, <2>2, <3>1 DEF MInv, FollowsOK
  <2>3. ASSUME NEW conn \in Conns, NEW m \in Held(messages[conn]), ~ IsEvent(m), m.op = "snapshot"
        PROVE  Follows(conn)'
    BY <2>1, <2>3 DEF MInv, FollowsOK
  <2>4. ASSUME NEW c \in Clients, client[c].conn # None,
               client[c].at = "on" \/ (client[c].reply # None /\ client[c].reply.kind = "snapshot")
        PROVE  Follows(client[c].conn)'
    BY <1>1, <2>1, <2>4 DEF MInv, FollowsOK, Stage
  <2>5. \A conn \in Conns : \A m \in Held(messages'[conn]) :
          ~ IsEvent(m) /\ m.op = "snapshot" => Follows(conn)'
    BY <2>3
  <2> QED
    BY <2>2, <2>4, <2>5 DEF FollowsOK, Stage, Held, IsEvent
<1>8. EventsNew'
  BY <1>2 DEF MInv, EventsNew, Of
<1>9. OthersRead'
  BY DEF MInv, OthersRead, Of
<1>10. SnapshotNew'
  <2>1. \A a \in answers' : a.at = "write" => a \in answers
    OBVIOUS
  <2> QED
    BY <2>1 DEF MInv, SnapshotNew, Stage, Held, IsEvent
<1>11. MirrorSettles'
  <2> SUFFICES ASSUME NEW c \in Clients \ overtaken, NEW conn, conn = client[c].conn,
                      Stage(c, "on"), Standing(conn)'
               PROVE  ToCome(conn)' \/ Settles(messages[conn], client[c].mirror, version)'
    BY DEF MirrorSettles, Stage
  <2>1. conn \in Conns
    BY <1>1 DEF Stage
  <2>2. Standing(conn) /\ emits' = emits
    BY <2>1 DEF Standing
  <2>3. ToCome(conn) \/ Settles(messages[conn], client[c].mirror, version)
    BY <2>2 DEF MInv, MirrorSettles
  <2>4. Settles(messages[conn], client[c].mirror, version) => Settles(messages[conn], client[c].mirror, version)'
    BY DEF Settles, IsEvent
  <2> QED
    BY <2>2, <2>3, <2>4 DEF ToCome
<1> QED
  BY <1>3, <1>4, <1>5, <1>6, <1>7, <1>8, <1>9, <1>10, <1>11 DEF MInv

(* Nothing that matters here changes.                                      *)
LEMMA NothingEnds ==
  ASSUME IInv, MInv, UNCHANGED <<version, emits, server, sockets, clients, overtaken>>
  PROVE  MInv'
<1>1. \A conn \in Conns : Standing(conn)' => Standing(conn)
  BY DEF Standing, server, sockets
<1>2. UNCHANGED <<served, subscribers, answers, requests, messages, hung, client, reading>>
  BY DEF server, sockets, clients
<1> QED
  BY <1>1, <1>2, ServerEnds

LEMMA ScanM ==
  ASSUME IInv, MInv, NEW conn \in Conns, Scan(conn)
  PROVE  MInv'
<1>1. PICK m : m = Head(requests[conn])
  OBVIOUS
<1>2. PICK a : a = [conn |-> conn, id |-> m.id, op |-> m.op, version |-> None, at |-> "dispatch"]
  OBVIOUS
<1>3. /\ served[conn] = "open" /\ requests[conn] # << >> /\ answers' = answers \cup {a}
      /\ requests' = [requests EXCEPT ![conn] = Tail(requests[conn])]
      /\ UNCHANGED <<monitor, phase, served, subscribers, idling, messages, shut, hung, clients,
                     overtaken>>
  BY <1>1, <1>2 DEF Scan, history
<1>4. requests \in [Conns -> Seq(Request)]
  BY MTypes
<1>5. m \in Held(requests[conn]) /\ Held(Tail(requests[conn])) \subseteq Held(requests[conn])
  BY <1>1, <1>3, <1>4, HeldTail
<1>6. \A d \in Conns :
        /\ Held(requests'[d]) \subseteq Held(requests[d])
        /\ served'[d] = "none" => served[d] = "none" /\ requests'[d] = requests[d]
        /\ Standing(d)' => Standing(d)
  BY <1>3, <1>4, <1>5 DEF Standing
<1>7. a.at = "dispatch" /\ a.conn = conn /\ m.id = a.id /\ m.op = a.op
  BY <1>2
<1>8. UNCHANGED <<version, emits, overtaken, client, reading, messages, hung, subscribers>>
  BY <1>3 DEF monitor, clients
<1> QED
  BY <1>3, <1>5, <1>6, <1>7, <1>8, ServerEnds

LEMMA ScanEndsM ==
  ASSUME IInv, MInv, NEW conn \in Conns, ScanEnds(conn)
  PROVE  MInv'
<1>1. PICK w : w = IF subscribers = {conn} THEN "vacated" ELSE "left"
  OBVIOUS
<1>2. /\ served[conn] = "open" /\ served' = [served EXCEPT ![conn] = w]
      /\ subscribers' = subscribers \ {conn}
      /\ UNCHANGED <<monitor, phase, answers, sockets, clients, overtaken>>
  BY <1>1 DEF ScanEnds
<1>3. /\ served \in [Conns -> {"none", "open", "left", "vacated", "ended"}]
      /\ w \in {"vacated", "left"}
  BY <1>1, MTypes
<1>4. served'[conn] = w /\ \A d \in Conns : d # conn => served'[d] = served[d]
  BY <1>2, <1>3
<1>5. UNCHANGED <<version, emits, overtaken, client, reading, messages, hung, requests, answers>>
  BY <1>2 DEF monitor, clients, sockets
<1>6. ASSUME NEW d \in Conns
      PROVE  /\ Held(requests'[d]) \subseteq Held(requests[d])
             /\ served'[d] = "none" => served[d] = "none" /\ requests'[d] = requests[d]
             /\ Standing(d)' => Standing(d) /\ (d \in subscribers => d \in subscribers')
  BY <1>2, <1>3, <1>4 DEF Standing, sockets
<1> QED
  BY <1>2, <1>5, <1>6, ServerEnds

LEMMA ServeEndsM ==
  ASSUME IInv, MInv, NEW conn \in Conns, ServeEnds(conn)
  PROVE  MInv'
<1>1. /\ served[conn] \in {"left", "vacated"} /\ served' = [served EXCEPT ![conn] = "ended"]
      /\ shut' = shut \cup {conn} /\ requests' = [requests EXCEPT ![conn] = << >>]
      /\ UNCHANGED <<monitor, phase, subscribers, answers, messages, hung, clients, overtaken>>
  BY DEF ServeEnds, history
<1>2. /\ served \in [Conns -> {"none", "open", "left", "vacated", "ended"}]
      /\ requests \in [Conns -> Seq(Request)]
  BY MTypes
<1>3. /\ served'[conn] = "ended" /\ \A d \in Conns : d # conn => served'[d] = served[d]
      /\ requests'[conn] = << >> /\ \A d \in Conns : d # conn => requests'[d] = requests[d]
  BY <1>1, <1>2
<1>5. UNCHANGED <<version, emits, overtaken, client, reading, messages, hung, answers, subscribers>>
  BY <1>1 DEF monitor, clients
<1>6. ASSUME NEW d \in Conns
      PROVE  /\ Held(requests'[d]) \subseteq Held(requests[d])
             /\ served'[d] = "none" => served[d] = "none" /\ requests'[d] = requests[d]
             /\ Standing(d)' => Standing(d)
  BY <1>1, <1>3, HeldNone DEF Standing
<1> QED
  BY <1>5, <1>6, ServerEnds

(* Server.Close                                                            *)
LEMMA CloseM ==
  ASSUME IInv, MInv, Close \/ CloseConns
  PROVE  MInv'
<1>1. /\ phase' # "serving" /\ subscribers' \subseteq subscribers
      /\ UNCHANGED <<monitor, served, answers, requests, messages, hung, clients, overtaken>>
  BY DEF Close, CloseConns, sockets, history
<1>2. UNCHANGED <<version, emits, overtaken, client, reading>>
  BY <1>1 DEF monitor, clients
<1>3. \A d \in Conns : ~ Standing(d)'
  BY <1>1 DEF Standing
<1> QED
  BY <1>1, <1>2, <1>3, ServerEnds

LEMMA GoneM ==
  ASSUME IInv, MInv, Gone
  PROVE  MInv'
<1>1. /\ phase' = "gone" /\ subscribers' = {} /\ answers' = {}
      /\ served' = [conn \in Conns |-> IF served[conn] = "none" THEN "none" ELSE "ended"]
      /\ emits' = [t \in Threads |-> NoEmit]
      /\ UNCHANGED <<version, requests, messages, hung, clients, overtaken>>
  BY DEF Gone, history
<1>2. UNCHANGED <<version, overtaken, client, reading>>
  BY <1>1 DEF clients
<1>3. \A d \in Conns : ~ Standing(d)' /\ (served'[d] = "none" => served[d] = "none")
  BY <1>1 DEF Standing
<1> QED
  BY <1>1, <1>2, <1>3, ServerEnds

----------------------------------------------------------------------------
(* The monitor.  Whoever an older state may yet reach is overtaken.         *)
LEMMA ChangeM ==
  ASSUME IInv, MInv, NEW t \in Threads, Change(t)
  PROVE  MInv'
<1>1. /\ emits[t] = NoEmit /\ version' = version + 1
      /\ emits' = [emits EXCEPT ![t].at = "list"]
      /\ overtaken' = {c \in Clients : Overtaken(c)}
      /\ UNCHANGED <<server, sockets, client, reading>>
  BY DEF Change, clients
<1>2. emits \in [Threads -> Emit] /\ version \in Nat
  BY MTypes
<1>3. /\ emits'[t].at = "list" /\ emits'[t].conns = emits[t].conns
      /\ \A u \in Threads : u # t => emits'[u] = emits[u]
  <2>1. PICK next : next = [emits[t] EXCEPT !.at = "list"]
    OBVIOUS
  <2>2. emits[t] \in Emit
    BY <1>2
  <2>3. next.at = "list" /\ next.conns = emits[t].conns
    BY <2>1, <2>2 DEF Emit
  <2>4. emits' = [emits EXCEPT ![t] = next]
    BY <1>1, <2>1
  <2> QED
    BY <1>2, <2>3, <2>4
<1>4. \A u \in Threads : emits'[u].conns = emits[u].conns
  BY <1>3
<1>5. UNCHANGED <<phase, served, subscribers, answers, requests, messages, shut, hung>>
  BY <1>1 DEF server, sockets
<1>6. /\ \A d \in Conns : Of(d) \in Clients
      /\ \A c \in Clients : client[c].conn # None => client[c].conn \in Conns
      /\ reading \subseteq Conns /\ \A e \in Threads : emits[e] \in Emit
  BY <1>2, MTypes
<1>7. FreshOK'
  BY <1>4, <1>5 DEF MInv, FreshOK
<1>8. OneConnOK'
  BY <1>1, <1>5 DEF MInv, OneConnOK, Of
<1>9. HereOK'
  BY <1>1, <1>5 DEF MInv, HereOK, Here, Held, IsEvent, Of
<1>10. HelloOK'
  BY <1>1, <1>4, <1>5 DEF MInv, HelloOK, Stage, Held, IsEvent
<1>11. FollowsOK'
  BY <1>1, <1>5 DEF MInv, FollowsOK, Follows, Standing, Stage, Held, IsEvent
<1>12. EventsNew'
  <2> SUFFICES ASSUME NEW u \in Threads, emits'[u].at = "write", NEW conn \in emits'[u].conns
               PROVE  Of(conn) \in overtaken'
    BY DEF EventsNew, Of
  <2>1. emits[u].at = "write" /\ conn \in emits[u].conns
    BY <1>3
  <2>2. conn \in Conns
    BY <1>6, <2>1 DEF Emit
  <2> QED
    BY <1>1, <1>6, <2>1, <2>2 DEF Overtaken
<1>13. OthersRead'
  <2> SUFFICES ASSUME NEW conn \in reading, NEW c, c = Of(conn)
               PROVE  c \in overtaken' \/ client[c].conn \in {None, conn} \/ messages[conn] = << >>
    BY <1>1, <1>5 DEF OthersRead, Of
  <2>1. c \in Clients
    BY <1>6
  <2>2. CASE client[c].conn # conn /\ messages[conn] # << >>
    BY <1>1, <2>1, <2>2 DEF Overtaken, StillRead
  <2> QED
    BY <2>2
<1>14. SnapshotNew'
  BY <1>1 DEF SnapshotNew, Stage, Overtaken
<1>15. MirrorSettles'
  BY <1>3 DEF MirrorSettles, ToCome
<1> QED
  BY <1>7, <1>8, <1>9, <1>10, <1>11, <1>12, <1>13, <1>14, <1>15 DEF MInv

(* A broadcast lists the subscribers, and reads the newest state.           *)
LEMMA EmitM ==
  ASSUME IInv, MInv, NEW t \in Threads, NEW e \in Emit, emits' = [emits EXCEPT ![t] = e],
         UNCHANGED <<version, server, sockets, clients, overtaken>>,
         e.conns \subseteq subscribers \cup emits[t].conns,
         e.at = "write" => e.version = version,
         \A conn \in subscribers : ToCome(conn) => ToCome(conn)'
  PROVE  MInv'
<1>1. /\ emits \in [Threads -> Emit]
      /\ \A c \in Clients : client[c].conn # None => client[c].conn \in Conns
      /\ \A conn \in subscribers : served[conn] # "none"
  BY MTypes
<1>2. emits'[t] = e /\ \A u \in Threads : u # t => emits'[u] = emits[u]
  BY <1>1
<1>3. UNCHANGED <<phase, served, subscribers, answers, requests, messages, shut, hung, client, reading>>
  BY DEF server, sockets, clients
<1>4. FreshOK'
  <2> SUFFICES ASSUME NEW conn \in Conns, served[conn] = "none"
               PROVE  /\ requests[conn] = << >> /\ messages[conn] = << >>
                      /\ \A u \in Threads : conn \notin emits'[u].conns
    BY <1>3 DEF FreshOK
  <2>1. /\ requests[conn] = << >> /\ messages[conn] = << >>
        /\ \A u \in Threads : conn \notin emits[u].conns
    BY DEF MInv, FreshOK
  <2>2. conn \notin e.conns
    BY <1>1, <2>1
  <2> QED
    BY <1>2, <2>1, <2>2
<1>5. OneConnOK'
  BY <1>3 DEF MInv, OneConnOK, Of
<1>6. HereOK'
  BY <1>3 DEF MInv, HereOK, Here, Held, IsEvent, Of
<1>7. HelloOK'
  <2> SUFFICES ASSUME NEW c \in Clients, NEW conn, conn = client[c].conn, Stage(c, "hello")
               PROVE  /\ conn \notin subscribers /\ \A u \in Threads : conn \notin emits'[u].conns
                      /\ \A m \in Held(requests[conn]) : m.op # "snapshot"
                      /\ \A m \in Held(messages[conn]) : ~ IsEvent(m) /\ m.op # "snapshot"
                      /\ \A a \in answers : a.conn = conn => a.op # "snapshot"
    BY <1>3 DEF HelloOK, Stage, Held, IsEvent
  <2>1. /\ conn \notin subscribers /\ \A u \in Threads : conn \notin emits[u].conns
        /\ \A m \in Held(requests[conn]) : m.op # "snapshot"
        /\ \A m \in Held(messages[conn]) : ~ IsEvent(m) /\ m.op # "snapshot"
        /\ \A a \in answers : a.conn = conn => a.op # "snapshot"
    BY DEF MInv, HelloOK
  <2>2. conn \notin e.conns
    BY <2>1
  <2> QED
    BY <1>2, <2>1, <2>2
<1>8. FollowsOK'
  BY <1>3 DEF MInv, FollowsOK, Follows, Standing, Stage, Held, IsEvent
<1>9. EventsNew'
  BY <1>2 DEF MInv, EventsNew, Of
<1>10. OthersRead'
  BY <1>3 DEF MInv, OthersRead, Of
<1>11. SnapshotNew'
  BY <1>3 DEF MInv, SnapshotNew, Stage, Held, IsEvent
<1>12. MirrorSettles'
  <2> SUFFICES ASSUME NEW c \in Clients \ overtaken, NEW conn, conn = client[c].conn,
                      Stage(c, "on"), Standing(conn)
               PROVE  ToCome(conn)' \/ Settles(messages[conn], client[c].mirror, version)'
    BY <1>3 DEF MirrorSettles, Stage, Standing
  <2>1. conn \in subscribers
    BY DEF MInv, FollowsOK, Follows
  <2>2. ToCome(conn) \/ Settles(messages[conn], client[c].mirror, version)
    BY DEF MInv, MirrorSettles
  <2>3. Settles(messages[conn], client[c].mirror, version) => Settles(messages[conn], client[c].mirror, version)'
    BY <1>3 DEF Settles, IsEvent
  <2> QED
    BY <2>1, <2>2, <2>3
<1> QED
  BY <1>4, <1>5, <1>6, <1>7, <1>8, <1>9, <1>10, <1>11, <1>12 DEF MInv

LEMMA ListSubscribersM ==
  ASSUME IInv, MInv, NEW t \in Threads, ListSubscribers(t)
  PROVE  MInv'
<1>1. PICK e : e = IF subscribers = {} THEN NoEmit
                   ELSE [emits[t] EXCEPT !.at = "read", !.conns = subscribers]
  OBVIOUS
<1>2. /\ emits' = [emits EXCEPT ![t] = e]
      /\ UNCHANGED <<version, server, sockets, clients, overtaken>>
  BY <1>1 DEF ListSubscribers, history
<1>3. emits \in [Threads -> Emit] /\ subscribers \subseteq Conns
  BY MTypes
<1>4. /\ e \in Emit /\ e.at # "write" /\ e.conns = subscribers
      /\ subscribers # {} => e.at = "read"
  BY <1>1, <1>3, NoEmitTyped DEF Emit, NoEmit
<1>5. emits'[t] = e
  BY <1>2, <1>3
<1>6. \A conn \in subscribers : ToCome(conn)'
  BY <1>4, <1>5 DEF ToCome
<1> QED
  BY <1>2, <1>4, <1>6, EmitM

LEMMA ReadStateM ==
  ASSUME IInv, MInv, NEW t \in Threads, ReadState(t)
  PROVE  MInv'
<1>1. PICK e : e = [emits[t] EXCEPT !.at = "write", !.version = version]
  OBVIOUS
<1>2. emits \in [Threads -> Emit] /\ version \in Versions
  BY DEF IInv, Shapes, TypeOK
<1>3. /\ emits[t].at = "read" /\ emits' = [emits EXCEPT ![t] = e]
      /\ UNCHANGED <<version, server, sockets, clients, overtaken>>
  BY <1>1, <1>2 DEF ReadState, history, Emit
<1>4. e \in Emit /\ e.at = "write" /\ e.version = version /\ e.conns = emits[t].conns
  BY <1>1, <1>2 DEF Emit
<1>5. emits'[t] = e /\ \A u \in Threads : u # t => emits'[u] = emits[u]
  BY <1>2, <1>3
<1>6. \A conn \in subscribers : ToCome(conn) => ToCome(conn)'
  BY <1>3, <1>4, <1>5 DEF ToCome
<1> QED
  BY <1>3, <1>4, <1>6, EmitM

----------------------------------------------------------------------------
(* What is read last stays: a response changes nothing of it, and the newest *)
(* event settles whatever comes before.                                    *)
LEMMA SettlesAppend ==
  ASSUME NEW S, NEW s \in Seq(S), NEW m, NEW v, NEW newest,
         IsEvent(m) => m.event = newest,
         IsEvent(m) \/ Settles(s, v, newest)
  PROVE  Settles(Append(s, m), v, newest)
<1> DEFINE q == Append(s, m)
<1>1. /\ Len(s) \in Nat /\ Len(q) = Len(s) + 1
      /\ \A i \in 1..Len(s) : q[i] = s[i]
      /\ q[Len(s) + 1] = m
  OBVIOUS
<1>2. CASE IsEvent(m)
  <2>1. Len(s) + 1 \in 0..Len(q) /\ Len(s) + 1 # 0
    BY <1>1
  <2>2. \A k \in ((Len(s) + 1) + 1)..Len(q) : IsEvent(q[k]) => q[k].event = newest
    BY <1>1
  <2>3. IsEvent(q[Len(s) + 1]) /\ q[Len(s) + 1].event = newest
    BY <1>1, <1>2
  <2> QED
    BY <2>1, <2>2, <2>3 DEF Settles
<1>3. CASE ~ IsEvent(m)
  <2>1. PICK i \in 0..Len(s) :
          /\ IF i = 0 THEN v = newest ELSE IsEvent(s[i]) /\ s[i].event = newest
          /\ \A k \in (i + 1)..Len(s) : IsEvent(s[k]) => s[k].event = newest
    BY <1>3 DEF Settles
  <2>2. i \in 0..Len(q) /\ (i # 0 => q[i] = s[i])
    BY <1>1
  <2>3. ASSUME NEW k \in (i + 1)..Len(q), IsEvent(q[k])
        PROVE  q[k].event = newest
    <3>1. CASE k = Len(s) + 1
      BY <1>1, <1>3, <2>3, <3>1
    <3>2. CASE k # Len(s) + 1
      <4>1. k \in (i + 1)..Len(s) /\ k \in 1..Len(s)
        BY <1>1, <2>2, <3>2
      <4>2. q[k] = s[k]
        BY <1>1, <4>1
      <4> QED
        BY <2>1, <2>3, <4>1, <4>2
    <3> QED
      BY <3>1, <3>2
  <2>4. IF i = 0 THEN v = newest ELSE IsEvent(q[i]) /\ q[i].event = newest
    BY <2>1, <2>2
  <2> QED
    BY <2>2, <2>3, <2>4 DEF Settles
<1> QED
  BY <1>2, <1>3

LEMMA SettlesTail ==
  ASSUME NEW S, NEW s \in Seq(S), s # << >>, NEW v, NEW newest, Settles(s, v, newest)
  PROVE  Settles(Tail(s), IF IsEvent(Head(s)) THEN Head(s).event ELSE v, newest)
<1> DEFINE q == Tail(s)
           w == IF IsEvent(Head(s)) THEN Head(s).event ELSE v
<1>1. /\ Len(s) \in Nat /\ Len(s) >= 1 /\ Head(s) = s[1] /\ Len(q) = Len(s) - 1
      /\ \A i \in 1..(Len(s) - 1) : q[i] = s[i + 1]
  OBVIOUS
<1>2. PICK i \in 0..Len(s) :
        /\ IF i = 0 THEN v = newest ELSE IsEvent(s[i]) /\ s[i].event = newest
        /\ \A k \in (i + 1)..Len(s) : IsEvent(s[k]) => s[k].event = newest
  BY DEF Settles
<1>3. ASSUME i <= 1
      PROVE  Settles(q, w, newest)
  <2>1. w = newest
    <3>1. CASE i = 0
      <4>1. 1 \in (i + 1)..Len(s)
        BY <1>1, <3>1
      <4> QED
        BY <1>1, <1>2, <3>1, <4>1
    <3>2. CASE i = 1
      BY <1>1, <1>2, <3>2
    <3> QED
      BY <1>2, <1>3, <3>1, <3>2
  <2>2. ASSUME NEW k \in (0 + 1)..Len(q), IsEvent(q[k])
        PROVE  q[k].event = newest
    <3>1. k + 1 \in (i + 1)..Len(s) /\ q[k] = s[k + 1]
      BY <1>1, <1>2, <1>3
    <3> QED
      BY <1>2, <2>2, <3>1
  <2>3. 0 \in 0..Len(q)
    BY <1>1
  <2> HIDE DEF q, w
  <2> QED
    BY <2>1, <2>2, <2>3 DEF Settles
<1>4. ASSUME i > 1
      PROVE  Settles(q, w, newest)
  <2>1. /\ i - 1 \in 0..Len(q) /\ i - 1 # 0 /\ i - 1 \in 1..(Len(s) - 1)
        /\ (i - 1) + 1 = i /\ q[i - 1] = s[i]
    BY <1>1, <1>2, <1>4
  <2>2. ASSUME NEW k \in ((i - 1) + 1)..Len(q), IsEvent(q[k])
        PROVE  q[k].event = newest
    <3>1. k + 1 \in (i + 1)..Len(s) /\ q[k] = s[k + 1]
      BY <1>1, <1>2, <1>4
    <3> QED
      BY <1>2, <2>2, <3>1
  <2>3. IsEvent(q[i - 1]) /\ q[i - 1].event = newest
    BY <1>2, <1>4, <2>1
  <2> HIDE DEF q, w
  <2> QED
    BY <2>1, <2>2, <2>3 DEF Settles
<1> QED
  BY <1>2, <1>3, <1>4

(* Server.write: what it may put on a connection.                           *)
LEMMA WriteM ==
  ASSUME IInv, MInv, NEW conn \in Conns, NEW m \in Message, Write(conn, m),
         UNCHANGED <<version, overtaken, client, reading, hung, phase, served, requests>>,
         answers' \subseteq answers,
         \A t \in Threads :
           /\ emits'[t].conns \subseteq emits[t].conns
           /\ emits'[t].at = "write" => emits[t].at = "write" /\ emits'[t].version = emits[t].version,
         \A d \in Conns : ToCome(d) => ToCome(d)' \/ (d = conn /\ IsEvent(m)),
         served[conn] # "none",
         IsEvent(m) => Of(conn) \in overtaken \/ m.event = version,
         ~ IsEvent(m) => Here(conn, m.id),
         ~ IsEvent(m) /\ m.op = "snapshot" => Follows(conn),
         \A c \in Clients : conn = client[c].conn =>
           /\ Stage(c, "hello") => ~ IsEvent(m) /\ m.op # "snapshot"
           /\ c \notin overtaken /\ Stage(c, "snapshot") =>
                IsEvent(m) \/ m.op # "snapshot" \/ m.version = version
  PROVE  MInv'
<1>1. /\ messages \in [Conns -> Seq(Message)] /\ answers \subseteq Answer
      /\ reading \subseteq Conns
      /\ \A d \in Conns : Of(d) \in Clients
      /\ \A c \in Clients : client[c].conn # None =>
           client[c].conn \in Conns /\ Of(client[c].conn) = c
  BY MTypes
<1>2. /\ \A d \in Conns : \A x \in Held(messages'[d]) : x \in Held(messages[d]) \/ (d = conn /\ x = m)
      /\ shut \subseteq shut' /\ subscribers' \subseteq subscribers
  BY Written
<1>3. /\ \A d \in Conns : messages'[d] = messages[d] \/
           (d = conn /\ messages'[d] = Append(messages[d], m) /\ conn \notin hung)
      /\ conn \in shut' \/ messages'[conn] = Append(messages[conn], m)
      /\ \A d \in Conns : d \in subscribers => d \in subscribers' \/ d \in shut'
  BY <1>1 DEF Write, Sent, NotSent
<1>4. \A d \in Conns : (Standing(d)' => Standing(d)) /\ (Follows(d) => Follows(d)')
  BY <1>2, <1>3 DEF Standing, Follows
<1>5. FreshOK'
  <2> SUFFICES ASSUME NEW d \in Conns, served[d] = "none"
               PROVE  /\ requests[d] = << >> /\ messages'[d] = << >>
                      /\ \A t \in Threads : d \notin emits'[t].conns
    BY DEF FreshOK
  <2> QED
    BY <1>3 DEF MInv, FreshOK
<1>6. OneConnOK'
  BY DEF MInv, OneConnOK, Of
<1>7. HereOK'
  <2>1. \A d, id : Here(d, id) => Here(d, id)'
    BY DEF Here, Of
  <2>2. ASSUME NEW d \in Conns
        PROVE  /\ \A x \in Held(requests'[d]) : Here(d, x.id)'
               /\ \A x \in Held(messages'[d]) : IsEvent(x) \/ Here(d, x.id)'
    BY <1>2, <2>1 DEF MInv, HereOK
  <2>3. \A a \in answers' : Here(a.conn, a.id)'
    BY <2>1 DEF MInv, HereOK
  <2> QED
    BY <2>2, <2>3 DEF HereOK, Held, IsEvent
<1>8. HelloOK'
  <2> SUFFICES ASSUME NEW c \in Clients, NEW d, d = client[c].conn, Stage(c, "hello")
               PROVE  /\ d \notin subscribers' /\ \A t \in Threads : d \notin emits'[t].conns
                      /\ \A x \in Held(requests[d]) : x.op # "snapshot"
                      /\ \A x \in Held(messages'[d]) : ~ IsEvent(x) /\ x.op # "snapshot"
                      /\ \A a \in answers' : a.conn = d => a.op # "snapshot"
    BY DEF HelloOK, Stage, Held, IsEvent
  <2>1. /\ d \notin subscribers /\ \A t \in Threads : d \notin emits[t].conns
        /\ \A x \in Held(requests[d]) : x.op # "snapshot"
        /\ \A x \in Held(messages[d]) : ~ IsEvent(x) /\ x.op # "snapshot"
        /\ \A a \in answers : a.conn = d => a.op # "snapshot"
    BY DEF MInv, HelloOK
  <2>2. d \in Conns
    BY <1>1 DEF Stage
  <2>3. \A x \in Held(messages'[d]) : ~ IsEvent(x) /\ x.op # "snapshot"
    BY <1>2, <2>1, <2>2
  <2> QED
    BY <1>2, <2>1, <2>3
<1>9. FollowsOK'
  <2>1. \A a \in answers' : a.op = "snapshot" /\ a.at = "write" => Follows(a.conn)'
    BY <1>1, <1>4 DEF MInv, FollowsOK, Answer
  <2>2. ASSUME NEW d \in Conns, NEW x \in Held(messages'[d]), ~ IsEvent(x), x.op = "snapshot"
        PROVE  Follows(d)'
    BY <1>2, <1>4, <2>2 DEF MInv, FollowsOK
  <2>3. ASSUME NEW c \in Clients, client[c].conn # None,
               client[c].at = "on" \/ (client[c].reply # None /\ client[c].reply.kind = "snapshot")
        PROVE  Follows(client[c].conn)'
    BY <1>1, <1>4, <2>3 DEF MInv, FollowsOK, Stage
  <2>4. \A d \in Conns : \A x \in Held(messages'[d]) :
          ~ IsEvent(x) /\ x.op = "snapshot" => Follows(d)'
    BY <2>2
  <2> QED
    BY <2>1, <2>3, <2>4 DEF FollowsOK, Stage, Held, IsEvent
<1>10. EventsNew'
  BY DEF MInv, EventsNew, Of
<1>11. OthersRead'
  <2> SUFFICES ASSUME NEW d \in reading, NEW c, c = Of(d), c \notin overtaken,
                      client[c].conn \notin {None, d}
               PROVE  messages'[d] = << >>
    BY DEF OthersRead, Of
  <2>1. messages[d] = << >> /\ d \in Conns
    BY <1>1 DEF MInv, OthersRead
  <2>2. d \in hung
    BY DEF MInv, OneConnOK
  <2> QED
    BY <1>3, <2>1, <2>2
<1>12. SnapshotNew'
  <2> SUFFICES ASSUME NEW c \in Clients \ overtaken, NEW d, d = client[c].conn, Stage(c, "snapshot")
               PROVE  /\ \A a \in answers' : a.conn = d /\ a.op = "snapshot" /\ a.at = "write" =>
                           a.version = version
                      /\ \A x \in Held(messages'[d]) :
                           IF IsEvent(x) THEN x.event = version
                           ELSE x.op = "snapshot" => x.version = version
                      /\ client[c].reply # None /\ client[c].reply.kind = "snapshot" =>
                           client[c].reply.version = version
    BY DEF SnapshotNew, Stage, Held, IsEvent
  <2>1. /\ \A a \in answers : a.conn = d /\ a.op = "snapshot" /\ a.at = "write" =>
             a.version = version
        /\ \A x \in Held(messages[d]) :
             IF IsEvent(x) THEN x.event = version
             ELSE x.op = "snapshot" => x.version = version
        /\ client[c].reply # None /\ client[c].reply.kind = "snapshot" =>
             client[c].reply.version = version
    BY DEF MInv, SnapshotNew
  <2>2. d \in Conns /\ Of(d) = c
    BY <1>1 DEF Stage
  <2>3. d = conn => IF IsEvent(m) THEN m.event = version ELSE m.op = "snapshot" => m.version = version
    BY <2>2
  <2>4. ASSUME NEW x \in Held(messages'[d])
        PROVE  IF IsEvent(x) THEN x.event = version
               ELSE x.op = "snapshot" => x.version = version
    BY <1>2, <2>1, <2>2, <2>3
  <2> QED
    BY <2>1, <2>4
<1>13. MirrorSettles'
  <2> SUFFICES ASSUME NEW c \in Clients \ overtaken, NEW d, d = client[c].conn,
                      Stage(c, "on"), Standing(d)'
               PROVE  ToCome(d)' \/ Settles(messages'[d], client[c].mirror, version)
    BY DEF MirrorSettles, Stage
  <2>1. d \in Conns /\ Of(d) = c
    BY <1>1 DEF Stage
  <2>2. ToCome(d) \/ Settles(messages[d], client[c].mirror, version)
    BY <1>4, <2>1 DEF MInv, MirrorSettles
  <2>3. CASE d # conn
    BY <1>3, <2>1, <2>2, <2>3
  <2>4. CASE d = conn
    <3>1. messages'[d] = Append(messages[d], m) /\ messages[d] \in Seq(Message)
      BY <1>1, <1>3, <2>1, <2>4 DEF Standing
    <3>2. IsEvent(m) => m.event = version
      BY <2>1, <2>4
    <3>3. IsEvent(m) \/ Settles(messages[d], client[c].mirror, version) \/ ToCome(d)'
      BY <2>1, <2>2
    <3> QED
      BY <3>1, <3>2, <3>3, SettlesAppend
  <2> QED
    BY <2>3, <2>4
<1> QED
  BY <1>5, <1>6, <1>7, <1>8, <1>9, <1>10, <1>11, <1>12, <1>13 DEF MInv

LEMMA WriteEventM ==
  ASSUME IInv, MInv, NEW t \in Threads, NEW conn \in Conns, WriteEvent(t, conn)
  PROVE  MInv'
<1>1. PICK e : e = IF emits[t].conns \ {conn} = {} THEN NoEmit
                   ELSE [emits[t] EXCEPT !.conns = emits[t].conns \ {conn}]
  OBVIOUS
<1>2. PICK m : m = [event |-> emits[t].version]
  OBVIOUS
<1>3. /\ emits[t].at = "write" /\ conn \in emits[t].conns
      /\ Write(conn, m) /\ emits' = [emits EXCEPT ![t] = e]
      /\ UNCHANGED <<version, phase, served, answers, requests, hung, clients, overtaken>>
  BY <1>1, <1>2 DEF WriteEvent
<1>4. emits \in [Threads -> Emit] /\ emits[t].version \in 0..version /\ version \in Versions
  BY <1>3 DEF IInv, Shapes, TypeOK, VersionsOK
<1>5. m \in Message /\ IsEvent(m) /\ m.event = emits[t].version
  <2>1. emits[t].version \in Versions
    BY <1>4, NoneApart DEF Versions
  <2> QED
    BY <1>2, <2>1 DEF Message, IsEvent
<1>6. /\ e.conns = emits[t].conns \ {conn}
      /\ e.at = "write" => e.version = emits[t].version
      /\ e.at # "write" => e.conns = {}
  <2>1. CASE emits[t].conns \ {conn} = {}
    BY <1>1, <2>1 DEF NoEmit
  <2>2. CASE emits[t].conns \ {conn} # {}
    <3>1. e = [emits[t] EXCEPT !.conns = emits[t].conns \ {conn}]
      BY <1>1, <2>2
    <3> QED
      BY <1>3, <1>4, <3>1 DEF Emit
  <2> QED
    BY <2>1, <2>2
<1>7. emits'[t] = e /\ \A u \in Threads : u # t => emits'[u] = emits[u]
  BY <1>3, <1>4
<1>8. \A u \in Threads :
        /\ emits'[u].conns \subseteq emits[u].conns
        /\ emits'[u].at = "write" => emits[u].at = "write" /\ emits'[u].version = emits[u].version
  BY <1>3, <1>6, <1>7
<1>9. ASSUME NEW d \in Conns, ToCome(d)
      PROVE  ToCome(d)' \/ d = conn
  <2>1. PICK u \in Threads : \/ emits[u].at = "list"
                             \/ emits[u].at \in {"read", "write"} /\ d \in emits[u].conns
    BY <1>9 DEF ToCome
  <2>2. CASE u = t
    BY <1>3, <1>6, <1>7, <2>1, <2>2 DEF ToCome
  <2>3. CASE u # t
    BY <1>7, <2>1, <2>3 DEF ToCome
  <2> QED
    BY <2>2, <2>3
<1>10. served[conn] # "none"
  BY <1>3 DEF MInv, FreshOK
<1>11. Of(conn) \in overtaken \/ m.event = version
  BY <1>3, <1>5 DEF MInv, EventsNew
<1>12. \A c \in Clients : conn = client[c].conn => ~ Stage(c, "hello")
  BY <1>3 DEF MInv, HelloOK
<1> QED
  BY <1>3, <1>5, <1>8, <1>9, <1>10, <1>11, <1>12, WriteM DEF clients

LEMMA WriteAnswerM ==
  ASSUME IInv, MInv, NEW a \in answers, WriteAnswer(a)
  PROVE  MInv'
<1>1. PICK m : m = [id |-> a.id, op |-> a.op, version |-> a.version]
  OBVIOUS
<1>2. /\ a.at = "write" /\ Write(a.conn, m) /\ answers' = answers \ {a}
      /\ UNCHANGED <<monitor, phase, served, requests, hung, clients, overtaken>>
  BY <1>1 DEF WriteAnswer
<1>3. a \in Answer /\ served[a.conn] # "none"
  BY MTypes
<1>4. /\ m \in Message /\ ~ IsEvent(m) /\ m.id = a.id /\ m.op = a.op /\ m.version = a.version
      /\ a.conn \in Conns
  BY <1>1, <1>3 DEF Answer, Message, IsEvent
<1>5. UNCHANGED <<version, emits, client, reading>>
  BY <1>2 DEF monitor, clients
<1>6. \A d \in Conns : ToCome(d) => ToCome(d)'
  BY <1>5 DEF ToCome
<1>7. Here(a.conn, m.id) /\ (m.op = "snapshot" => Follows(a.conn))
  BY <1>2, <1>4 DEF MInv, HereOK, FollowsOK
<1>8. ASSUME NEW c \in Clients, a.conn = client[c].conn
      PROVE  /\ Stage(c, "hello") => m.op # "snapshot"
             /\ c \notin overtaken /\ Stage(c, "snapshot") => m.op # "snapshot" \/ m.version = version
  BY <1>2, <1>4, <1>8 DEF MInv, HelloOK, SnapshotNew
<1> QED
  BY <1>2, <1>3, <1>4, <1>5, <1>6, <1>7, <1>8, WriteM

(* Server.dispatch: who is given a snapshot follows the backend from then on. *)
LEMMA DispatchM ==
  ASSUME IInv, MInv, NEW a \in answers, Dispatch(a)
  PROVE  MInv'
<1>1. PICK b : b = [a EXCEPT !.at = "write",
                             !.version = IF a.op = "snapshot" THEN version ELSE None]
  OBVIOUS
<1>2. /\ a.at = "dispatch" /\ subscribers' = Subscribed(a)
      /\ answers' = (answers \ {a}) \cup {b}
      /\ UNCHANGED <<monitor, phase, served, sockets, clients, overtaken>>
  BY <1>1 DEF Dispatch, history
<1>3. /\ answers \subseteq Answer /\ a \in Answer /\ a.conn \in Conns /\ served[a.conn] # "none"
      /\ messages \in [Conns -> Seq(Message)]
      /\ \A c \in Clients : client[c].conn # None => client[c].conn \in Conns
  BY MTypes DEF Answer
<1>4. /\ b.conn = a.conn /\ b.id = a.id /\ b.op = a.op
      /\ b.op = "snapshot" => b.version = version
  BY <1>1, <1>3 DEF Answer
<1>5. UNCHANGED <<version, emits, client, reading, requests, messages, shut, hung>>
  BY <1>2 DEF monitor, clients, sockets
<1>6. /\ subscribers \subseteq subscribers'
      /\ \A d \in subscribers' : d \in subscribers \/ (d = a.conn /\ a.op = "snapshot")
      /\ b.op = "snapshot" => Follows(a.conn)'
  BY <1>2, <1>4 DEF Subscribed, Follows, Standing
<1>7. \A d : (Follows(d) => Follows(d)') /\ (Standing(d)' => Standing(d))
  BY <1>2, <1>5, <1>6 DEF Follows, Standing
<1>8. FreshOK'
  BY <1>2, <1>5 DEF MInv, FreshOK
<1>9. OneConnOK'
  BY <1>5 DEF MInv, OneConnOK, Of
<1>10. HereOK'
  <2>1. \A d, id : Here(d, id) => Here(d, id)'
    BY <1>5 DEF Here, Of
  <2>2. \A d \in Conns : /\ \A x \in Held(requests[d]) : Here(d, x.id)'
                         /\ \A x \in Held(messages[d]) : IsEvent(x) \/ Here(d, x.id)'
    BY <2>1 DEF MInv, HereOK
  <2>3. \A x \in answers' : Here(x.conn, x.id)'
    <3>1. Here(b.conn, b.id)'
      BY <1>4, <2>1 DEF MInv, HereOK
    <3> QED
      BY <1>2, <2>1, <3>1 DEF MInv, HereOK
  <2> QED
    BY <1>5, <2>2, <2>3 DEF HereOK, Held, IsEvent
<1>11. HelloOK'
  <2> SUFFICES ASSUME NEW c \in Clients, NEW d, d = client[c].conn, Stage(c, "hello")
               PROVE  /\ d \notin subscribers' /\ \A t \in Threads : d \notin emits[t].conns
                      /\ \A x \in Held(requests[d]) : x.op # "snapshot"
                      /\ \A x \in Held(messages[d]) : ~ IsEvent(x) /\ x.op # "snapshot"
                      /\ \A x \in answers' : x.conn = d => x.op # "snapshot"
    BY <1>5 DEF HelloOK, Stage, Held, IsEvent
  <2>1. /\ d \notin subscribers /\ \A t \in Threads : d \notin emits[t].conns
        /\ \A x \in Held(requests[d]) : x.op # "snapshot"
        /\ \A x \in Held(messages[d]) : ~ IsEvent(x) /\ x.op # "snapshot"
        /\ \A x \in answers : x.conn = d => x.op # "snapshot"
    BY DEF MInv, HelloOK
  <2>2. \A x \in answers' : x.conn = d => x.op # "snapshot"
    BY <1>2, <1>4, <2>1
  <2> QED
    BY <1>6, <2>1, <2>2
<1>12. FollowsOK'
  <2>1. ASSUME NEW x \in answers', x.op = "snapshot", x.at = "write"
        PROVE  Follows(x.conn)'
    <3>1. CASE x = b
      BY <1>4, <1>6, <2>1, <3>1
    <3>2. CASE x # b
      BY <1>2, <1>7, <2>1, <3>2 DEF MInv, FollowsOK
    <3> QED
      BY <3>1, <3>2
  <2>2. \A d \in Conns : \A x \in Held(messages[d]) :
          ~ IsEvent(x) /\ x.op = "snapshot" => Follows(d)'
    BY <1>7 DEF MInv, FollowsOK
  <2>3. \A c \in Clients :
          /\ Stage(c, "on") => Follows(client[c].conn)'
          /\ client[c].conn # None /\ client[c].reply # None /\ client[c].reply.kind = "snapshot" =>
               Follows(client[c].conn)'
    <3>1. \A c \in Clients :
            /\ Stage(c, "on") => Follows(client[c].conn)
            /\ client[c].conn # None /\ client[c].reply # None /\ client[c].reply.kind = "snapshot" =>
                 Follows(client[c].conn)
      BY DEF MInv, FollowsOK
    <3>2. \A c \in Clients : Follows(client[c].conn) => Follows(client[c].conn)'
      BY <1>5, <1>7 DEF Follows
    <3> QED
      BY <3>1, <3>2
  <2> QED
    BY <1>5, <2>1, <2>2, <2>3 DEF FollowsOK, Stage, Held, IsEvent
<1>13. EventsNew'
  BY <1>2, <1>5 DEF MInv, EventsNew, Of
<1>14. OthersRead'
  BY <1>2, <1>5 DEF MInv, OthersRead, Of
<1>15. SnapshotNew'
  <2>1. ASSUME NEW x \in answers', x.op = "snapshot"
        PROVE  x.version = version \/ x \in answers
    BY <1>2, <1>4, <2>1
  <2> QED
    BY <1>2, <1>5, <2>1 DEF MInv, SnapshotNew, Stage, Held, IsEvent
<1>16. MirrorSettles'
  <2> SUFFICES ASSUME NEW c \in Clients \ overtaken, NEW d, d = client[c].conn,
                      Stage(c, "on"), Standing(d)
               PROVE  ToCome(d)' \/ Settles(messages[d], client[c].mirror, version)
    BY <1>2, <1>5, <1>7 DEF MirrorSettles, Stage
  <2>1. ToCome(d) \/ Settles(messages[d], client[c].mirror, version)
    BY DEF MInv, MirrorSettles
  <2> QED
    BY <1>5, <2>1 DEF ToCome
<1> QED
  BY <1>8, <1>9, <1>10, <1>11, <1>12, <1>13, <1>14, <1>15, <1>16 DEF MInv

----------------------------------------------------------------------------
(* The clients.  A step of one that asks for nothing: its record changes, and *)
(* what is on its connections is read.                                     *)
LEMMA ClientM ==
  ASSUME IInv, MInv, NEW c \in Clients, NEW j \in Client, client' = [client EXCEPT ![c] = j],
         UNCHANGED <<version, emits, phase, served, subscribers, answers, requests, shut, overtaken>>,
         \A d \in Conns :
           /\ Held(messages'[d]) \subseteq Held(messages[d])
           /\ messages[d] = << >> => messages'[d] = << >>
           /\ Of(d) # c => messages'[d] = messages[d],
         reading' \subseteq reading, hung \subseteq hung',
         j.conn \in {client[c].conn, None},
         j.conn # client[c].conn => client[c].conn \in hung' \/ client[c].conn \notin reading',
         j.conn # None =>
           /\ j.call \in {client[c].call, None} /\ j.at \in {client[c].at, "on"}
           /\ j.at = "on" \/ (j.reply # None /\ j.reply.kind = "snapshot") => Follows(j.conn)
           /\ c \notin overtaken /\ j.at = "snapshot" /\ j.reply # None /\ j.reply.kind = "snapshot" =>
                j.reply.version = version
           /\ c \notin overtaken /\ j.at = "on" /\ Standing(j.conn) =>
                ToCome(j.conn) \/ Settles(messages'[j.conn], j.mirror, version)
  PROVE  MInv'
<1>1. /\ answers \subseteq Answer /\ reading \subseteq Conns
      /\ requests \in [Conns -> Seq(Request)] /\ messages \in [Conns -> Seq(Message)]
      /\ client \in [Clients -> Client]
      /\ \A d \in Conns : Of(d) \in Clients
      /\ \A b \in Clients : client[b].conn # None =>
           client[b].conn \in Conns /\ Of(client[b].conn) = b
  BY MTypes
<1>2. client'[c] = j /\ \A b \in Clients : b # c => client'[b] = client[b]
  BY <1>1
<1>3. \A d : (Follows(d) => Follows(d)') /\ (Standing(d)' => Standing(d))
  BY DEF Follows, Standing
<1>4. FreshOK'
  BY DEF MInv, FreshOK
<1>5. OneConnOK'
  <2> SUFFICES ASSUME NEW d \in reading', d # client'[Of(d)].conn
               PROVE  d \in hung'
    BY DEF OneConnOK, Of
  <2>1. d \in reading /\ Of(d) \in Clients
    BY <1>1
  <2>2. CASE Of(d) # c
    BY <1>2, <2>1, <2>2 DEF MInv, OneConnOK
  <2>3. CASE Of(d) = c
    <3>1. CASE d # client[c].conn
      BY <2>1, <2>3, <3>1 DEF MInv, OneConnOK
    <3>2. CASE d = client[c].conn
      BY <1>2, <2>3, <3>2
    <3> QED
      BY <3>1, <3>2
  <2> QED
    BY <2>2, <2>3
<1>6. HereOK'
  <2>1. ASSUME NEW d \in Conns, NEW id \in Ids, Here(d, id)
        PROVE  Here(d, id)'
    <3> SUFFICES ASSUME id = client'[Of(d)].call, client'[Of(d)].conn # None
                 PROVE  d = client'[Of(d)].conn
      BY DEF Here, Of
    <3>1. CASE Of(d) # c
      BY <1>1, <1>2, <2>1, <3>1 DEF Here
    <3>2. CASE Of(d) = c
      <4>1. j.call # None
        BY <1>2, <3>2, IdsAreNumbers
      <4>2. j.conn = client[c].conn /\ j.call = client[c].call
        BY <1>2, <3>2, <4>1
      <4> QED
        BY <1>2, <2>1, <3>2, <4>2 DEF Here
    <3> QED
      BY <3>1, <3>2
  <2>2. ASSUME NEW d \in Conns, NEW m \in Held(requests[d])
        PROVE  Here(d, m.id)'
    <3>1. m \in Request
      BY <1>1, HeldOf
    <3> QED
      BY <2>1, <3>1 DEF MInv, HereOK, Request
  <2>3. ASSUME NEW d \in Conns, NEW m \in Held(messages'[d]), ~ IsEvent(m)
        PROVE  Here(d, m.id)'
    <3>1. m \in Held(messages[d]) /\ m \in Message
      BY <1>1, HeldOf
    <3>2. m.id \in Ids
      BY <2>3, <3>1 DEF Message, IsEvent
    <3> QED
      BY <2>1, <2>3, <3>1, <3>2 DEF MInv, HereOK
  <2>4. ASSUME NEW a \in answers
        PROVE  Here(a.conn, a.id)'
    <3>1. a.conn \in Conns /\ a.id \in Ids
      BY <1>1 DEF Answer
    <3> QED
      BY <2>1, <3>1 DEF MInv, HereOK
  <2>5. \A d \in Conns : \A m \in Held(messages'[d]) : IsEvent(m) \/ Here(d, m.id)'
    BY <2>3
  <2> QED
    BY <2>2, <2>4, <2>5 DEF HereOK, Held, IsEvent
<1>7. HelloOK'
  <2> SUFFICES ASSUME NEW b \in Clients, NEW d, d = client'[b].conn, d # None,
                      client'[b].at = "hello"
               PROVE  /\ d \notin subscribers /\ \A t \in Threads : d \notin emits[t].conns
                      /\ \A m \in Held(requests[d]) : m.op # "snapshot"
                      /\ \A m \in Held(messages'[d]) : ~ IsEvent(m) /\ m.op # "snapshot"
                      /\ \A a \in answers : a.conn = d => a.op # "snapshot"
    BY DEF HelloOK, Stage, Held, IsEvent
  <2>1. client[b].conn = d /\ client[b].at = "hello"
    <3>1. CASE b # c
      BY <1>2, <3>1
    <3>2. CASE b = c
      BY <1>2, <3>2
    <3> QED
      BY <3>1, <3>2
  <2>2. /\ d \notin subscribers /\ \A t \in Threads : d \notin emits[t].conns
        /\ \A m \in Held(requests[d]) : m.op # "snapshot"
        /\ \A m \in Held(messages[d]) : ~ IsEvent(m) /\ m.op # "snapshot"
        /\ \A a \in answers : a.conn = d => a.op # "snapshot"
    BY <2>1 DEF MInv, HelloOK, Stage
  <2>3. d \in Conns
    BY <1>1, <2>1
  <2> QED
    BY <2>2, <2>3
<1>8. FollowsOK'
  <2>1. \A a \in answers : a.op = "snapshot" /\ a.at = "write" => Follows(a.conn)'
    BY <1>3 DEF MInv, FollowsOK
  <2>2. \A d \in Conns : \A m \in Held(messages'[d]) :
          ~ IsEvent(m) /\ m.op = "snapshot" => Follows(d)'
    BY <1>3 DEF MInv, FollowsOK
  <2>3. ASSUME NEW b \in Clients, NEW d, d = client'[b].conn, d # None,
               \/ client'[b].at = "on"
               \/ client'[b].reply # None /\ client'[b].reply.kind = "snapshot"
        PROVE  Follows(d)'
    <3>1. CASE b # c
      BY <1>2, <1>3, <2>3, <3>1 DEF MInv, FollowsOK, Stage
    <3>2. CASE b = c
      BY <1>2, <1>3, <2>3, <3>2
    <3> QED
      BY <3>1, <3>2
  <2>4. ASSUME NEW b \in Clients, client'[b].conn # None,
               \/ client'[b].at = "on"
               \/ client'[b].reply # None /\ client'[b].reply.kind = "snapshot"
        PROVE  Follows(client[b].conn)'
    <3>1. PICK d : d = client'[b].conn
      OBVIOUS
    <3>2. Follows(d)'
      BY <2>3, <2>4, <3>1
    <3> QED
      BY <3>1, <3>2 DEF Follows, Standing
  <2> QED
    BY <2>1, <2>2, <2>4 DEF FollowsOK, Stage, Held, IsEvent
<1>9. EventsNew'
  BY DEF MInv, EventsNew, Of
<1>10. OthersRead'
  <2> SUFFICES ASSUME NEW d \in reading', NEW b, b = Of(d), b \notin overtaken,
                      client'[b].conn \notin {None, d}
               PROVE  messages'[d] = << >>
    BY DEF OthersRead, Of
  <2>1. d \in reading /\ d \in Conns /\ b \in Clients
    BY <1>1
  <2>2. client[b].conn \notin {None, d}
    <3>1. CASE b # c
      BY <1>2, <2>1, <3>1
    <3>2. CASE b = c
      BY <1>2, <3>2
    <3> QED
      BY <3>1, <3>2
  <2> QED
    BY <2>1, <2>2 DEF MInv, OthersRead
<1>11. SnapshotNew'
  <2> SUFFICES ASSUME NEW b \in Clients \ overtaken, NEW d, d = client'[b].conn, d # None,
                      client'[b].at = "snapshot"
               PROVE  /\ \A a \in answers : a.conn = d /\ a.op = "snapshot" /\ a.at = "write" =>
                           a.version = version
                      /\ \A m \in Held(messages'[d]) :
                           IF IsEvent(m) THEN m.event = version
                           ELSE m.op = "snapshot" => m.version = version
                      /\ client'[b].reply # None /\ client'[b].reply.kind = "snapshot" =>
                           client'[b].reply.version = version
    BY DEF SnapshotNew, Stage, Held, IsEvent
  <2>1. client[b].conn = d /\ client[b].at = "snapshot"
    <3>1. CASE b # c
      BY <1>2, <3>1
    <3>2. CASE b = c
      BY <1>2, <3>2
    <3> QED
      BY <3>1, <3>2
  <2>2. /\ \A a \in answers : a.conn = d /\ a.op = "snapshot" /\ a.at = "write" =>
             a.version = version
        /\ \A m \in Held(messages[d]) :
             IF IsEvent(m) THEN m.event = version
             ELSE m.op = "snapshot" => m.version = version
        /\ client[b].reply # None /\ client[b].reply.kind = "snapshot" =>
             client[b].reply.version = version
    BY <2>1 DEF MInv, SnapshotNew, Stage
  <2>3. d \in Conns
    BY <1>1, <2>1
  <2>4. client'[b].reply # None /\ client'[b].reply.kind = "snapshot" =>
          client'[b].reply.version = version
    <3>1. CASE b # c
      BY <1>2, <2>2, <3>1
    <3>2. CASE b = c
      BY <1>2, <3>2
    <3> QED
      BY <3>1, <3>2
  <2> QED
    BY <2>2, <2>3, <2>4
<1>12. MirrorSettles'
  <2> SUFFICES ASSUME NEW b \in Clients \ overtaken, NEW d, d = client'[b].conn, d # None,
                      client'[b].at = "on", Standing(d)'
               PROVE  ToCome(d)' \/ Settles(messages'[d], client'[b].mirror, version)
    BY DEF MirrorSettles, Stage
  <2>1. Standing(d) /\ (ToCome(d) => ToCome(d)')
    BY <1>3 DEF ToCome
  <2>2. CASE b # c
    <3>1. client'[b] = client[b] /\ d \in Conns /\ Of(d) = b
      BY <1>1, <1>2, <2>2
    <3>2. ToCome(d) \/ Settles(messages[d], client[b].mirror, version)
      BY <2>1, <3>1 DEF MInv, MirrorSettles, Stage
    <3>3. messages'[d] = messages[d]
      BY <2>2, <3>1
    <3> QED
      BY <2>1, <3>1, <3>2, <3>3
  <2>3. CASE b = c
    BY <1>2, <2>1, <2>3
  <2> QED
    BY <2>2, <2>3
<1> QED
  BY <1>4, <1>5, <1>6, <1>7, <1>8, <1>9, <1>10, <1>11, <1>12 DEF MInv

(* A step of a client that asks: Connect, which dials, what Connect does when *)
(* the server has said hello, and any other request.                        *)
LEMMA AskM ==
  ASSUME IInv, MInv, NEW c \in Clients, NEW op \in Ops, NEW j \in Client, Ask(c, op, j),
         j.conn \in Conns, Of(j.conn) = c, j.asked = client[c].asked,
         UNCHANGED <<version, emits, phase, subscribers, answers, messages, shut, hung>>,
         served'[j.conn] # "none", \A d \in Conns : d # j.conn => served'[d] = served[d],
         reading' = reading \cup {j.conn}, overtaken \subseteq overtaken',
         op # "hello" => /\ served' = served /\ client[c].conn = j.conn /\ j.mirror = client[c].mirror,
         op = "hello" =>
           /\ client[c].conn = None /\ j.at = "hello" /\ served[j.conn] = "none"
           /\ c \in overtaken' \/ ~ StillRead(c),
         op = "snapshot" => client[c].at = "hello" /\ j.at = "snapshot",
         op = "other" => j.at = client[c].at /\ j.call = client[c].call /\ j.reply = client[c].reply
  PROVE  MInv'
<1>0. PICK id : id = j.asked + 1
  OBVIOUS
<1>1. /\ answers \subseteq Answer /\ reading \subseteq Conns
      /\ requests \in [Conns -> Seq(Request)] /\ messages \in [Conns -> Seq(Message)]
      /\ client \in [Clients -> Client]
      /\ \A d \in Conns : Of(d) \in Clients
      /\ \A b \in Clients : client[b].conn # None =>
           client[b].conn \in Conns /\ Of(client[b].conn) = b /\ served[client[b].conn] # "none"
      /\ \A d \in subscribers : served[d] # "none"
      /\ \A a \in answers : served[a.conn] # "none"
      /\ None \notin Conns
  BY MTypes, NoneApart
<1>2. PICK k : k = Asked(j, id, op)
  OBVIOUS
<1>3. PICK r : r = [id |-> id, op |-> op]
  OBVIOUS
<1>4. /\ k.conn = j.conn /\ k.at = j.at /\ k.mirror = j.mirror
      /\ k.call = (IF op = "other" THEN j.call ELSE id)
      /\ op = "other" => k.reply = j.reply
      /\ op # "other" => k.reply = None \/ k.reply.kind = "stopped"
  BY <1>2 DEF Asked, Client, Stopped
<1>5. /\ client' = [client EXCEPT ![c] = k]
      /\ requests' = IF j.conn \in shut THEN requests
                     ELSE [requests EXCEPT ![j.conn] = Append(requests[j.conn], r)]
  BY <1>0, <1>2, <1>3 DEF Ask
<1>6. client'[c] = k /\ \A b \in Clients : b # c => client'[b] = client[b]
  BY <1>1, <1>5
<1>7. /\ r.id = id /\ r.op = op
      /\ \A d \in Conns : d # j.conn => requests'[d] = requests[d]
      /\ \A d \in Conns : \A m \in Held(requests'[d]) : m \in Held(requests[d]) \/ (d = j.conn /\ m = r)
  <2>1. CASE j.conn \in shut
    BY <1>3, <1>5, <2>1
  <2>2. CASE j.conn \notin shut
    <3>1. requests'[j.conn] = Append(requests[j.conn], r) /\ \A d \in Conns : d # j.conn => requests'[d] = requests[d]
      BY <1>1, <1>5, <2>2
    <3>2. Held(Append(requests[j.conn], r)) = Held(requests[j.conn]) \cup {r}
      BY <1>1, HeldAppend
    <3> QED
      BY <1>3, <3>1, <3>2
  <2> QED
    BY <2>1, <2>2
<1>8. \A d \in Conns : d # j.conn \/ op # "hello" => (Follows(d) <=> Follows(d)') /\ (Standing(d)' <=> Standing(d))
  BY DEF Follows, Standing
<1>9. op = "hello" =>
        /\ requests[j.conn] = << >> /\ messages[j.conn] = << >>
        /\ \A t \in Threads : j.conn \notin emits[t].conns
        /\ j.conn \notin subscribers /\ \A a \in answers : a.conn # j.conn
  BY <1>1 DEF MInv, FreshOK
<1>10. FreshOK'
  <2> SUFFICES ASSUME NEW d \in Conns, served'[d] = "none"
               PROVE  /\ requests'[d] = << >> /\ messages[d] = << >>
                      /\ \A t \in Threads : d \notin emits[t].conns
    BY DEF FreshOK
  <2>1. d # j.conn /\ served[d] = "none"
    OBVIOUS
  <2> QED
    BY <1>7, <2>1 DEF MInv, FreshOK
<1>11. OneConnOK'
  <2> SUFFICES ASSUME NEW d \in reading', d # client'[Of(d)].conn
               PROVE  d \in hung
    BY DEF OneConnOK, Of
  <2>1. d \in reading
    BY <1>4, <1>6
  <2>2. d # client[Of(d)].conn
    <3>1. CASE Of(d) # c
      BY <1>1, <1>6, <2>1, <3>1
    <3>2. CASE Of(d) = c
      BY <1>1, <1>4, <1>6, <2>1, <3>2
    <3> QED
      BY <3>1, <3>2
  <2> QED
    BY <2>1, <2>2 DEF MInv, OneConnOK
<1>12. HereOK'
  <2>0. client[c].asked \in Nat /\ id = client[c].asked + 1
    BY <1>0, <1>1 DEF Client
  <2>1. ASSUME NEW d \in Conns, NEW n, n \in Nat, Here(d, n), n <= client[Of(d)].asked
        PROVE  Here(d, n)'
    <3> SUFFICES ASSUME n = client'[Of(d)].call, client'[Of(d)].conn # None
                 PROVE  d = client'[Of(d)].conn
      BY DEF Here, Of
    <3>1. CASE Of(d) # c
      BY <1>1, <1>6, <2>1, <3>1 DEF Here
    <3>2. CASE Of(d) = c
      <4>1. n # id
        BY <2>0, <2>1, <3>2
      <4>2. op = "other"
        BY <1>4, <1>6, <3>2, <4>1
      <4> QED
        BY <1>4, <1>6, <2>1, <3>2, <4>2 DEF Here
    <3> QED
      BY <3>1, <3>2
  <2>2. ASSUME NEW d \in Conns, NEW m \in Held(requests'[d])
        PROVE  Here(d, m.id)'
    <3>1. CASE m \in Held(requests[d])
      <4>1. m \in Request /\ Here(d, m.id) /\ m.id <= client[Of(d)].asked
        BY <1>1, <3>1, HeldOf DEF MInv, HereOK, IInv, KnownOK, Known
      <4> QED
        BY <2>1, <4>1, IdsAreNumbers DEF Request
    <3>2. CASE d = j.conn
      BY <1>4, <1>6, <3>2 DEF Here, Of
    <3> QED
      BY <1>7, <2>2, <3>1, <3>2
  <2>3. ASSUME NEW d \in Conns, NEW m \in Held(messages[d]), ~ IsEvent(m)
        PROVE  Here(d, m.id)'
    <3>1. m \in Message /\ Here(d, m.id) /\ m.id <= client[Of(d)].asked
      BY <1>1, <2>3, HeldOf DEF MInv, HereOK, IInv, KnownOK, Known
    <3>2. m.id \in Nat
      BY <2>3, <3>1, IdsAreNumbers DEF Message, IsEvent
    <3> QED
      BY <2>1, <3>1, <3>2
  <2>4. ASSUME NEW a \in answers
        PROVE  Here(a.conn, a.id)'
    <3>1. a.conn \in Conns /\ a.id \in Nat /\ Here(a.conn, a.id) /\ a.id <= client[Of(a.conn)].asked
      BY <1>1, IdsAreNumbers DEF Answer, MInv, HereOK, IInv, KnownOK, Known
    <3> QED
      BY <2>1, <3>1
  <2>5. \A d \in Conns : \A m \in Held(messages[d]) : IsEvent(m) \/ Here(d, m.id)'
    BY <2>3
  <2> QED
    BY <2>2, <2>4, <2>5 DEF HereOK, Held, IsEvent
<1>13. HelloOK'
  <2> SUFFICES ASSUME NEW b \in Clients, NEW d, d = client'[b].conn, d # None,
                      client'[b].at = "hello"
               PROVE  /\ d \notin subscribers /\ \A t \in Threads : d \notin emits[t].conns
                      /\ \A m \in Held(requests'[d]) : m.op # "snapshot"
                      /\ \A m \in Held(messages[d]) : ~ IsEvent(m) /\ m.op # "snapshot"
                      /\ \A a \in answers : a.conn = d => a.op # "snapshot"
    BY DEF HelloOK, Stage, Held, IsEvent
  <2>1. CASE b = c /\ op = "hello"
    <3>1. d = j.conn
      BY <1>4, <1>6, <2>1
    <3>2. \A m \in Held(requests'[d]) : m.op # "snapshot"
      BY <1>7, <1>9, <2>1, <3>1, HeldNone
    <3> QED
      BY <1>9, <2>1, <3>1, <3>2, HeldNone
  <2>2. CASE b # c \/ op # "hello"
    <3>1. /\ client[b].conn = d /\ client[b].at = "hello" /\ d \in Conns
          /\ d = j.conn => op # "snapshot"
      <4>1. CASE b # c
        BY <1>1, <1>6, <4>1
      <4>2. CASE b = c
        <5>1. op # "snapshot"
          BY <1>4, <1>6, <4>2
        <5> QED
          BY <1>4, <1>6, <2>2, <4>2, <5>1 DEF Ops
      <4> QED
        BY <4>1, <4>2
    <3>2. /\ d \notin subscribers /\ \A t \in Threads : d \notin emits[t].conns
          /\ \A m \in Held(requests[d]) : m.op # "snapshot"
          /\ \A m \in Held(messages[d]) : ~ IsEvent(m) /\ m.op # "snapshot"
          /\ \A a \in answers : a.conn = d => a.op # "snapshot"
      BY <3>1 DEF MInv, HelloOK, Stage
    <3> QED
      BY <1>7, <3>1, <3>2
  <2> QED
    BY <2>1, <2>2
<1>14. FollowsOK'
  <2>1. ASSUME NEW a \in answers, a.op = "snapshot", a.at = "write"
        PROVE  Follows(a.conn)'
    BY <1>1, <1>8, <1>9, <2>1 DEF MInv, FollowsOK, Answer
  <2>2. ASSUME NEW d \in Conns, NEW m \in Held(messages[d]), ~ IsEvent(m), m.op = "snapshot"
        PROVE  Follows(d)'
    BY <1>8, <1>9, <2>2, HeldNone DEF MInv, FollowsOK
  <2>3. ASSUME NEW b \in Clients, NEW d, d = client'[b].conn, d # None,
               \/ client'[b].at = "on"
               \/ client'[b].reply # None /\ client'[b].reply.kind = "snapshot"
        PROVE  Follows(d)'
    <3>1. CASE b # c
      <4>1. client'[b] = client[b] /\ d \in Conns /\ Of(d) = b
        BY <1>1, <1>6, <2>3, <3>1
      <4> QED
        BY <1>8, <2>3, <3>1, <4>1 DEF MInv, FollowsOK, Stage
    <3>2. CASE b = c
      <4>1. op = "other"
        BY <1>4, <1>6, <2>3, <3>2 DEF Ops
      <4>2. d = client[c].conn /\ client'[c].at = client[c].at /\ client'[c].reply = client[c].reply
        BY <1>4, <1>6, <2>3, <3>2, <4>1
      <4> QED
        BY <1>1, <1>8, <2>3, <3>2, <4>1, <4>2 DEF MInv, FollowsOK, Stage
    <3> QED
      BY <3>1, <3>2
  <2>4. ASSUME NEW b \in Clients, client'[b].conn # None,
               \/ client'[b].at = "on"
               \/ client'[b].reply # None /\ client'[b].reply.kind = "snapshot"
        PROVE  Follows(client[b].conn)'
    <3>1. PICK d : d = client'[b].conn
      OBVIOUS
    <3>2. Follows(d)'
      BY <2>3, <2>4, <3>1
    <3> QED
      BY <3>1, <3>2 DEF Follows, Standing
  <2>5. \A d \in Conns : \A m \in Held(messages[d]) : ~ IsEvent(m) /\ m.op = "snapshot" => Follows(d)'
    BY <2>2
  <2> QED
    BY <2>1, <2>4, <2>5 DEF FollowsOK, Stage, Held, IsEvent
<1>15. EventsNew'
  BY DEF MInv, EventsNew, Of
<1>16. OthersRead'
  <2> SUFFICES ASSUME NEW d \in reading', NEW b, b = Of(d), b \notin overtaken',
                      client'[b].conn \notin {None, d}
               PROVE  messages[d] = << >>
    BY DEF OthersRead, Of
  <2>1. d \in reading
    BY <1>4, <1>6
  <2>2. d \in Conns /\ b \in Clients /\ b \notin overtaken
    BY <1>1, <2>1
  <2>3. CASE b = c /\ op = "hello"
    BY <1>1, <2>1, <2>2, <2>3 DEF StillRead
  <2>4. CASE b # c \/ op # "hello"
    <3>1. client[b].conn \notin {None, d}
      <4>1. CASE b # c
        BY <1>6, <2>2, <4>1
      <4>2. CASE b = c
        BY <1>4, <1>6, <2>4, <4>2
      <4> QED
        BY <4>1, <4>2
    <3> QED
      BY <2>1, <2>2, <3>1 DEF MInv, OthersRead
  <2> QED
    BY <2>3, <2>4
<1>17. SnapshotNew'
  <2> SUFFICES ASSUME NEW b \in Clients \ overtaken', NEW d, d = client'[b].conn, d # None,
                      client'[b].at = "snapshot"
               PROVE  /\ \A a \in answers : a.conn = d /\ a.op = "snapshot" /\ a.at = "write" =>
                           a.version = version
                      /\ \A m \in Held(messages[d]) :
                           IF IsEvent(m) THEN m.event = version
                           ELSE m.op = "snapshot" => m.version = version
                      /\ client'[b].reply # None /\ client'[b].reply.kind = "snapshot" =>
                           client'[b].reply.version = version
    BY DEF SnapshotNew, Stage, Held, IsEvent
  <2>1. CASE b = c /\ op = "snapshot"
    <3>1. client[c].conn = d /\ client[c].at = "hello"
      BY <1>4, <1>6, <2>1
    <3>2. /\ \A m \in Held(messages[d]) : ~ IsEvent(m) /\ m.op # "snapshot"
          /\ \A a \in answers : a.conn = d => a.op # "snapshot"
      BY <3>1 DEF MInv, HelloOK, Stage
    <3>3. client'[b].reply = None \/ client'[b].reply.kind = "stopped"
      BY <1>4, <1>6, <2>1
    <3> QED
      BY <3>2, <3>3
  <2>2. CASE b # c \/ op # "snapshot"
    <3>1. client[b].conn = d /\ client[b].at = "snapshot" /\ client'[b].reply = client[b].reply
      <4>1. CASE b # c
        BY <1>6, <4>1
      <4>2. CASE b = c
        <5>1. op = "other"
          BY <1>4, <1>6, <2>2, <4>2 DEF Ops
        <5> QED
          BY <1>4, <1>6, <4>2, <5>1
      <4> QED
        BY <4>1, <4>2
    <3> QED
      BY <3>1 DEF MInv, SnapshotNew, Stage
  <2> QED
    BY <2>1, <2>2
<1>18. MirrorSettles'
  <2> SUFFICES ASSUME NEW b \in Clients \ overtaken', NEW d, d = client'[b].conn, d # None,
                      client'[b].at = "on", Standing(d)'
               PROVE  ToCome(d)' \/ Settles(messages[d], client'[b].mirror, version)
    BY DEF MirrorSettles, Stage
  <2>1. /\ client[b].conn = d /\ client[b].at = "on" /\ client'[b].mirror = client[b].mirror
        /\ Standing(d)
    <3>1. CASE b # c
      <4>1. client'[b] = client[b] /\ d \in Conns /\ d # j.conn
        BY <1>1, <1>6, <3>1
      <4> QED
        BY <1>8, <4>1
    <3>2. CASE b = c
      <4>1. op = "other"
        BY <1>4, <1>6, <3>2 DEF Ops
      <4> QED
        BY <1>4, <1>6, <1>8, <3>2, <4>1
    <3> QED
      BY <3>1, <3>2
  <2> QED
    BY <2>1 DEF MInv, MirrorSettles, Stage, ToCome
<1> QED
  BY <1>10, <1>11, <1>12, <1>13, <1>14, <1>15, <1>16, <1>17, <1>18 DEF MInv

LEMMA SettlesAll ==
  ASSUME NEW S, NEW s \in Seq(S), NEW newest, \A x \in Held(s) : IsEvent(x) => x.event = newest
  PROVE  Settles(s, newest, newest)
<1>1. Len(s) \in Nat /\ 0 \in 0..Len(s) /\ \A k \in (0 + 1)..Len(s) : s[k] \in Held(s)
  BY DEF Held
<1> QED
  BY <1>1 DEF Settles

LEMMA ConnectM ==
  ASSUME IInv, MInv, NEW c \in Clients, Connect(c)
  PROVE  MInv'
<1>0. PICK n : n = client[c].dials + 1
  OBVIOUS
<1>1. PICK conn : conn = <<c, n>>
  OBVIOUS
<1>2. PICK j : j = [client[c] EXCEPT !.conn = conn, !.dials = n, !.at = "hello"]
  OBVIOUS
<1>3. /\ client[c].conn = None /\ client[c].dials < MaxDials
      /\ Ask(c, "hello", j)
      /\ served' = [served EXCEPT ![conn] = "open"] /\ reading' = reading \cup {conn}
      /\ overtaken' = IF StillRead(c) THEN overtaken \cup {c} ELSE overtaken
      /\ UNCHANGED <<monitor, phase, subscribers, answers, messages, shut, hung>>
  BY <1>0, <1>1, <1>2 DEF Connect
<1>4. /\ client[c] \in Client /\ client[c].dials \in 0..MaxDials
      /\ served \in [Conns -> {"none", "open", "left", "vacated", "ended"}]
  BY DEF IInv, Shapes, TypeOK, Client
<1>5. n \in 1..MaxDials /\ n \in 0..MaxDials /\ n \in Nat /\ ~ (n <= client[c].dials)
  BY <1>0, <1>3, <1>4, NoneApart
<1>6. conn \in Conns /\ Of(conn) = c /\ conn[2] = n
  BY <1>1, <1>5 DEF Conns, Of
<1>7. j \in Client /\ j.conn = conn /\ j.at = "hello" /\ j.asked = client[c].asked
  BY <1>2, <1>4, <1>5, <1>6 DEF Client
<1>8. served[conn] = "none"
  BY <1>5, <1>6 DEF IInv, ServedOK
<1>9. served'[conn] = "open" /\ \A d \in Conns : d # conn => served'[d] = served[d]
  BY <1>3, <1>4, <1>6
<1>10. "hello" \in Ops /\ overtaken \subseteq overtaken' /\ (c \in overtaken' \/ ~ StillRead(c))
  BY <1>3 DEF Ops
<1>11. UNCHANGED <<version, emits, phase, subscribers, answers, messages, shut, hung>>
  BY <1>3 DEF monitor
<1> QED
  BY <1>3, <1>6, <1>7, <1>8, <1>9, <1>10, <1>11, AskM

LEMMA SendM ==
  ASSUME IInv, MInv, NEW c \in Clients, Send(c)
  PROVE  MInv'
<1>1. /\ client[c].conn # None /\ Ask(c, "other", client[c])
      /\ UNCHANGED <<monitor, server, messages, shut, hung, reading, overtaken>>
  BY DEF Send, history
<1>2. client[c] \in Client /\ "other" \in Ops
  BY MTypes DEF Ops
<1>3. /\ client[c].conn \in Conns /\ Of(client[c].conn) = c /\ client[c].conn \in reading
      /\ served[client[c].conn] # "none"
  BY <1>1, MTypes
<1>4. reading' = reading \cup {client[c].conn}
  BY <1>1, <1>3
<1>5. UNCHANGED <<version, emits, phase, served, subscribers, answers, messages, shut, hung>>
  BY <1>1 DEF monitor, server
<1> QED
  BY <1>1, <1>2, <1>3, <1>4, <1>5, AskM

LEMMA ConnectingM ==
  ASSUME IInv, MInv, NEW c \in Clients, Connecting(c)
  PROVE  MInv'
<1>1. PICK reply : reply = client[c].reply
  OBVIOUS
<1>2. PICK j : j = [client[c] EXCEPT !.reply = None, !.call = None]
  OBVIOUS
<1>3. client[c] \in Client /\ reply # None /\ reply \in Replies
  <2>1. client[c] \in Client /\ client[c].reply # None
    BY MTypes DEF Connecting
  <2> QED
    BY <1>1, <2>1 DEF Client
<1>4. /\ j \in Client /\ j.conn = client[c].conn /\ j.at = client[c].at
      /\ j.asked = client[c].asked /\ j.mirror = client[c].mirror
      /\ j.reply = None /\ j.call = None
  BY <1>2, <1>3 DEF Client
<1>5. UNCHANGED <<version, emits, phase, served, subscribers, answers, messages, shut, reading, overtaken>>
  BY DEF Connecting, monitor, server
<1>6. /\ reply.kind # "stopped" => reply.kind = client[c].at
      /\ messages \in [Conns -> Seq(Message)]
      /\ client[c].conn # None =>
           /\ client[c].conn \in Conns /\ Of(client[c].conn) = c
           /\ client[c].conn \in reading /\ served[client[c].conn] # "none"
  BY <1>1, <1>3, MTypes DEF IInv, CallsOK
<1>7. ASSUME Hangup(c, [j EXCEPT !.at = "off"]), requests' = requests
      PROVE  MInv'
  <2>1. PICK k : k = [[j EXCEPT !.at = "off"] EXCEPT !.conn = None]
    OBVIOUS
  <2>2. client' = [client EXCEPT ![c] = k]
    BY <1>4, <1>7, <2>1 DEF Hangup, Client
  <2>3. k \in Client /\ k.conn = None
    BY <1>4, <2>1 DEF Client
  <2>4. hung \subseteq hung' /\ (client[c].conn # None => client[c].conn \in hung')
    BY <1>7 DEF Hangup
  <2> QED
    BY <1>5, <1>7, <2>2, <2>3, <2>4, ClientM
<1>8. ASSUME reply.kind = "hello", j.conn # None,
             Ask(c, "snapshot", [j EXCEPT !.at = "snapshot"]), UNCHANGED hung
      PROVE  MInv'
  <2>1. PICK k : k = [j EXCEPT !.at = "snapshot"]
    OBVIOUS
  <2>2. /\ k \in Client /\ k.conn = client[c].conn /\ k.at = "snapshot" /\ k.asked = client[c].asked
        /\ k.mirror = client[c].mirror
    BY <1>4, <2>1 DEF Client
  <2>3. Ask(c, "snapshot", k) /\ "snapshot" \in Ops /\ client[c].at = "hello"
    BY <1>6, <1>8, <2>1 DEF Ops
  <2>4. /\ k.conn \in Conns /\ Of(k.conn) = c /\ served'[k.conn] # "none"
        /\ reading' = reading \cup {k.conn}
    BY <1>4, <1>5, <1>6, <1>8, <2>2
  <2> QED
    BY <1>5, <1>8, <2>2, <2>3, <2>4, AskM
<1>9. ASSUME reply.kind = "snapshot",
             client' = [client EXCEPT ![c] =
               [j EXCEPT !.mirror = reply.version, !.at = IF j.conn = None THEN "off" ELSE "on"]],
             UNCHANGED <<requests, hung>>
      PROVE  MInv'
  <2>1. PICK at : at = IF j.conn = None THEN "off" ELSE "on"
    OBVIOUS
  <2>2. PICK k : k = [j EXCEPT !.mirror = reply.version, !.at = at]
    OBVIOUS
  <2>3. client' = [client EXCEPT ![c] = k]
    BY <1>9, <2>1, <2>2
  <2>4. at \in {"off", "on"} /\ reply.version \in Versions \cup {None}
    BY <1>3, <2>1 DEF Replies
  <2>5. /\ k \in Client /\ k.conn = client[c].conn /\ k.at = at /\ k.mirror = reply.version
        /\ k.call = None /\ k.reply = None
    BY <1>4, <2>2, <2>4 DEF Client
  <2>6. ASSUME k.conn # None
        PROVE  /\ k.at = "on" /\ Follows(k.conn)
               /\ c \notin overtaken => Settles(messages'[k.conn], k.mirror, version)
    <3>1. k.at = "on" /\ k.conn \in Conns /\ client[c].at = "snapshot"
      BY <1>4, <1>6, <1>9, <2>1, <2>5, <2>6
    <3>2. Follows(k.conn)
      BY <1>1, <1>3, <1>9, <2>5, <2>6 DEF MInv, FollowsOK
    <3>3. ASSUME c \notin overtaken
          PROVE  Settles(messages'[k.conn], k.mirror, version)
      <4>1. /\ \A m \in Held(messages[k.conn]) : IsEvent(m) => m.event = version
            /\ reply.version = version
        BY <1>1, <1>3, <1>9, <2>5, <2>6, <3>1, <3>3 DEF MInv, SnapshotNew, Stage
      <4>2. messages[k.conn] \in Seq(Message) /\ messages' = messages
        BY <1>5, <1>6, <3>1
      <4> QED
        BY <2>5, <4>1, <4>2, SettlesAll
    <3> QED
      BY <3>1, <3>2, <3>3
  <2> QED
    BY <1>5, <1>9, <2>3, <2>5, <2>6, ClientM
<1>10. \/ /\ Hangup(c, [j EXCEPT !.at = "off"])
          /\ requests' = requests
       \/ /\ reply.kind = "hello" /\ j.conn # None
          /\ Ask(c, "snapshot", [j EXCEPT !.at = "snapshot"])
          /\ UNCHANGED hung
       \/ /\ reply.kind = "snapshot"
          /\ client' = [client EXCEPT ![c] =
               [j EXCEPT !.mirror = reply.version, !.at = IF j.conn = None THEN "off" ELSE "on"]]
          /\ UNCHANGED <<requests, hung>>
  BY <1>1, <1>2 DEF Connecting
<1> QED
  BY <1>7, <1>8, <1>9, <1>10

LEMMA ProcessEndsM ==
  ASSUME IInv, MInv, NEW c \in Clients, NEW at \in {"off", "crashed"}, ProcessEnds(c, at),
         UNCHANGED <<version, emits, server, requests, shut, overtaken>>
  PROVE  MInv'
<1>1. PICK j : j = [client[c] EXCEPT !.at = at, !.conn = None, !.mirror = None, !.call = None,
                                     !.reply = None, !.pending = {}, !.waiting = {}]
  OBVIOUS
<1>2. PICK own : own = {conn \in Conns : Of(conn) = c /\ conn[2] <= client[c].dials}
  OBVIOUS
<1>3. /\ client[c] \in Client /\ client \in [Clients -> Client]
      /\ messages \in [Conns -> Seq(Message)]
  BY MTypes
<1>4. j \in Client /\ j.conn = None
  BY <1>1, <1>3 DEF Client
<1>5. /\ client' = [client EXCEPT ![c] = j] /\ reading' = reading \ own /\ hung' = hung \cup own
      /\ messages' = [conn \in Conns |-> IF conn \in own THEN << >> ELSE messages[conn]]
  <2>1. client' = [client EXCEPT ![c] = j]
    BY <1>1, <1>3 DEF ProcessEnds
  <2> QED
    BY <1>2, <2>1 DEF ProcessEnds
<1>6. client[c].conn # None => client[c].conn \in own
  BY <1>2, <1>3 DEF IInv, ConnOK, Client
<1>7. \A d \in Conns :
        /\ Held(messages'[d]) \subseteq Held(messages[d])
        /\ messages[d] = << >> => messages'[d] = << >>
        /\ Of(d) # c => messages'[d] = messages[d]
  BY <1>2, <1>5, HeldNone
<1>8. UNCHANGED <<phase, served, subscribers, answers>>
  BY DEF server
<1>9. /\ reading' \subseteq reading /\ hung \subseteq hung'
      /\ j.conn # client[c].conn => client[c].conn \in hung'
  BY <1>4, <1>5, <1>6
<1> QED
  BY <1>4, <1>5, <1>7, <1>8, <1>9, ClientM

LEMMA QuitM ==
  ASSUME IInv, MInv, NEW c \in Clients, Quit(c)
  PROVE  MInv'
<1>1. ProcessEnds(c, "off") /\ UNCHANGED <<version, emits, server, requests, shut, overtaken>>
  BY DEF Quit, monitor
<1> QED
  BY <1>1, ProcessEndsM

LEMMA PanicM ==
  ASSUME IInv, MInv, NEW conn \in Conns, Panic(conn)
  PROVE  MInv'
<1>1. PICK c : c = Of(conn)
  OBVIOUS
<1>2. c \in Clients
  BY <1>1, MTypes
<1>3. ProcessEnds(c, "crashed") /\ UNCHANGED <<version, emits, server, requests, shut, overtaken>>
  BY <1>1 DEF Panic, monitor
<1> QED
  BY <1>2, <1>3, ProcessEndsM

LEMMA ReadResponseM ==
  ASSUME IInv, MInv, NEW conn \in Conns, ReadResponse(conn)
  PROVE  MInv'
<1>1. PICK c : c = Of(conn)
  OBVIOUS
<1>2. PICK m : m = Head(messages[conn])
  OBVIOUS
<1>3. PICK reply : reply = IF m.id = client[c].call THEN [kind |-> m.op, version |-> m.version]
                           ELSE client[c].reply
  OBVIOUS
<1>4. PICK j : j = IF m.id \in client[c].pending
                   THEN [client[c] EXCEPT !.pending = client[c].pending \ {m.id},
                                          !.waiting = client[c].waiting \ {m.id},
                                          !.reply = reply]
                   ELSE client[c]
  OBVIOUS
<1>5. /\ c \in Clients /\ client \in [Clients -> Client] /\ client[c] \in Client
      /\ messages \in [Conns -> Seq(Message)] /\ messages[conn] \in Seq(Message)
      /\ client[c].conn # None => client[c].conn \in Conns
  BY <1>1, MTypes
<1>6. /\ conn \in reading /\ messages[conn] # << >> /\ ~ IsEvent(m)
      /\ messages' = [messages EXCEPT ![conn] = Tail(messages[conn])]
      /\ UNCHANGED <<version, emits, phase, served, subscribers, answers, requests, shut, hung,
                     reading, overtaken>>
  BY <1>2 DEF ReadResponse, Take, monitor, server
<1>7. /\ m \in Held(messages[conn]) /\ m \in Message
      /\ Held(Tail(messages[conn])) \subseteq Held(messages[conn])
  BY <1>2, <1>5, <1>6, HeldTail
<1>8. /\ m.id \in Ids /\ m.op \in Ops /\ m.version \in Versions \cup {None}
      /\ m.id = client[c].call => m.op = client[c].at
      /\ m.id = client[c].call /\ client[c].conn # None => conn = client[c].conn
      /\ m.op = "snapshot" => Follows(conn)
  <2>1. m.id \in Ids /\ m.op \in Ops /\ m.version \in Versions \cup {None}
    BY <1>6, <1>7 DEF Message, IsEvent
  <2>2. Known(conn, m) /\ Here(conn, m.id)
    BY <1>6, <1>7 DEF IInv, KnownOK, MInv, HereOK
  <2>3. m.op = "snapshot" => Follows(conn)
    BY <1>6, <1>7 DEF MInv, FollowsOK
  <2> QED
    BY <1>1, <2>1, <2>2, <2>3 DEF Known, Here
<1>9. client' = [client EXCEPT ![c] = j]
  <2>1. CASE m.id \in client[c].pending
    <3>1. client' = [client EXCEPT ![c].pending = @ \ {m.id}, ![c].waiting = @ \ {m.id},
                                   ![c].reply = reply]
      BY <1>1, <1>2, <1>3, <2>1 DEF ReadResponse
    <3> QED
      BY <1>4, <1>5, <2>1, <3>1 DEF Client
  <2>2. CASE m.id \notin client[c].pending
    <3>1. client' = client
      BY <1>1, <1>2, <2>2 DEF ReadResponse
    <3> QED
      BY <1>4, <1>5, <2>2, <3>1
  <2> QED
    BY <2>1, <2>2
<1>10. /\ j \in Client /\ j.at = client[c].at /\ j.conn = client[c].conn /\ j.call = client[c].call
       /\ j.mirror = client[c].mirror
       /\ \/ j.reply = client[c].reply
          \/ m.id = client[c].call /\ j.reply.kind = m.op /\ j.reply.version = m.version
  <2>1. CASE m.id \in client[c].pending
    <3>1. /\ reply \in Replies \cup {None}
          /\ \/ reply = client[c].reply
             \/ m.id = client[c].call /\ reply.kind = m.op /\ reply.version = m.version
      <4>1. CASE m.id = client[c].call
        <5>1. m.op \in {"hello", "snapshot"}
          BY <1>5, <1>8, <4>1, NoneApart, IdsAreNumbers DEF IInv, CallsOK
        <5>2. reply = [kind |-> m.op, version |-> m.version]
          BY <1>3, <4>1
        <5> QED
          BY <1>8, <4>1, <5>1, <5>2 DEF Replies
      <4>2. CASE m.id # client[c].call
        <5>1. reply = client[c].reply
          BY <1>3, <4>2
        <5> QED
          BY <1>5, <5>1 DEF Client
      <4> QED
        BY <4>1, <4>2
    <3>2. j = [client[c] EXCEPT !.pending = client[c].pending \ {m.id},
                                !.waiting = client[c].waiting \ {m.id}, !.reply = reply]
      BY <1>4, <2>1
    <3>3. /\ j \in Client /\ j.at = client[c].at /\ j.conn = client[c].conn /\ j.call = client[c].call
          /\ j.mirror = client[c].mirror /\ j.reply = reply
      BY <1>5, <3>1, <3>2 DEF Client
    <3> QED
      BY <3>1, <3>3
  <2>2. CASE m.id \notin client[c].pending
    BY <1>4, <1>5, <2>2
  <2> QED
    BY <2>1, <2>2
<1>11. \A d \in Conns :
         /\ Held(messages'[d]) \subseteq Held(messages[d])
         /\ messages[d] = << >> => messages'[d] = << >>
         /\ Of(d) # c => messages'[d] = messages[d]
  BY <1>1, <1>5, <1>6, <1>7
<1>12. ASSUME j.conn # None
       PROVE  /\ j.at = "on" \/ (j.reply # None /\ j.reply.kind = "snapshot") => Follows(j.conn)
              /\ c \notin overtaken /\ j.at = "snapshot" /\ j.reply # None /\ j.reply.kind = "snapshot" =>
                   j.reply.version = version
              /\ c \notin overtaken /\ j.at = "on" /\ Standing(j.conn) =>
                   ToCome(j.conn) \/ Settles(messages'[j.conn], j.mirror, version)
  <2>1. j.at = "on" \/ (j.reply # None /\ j.reply.kind = "snapshot") => Follows(j.conn)
    <3>1. CASE j.at = "on"
      BY <1>5, <1>10, <1>12, <3>1 DEF MInv, FollowsOK, Stage
    <3>2. CASE j.reply = client[c].reply
      BY <1>5, <1>10, <1>12, <3>1, <3>2 DEF MInv, FollowsOK
    <3>3. CASE m.id = client[c].call /\ j.reply.kind = m.op
      BY <1>8, <1>10, <1>12, <3>1, <3>3
    <3> QED
      BY <1>10, <3>1, <3>2, <3>3
  <2>2. ASSUME c \notin overtaken, j.at = "snapshot", j.reply # None, j.reply.kind = "snapshot"
        PROVE  j.reply.version = version
    <3>1. CASE j.reply = client[c].reply
      BY <1>5, <1>10, <1>12, <2>2, <3>1 DEF MInv, SnapshotNew, Stage
    <3>2. CASE m.id = client[c].call /\ j.reply.kind = m.op /\ j.reply.version = m.version
      <4>1. conn = client[c].conn
        BY <1>8, <1>10, <1>12, <3>2
      <4>2. m.op = "snapshot" => m.version = version
        BY <1>5, <1>6, <1>7, <1>10, <1>12, <2>2, <4>1 DEF MInv, SnapshotNew, Stage
      <4> QED
        BY <2>2, <3>2, <4>2
    <3> QED
      BY <1>10, <3>1, <3>2
  <2>3. ASSUME c \notin overtaken, j.at = "on", Standing(j.conn)
        PROVE  ToCome(j.conn) \/ Settles(messages'[j.conn], j.mirror, version)
    <3>1. ToCome(j.conn) \/ Settles(messages[j.conn], j.mirror, version)
      BY <1>5, <1>10, <1>12, <2>3 DEF MInv, MirrorSettles, Stage
    <3>2. CASE j.conn # conn
      BY <1>5, <1>6, <1>10, <1>12, <3>1, <3>2
    <3>3. CASE j.conn = conn /\ Settles(messages[conn], j.mirror, version)
      <4>1. Settles(Tail(messages[conn]), j.mirror, version)
        BY <1>2, <1>5, <1>6, <3>3, SettlesTail
      <4> QED
        BY <1>5, <1>6, <3>3, <4>1
    <3> QED
      BY <3>1, <3>2, <3>3
  <2> QED
    BY <2>1, <2>2, <2>3
<1> QED
  BY <1>5, <1>6, <1>9, <1>10, <1>11, <1>12, ClientM

(* Client.applyEvent: an event of a connection the client has left reaches    *)
(* nobody who was not overtaken.                                           *)
LEMMA ReadEventM ==
  ASSUME IInv, MInv, NEW conn \in Conns, ReadEvent(conn)
  PROVE  MInv'
<1>1. PICK c : c = Of(conn)
  OBVIOUS
<1>2. PICK m : m = Head(messages[conn])
  OBVIOUS
<1>3. PICK j : j = [client[c] EXCEPT !.mirror = m.event]
  OBVIOUS
<1>4. /\ c \in Clients /\ client \in [Clients -> Client] /\ client[c] \in Client
      /\ messages \in [Conns -> Seq(Message)] /\ messages[conn] \in Seq(Message)
      /\ client[c].conn # None => client[c].conn \in Conns
  BY <1>1, MTypes
<1>5. /\ conn \in reading /\ messages[conn] # << >> /\ IsEvent(m)
      /\ client' = [client EXCEPT ![c] = j]
      /\ messages' = [messages EXCEPT ![conn] = Tail(messages[conn])]
      /\ UNCHANGED <<version, emits, phase, served, subscribers, answers, requests, shut, hung,
                     reading, overtaken>>
  BY <1>1, <1>2, <1>3 DEF ReadEvent, Take, monitor, server
<1>6. /\ m \in Message /\ Held(Tail(messages[conn])) \subseteq Held(messages[conn])
  BY <1>2, <1>4, <1>5, HeldTail
<1>7. m.event \in Versions
  BY <1>5, <1>6 DEF Message, IsEvent
<1>8. /\ j \in Client /\ j.at = client[c].at /\ j.conn = client[c].conn /\ j.call = client[c].call
      /\ j.reply = client[c].reply /\ j.mirror = m.event
  BY <1>3, <1>4, <1>7 DEF Client
<1>9. \A d \in Conns :
        /\ Held(messages'[d]) \subseteq Held(messages[d])
        /\ messages[d] = << >> => messages'[d] = << >>
        /\ Of(d) # c => messages'[d] = messages[d]
  BY <1>1, <1>4, <1>5, <1>6
<1>10. ASSUME j.conn # None
       PROVE  /\ j.at = "on" \/ (j.reply # None /\ j.reply.kind = "snapshot") => Follows(j.conn)
              /\ c \notin overtaken /\ j.at = "snapshot" /\ j.reply # None /\ j.reply.kind = "snapshot" =>
                   j.reply.version = version
  BY <1>4, <1>8, <1>10 DEF MInv, FollowsOK, SnapshotNew, Stage
<1>11. ASSUME j.conn # None, c \notin overtaken, j.at = "on", Standing(j.conn)
       PROVE  ToCome(j.conn) \/ Settles(messages'[j.conn], j.mirror, version)
  <2>1. ToCome(j.conn) \/ Settles(messages[j.conn], client[c].mirror, version)
    BY <1>4, <1>8, <1>11 DEF MInv, MirrorSettles, Stage
  <2>2. j.conn = conn
    BY <1>1, <1>5, <1>8, <1>11 DEF MInv, OthersRead
  <2>3. ASSUME Settles(messages[conn], client[c].mirror, version)
        PROVE  Settles(messages'[j.conn], j.mirror, version)
    <3>1. Settles(Tail(messages[conn]), m.event, version)
      BY <1>2, <1>4, <1>5, <2>3, SettlesTail
    <3> QED
      BY <1>4, <1>5, <1>8, <2>2, <3>1
  <2> QED
    BY <2>1, <2>2, <2>3
<1> QED
  BY <1>4, <1>5, <1>8, <1>9, <1>10, <1>11, ClientM

LEMMA ReadEndsM ==
  ASSUME IInv, MInv, NEW conn \in Conns, ReadEnds(conn)
  PROVE  MInv'
<1>1. PICK c : c = Of(conn)
  OBVIOUS
<1>2. PICK j : j = IF client[c].conn = conn THEN Dropped(c) ELSE client[c]
  OBVIOUS
<1>3. /\ c \in Clients /\ client \in [Clients -> Client] /\ client[c] \in Client
      /\ messages \in [Conns -> Seq(Message)]
      /\ client[c].conn # None => client[c].conn \in Conns
  BY <1>1, MTypes
<1>4. /\ reading' = reading \ {conn} /\ messages' = [messages EXCEPT ![conn] = << >>]
      /\ client' = [client EXCEPT ![c] = j]
      /\ UNCHANGED <<version, emits, phase, served, subscribers, answers, requests, shut, hung, overtaken>>
  <2>1. client' = [client EXCEPT ![c] = j]
    <3>1. CASE client[c].conn = conn
      BY <1>1, <1>2, <3>1 DEF ReadEnds
    <3>2. CASE client[c].conn # conn
      <4>1. client' = client /\ j = client[c]
        BY <1>1, <1>2, <3>2 DEF ReadEnds
      <4> QED
        BY <1>3, <4>1
    <3> QED
      BY <3>1, <3>2
  <2> QED
    BY <2>1 DEF ReadEnds, monitor, server
<1>5. /\ j \in Client
      /\ \/ j.conn = None /\ client[c].conn = conn
         \/ j = client[c] /\ j.conn # conn
  <2>1. CASE client[c].conn = conn
    <3>1. j = Dropped(c) /\ client[c].conn # None
      <4>1. client[c].conn # None
        BY <2>1, NoneApart
      <4> QED
        BY <1>2, <2>1, <4>1
    <3>2. j \in Client /\ j.conn = None
      BY <1>3, <3>1, DroppedOK
    <3> QED
      BY <2>1, <3>2
  <2>2. CASE client[c].conn # conn
    BY <1>2, <1>3, <2>2
  <2> QED
    BY <2>1, <2>2
<1>6. \A d \in Conns :
        /\ Held(messages'[d]) \subseteq Held(messages[d])
        /\ messages[d] = << >> => messages'[d] = << >>
        /\ Of(d) # c => messages'[d] = messages[d]
        /\ d # conn => messages'[d] = messages[d]
  BY <1>1, <1>3, <1>4, HeldNone
<1>7. ASSUME j.conn # None
      PROVE  /\ j = client[c] /\ messages'[j.conn] = messages[j.conn]
             /\ j.at = "on" \/ (j.reply # None /\ j.reply.kind = "snapshot") => Follows(j.conn)
             /\ c \notin overtaken /\ j.at = "snapshot" /\ j.reply # None /\ j.reply.kind = "snapshot" =>
                  j.reply.version = version
             /\ c \notin overtaken /\ j.at = "on" /\ Standing(j.conn) =>
                  ToCome(j.conn) \/ Settles(messages'[j.conn], j.mirror, version)
  <2>1. j = client[c] /\ messages'[j.conn] = messages[j.conn]
    BY <1>3, <1>5, <1>6, <1>7
  <2> QED
    BY <1>3, <1>7, <2>1 DEF MInv, FollowsOK, SnapshotNew, MirrorSettles, Stage
<1>8. /\ reading' \subseteq reading /\ j.conn \in {client[c].conn, None}
      /\ j.conn # client[c].conn => client[c].conn \notin reading'
  BY <1>4, <1>5
<1> QED
  BY <1>3, <1>4, <1>5, <1>6, <1>7, <1>8, ClientM

LEMMA InitM ==
  ASSUME Init
  PROVE  MInv
<1>1. /\ emits = [t \in Threads |-> NoEmit] /\ answers = {} /\ reading = {} /\ subscribers = {}
      /\ requests = [conn \in Conns |-> << >>] /\ messages = [conn \in Conns |-> << >>]
      /\ \A c \in Clients : client[c].conn = None
  BY DEF Init
<1>2. \A t \in Threads : emits[t].at = "idle" /\ emits[t].conns = {}
  BY <1>1 DEF NoEmit
<1>3. \A conn \in Conns : requests[conn] = << >> /\ messages[conn] = << >>
  BY <1>1
<1>4. FreshOK /\ OneConnOK /\ EventsNew /\ OthersRead
  BY <1>1, <1>2, <1>3 DEF FreshOK, OneConnOK, EventsNew, OthersRead
<1>5. HelloOK /\ SnapshotNew /\ MirrorSettles
  BY <1>1 DEF HelloOK, SnapshotNew, MirrorSettles, Stage
<1>6. HereOK /\ FollowsOK
  BY <1>1, <1>3, HeldNone DEF HereOK, FollowsOK, Stage
<1> QED
  BY <1>4, <1>5, <1>6 DEF MInv

LEMMA NextM ==
  ASSUME IInv, MInv, [Next]_vars
  PROVE  MInv'
<1>1. ASSUME NEW t \in Threads, Change(t) \/ Emits(t)
      PROVE  MInv'
  BY <1>1, ChangeM, ListSubscribersM, ReadStateM, WriteEventM DEF Emits
<1>2. CASE MergeBegins \/ MergeEnds \/ CheckIdle \/ UNCHANGED vars
  <2>1. UNCHANGED <<version, emits, server, sockets, clients, overtaken>>
    BY <1>2 DEF MergeBegins, MergeEnds, CheckIdle, CheckVacant, CheckMerging, history, monitor, vars
  <2> QED
    BY <2>1, NothingEnds
<1>3. ASSUME NEW conn \in Conns, Scan(conn) \/ ScanEnds(conn) \/ ServeEnds(conn)
      PROVE  MInv'
  BY <1>3, ScanM, ScanEndsM, ServeEndsM
<1>4. ASSUME NEW conn \in Conns, Answers(conn)
      PROVE  MInv'
  BY <1>4, DispatchM, WriteAnswerM DEF Answers
<1>5. ASSUME NEW conn \in Conns, ReadLoop(conn)
      PROVE  MInv'
  BY <1>5, ReadResponseM, ReadEventM, PanicM, ReadEndsM DEF ReadLoop
<1>6. CASE Close \/ CloseConns
  BY <1>6, CloseM
<1>7. CASE Exit \/ Crash
  BY <1>7, GoneM DEF Exit, Crash
<1>8. ASSUME NEW c \in Clients, Connect(c) \/ Connecting(c) \/ Send(c) \/ Quit(c)
      PROVE  MInv'
  BY <1>8, ConnectM, ConnectingM, SendM, QuitM
<1> QED
  BY <1>1, <1>2, <1>3, <1>4, <1>5, <1>6, <1>7, <1>8 DEF Next

LEMMA MirrorInvariant == Spec => [](IInv /\ MInv)
<1>1. Init => IInv /\ MInv
  BY InitInv, InitM
<1>2. IInv /\ MInv /\ [Next]_vars => (IInv /\ MInv)'
  BY NextInv, NextM
<1> QED
  BY <1>1, <1>2, PTL DEF Spec

----------------------------------------------------------------------------
(* The server and its clients keep the shapes of their state: a client's     *)
(* requests stay within two a dial and one for each other input.            *)
THEOREM ServerTyped == Spec => []TypeOK
<1>1. IInv => TypeOK
  BY DEF IInv, Shapes
<1> QED
  BY <1>1, Invariant, PTL

(* Server.broadcast, the snapshot of dispatch and Client.applyEvent: whoever  *)
(* follows the backend has its newest state or has it on its way, at every  *)
(* step, however broadcasts, snapshots and the ends of connections overlap; *)
(* and the mirror of a connected client comes to show that state, whatever  *)
(* is read on the way, unless an older state was yet to reach the client    *)
(* when the newest change was made, which may then stay (overtaken).        *)
THEOREM NothingLost == Spec => [](NewestOnItsWay /\ MirrorSettles)
<1>1. IInv /\ MInv => NewestOnItsWay /\ MirrorSettles
  BY DEF IInv, MInv
<1> QED
  BY <1>1, MirrorInvariant, PTL

(* The same when nothing is on its way: the mirror shows the newest state.   *)
THEOREM NothingStale == Spec => []ShownInTheEnd
<1>1. ASSUME IInv, MInv
      PROVE  ShownInTheEnd
  <2> SUFFICES ASSUME NEW c \in Clients \ overtaken, NEW conn, conn = client[c].conn,
                      Stage(c, "on"), Standing(conn), ~ ToCome(conn), messages[conn] = << >>
               PROVE  client[c].mirror = version
    BY DEF ShownInTheEnd
  <2>1. Settles(<< >>, client[c].mirror, version)
    BY <1>1 DEF MInv, MirrorSettles
  <2> QED
    BY <2>1 DEF Settles
<1> QED
  BY <1>1, MirrorInvariant, PTL

(* Client.request, Server.serve and dropConnection: a caller never waits for *)
(* an answer that is neither asked for, nor under way, nor given up when the *)
(* reader sees the end of the connection, unless its own client hung up.    *)
THEOREM AnswersUnderWay == Spec => []AnswerUnderWay
<1>1. IInv => AnswerUnderWay
  BY DEF IInv
<1> QED
  BY <1>1, Invariant, PTL

(* Server.serve's end and checkIdleIn: a backend nobody uses never runs out  *)
(* of checks, however clients come and go and merges put checks off, unless  *)
(* the last front end went because it stopped reading.                      *)
THEOREM ExitsUnderWay == Spec => []ExitUnderWay
<1>1. IInv => ExitUnderWay
  BY DEF IInv
<1> QED
  BY <1>1, Invariant, PTL
==========================================================================
