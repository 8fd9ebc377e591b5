------------------------- MODULE MCServerClients -------------------------
(* Small instances of ServerClients.                                       *)
EXTENDS ServerClients

CONSTANT t2

(* The second goroutine changes something only while another one broadcasts, *)
(* and has done with it before a second dial and before any other input.    *)
Overlapping ==
  /\ emits[t2] = NoEmit /\ emits'[t2] # NoEmit =>
       \E t \in Threads \ {t2} : emits[t] # NoEmit
  /\ emits'[t2] # NoEmit => inputs' = 0 /\ \A c \in Clients : client'[c].dials <= 1

(* Next within that bound: it cuts no step that Fairness asks for.          *)
MCNext ==
  \/ \E t \in Threads : Change(t) /\ Overlapping
  \/ \E t \in Threads : Emits(t) /\ Overlapping
  \/ MergeBegins /\ Overlapping
  \/ MergeEnds
  \/ \E conn \in Conns : Scan(conn) \/ ServeEnds(conn) \/ ReadLoop(conn)
  \/ \E conn \in Conns : ScanEnds(conn) /\ Overlapping
  \/ \E conn \in Conns : Answers(conn) /\ Overlapping
  \/ CheckIdle
  \/ Close /\ Overlapping
  \/ CloseConns \/ Exit \/ Crash
  \/ \E c \in Clients : Connect(c) /\ Overlapping
  \/ \E c \in Clients : Connecting(c) /\ Overlapping
  \/ \E c \in Clients : Send(c) /\ Overlapping
  \/ \E c \in Clients : Quit(c) /\ Overlapping

MCSpec == Init /\ [][MCNext]_vars /\ Fairness
==========================================================================
