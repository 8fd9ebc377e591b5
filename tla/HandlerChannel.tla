------------------------- MODULE HandlerChannel -------------------------
(***************************************************************************)
(* What the service may rely on of the handler program behind its two-way  *)
(* channel: when it can be used, and in which order it hears of it.        *)
(* TwoWayMessages takes its steps from here and HandlerRunner, the runner  *)
(* with the program, implements them.                                      *)
(***************************************************************************)

VARIABLE handler  \* "down", "opened": it can be used, not announced yet,
                  \* "up": announced, "lost": announced and gone,
                  \* "died": gone before it was announced

States == {"down", "opened", "up", "lost", "died"}

Gone(state) == IF state = "up" THEN "lost" ELSE "died"

Announced == handler \in {"up", "lost"}

Answers == handler \in {"opened", "up"}

(* A handler that was announced is announced gone before another is used.   *)
Opens == handler = "down" /\ handler' \in {"opened", "died"}

Dies == Answers /\ handler' = Gone(handler)

AnnounceReady ==
  \/ handler = "opened" /\ handler' = "up"
  \/ handler = "died" /\ handler' = "lost"

AnnounceDown == handler = "lost" /\ handler' = "down"

(* The backend starts anew.                                                *)
Restarts == handler' = "down"

Init == handler = "down"

Spec == Init /\ [][Opens \/ Dies \/ AnnounceReady \/ AnnounceDown \/ Restarts]_handler
==========================================================================
