------------------------- MODULE MCBackendProcess -------------------------
(***************************************************************************)
(* The backend process for TLC: two callers and the app, on either         *)
(* platform, with a few commands and mishaps in each behaviour.            *)
(***************************************************************************)
EXTENDS BackendProcess, TLC

CONSTANTS c1, c2

MCBudgets ==
  {SetToBag({"start", "stop", "kill"}),
   SetToBag({"start", "stop", "signal"}),
   SetToBag({"start", "restart", "start fails"}),
   SetToBag({"start", "stop", "restart"}),
   SetToBag({"start", "stop", "write fails"}),
   SetToBag({"enable", "restart"}),
   SetToBag({"enable", "disable"}),
   SetToBag({"enable", "kill"}),
   SetToBag({"enable", "start fails"}),
   [i \in {"restart"} |-> 2],
   [i \in {"enable"} |-> 2]}

CallerSymmetry == Permutations({c1, c2})
=============================================================================
