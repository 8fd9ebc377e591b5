------------------------ MODULE MCTwoWayMessages ------------------------
(* Small instances of TwoWayMessages: one PR, whose message stands, in a list *)
(* that holds one.  What happens in a behaviour is one of a few bags of       *)
(* inputs, each with a race or a failure of its own.                        *)
EXTENDS TwoWayMessages

MCPRs == {1}
MCWanted == {"READY", "FAILING"}

OnFailing ==
  {"tap" :> 2 @@ "push" :> 1, "tap" :> 1 @@ "crash" :> 1 @@ "status" :> 1}

(* The commit changes, and a crash loses the edit that would say so.         *)
Unannounced == {"tap" :> 2 @@ "push" :> 1 @@ "crash" :> 1}

OnReady ==
  {"status" :> 2 @@ "handler dies" :> 1,
   "status" :> 2 @@ "stop" :> 1,
   "status" :> 2 @@ "call fails" :> 1,
   "status" :> 1 @@ "age" :> 1 @@ "handler dies" :> 1,
   "tap" :> 1 @@ "push" :> 1 @@ "stop" :> 1,
   "tap" :> 1 @@ "other opens" :> 2 @@ "close" :> 1 @@ "other closes" :> 1,
   "tap" :> 1 @@ "GitHub fails" :> 1 @@ "recompute" :> 1,
   "tap" :> 1 @@ "test" :> 1 @@ "remove" :> 1,
   "merge fails" :> 1 @@ "status" :> 1 @@ "remove" :> 1,
   "merge fails" :> 1 @@ "status" :> 2}

(* GitHub does not say what the PR's head is.                               *)
Headless == {"tap" :> 1 @@ "push" :> 1}

MCBudgets == OnFailing \cup OnReady \cup Unannounced \cup Headless

(* The PR's message, as it was posted.                                     *)
Sent == [PRMessage(1, gh[1].status, repo.prs[1]) EXCEPT !.gen = 1]

MCInit ==
  /\ budget \in Budgets
  /\ gh = [p \in PRs |-> [open |-> TRUE, blip |-> FALSE, head |-> 1, named |-> budget \notin Headless,
                          status |-> IF budget \in OnFailing THEN "FAILING" ELSE "READY"]]
  /\ newer = 0
  /\ handler = "up" /\ backend = "running" /\ monitored = TRUE
  /\ repo = Fetched /\ track = [p \in PRs |-> StatusOf(p)]
  /\ messages = [id \in Ids |-> IF id = 1 THEN Sent ELSE None]
  /\ chat = <<[shown |-> TRUE, old |-> FALSE, gen |-> 1, buttons |-> Sent.buttons,
               head |-> Sent.head, told |-> Sent.head]>>
  /\ gens = 1
  /\ pressed = {} /\ delivered = {} /\ readies = 0 /\ tapping = {} /\ tasks = EmptyBag
  /\ done = <<>> /\ mishaps = {}

MCSpec == MCInit /\ [][Next]_vars
MCFairSpec == MCSpec /\ Fairness
==========================================================================
