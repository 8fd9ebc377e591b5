------------------------- MODULE MCHandlerRunner ------------------------
(* Small instances of HandlerRunner: two callers, and a few bags of what     *)
(* happens in a behaviour.                                                 *)
EXTENDS HandlerRunner

MCBudgets ==
  {"call" :> 2 @@ "dies" :> 1,
   "call" :> 2 @@ "stop" :> 1,
   "call" :> 1 @@ "dies" :> 1 @@ "stop" :> 1,
   "call" :> 1 @@ "tap" :> 1 @@ "dies" :> 1,
   "call" :> 1 @@ "closes stdin" :> 1 @@ "stop" :> 1,
   "call" :> 1 @@ "no start" :> 1 @@ "error" :> 1 @@ "other protocol" :> 1,
   "tap" :> 1 @@ "signal" :> 1 @@ "stop" :> 1}
==========================================================================
