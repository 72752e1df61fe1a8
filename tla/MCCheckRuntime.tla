--------------------------- MODULE MCCheckRuntime ---------------------------
(***************************************************************************)
(* The goroutines of CheckRuntime for model checking: the loops the        *)
(* program starts once, and handlers of web requests.                      *)
(***************************************************************************)
EXTENDS CheckRuntime

Requests == {"recheck", "verify", "diagnose", "access"}

SafetyProcs == {"updater", "scheduler", "worker", "alerts", "web"}
SafetyServes ==
  [p \in SafetyProcs |->
     CASE p = "updater"   -> {"refresh"}
       [] p = "scheduler" -> {"scheduler"}
       [] p = "worker"    -> {"automatic"}
       [] p = "alerts"    -> {"deliver"}
       [] p = "web"       -> Requests]

LiveProcs == {"scheduler", "worker", "web", "web2"}
LiveServes ==
  [p \in LiveProcs |->
     CASE p = "scheduler" -> {"scheduler"}
       [] p = "worker"    -> {"automatic"}
       [] p = "web"       -> Requests \ {"diagnose"}
       [] p = "web2"      -> {"diagnose", "deliver"}]

=============================================================================
