-------------------------- MODULE MCAirlinePoints --------------------------
(* Two reports and the configurations that differ in what they lead to.    *)
EXTENDS AirlinePoints

MCConfig ==
  [enabled      : {TRUE},
   sync_mode    : {"realtime", "batch"},
   simulation   : {"success", "retryable_failure", "permanent_failure"},
   max_attempts : {2}]
  \cup {[enabled |-> FALSE, sync_mode |-> "realtime", simulation |-> "success",
         max_attempts |-> 1]}
=============================================================================
