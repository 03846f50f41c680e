------------------------ MODULE MCWitnessedDirectory ------------------------
(* A status is fresh for a tick, the issuer may be a tick off and the clock *)
(* runs to 3, so that an authorization can be issued on what has aged; two   *)
(* attempts, so that a failure follows a success or a success a failure; two *)
(* entries, so that a newer checkpoint can be in the log.  The policy turns  *)
(* to the witness's second revision half way.                                *)
EXTENDS WitnessedDirectory

MCFailures == {[status |-> "verification_failure", kind |-> "verification"]}
=============================================================================
