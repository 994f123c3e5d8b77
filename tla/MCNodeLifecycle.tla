-------------------------- MODULE MCNodeLifecycle --------------------------
(***************************************************************************)
(* One node, one token or two, two agents that want it and two requests at *)
(* a time; requests arrive in the first ticks of the clock.                *)
(***************************************************************************)
EXTENDS NodeLifecycle

AllRequests == RequestKinds
EnrollmentOnly == {"register", "issue", "enroll"}

=============================================================================
