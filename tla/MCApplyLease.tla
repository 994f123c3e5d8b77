---------------------------- MODULE MCApplyLease ----------------------------
(* Three applies of one network, a TTL of 2 ticks and a clock of 5. *)
EXTENDS ApplyLease, TLC

CONSTANTS o1, o2, o3

MCOwners == {o1, o2, o3}


=============================================================================
