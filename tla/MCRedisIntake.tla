--------------------------- MODULE MCRedisIntake ---------------------------
(***************************************************************************)
(* A small instance of RedisIntake: a webhook delivered twice, and two     *)
(* calls of the run endpoint.                                              *)
(***************************************************************************)
EXTENDS RedisIntake

CONSTANTS i1

OneId == [d \in Deliveries |-> i1]
=============================================================================
