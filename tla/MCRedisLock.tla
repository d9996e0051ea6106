----------------------------- MODULE MCRedisLock -----------------------------
(* Instances of RedisLock for TLC: callers and keys are model values.      *)
EXTENDS RedisLock, TLC
=============================================================================
