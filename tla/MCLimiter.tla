----------------------------- MODULE MCLimiter -----------------------------
(* Instances of RedisLimiter for TLC: every function, limits at the boundary. *)
EXTENDS RedisLimiter

MCRules == [form : Forms, limit : {2}]
           \cup [form : {"LimitByKey", "limitRedis"}, limit : {0}]
=============================================================================
