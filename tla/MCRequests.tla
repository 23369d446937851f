----------------------------- MODULE MCRequests -----------------------------
(* Instances of Requests: three requests, of one visitor or of two.          *)
EXTENDS Requests

CONSTANTS r1, r2, r3, alice, bob

MCOrigins == {[r \in Reqs |-> alice], [r \in Reqs |-> IF r = r3 THEN bob ELSE alice]}
=============================================================================
