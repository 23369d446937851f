------------------------------ MODULE MCSession ------------------------------
(* Instances of Session: a user and an admin; a server configured soundly,   *)
(* and one whose access tokens live for 0h and that has no key.              *)
EXTENDS Session, TLC

MCConfigs ==
    {[secret |-> "s", refreshSecret |-> "r", exp |-> 2, refreshExp |-> 3, rsa |-> TRUE],
     [secret |-> "s", refreshSecret |-> "r", exp |-> 0, refreshExp |-> 1, rsa |-> FALSE]}

MCRoleOf == [a \in {"ann", "root"} |-> IF a = "root" THEN "admin" ELSE "user"]

Symmetry == Permutations(Logins)
=============================================================================
