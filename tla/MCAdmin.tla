------------------------------- MODULE MCAdmin -------------------------------
(* Small instances of AdminService: two spellings of one address, another    *)
(* address, a short and a long password, an unknown role.                    *)
EXTENDS AdminService, TLC

CONSTANTS r1, r2, root, u1, u2, none

MCEmails == {"root@x", "ann@x", "Ann@x"}
MCLower == [e \in MCEmails |-> IF e = "Ann@x" THEN "ann@x" ELSE e]

MCBody(e, p, r, a) == [email |-> e, pwd |-> p, role |-> r, active |-> a]

\* For runs with several slots: two spellings of the address, one without a
\* password, a body that takes the Admin role and one that drops it.
FewBodies == {MCBody("ann@x", "long", "Admin", TRUE),
              MCBody("Ann@x", "",     "Member", TRUE),
              MCBody("root@x", "short", "None", FALSE)}

\* For runs with one slot: each field varied.
ManyBodies == {MCBody(e, p, r, a) : e \in {"ann@x", "Ann@x"}, p \in {"long", ""},
                                    r \in {"Admin"}, a \in BOOLEAN}
              \cup {MCBody("root@x", p, r, TRUE) : p \in {"short", "other"},
                                                   r \in {"Member", "None"}}

Symmetry == Permutations({u1, u2}) \cup Permutations(Requests)
=============================================================================
