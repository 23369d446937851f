------------------------------ MODULE Directory ------------------------------
(***************************************************************************)
(* What the users table promises whatever runs at the same time and        *)
(* whatever fails: a directory of accounts, changed one account at a time. *)
(* An id goes from absent to live to deleted and never back; only a live   *)
(* account is amended; an account keeps its content once retired; access   *)
(* is granted to accounts that exist.                                      *)
(***************************************************************************)
CONSTANTS Users, Founder, Contents, FoundersContent

VARIABLES
    status,    \* the stage of life of each id
    content,   \* what a live or deleted account holds
    granted    \* accounts that were given access

dirVars == <<status, content, granted>>

Init ==
    /\ status = [u \in Users |-> IF u = Founder THEN "live" ELSE "absent"]
    /\ content \in [Users -> Contents] /\ content[Founder] = FoundersContent
    /\ granted = {Founder}

\* Account u may get other content, the others keep theirs.
Put(u) == /\ content' \in [Users -> Contents]
          /\ \A v \in Users \ {u} : content'[v] = content[v]

Register(u) ==
    /\ status[u] = "absent"
    /\ status' = [status EXCEPT ![u] = "live"]
    /\ Put(u)
    /\ UNCHANGED granted

Amend(u) ==
    /\ status[u] = "live"
    /\ Put(u)
    /\ UNCHANGED <<status, granted>>

Retire(u) ==
    /\ status[u] = "live"
    /\ status' = [status EXCEPT ![u] = "deleted"]
    /\ UNCHANGED <<content, granted>>

Grant(u) ==
    /\ status[u] # "absent"
    /\ granted' = granted \cup {u}
    /\ UNCHANGED <<status, content>>

Next == \E u \in Users :
    \/ Register(u) \/ Amend(u)
    \/ Retire(u)
    \/ Grant(u)

Spec == Init /\ [][Next]_dirVars
=============================================================================
