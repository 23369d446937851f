----------------------------- MODULE MCPublisher -----------------------------
(* Instances of Publisher: two callers, a mail queue and its dead-letter     *)
(* queue; the programs use each queue one way, or the mail queue both ways.  *)
EXTENDS Publisher, TLC

Use(kind, queue) == [kind |-> kind, queue |-> queue]

MCUseSets ==
    {{Use("reconnect", "mail"), Use("push", "dead")},
     {Use("reconnect", "mail"), Use("deadletter", "mail")}}

\* Two faults can make a program that recovers dial five times; one that does
\* not recover would dial for ever.
MCDialBound == [U \in MCUseSets |-> IF Compatible(U) THEN MaxDials ELSE 4]
=============================================================================
