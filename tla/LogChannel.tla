----------------------------- MODULE LogChannel -----------------------------
(***************************************************************************)
(* What a logging sink promises its callers (libs/logging, log_sink.h and  *)
(* async_sink.h): the messages handed to write() form one sequence, the    *)
(* underlying sink receives that same sequence in that same order, none    *)
(* lost, none twice, and by the time the underlying sink is destroyed it   *)
(* has received all of them.                                               *)
(***************************************************************************)
EXTENDS Naturals, Sequences

CONSTANT Messages       \* what write() may be called with

VARIABLES accepted,     \* messages write() has taken, in the order taken
          delivered,    \* messages the underlying sink has received
          closed        \* the underlying sink has been destroyed

vars == <<accepted, delivered, closed>>

Contents(s) == {s[i] : i \in DOMAIN s}

Init == accepted = <<>> /\ delivered = <<>> /\ closed = FALSE

Accept(m) ==
    /\ ~closed
    /\ m \notin Contents(accepted)
    /\ accepted' = Append(accepted, m)
    /\ UNCHANGED <<delivered, closed>>

Deliver ==
    /\ ~closed
    /\ Len(delivered) < Len(accepted)
    /\ delivered' = Append(delivered, accepted[Len(delivered) + 1])
    /\ UNCHANGED <<accepted, closed>>

\* A synchronous sink takes and delivers a message in one step.
PassThrough(m) ==
    /\ ~closed
    /\ delivered = accepted
    /\ m \notin Contents(accepted)
    /\ accepted' = Append(accepted, m)
    /\ delivered' = accepted'
    /\ UNCHANGED closed

Close ==
    /\ ~closed
    /\ delivered = accepted
    /\ closed' = TRUE
    /\ UNCHANGED <<accepted, delivered>>

Next ==
    \/ \E m \in Messages : Accept(m) \/ PassThrough(m)
    \/ Deliver
    \/ Close

Spec == Init /\ [][Next]_vars
=============================================================================
