------------------------ MODULE InvestigationContract ------------------------
(***************************************************************************)
(* What the investigation loop promises the keeper of its state: a call    *)
(* takes effect as a whole or not at all; evidence and draft graph move    *)
(* only by closing tasks, never back, and the graph rests on known         *)
(* material only; the budget bounds the tasks ever closed; once a stop     *)
(* reason is on record, a call closes one task at most.                    *)
(***************************************************************************)
EXTENDS Naturals

VARIABLES
    budget,   \* tasks that may ever be closed, 0 for any number
    closed,   \* tasks closed
    known,    \* atoms known
    judged,   \* the first atoms, as many as the draft graph rests on
    stopped   \* there is a stop reason

vars == <<budget, closed, known, judged, stopped>>

Init ==
    /\ budget \in Nat
    /\ closed = 0
    /\ known \in Nat
    /\ judged \in 0 .. known
    /\ stopped \in BOOLEAN

Call ==
    /\ closed' \in Nat /\ known' \in Nat /\ stopped' \in BOOLEAN
    /\ closed <= closed' /\ known <= known'
    /\ judged <= judged' /\ judged' <= known'
    /\ closed' = closed => known' = known /\ judged' = judged
    /\ budget > 0 => closed' <= budget
    /\ stopped => stopped' /\ closed' <= closed + 1
    /\ UNCHANGED budget

Spec == Init /\ [][Call]_vars

=============================================================================
