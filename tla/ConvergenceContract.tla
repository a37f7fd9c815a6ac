------------------------- MODULE ConvergenceContract ------------------------
(***************************************************************************)
(* What a convergence cycle promises its caller, without schemas, patches  *)
(* or capabilities: candidates settle required slots and never unsettle    *)
(* one, each step of work is paid from a budget, the run closes once, and  *)
(* only then is every claim judged, on its own candidates, for good        *)
(* (docs/convergence/06-runner-and-report.md, "Runner purpose").           *)
(***************************************************************************)
EXTENDS Naturals

CONSTANTS Candidate, Claim, ClaimOf, Slot, Budget

VARIABLES
    settled,  \* the required slots each candidate has aligned
    spent,    \* steps of work done
    run,      \* "looping", "stopped", "finalized" or "raised"
    verdict   \* one of Verdicts per claim

vars == <<settled, spent, run, verdict>>

Verdicts == {"none", "converged", "review", "insufficient"}

Judgements(m) ==
    IF \E i \in Candidate : ClaimOf[i] = m /\ settled[i] = Slot
    THEN {"converged", "review"} ELSE {"review", "insufficient"}

Init ==
    /\ settled = [i \in Candidate |-> {}]
    /\ spent = 0
    /\ run = "looping"
    /\ verdict = [m \in Claim |-> "none"]

\* One step of work on one candidate.
Work(i) ==
    /\ run = "looping" /\ spent < Budget
    /\ \E S \in SUBSET Slot :
          settled' = [settled EXCEPT ![i] = settled[i] \cup S]
    /\ spent' = spent + 1
    /\ UNCHANGED <<run, verdict>>

Close ==
    /\ run = "looping"
    /\ run' \in {"stopped", "raised"}
    /\ UNCHANGED <<settled, spent, verdict>>

Judge ==
    /\ run = "stopped"
    /\ run' = "finalized"
    /\ verdict' \in [Claim -> Verdicts]
    /\ \A m \in Claim : verdict'[m] \in Judgements(m)
    /\ UNCHANGED <<settled, spent>>

Next == Close \/ Judge \/ \E i \in Candidate : Work(i)

Spec == Init /\ [][Next]_vars /\ WF_vars(Next)

=============================================================================
