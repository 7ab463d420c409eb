----------------------------- MODULE MCRunLedger -----------------------------
(* Small instances of RunLedger: one or two runs, and calls that overlap. *)
EXTENDS RunLedger, TLC

CONSTANTS r1, r2, t1, t2

\* r1 comes first; r2 is for one of the runtimes only.
MCRank     == r1 :> 1 @@ r2 :> 2
MCEligible == r1 :> {t1, t2} @@ r2 :> {t2}

OneRank     == r1 :> 1
OneEligible == r1 :> {t1, t2}

\* One active status and one terminal status that differs from another.
MCStatuses  == {"queued", "running", "completed", "failed"}
AnyStatus   == Statuses \ {"absent"}
=============================================================================
