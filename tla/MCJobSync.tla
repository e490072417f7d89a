----------------------------- MODULE MCJobSync -----------------------------
(***************************************************************************)
(* Small instances of JobSync for TLC.                                     *)
(***************************************************************************)
EXTENDS JobSync, TLC

CONSTANTS a, b, n1

\* Handlers are alike.
CallSymmetry == Permutations(Calls)

Sent(parent, schedule, disabled) ==
    [parent |-> parent, deps |-> NoDeps, schedule |-> schedule,
     config |-> [disabled |-> disabled], status |-> "none", succ |-> 0, err |-> 0,
     lastSucc |-> Never, lastErr |-> Never, next |-> Never]

MCConfigs   == {[disabled |-> d] : d \in BOOLEAN}
MCSchedules == {"s1", "s2", ""}
None        == {}

\* What Job.Validate lets through: a on either of two schedules or a child of
\* b, and b, which is disabled.
ValidInputs ==
    {[name |-> a, job |-> Sent(NoParent, "s1", FALSE)],
     [name |-> a, job |-> Sent(NoParent, "s2", FALSE)],
     [name |-> a, job |-> Sent(b, "", FALSE)],
     [name |-> b, job |-> Sent(NoParent, "s1", TRUE)]}

\* The versions of a alone.
OneJobInputs == {i \in ValidInputs : i.name = a /\ i.job.parent = NoParent}

\* Executions and answers play no part here.
WithoutAnswer == <<jobs, syncVars>>
============================================================================
