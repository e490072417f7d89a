------------------------------ MODULE MCViews ------------------------------
(***************************************************************************)
(* Small instances of Views for TLC.                                       *)
(***************************************************************************)
EXTENDS Views

CONSTANT n1

Sent(parent, schedule, deps, status, config) ==
    [parent |-> parent, deps |-> deps, schedule |-> schedule, config |-> config,
     status |-> status, succ |-> 0, err |-> 0, lastSucc |-> Never,
     lastErr |-> Never, next |-> Never]

None == {}

\* Jobs as they are restored from another server, each with the status that
\* it had and in its group, under parents that make stars, chains and cycles.
\* One of them brings a made-up list of dependents, and one is disabled, or
\* has failed on some nodes only, in another group.
ListConfigs == [disabled : BOOLEAN, group : Groups]
At(disabled, group) == [disabled |-> disabled, group |-> group]
StatusOf == <<"success", "failed", "none", "none">>
GroupOf  == <<2, NoGroup, 2, 1>>
Restored(n, parent, deps) == [name |-> n, job |-> Sent(parent, "s1", deps, StatusOf[n],
                                                       At(FALSE, GroupOf[n]))]
Parents(n) == {NoParent, 1, (n % Cardinality(JobNames)) + 1}
SomeInputs ==
    UNION {{Restored(n, p, NoDeps) : p \in Parents(n)} : n \in JobNames}
    \cup {Restored(2, NoParent, [NoDeps EXCEPT ![3] = 1])}
    \cup {[name |-> 4, job |-> Sent(NoParent, "s1", NoDeps, "partially_failed", At(TRUE, NoGroup))]}
SomeSchedules == {"s1", ""}

\* The answer to the last log entry is of no concern to the browser.
WithoutAnswer == <<jobs, execs, stats, browser>>

OneFilter   == {[status |-> "", disabled |-> "true", q |-> {1, 4}]}
TwoSearches == {JobNames, {1, 4}}
============================================================================
