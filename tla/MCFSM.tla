------------------------------- MODULE MCFSM -------------------------------
(***************************************************************************)
(* Small instances of FSM for TLC.                                         *)
(***************************************************************************)
EXTENDS FSM, TLC

CONSTANTS a, b, c, d, n1

\* A job record as a client that knows nothing of the counters sends it.
Fresh(parent, schedule, deps) ==
    [parent |-> parent, deps |-> deps, schedule |-> schedule, config |-> "v1",
     status |-> "none", succ |-> 0, err |-> 0, lastSucc |-> Never,
     lastErr |-> Never, next |-> Never]

\* Tree instance: every parent, from clients that leave DependentJobs to the store.
CleanTreeInputs ==
    {[name |-> n, job |-> Fresh(p, s, NoDeps)] :
        n \in JobNames, p \in JobNames \cup {NoParent}, s \in Schedules}

Perms == Permutations(JobNames)

\* Counter instance: a fresh record, and a copy read when the job had run.
CountInputs ==
    {[name |-> n, job |-> j] : n \in JobNames,
        j \in {Fresh(NoParent, "s1", NoDeps),
               [Fresh(NoParent, "s2", NoDeps) EXCEPT
                    !.succ = 1, !.lastSucc = 4, !.status = "failed", !.next = 1]}}

\* Two runs of each job on one node, each with a start and two results.
CountExecs ==
    {[job |-> n, node |-> n1, startedAt |-> s, group |-> g, attempt |-> 1,
      finishedAt |-> f[1], success |-> f[2]] :
        n \in JobNames, s \in {1, 2}, g \in {1},
        f \in {<<Never, FALSE>>, <<4, TRUE>>, <<5, FALSE>>}}

NoInputs == {}

NoPrefixes == {}

\* a is the job "backup", b the job "backup-db".
APrefixesB == {<<a, b>>}

Strings1 == {"v1"}
SchedulesTree == {"s1", ""}
SchedulesCount == {"s1", "s2", ""}
============================================================================
