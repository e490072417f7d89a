------------------------------ MODULE Storage ------------------------------
(***************************************************************************)
(* The job and execution store of Dkron, src/dkron/store.go, as operators  *)
(* on the values it keeps.  The state machine that owns those values and   *)
(* applies the Raft log to them is module FSM.                             *)
(*                                                                         *)
(* jobs   maps every job name to its record, or to NoJob.                  *)
(* execs  is the set of stored executions, at most one for each key.       *)
(* stats  is the number of executions counted, over all days: the split by *)
(*        the day of FinishedAt is left out.                               *)
(*                                                                         *)
(* Times are natural numbers; Never (0) stands for Go's zero time and for  *)
(* a NullableTime without value.                                           *)
(***************************************************************************)
EXTENDS Integers, FiniteSets

CONSTANTS
    JobNames,       \* names that pass isSlug
    NoParent,       \* the empty ParentJob
    NoJob,          \* no job is stored under the name
    Schedules,      \* schedules that extcron.Parse accepts, and NoSchedule
    NoSchedule,     \* the empty schedule, allowed to jobs with a parent
    Configs,        \* the fields of a job that only its owner writes
    Nodes,          \* Serf node names
    NamePrefixes,   \* <<a, b>>: the name b starts with the name a, a # b
    MaxExecutions   \* executions kept for each job

Never == 0

Time == Nat

Statuses == {"none", "success", "failed", "partially_failed"}

\* deps is DependentJobs, a Go slice, as a multiset: how often each name occurs.
Job == [parent   : JobNames \cup {NoParent},
        deps     : [JobNames -> Nat],
        schedule : Schedules,
        config   : Configs,
        status   : Statuses,
        succ     : Nat,
        err      : Nat,
        lastSucc : Time,
        lastErr  : Time,
        next     : Time]

\* Output, and the JSON or protobuf form, are left out.
Execution == [job        : JobNames,
              node       : Nodes,
              startedAt  : Time,
              group      : Nat,
              attempt    : Nat,
              finishedAt : Time,
              success    : BOOLEAN]

Stat == [succ : Nat, err : Nat]

ASSUME StorageAssumption ==
    /\ NoParent \notin JobNames
    /\ NoJob \notin Job
    /\ NoSchedule \in Schedules
    /\ NamePrefixes \subseteq JobNames \X JobNames
    /\ \A p \in NamePrefixes : p[1] # p[2]
    /\ MaxExecutions \in Nat \ {0}

NoDeps == [d \in JobNames |-> 0]

Stored(jobs, name) == jobs[name] # NoJob

\* time.Time.After and NullableTime.After pick the same winner: a missing
\* value is after nothing, and everything is after a missing value.
Later(a, b) == IF a > b THEN a ELSE b

----------------------------------------------------------------------------
(***************************************************************************)
(* Jobs                                                                    *)
(***************************************************************************)

\* Job.Validate, for the parts a model value can get wrong.
Validate(name, job) ==
    /\ job.parent # name
    /\ job.schedule = NoSchedule => job.parent # NoParent

\* A defective merge that trusts the counters the caller sends.
MergeTrustingCaller(stored, job, next) ==
    [job EXCEPT !.deps = IF stored.deps # NoDeps THEN stored.deps ELSE job.deps,
                !.next = next]

\* A defective merge that forgets the error counter.
MergeStaleErrors(stored, job, next) ==
    [job EXCEPT
        !.lastSucc = Later(stored.lastSucc, job.lastSucc),
        !.succ     = Later(stored.succ, job.succ),
        !.deps     = IF stored.deps # NoDeps THEN stored.deps ELSE job.deps,
        !.next     = next]

\* The body of SetJob's transaction when the name is already stored: what the
\* cluster owns survives what the caller sends.  next is what GetNext, which
\* reads the clock, returns.
Merge(stored, job, next) ==
    [job EXCEPT
        !.lastErr  = Later(stored.lastErr, job.lastErr),
        !.lastSucc = Later(stored.lastSucc, job.lastSucc),
        !.succ     = Later(stored.succ, job.succ),
        !.err      = Later(stored.err, job.err),
        !.deps     = IF stored.deps # NoDeps THEN stored.deps ELSE job.deps,
        !.status   = IF stored.status # "none" THEN stored.status ELSE job.status,
        !.next     = IF job.schedule # stored.schedule
                       THEN next ELSE Later(stored.next, job.next)]

Create(job, next) ==
    [job EXCEPT !.next = IF job.schedule # NoSchedule THEN next ELSE job.next]

\* A call that changed jobs as given, and whether it returned a nil error.
Done(jobs)   == [jobs |-> jobs, ok |-> TRUE]
Failed(jobs) == [jobs |-> jobs, ok |-> FALSE]

\* SetJob(parent, false), called with the stored parent after an edit of its
\* DependentJobs only: merging the record with itself changes nothing else.
SetParent(jobs, name, parent) ==
    IF parent.parent # NoParent /\ ~Stored(jobs, parent.parent)
      THEN Failed(jobs)
      ELSE Done([jobs EXCEPT ![name] = parent])

\* A defective removeFromParent that does not store the parent it edited.
removeUnsaved(jobs, child, parent) ==
    IF parent = NoParent THEN Done(jobs)
    ELSE IF ~Stored(jobs, parent) THEN Failed(jobs)
    ELSE Done(jobs)

\* removeFromParent drops every occurrence of child.
removeFromParent(jobs, child, parent) ==
    IF parent = NoParent THEN Done(jobs)
    ELSE IF ~Stored(jobs, parent) THEN Failed(jobs)
    ELSE SetParent(jobs, parent, [jobs[parent] EXCEPT !.deps[child] = 0])

addToParent(jobs, child, parent) ==
    IF parent = NoParent THEN Done(jobs)
    ELSE IF ~Stored(jobs, parent) THEN Failed(jobs)
    ELSE SetParent(jobs, parent, [jobs[parent] EXCEPT !.deps[child] = @ + 1])

\* A defective SetJob that looks at the schedule after it has committed.
SetJobLateValidation(jobs, name, job, next) ==
    IF \/ job.parent = name
       \/ job.parent # NoParent /\ ~Stored(jobs, job.parent)
      THEN Failed(jobs)
      ELSE LET old       == IF Stored(jobs, name) THEN jobs[name].parent ELSE NoParent
               committed == [jobs EXCEPT ![name] =
                               IF Stored(jobs, name)
                                 THEN Merge(jobs[name], job, next)
                                 ELSE Create(job, next)]
               removed   == removeFromParent(committed, name, old)
           IN  IF ~Validate(name, job) THEN Failed(committed)
               ELSE IF job.parent = old THEN Done(committed)
               ELSE addToParent(removed.jobs, name, job.parent)

\* The transaction commits before the parents are updated, so an error of
\* removeFromParent or addToParent leaves the job stored.
SetJob(jobs, name, job, next) ==
    IF \/ ~Validate(name, job)
       \/ job.parent # NoParent /\ ~Stored(jobs, job.parent)
      THEN Failed(jobs)
      ELSE LET old       == IF Stored(jobs, name) THEN jobs[name].parent ELSE NoParent
               committed == [jobs EXCEPT ![name] =
                               IF Stored(jobs, name)
                                 THEN Merge(jobs[name], job, next)
                                 ELSE Create(job, next)]
               removed   == removeFromParent(committed, name, old)
           IN  IF job.parent = old THEN Done(committed)
               ELSE IF ~removed.ok THEN removed
               ELSE addToParent(removed.jobs, name, job.parent)

\* A defective DeleteJob that forgets to look at the dependents.
DeleteJobWithDependents(jobs, name) ==
    IF ~Stored(jobs, name) THEN Failed(jobs)
    ELSE removeFromParent([jobs EXCEPT ![name] = NoJob], name, jobs[name].parent)

\* A defective DeleteJob that takes the children along when they have none.
DeleteJobCascade(jobs, name) ==
    LET children == {n \in JobNames : Stored(jobs, n) /\ jobs[n].parent = name}
    IN  IF ~Stored(jobs, name) \/ \E n \in children : jobs[n].deps # NoDeps THEN Failed(jobs)
        ELSE removeFromParent([n \in JobNames |-> IF n \in children \cup {name} THEN NoJob ELSE jobs[n]],
                              name, jobs[name].parent)

\* DeleteJob, the jobs it leaves: a job with dependents is kept.
DeleteJob(jobs, name) ==
    IF ~Stored(jobs, name) THEN Failed(jobs)
    ELSE IF jobs[name].deps # NoDeps THEN Failed(jobs)
    ELSE removeFromParent([jobs EXCEPT ![name] = NoJob], name, jobs[name].parent)

----------------------------------------------------------------------------
(***************************************************************************)
(* Executions                                                              *)
(***************************************************************************)

\* Execution.Key, qualified by the job as in the store's keys.
Key(e) == <<e.job, e.startedAt, e.node>>

Same(execs, e) == {x \in execs : Key(x) = Key(e)}

Put(execs, e) == (execs \ Same(execs, e)) \cup {e}

\* The store already holds a version of e that finished later.
Superseded(execs, e) == \E x \in Same(execs, e) : x.finishedAt > e.finishedAt

\* A defective setExecutionTx that lets a late start overwrite the result.
setExecutionTxUnordered(execs, e) == Put(execs, e)

setExecutionTx(execs, e) == IF Superseded(execs, e) THEN execs ELSE Put(execs, e)

GetExecutions(execs, name) == {e \in execs : e.job = name}

GetExecutionGroup(execs, e) == {x \in GetExecutions(execs, e.job) : x.group = e.group}

GetRunningExecutions(execs, name) ==
    {e \in GetExecutions(execs, name) : e.startedAt # Never /\ e.finishedAt = Never}

\* What SetExecution may leave of execs when name has more executions than
\* the limit: the oldest go, and sort.Slice does not order equal start times.
Trimmed(execs, name) ==
    LET own  == GetExecutions(execs, name)
        over == Cardinality(own) - MaxExecutions
    IN  IF over <= 0 THEN {execs}
        ELSE {execs \ old : old \in
                {o \in SUBSET own : /\ Cardinality(o) = over
                                    /\ \A d \in o, k \in own \ o :
                                           d.startedAt <= k.startedAt}}

\* The stores SetExecution may leave.  It does not look at the job.
SetExecution(execs, e) == Trimmed(setExecutionTx(execs, e), e.job)

\* deleteExecutionsTxFunc: the key prefix has no closing separator, so the
\* executions of every job whose name starts with name go as well.
deleteExecutionsTxFunc(execs, name) ==
    {e \in execs : e.job # name /\ <<name, e.job>> \notin NamePrefixes}

\* A defective status that shows a group with unfinished executions.
computeStatusRunning(execs, e) ==
    IF \E x \in GetExecutionGroup(execs, e) : x.finishedAt = Never
      THEN "running" ELSE "success"

\* An execution that has not finished has Success false and counts as failed.
computeStatus(execs, e) ==
    LET group == GetExecutionGroup(execs, e)
    IN  IF \A x \in group : x.success THEN "success"
        ELSE IF \A x \in group : ~x.success THEN "failed"
        ELSE "partially_failed"

\* SetExecutionDone's shouldCount: the result is not the stored one again, or
\* the job's latest result of that kind is another one.
shouldCount(job, execs, e) ==
    \/ \A x \in Same(execs, e) : x.finishedAt # e.finishedAt \/ x.success # e.success
    \/ e.finishedAt # (IF e.success THEN job.lastSucc ELSE job.lastErr)

\* The job record after a counted result.
Count(job, status, e) ==
    IF e.success
      THEN [job EXCEPT !.status = status, !.succ = @ + 1, !.lastSucc = e.finishedAt]
      ELSE [job EXCEPT !.status = status, !.err  = @ + 1, !.lastErr  = e.finishedAt]

incrementStat(stats, e) ==
    IF e.success THEN [stats EXCEPT !.succ = @ + 1] ELSE [stats EXCEPT !.err = @ + 1]

\* A defective reset that keeps the error counter.
ResetSuccesses(job) == [job EXCEPT !.succ = 0, !.lastSucc = Never]

\* DeleteExecutions' reset of the job record; Status is left as it was.
ResetCounters(job) ==
    [job EXCEPT !.succ = 0, !.err = 0, !.lastSucc = Never, !.lastErr = Never]
============================================================================
