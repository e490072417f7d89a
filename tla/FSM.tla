-------------------------------- MODULE FSM --------------------------------
(***************************************************************************)
(* The replicated state machine of a Dkron server, src/dkron/fsm.go: Raft  *)
(* hands it one committed log entry at a time, and Apply runs the store    *)
(* operation the entry names.  Clients choose the entries, so nothing is   *)
(* assumed of their order, and an entry may be a retry of another one, or  *)
(* carry a job record the client read long ago.                            *)
(***************************************************************************)
EXTENDS Storage

CONSTANTS
    JobInputs,   \* [name, job] records that clients send with SetJob
    ExecInputs,  \* executions that nodes report
    NextTimes,   \* instants that Job.GetNext may return
    MaxCount     \* bound: executions counted of either outcome

VARIABLES
    jobs,   \* the stored job under each name
    execs,  \* the stored executions
    stats,  \* totals of the counted executions
    resp    \* "ok" or "error": what Apply answered to the last entry

vars == <<jobs, execs, stats, resp>>

ASSUME FSMAssumption ==
    /\ JobInputs \subseteq [name : JobNames, job : Job]
    /\ ExecInputs \subseteq Execution
    /\ NextTimes \subseteq Time
    /\ MaxCount \in Nat

\* A store that earlier entries may have left: see ValidStored and TreeWhole in
\* the proofs.
Whole(js) ==
    \A n \in JobNames : Stored(js, n) =>
        /\ Validate(n, js[n])
        /\ js[n].parent # NoParent =>
              Stored(js, js[n].parent) /\ js[js[n].parent].deps[n] > 0

\* SetExecution reports a run that has not succeeded yet, ExecutionDone one
\* that is over.
Starts  == {e \in ExecInputs : ~e.success}
Results == {e \in ExecInputs : e.finishedAt # Never}

Answer(ok) == IF ok THEN "ok" ELSE "error"

(***************************************************************************)
(* One entry of each message type.                                         *)
(***************************************************************************)

applySetJob(name, job) ==
    \E next \in NextTimes :
        LET r == SetJob(jobs, name, job, next)
        IN  /\ jobs' = r.jobs
            /\ resp' = Answer(r.ok)
            /\ UNCHANGED <<execs, stats>>

\* A defective deletion that leaves the executions of the job.
deleteJobOnly(name) ==
    LET r == DeleteJob(jobs, name)
    IN  jobs' = r.jobs /\ resp' = Answer(r.ok) /\ UNCHANGED <<execs, stats>>

applyDeleteJob(name) ==
    LET r       == DeleteJob(jobs, name)
        deleted == Stored(jobs, name) /\ jobs[name].deps = NoDeps
    IN  /\ jobs' = r.jobs
        /\ execs' = IF deleted THEN deleteExecutionsTxFunc(execs, name) ELSE execs
        /\ resp' = Answer(r.ok)
        /\ UNCHANGED stats

\* A missing job rolls the deletion of the executions back.
applyDeleteExecutions(name) ==
    IF ~Stored(jobs, name)
      THEN resp' = "error" /\ UNCHANGED <<jobs, execs, stats>>
      ELSE /\ execs' = deleteExecutionsTxFunc(execs, name)
           /\ jobs' = [jobs EXCEPT ![name] = ResetCounters(@)]
           /\ resp' = "ok"
           /\ UNCHANGED stats

applySetExecution(e) ==
    /\ execs' \in SetExecution(execs, e)
    /\ resp' = "ok"
    /\ UNCHANGED <<jobs, stats>>

\* SetExecutionDone, one transaction.
applyExecutionDone(e) ==
    \/ /\ ~Stored(jobs, e.job)
       /\ resp' = "error"
       /\ UNCHANGED <<jobs, execs, stats>>
    \/ /\ Stored(jobs, e.job)
       /\ Superseded(execs, e)
       /\ resp' = "ok"
       /\ UNCHANGED <<jobs, execs, stats>>
    \/ /\ Stored(jobs, e.job)
       /\ ~Superseded(execs, e)
       /\ execs' = setExecutionTx(execs, e)
       /\ resp' = "ok"
       /\ IF shouldCount(jobs[e.job], execs, e)
            THEN /\ stats.succ < MaxCount /\ stats.err < MaxCount
                 /\ jobs' = [jobs EXCEPT ![e.job] =
                                Count(@, computeStatus(execs', e), e)]
                 /\ stats' = incrementStat(stats, e)
            ELSE UNCHANGED <<jobs, stats>>

Init ==
    /\ jobs = [n \in JobNames |-> NoJob]
    /\ execs = {}
    /\ stats = [succ |-> 0, err |-> 0]
    /\ resp = "ok"

\* Apply.
Next ==
    \/ \E i \in JobInputs : applySetJob(i.name, i.job)
    \/ \E n \in JobNames : applyDeleteJob(n)
    \/ \E n \in JobNames : applyDeleteExecutions(n)
    \/ \E e \in Starts : applySetExecution(e)
    \/ \E e \in Results : applyExecutionDone(e)

Spec == Init /\ [][Next]_vars

----------------------------------------------------------------------------
(***************************************************************************)
(* Properties                                                              *)
(***************************************************************************)

\* Every log entry leaves well-formed records: NewJobFromProto, computeStatus
\* and the counters never produce a value outside their types.
TypeOK ==
    /\ jobs \in [JobNames -> Job \cup {NoJob}]
    /\ execs \subseteq Execution
    /\ stats \in Stat
    /\ resp \in {"ok", "error"}

\* The job tree has no broken edge, whatever clients send: the parent of a
\* stored job is stored and lists it among its DependentJobs, so it can
\* neither be deleted under its child nor finish without triggering it.
\* SetJob, removeFromParent, addToParent and DeleteJob keep it together.
ParentListsChild ==
    \A n \in JobNames : Stored(jobs, n) /\ jobs[n].parent # NoParent =>
        /\ Stored(jobs, jobs[n].parent)
        /\ jobs[jobs[n].parent].deps[n] > 0

\* When clients send no DependentJobs, a job's list is exactly its children,
\* each once: no dependent is triggered twice, none dangles, and a job without
\* children can always be deleted.
DependentsAreChildren ==
    \A n, d \in JobNames : Stored(jobs, n) =>
        jobs[n].deps[d] = IF Stored(jobs, d) /\ jobs[d].parent = n THEN 1 ELSE 0

\* The jobs as a tree, without the lists of dependents.
Tree == INSTANCE JobTree WITH
    Names    <- JobNames,
    there    <- {n \in JobNames : Stored(jobs, n)},
    parentOf <- [n \in JobNames |-> IF Stored(jobs, n) THEN jobs[n].parent ELSE NoParent]

\* The state machine implements the job tree: every entry hangs one job under
\* a stored one, removes one job that has no children, or leaves the tree
\* alone.  removeFromParent and addToParent store other jobs on the way; none
\* of that moves a job the entry does not name.
ImplementsJobTree == Tree!Spec

\* An entry that Apply answers with an error left no trace.  SetJob and
\* DeleteJob commit before they update the parents, so this says that those
\* later steps never fail.
ErrorChangesNothing ==
    [][resp' = "error" => UNCHANGED <<jobs, execs, stats>>]_vars

\* While a job is stored its counters never fall, not even when a client
\* stores a stale copy of it, except to zero and together with the job's
\* executions (DeleteExecutions).
CountersNeverDrop ==
    [][\A n \in JobNames : Stored(jobs, n) /\ Stored(jobs', n) =>
          \/ jobs'[n].succ >= jobs[n].succ /\ jobs'[n].err >= jobs[n].err
          \/ /\ jobs'[n].succ = 0 /\ jobs'[n].err = 0
             /\ GetExecutions(execs', n) = {}]_vars

\* A report that arrives late never takes a stored result back: under one key
\* FinishedAt only grows, and a finished execution is not running again.
ResultsNeverRevert ==
    [][\A x \in execs, y \in execs' :
          Key(x) = Key(y) => y.finishedAt >= x.finishedAt]_vars

\* Every success that is still stored has been counted: the success counter
\* of a job is at least the number of its successful executions.
SuccessesCounted ==
    \A n \in JobNames : Stored(jobs, n) =>
        Cardinality({e \in GetExecutions(execs, n) : e.success}) <= jobs[n].succ

\* No step removes the executions of a job that stays stored and leaves its
\* counters: the comment on DeleteExecutions.
NoOrphanCounters ==
    [][\A n \in JobNames :
          /\ Stored(jobs', n)
          /\ GetExecutions(execs, n) # {}
          /\ GetExecutions(execs', n) = {}
          => jobs'[n].succ = 0 /\ jobs'[n].err = 0]_vars
============================================================================
