---------------------------- MODULE StoreProofs ----------------------------
(***************************************************************************)
(* More about the state machine: the lists of dependents are the children, *)
(* every stored success is counted, and no counter outlives its            *)
(* executions.  FSMProofs has what one entry does to the jobs.             *)
(***************************************************************************)
EXTENDS FSMProofs, FiniteSetTheorems

----------------------------------------------------------------------------
(***************************************************************************)
(* The lists of dependents                                                 *)
(***************************************************************************)

\* Clients leave DependentJobs to the store.
CleanInputs == \A i \in JobInputs : i.job.deps = NoDeps

\* DependentsAreChildren of any map of jobs.
Exact(js) ==
    \A n, d \in JobNames : Stored(js, n) =>
        js[n].deps[d] = IF Stored(js, d) /\ js[d].parent = n THEN 1 ELSE 0

\* SetJob of a record without dependents keeps the lists exact: the job leaves
\* the list of its old parent and enters that of its new one, once.
LEMMA SetJobExact ==
    ASSUME NEW js \in JobMap, TreeOK(js), Exact(js), NEW name \in JobNames,
           NEW job \in Job, job.deps = NoDeps, NEW t \in Time
    PROVE  Exact(SetJob(js, name, job, t).jobs)
<1> DEFINE r == SetJob(js, name, job, t)
<1>1. /\ r.ok \in BOOLEAN
      /\ ~r.ok => r.jobs = js
      /\ r.ok => Grafted(r.jobs, js, name, job.parent) /\ Relisted(r.jobs, js, name, job)
  BY SetJobTree
<1>2. PICK ks : ks = r.jobs
  OBVIOUS
<1> HIDE DEF r
<1>3. CASE r.ok
  <2>1. Grafted(ks, js, name, job.parent) /\ Relisted(ks, js, name, job)
    BY <1>1, <1>2, <1>3
  <2> SUFFICES ASSUME NEW n \in JobNames, NEW d \in JobNames, Stored(ks, n)
               PROVE  ks[n].deps[d] = IF Stored(ks, d) /\ ks[d].parent = n THEN 1 ELSE 0
    BY <1>2 DEF Exact, r
  <2> DEFINE old == OldParent(js, name)
             kept == DepsKept(js, name, job, n)[d]
  \* What the list had before, a list that did not exist being empty.
  <2>2. kept = IF Stored(js, d) /\ js[d].parent = n THEN 1 ELSE 0
    <3>1. CASE Stored(js, n)
      BY <3>1 DEF Exact, DepsKept, NoDeps
    <3>2. CASE ~Stored(js, n)
      <4>1. n = name
        BY <2>1, <3>2 DEF Grafted
      <4>2. kept = 0
        BY <3>2, <4>1 DEF DepsKept, NoDeps
      <4>3. Stored(js, d) => js[d].parent # n
        BY <3>2, StorageAssumption DEF TreeOK
      <4>. QED BY <4>2, <4>3
    <3>. QED BY <3>1, <3>2
  <2>3. ks[n].deps[d] = IF d # name \/ old = job.parent THEN kept
                        ELSE IF n = job.parent THEN kept + 1
                        ELSE IF n = old THEN 0 ELSE kept
    BY <2>1 DEF Relisted
  <2>4. CASE d # name
    BY <2>1, <2>2, <2>3, <2>4 DEF Grafted
  <2>5. CASE d = name
    <3>1. Stored(ks, d) /\ ks[d].parent = job.parent
      BY <2>1, <2>5 DEF Grafted
    <3>2. (Stored(js, d) /\ js[d].parent = n) <=> old = n
      BY <2>5, StorageAssumption DEF OldParent
    <3> HIDE DEF kept, old
    <3>. QED BY <2>2, <2>3, <2>5, <3>1, <3>2
  <2>. QED BY <2>4, <2>5
<1>. QED BY <1>1, <1>3 DEF r

\* DeleteJob keeps the lists exact.
LEMMA DeleteJobExact ==
    ASSUME NEW js \in JobMap, TreeOK(js), Exact(js), NEW name \in JobNames
    PROVE  Exact(DeleteJob(js, name).jobs)
<1> DEFINE r == DeleteJob(js, name)
<1>1. /\ ~r.ok => r.jobs = js
      /\ r.ok => Pruned(r.jobs, js, name) /\ Unlisted(r.jobs, js, name)
  BY DeleteJobTree
<1>2. PICK ks : ks = r.jobs
  OBVIOUS
<1> HIDE DEF r
<1>3. CASE r.ok
  <2>1. Pruned(ks, js, name) /\ Unlisted(ks, js, name)
    BY <1>1, <1>2, <1>3
  <2> SUFFICES ASSUME NEW n \in JobNames, NEW d \in JobNames, Stored(ks, n)
               PROVE  ks[n].deps[d] = IF Stored(ks, d) /\ ks[d].parent = n THEN 1 ELSE 0
    BY <1>2 DEF Exact, r
  <2>2. ks[n].deps[d] = IF d = name /\ n = js[name].parent THEN 0 ELSE js[n].deps[d]
    BY <2>1 DEF Unlisted
  <2>3. n # name /\ Stored(js, n)
    BY <2>1 DEF Pruned
  <2>4. js[n].deps[d] = IF Stored(js, d) /\ js[d].parent = n THEN 1 ELSE 0
    BY <2>3 DEF Exact
  <2>5. CASE d = name
    BY <2>1, <2>2, <2>4, <2>5 DEF Pruned
  <2>6. CASE d # name
    BY <2>1, <2>2, <2>4, <2>6 DEF Pruned
  <2>. QED BY <2>5, <2>6
<1>. QED BY <1>1, <1>3 DEF r

\* Rewriting a job at its place keeps the lists exact.
LEMMA UpdateExact ==
    ASSUME NEW js \in JobMap, Exact(js), NEW name \in JobNames, Stored(js, name),
           NEW j \in Job, j.parent = js[name].parent, j.deps = js[name].deps
    PROVE  Exact([js EXCEPT ![name] = j])
<1>1. j # NoJob
  BY StorageAssumption
<1>. QED BY <1>1 DEF Exact, Stored, JobMap

\* Every entry keeps the lists exact when clients leave them alone.
LEMMA StepExact ==
    ASSUME IInv, CleanInputs, Exact(jobs), Next
    PROVE  Exact(jobs')
<1>1. jobs \in JobMap /\ TreeOK(jobs)
  BY IInvFacts
<1>2. ASSUME NEW i \in JobInputs, applySetJob(i.name, i.job)
      PROVE  Exact(jobs')
  <2>1. i.name \in JobNames /\ i.job \in Job /\ i.job.deps = NoDeps
    BY FSMAssumption DEF CleanInputs
  <2>2. PICK next \in NextTimes : jobs' = SetJob(jobs, i.name, i.job, next).jobs
    BY <1>2 DEF applySetJob
  <2>3. next \in Time
    BY FSMAssumption
  <2>. QED BY <1>1, <2>1, <2>2, <2>3, SetJobExact
<1>3. ASSUME NEW n \in JobNames, applyDeleteJob(n)
      PROVE  Exact(jobs')
  BY <1>1, <1>3, DeleteJobExact DEF applyDeleteJob
<1>4. ASSUME NEW n \in JobNames, applyDeleteExecutions(n)
      PROVE  Exact(jobs')
  <2>1. CASE ~Stored(jobs, n)
    BY <1>4, <2>1 DEF applyDeleteExecutions
  <2>2. CASE Stored(jobs, n)
    <3>1. jobs' = [jobs EXCEPT ![n] = ResetCounters(jobs[n])]
      BY <1>4, <2>2 DEF applyDeleteExecutions
    <3>. QED BY <1>1, <2>2, <3>1, StoredIsJob, ResetType, UpdateExact
  <2>. QED BY <2>1, <2>2
<1>5. ASSUME NEW e \in Starts, applySetExecution(e)
      PROVE  Exact(jobs')
  BY <1>5 DEF applySetExecution
<1>6. ASSUME NEW e \in Results, applyExecutionDone(e)
      PROVE  Exact(jobs')
  <2>1. e \in Execution /\ e.job \in JobNames
    BY FSMAssumption DEF Results, Execution
  <2>2. CASE jobs' = jobs
    BY <2>2
  <2>3. CASE /\ Stored(jobs, e.job)
             /\ jobs' = [jobs EXCEPT ![e.job] =
                            Count(jobs[e.job], computeStatus(execs', e), e)]
    <3>1. PICK n \in JobNames : n = e.job
      BY <2>1
    <3>2. PICK st \in Statuses : st = computeStatus(execs', e)
      BY StatusType
    <3>3. PICK j \in Job : /\ j = Count(jobs[n], st, e)
                           /\ j.parent = jobs[n].parent /\ j.deps = jobs[n].deps
      BY <1>1, <2>1, <2>3, <3>1, StoredIsJob, CountType
    <3>4. jobs' = [jobs EXCEPT ![n] = j] /\ Stored(jobs, n)
      BY <2>3, <3>1, <3>2, <3>3
    <3>. QED BY <1>1, <3>3, <3>4, UpdateExact
  <2>. QED BY <1>6, <2>2, <2>3 DEF applyExecutionDone
<1>. QED BY <1>2, <1>3, <1>4, <1>5, <1>6 DEF Next

\* Among clients that leave DependentJobs to the store, the list of a job is
\* exactly its children, each once, whatever entries are applied in whatever
\* order: SetJob, removeFromParent, addToParent and DeleteJob of store.go.
THEOREM ChildrenListed == CleanInputs /\ Spec => []DependentsAreChildren
<1> DEFINE Inv == CleanInputs /\ Exact(jobs)
<1>1. CleanInputs /\ Init => Inv
  BY DEF Init, Exact, Stored
<1>2. IInv /\ Inv /\ [Next]_vars => Inv'
  <2>1. ASSUME IInv, Inv, Next PROVE Inv'
    BY <2>1, StepExact DEF CleanInputs
  <2>2. ASSUME Inv, UNCHANGED vars PROVE Inv'
    BY <2>2 DEF vars, CleanInputs
  <2>. QED BY <2>1, <2>2
<1>3. Inv => DependentsAreChildren
  BY DEF Exact, DependentsAreChildren
<1> HIDE DEF Inv
<1>. QED BY <1>1, <1>2, <1>3, Inductive, PTL DEF Spec

----------------------------------------------------------------------------
(***************************************************************************)
(* Successes and counters                                                  *)
(***************************************************************************)

Successes(es, n) == {e \in GetExecutions(es, n) : e.success}

\* Successes are only stored of stored jobs, and they are counted.
Counted(js, es) ==
    /\ IsFiniteSet(es)
    /\ \A n \in JobNames : IF Stored(js, n) THEN Cardinality(Successes(es, n)) <= js[n].succ
                                             ELSE Successes(es, n) = {}

\* Fewer executions have fewer successes.
LEMMA FewerSuccesses ==
    ASSUME NEW es, NEW fs, IsFiniteSet(es), NEW n, Successes(fs, n) \subseteq Successes(es, n)
    PROVE  /\ IsFiniteSet(Successes(es, n)) /\ IsFiniteSet(Successes(fs, n))
           /\ Cardinality(Successes(es, n)) \in Nat /\ Cardinality(Successes(fs, n)) \in Nat
           /\ Cardinality(Successes(fs, n)) <= Cardinality(Successes(es, n))
<1>1. Successes(es, n) \in SUBSET es
  BY DEF Successes, GetExecutions
<1>2. IsFiniteSet(Successes(es, n))
  BY <1>1, FS_Subset
<1>. QED BY <1>2, FS_Subset, FS_CardinalityType

\* Removing executions and raising counters keeps successes counted, and so
\* does a job that is new.
LEMMA CountedShrinks ==
    ASSUME NEW js \in JobMap, NEW ks \in JobMap, NEW es, NEW fs, Counted(js, es),
           IsFiniteSet(fs),
           \A n \in JobNames : Successes(fs, n) \subseteq Successes(es, n),
           \A n \in JobNames : Stored(js, n) =>
               \/ Stored(ks, n) /\ ks[n].succ >= js[n].succ
               \/ Successes(fs, n) = {}
    PROVE  Counted(ks, fs)
<1> SUFFICES ASSUME NEW n \in JobNames
             PROVE  IF Stored(ks, n) THEN Cardinality(Successes(fs, n)) <= ks[n].succ
                                     ELSE Successes(fs, n) = {}
  BY DEF Counted
<1>1. CASE Successes(fs, n) = {}
  <2>1. Cardinality(Successes(fs, n)) = 0
    BY <1>1, FS_EmptySet
  <2>2. Stored(ks, n) => ks[n].succ \in Nat
    BY StoredIsJob DEF Job
  <2>. QED BY <1>1, <2>1, <2>2
<1>2. CASE Successes(fs, n) # {}
  <2>1. Stored(js, n) /\ Cardinality(Successes(es, n)) <= js[n].succ
    BY <1>2 DEF Counted
  <2>2. Stored(ks, n) /\ ks[n].succ >= js[n].succ
    BY <1>2, <2>1
  <2>3. js[n].succ \in Nat /\ ks[n].succ \in Nat
    BY <2>1, <2>2, StoredIsJob DEF Job
  <2>4. /\ Cardinality(Successes(es, n)) \in Nat /\ Cardinality(Successes(fs, n)) \in Nat
        /\ Cardinality(Successes(fs, n)) <= Cardinality(Successes(es, n))
    BY FewerSuccesses DEF Counted
  <2>. QED BY <2>1, <2>2, <2>3, <2>4
<1>. QED BY <1>1, <1>2

\* The successes after setExecutionTx, and that it keeps the set finite.
LEMMA TxSuccesses ==
    ASSUME NEW es, IsFiniteSet(es), NEW e
    PROVE  /\ IsFiniteSet(setExecutionTx(es, e))
           /\ \A n : n # e.job \/ ~e.success =>
                  Successes(setExecutionTx(es, e), n) \subseteq Successes(es, n)
           /\ Successes(setExecutionTx(es, e), e.job) \subseteq Successes(es, e.job) \cup {e}
<1>1. es \ Same(es, e) \in SUBSET es
  BY DEF Same
<1>2. IsFiniteSet((es \ Same(es, e)) \cup {e})
  BY <1>1, FS_Subset, FS_AddElement
<1>. QED BY <1>2 DEF setExecutionTx, Put, Same, Successes, GetExecutions

\* A result that is not counted replaces a success by itself, or is none.
LEMMA UncountedResult ==
    ASSUME NEW es \in SUBSET Execution, KeysUnique(es), IsFiniteSet(es), NEW e \in Execution,
           NEW job, ~shouldCount(job, es, e), ~Superseded(es, e)
    PROVE  /\ \A n : n # e.job => Successes(setExecutionTx(es, e), n) \subseteq Successes(es, n)
           /\ Cardinality(Successes(setExecutionTx(es, e), e.job))
                  <= Cardinality(Successes(es, e.job))
<1> DEFINE S == Successes(es, e.job)
           T == Successes(setExecutionTx(es, e), e.job)
<1>1. PICK x \in Same(es, e) : x.finishedAt = e.finishedAt /\ x.success = e.success
  BY DEF shouldCount
<1>2. IsFiniteSet(S) /\ Cardinality(S) \in Nat
  BY FewerSuccesses
<1>3. CASE ~e.success
  BY <1>2, <1>3, TxSuccesses, FewerSuccesses
<1>4. CASE e.success
  <2>1. x \in S
    BY <1>1, <1>4 DEF Same, Successes, GetExecutions, Key
  <2>2. T \in SUBSET ((S \ {x}) \cup {e})
    BY <1>1 DEF Same, Successes, GetExecutions, Put, setExecutionTx, Superseded
  <2>3. IsFiniteSet(S \ {x}) /\ Cardinality(S \ {x}) = Cardinality(S) - 1
    BY <1>2, <2>1, FS_RemoveElement
  <2>4. /\ IsFiniteSet((S \ {x}) \cup {e})
        /\ Cardinality((S \ {x}) \cup {e}) <= Cardinality(S)
    <3>1. Cardinality((S \ {x}) \cup {e}) =
             IF e \in S \ {x} THEN Cardinality(S \ {x}) ELSE Cardinality(S \ {x}) + 1
      BY <2>3, FS_AddElement
    <3>2. IsFiniteSet((S \ {x}) \cup {e})
      BY <2>3, FS_AddElement
    <3>. QED BY <1>2, <2>3, <3>1, <3>2
  <2>5. /\ Cardinality(T) <= Cardinality((S \ {x}) \cup {e})
        /\ Cardinality(T) \in Nat /\ Cardinality((S \ {x}) \cup {e}) \in Nat
    BY <2>2, <2>4, FS_Subset, FS_CardinalityType
  <2>6. Cardinality(T) <= Cardinality(S)
    BY <1>2, <2>4, <2>5
  <2>. QED BY <2>6, TxSuccesses
<1>. QED BY <1>3, <1>4

\* A counted success raises the counter by one.
LEMMA CountRaises ==
    ASSUME NEW j \in Job, NEW st \in Statuses, NEW e \in Execution, e.success
    PROVE  Count(j, st, e).succ = j.succ + 1
<1> DEFINE k == j.succ + 1
<1>1. Count(j, st, e) = [j EXCEPT !.status = st, !.succ = k, !.lastSucc = e.finishedAt]
  BY DEF Count, Job
<1> HIDE DEF k
<1>2. Count(j, st, e).succ = k
  BY <1>1 DEF Job
<1>. QED BY <1>2 DEF k

\* Every entry keeps stored successes counted.
LEMMA StepCounted ==
    ASSUME IInv, Counted(jobs, execs), Next
    PROVE  Counted(jobs', execs')
<1>1. jobs \in JobMap /\ TreeOK(jobs) /\ execs \in SUBSET Execution /\ KeysUnique(execs)
  BY IInvFacts DEF IInv
<1>2. jobs' \in JobMap
  BY StepPreserves DEF SoundEntry, IInv, TypeOK, JobMap
<1>3. IsFiniteSet(execs)
  BY DEF Counted
<1>4. \A n \in JobNames : Stored(jobs, n) => jobs[n].succ \in Nat
  BY <1>1, StoredIsJob DEF Job
<1>5. ASSUME NEW i \in JobInputs, applySetJob(i.name, i.job)
      PROVE  Counted(jobs', execs')
  <2>1. i.name \in JobNames /\ i.job \in Job
    BY FSMAssumption
  <2>2. PICK next \in NextTimes : jobs' = SetJob(jobs, i.name, i.job, next).jobs /\ execs' = execs
    BY <1>5 DEF applySetJob
  <2>3. next \in Time
    BY FSMAssumption
  <2>4. \A n \in JobNames : Stored(jobs, n) => Stored(jobs', n) /\ jobs'[n].succ >= jobs[n].succ
    BY <1>1, <2>1, <2>2, <2>3, SetJobTree
  <2>. QED BY <1>1, <1>2, <1>3, <2>2, <2>4, CountedShrinks
<1>6. ASSUME NEW m \in JobNames, applyDeleteJob(m)
      PROVE  Counted(jobs', execs')
  <2> DEFINE r == DeleteJob(jobs, m)
  <2>1. jobs' = r.jobs
    BY <1>6 DEF applyDeleteJob
  <2>2. /\ \A n \in JobNames : Stored(r.jobs, n) => r.jobs[n].succ = jobs[n].succ
        /\ ~r.ok => r.jobs = jobs
        /\ r.ok <=> Stored(jobs, m) /\ jobs[m].deps = NoDeps
        /\ r.ok => Pruned(r.jobs, jobs, m)
    BY <1>1, DeleteJobTree
  <2>3. execs' = IF r.ok THEN deleteExecutionsTxFunc(execs, m) ELSE execs
    BY <1>6, <2>2 DEF applyDeleteJob
  <2> HIDE DEF r
  <2>4. execs' \in SUBSET execs /\ IsFiniteSet(execs')
    BY <1>3, <2>3, FS_Subset DEF deleteExecutionsTxFunc
  <2>5. CASE r.ok
    <3>1. Successes(execs', m) = {}
      BY <2>3, <2>5 DEF deleteExecutionsTxFunc, Successes, GetExecutions
    <3>2. \A n \in JobNames \ {m} : Stored(jobs, n) => Stored(jobs', n) /\ jobs'[n].succ >= jobs[n].succ
      BY <1>4, <2>1, <2>2, <2>5 DEF Pruned
    <3>3. \A n : Successes(execs', n) \subseteq Successes(execs, n)
      BY <2>4 DEF Successes, GetExecutions
    <3>. QED BY <1>1, <1>2, <2>4, <3>1, <3>2, <3>3, CountedShrinks
  <2>6. CASE ~r.ok
    BY <2>1, <2>2, <2>3, <2>6
  <2>. QED BY <2>5, <2>6
<1>7. ASSUME NEW m \in JobNames, applyDeleteExecutions(m)
      PROVE  Counted(jobs', execs')
  <2>1. CASE ~Stored(jobs, m)
    BY <1>7, <2>1 DEF applyDeleteExecutions
  <2>2. CASE Stored(jobs, m)
    <3>1. /\ execs' = deleteExecutionsTxFunc(execs, m)
          /\ jobs' = [jobs EXCEPT ![m] = ResetCounters(jobs[m])]
      BY <1>7, <2>2 DEF applyDeleteExecutions
    <3>2. execs' \in SUBSET execs /\ IsFiniteSet(execs')
      BY <1>3, <3>1, FS_Subset DEF deleteExecutionsTxFunc
    <3>3. Successes(execs', m) = {} /\ \A n : Successes(execs', n) \subseteq Successes(execs, n)
      BY <3>1 DEF deleteExecutionsTxFunc, Successes, GetExecutions
    <3>4. \A n \in JobNames \ {m} : jobs'[n] = jobs[n]
      BY <1>1, <3>1 DEF JobMap
    <3>5. \A n \in JobNames \ {m} : Stored(jobs, n) => Stored(jobs', n) /\ jobs'[n].succ >= jobs[n].succ
      BY <1>4, <3>4 DEF Stored
    <3>. QED BY <1>1, <1>2, <3>2, <3>3, <3>5, CountedShrinks
  <2>. QED BY <2>1, <2>2
<1>8. ASSUME NEW e \in Starts, applySetExecution(e)
      PROVE  Counted(jobs', execs')
  <2>1. e \in Execution /\ e.job \in JobNames /\ ~e.success
    BY FSMAssumption DEF Starts, Execution
  <2>2. execs' \in Trimmed(setExecutionTx(execs, e), e.job) /\ jobs' = jobs
    BY <1>8 DEF applySetExecution, SetExecution
  <2>3. setExecutionTx(execs, e) \in SUBSET Execution
    BY <1>1, <2>1, SetExecutionTxKeys
  <2>4. execs' \in SUBSET setExecutionTx(execs, e)
    BY <2>1, <2>2, <2>3, TrimmedSubset
  <2>5. IsFiniteSet(execs')
    BY <1>3, <2>4, TxSuccesses, FS_Subset
  <2>6. \A n : Successes(setExecutionTx(execs, e), n) \subseteq Successes(execs, n)
    BY <1>3, <2>1, TxSuccesses
  <2>7. \A n : Successes(execs', n) \subseteq Successes(setExecutionTx(execs, e), n)
    BY <2>4 DEF Successes, GetExecutions
  <2>8. \A n : Successes(execs', n) \subseteq Successes(execs, n)
    BY <2>6, <2>7
  <2>. QED BY <1>1, <1>2, <1>4, <2>2, <2>5, <2>8, CountedShrinks
<1>9. ASSUME NEW e \in Results, applyExecutionDone(e)
      PROVE  Counted(jobs', execs')
  <2>1. e \in Execution /\ e.job \in JobNames
    BY FSMAssumption DEF Results, Execution
  <2>2. CASE UNCHANGED <<jobs, execs>>
    BY <2>2
  <2>3. CASE /\ Stored(jobs, e.job) /\ ~Superseded(execs, e)
             /\ execs' = setExecutionTx(execs, e)
             /\ ~shouldCount(jobs[e.job], execs, e) /\ jobs' = jobs
    <3>1. /\ \A n : n # e.job => Successes(execs', n) \subseteq Successes(execs, n)
          /\ Cardinality(Successes(execs', e.job)) <= Cardinality(Successes(execs, e.job))
      BY <1>1, <1>3, <2>1, <2>3, UncountedResult
    <3>2. IsFiniteSet(execs')
      BY <1>3, <2>3, TxSuccesses
    <3>3. ASSUME NEW n \in JobNames
          PROVE  IF Stored(jobs', n) THEN Cardinality(Successes(execs', n)) <= jobs'[n].succ
                                     ELSE Successes(execs', n) = {}
      <4>1. Cardinality(Successes(execs', n)) \in Nat /\ Cardinality(Successes(execs, n)) \in Nat
        BY <1>3, <3>2, FewerSuccesses
      <4>2. CASE n = e.job
        BY <1>4, <2>3, <3>1, <4>1, <4>2 DEF Counted
      <4>3. CASE n # e.job
        <5>1. Successes(execs', n) \subseteq Successes(execs, n)
          BY <3>1, <4>3
        <5>2. Cardinality(Successes(execs', n)) <= Cardinality(Successes(execs, n))
          BY <1>3, <5>1, FewerSuccesses
        <5>. QED BY <1>4, <2>3, <4>1, <5>1, <5>2 DEF Counted
      <4>. QED BY <4>2, <4>3
    <3>. QED BY <3>2, <3>3 DEF Counted
  <2>4. CASE /\ Stored(jobs, e.job)
             /\ execs' = setExecutionTx(execs, e)
             /\ jobs' = [jobs EXCEPT ![e.job] =
                            Count(jobs[e.job], computeStatus(execs', e), e)]
    <3>1. PICK st \in Statuses : st = computeStatus(execs', e)
      BY StatusType
    <3>2. jobs[e.job] \in Job
      BY <1>1, <2>1, <2>4, StoredIsJob
    <3>3. PICK j \in Job : /\ j = Count(jobs[e.job], st, e)
                           /\ j.succ >= jobs[e.job].succ
                           /\ e.success => j.succ = jobs[e.job].succ + 1
      BY <2>1, <3>2, CountType, CountRaises
    <3>4. /\ jobs'[e.job] = j /\ Stored(jobs', e.job)
          /\ \A n \in JobNames \ {e.job} : jobs'[n] = jobs[n]
      BY <1>1, <2>1, <2>4, <3>1, <3>3, StorageAssumption DEF JobMap, Stored
    <3>5. IsFiniteSet(execs')
      BY <1>3, <2>4, TxSuccesses
    <3>6. CASE ~e.success
      <4>1. \A n : Successes(execs', n) \subseteq Successes(execs, n)
        BY <1>3, <2>4, <3>6, TxSuccesses
      <4>2. \A n \in JobNames : Stored(jobs, n) => Stored(jobs', n) /\ jobs'[n].succ >= jobs[n].succ
        BY <1>4, <3>3, <3>4 DEF Stored
      <4>. QED BY <1>1, <1>2, <3>5, <4>1, <4>2, CountedShrinks
    <3>7. CASE e.success
      <4> SUFFICES ASSUME NEW n \in JobNames
                   PROVE  IF Stored(jobs', n) THEN Cardinality(Successes(execs', n)) <= jobs'[n].succ
                                              ELSE Successes(execs', n) = {}
        BY <3>5 DEF Counted
      <4>1. Cardinality(Successes(execs', n)) \in Nat /\ Cardinality(Successes(execs, n)) \in Nat
            /\ IsFiniteSet(Successes(execs, n))
        BY <1>3, <3>5, FewerSuccesses
      <4>2. CASE n # e.job
        <5>1. Successes(execs', n) \subseteq Successes(execs, n)
          BY <1>3, <2>4, <4>2, TxSuccesses
        <5>2. Cardinality(Successes(execs', n)) <= Cardinality(Successes(execs, n))
          BY <1>3, <5>1, FewerSuccesses
        <5>. QED BY <1>4, <3>4, <4>1, <4>2, <5>1, <5>2 DEF Counted, Stored
      <4>3. CASE n = e.job
        <5>1. Successes(execs', n) \in SUBSET (Successes(execs, n) \cup {e})
          BY <1>3, <2>4, <4>3, TxSuccesses
        <5>2. /\ IsFiniteSet(Successes(execs, n) \cup {e})
              /\ Cardinality(Successes(execs, n) \cup {e}) <= Cardinality(Successes(execs, n)) + 1
          BY <4>1, FS_AddElement
        <5>3. /\ Cardinality(Successes(execs', n)) <= Cardinality(Successes(execs, n) \cup {e})
              /\ Cardinality(Successes(execs, n) \cup {e}) \in Nat
          BY <5>1, <5>2, FS_Subset, FS_CardinalityType
        <5>4. Cardinality(Successes(execs, n)) <= jobs[n].succ /\ jobs[n].succ \in Nat
          BY <1>4, <2>4, <4>3 DEF Counted
        <5>5. jobs'[n].succ = jobs[n].succ + 1
          BY <3>3, <3>4, <3>7, <4>3
        <5>. QED BY <3>4, <4>1, <4>3, <5>2, <5>3, <5>4, <5>5
      <4>. QED BY <4>2, <4>3
    <3>. QED BY <3>6, <3>7
  <2>. QED BY <1>9, <2>2, <2>3, <2>4 DEF applyExecutionDone
<1>. QED BY <1>5, <1>6, <1>7, <1>8, <1>9 DEF Next

\* A finite store of counted successes, in every reachable state.
THEOREM CountedInvariant == Spec => []Counted(jobs, execs)
<1>1. Init => Counted(jobs, execs)
  BY FS_EmptySet DEF Init, Counted, Stored, Successes, GetExecutions
<1>2. IInv /\ Counted(jobs, execs) /\ [Next]_vars => Counted(jobs, execs)'
  BY StepCounted DEF vars
<1>. QED BY <1>1, <1>2, Inductive, PTL DEF Spec

\* However late, repeated or out of order results arrive, and whatever stale
\* records clients store, each success that is still stored was counted
\* (SetExecutionDone's shouldCount, SetJob's merge).
THEOREM EverySuccessCounts == Spec => []SuccessesCounted
<1>1. Counted(jobs, execs) => SuccessesCounted
  BY DEF Counted, Successes, SuccessesCounted
<1>. QED BY <1>1, CountedInvariant, PTL

----------------------------------------------------------------------------
(***************************************************************************)
(* Counters without executions                                             *)
(***************************************************************************)

\* What a step may do to the executions of a job that stays stored.
KeepsSome ==
    \A n \in JobNames :
        /\ Stored(jobs', n)
        /\ GetExecutions(execs, n) # {}
        /\ GetExecutions(execs', n) = {}
        => jobs'[n].succ = 0 /\ jobs'[n].err = 0

\* Storing an execution leaves every job some execution that had one.
LEMMA TxKeepsSome ==
    ASSUME NEW es, NEW e
    PROVE  \A n : GetExecutions(es, n) # {} => GetExecutions(setExecutionTx(es, e), n) # {}
<1> SUFFICES ASSUME NEW n, NEW x \in GetExecutions(es, n)
             PROVE  GetExecutions(setExecutionTx(es, e), n) # {}
  OBVIOUS
<1>1. CASE x \in setExecutionTx(es, e)
  BY <1>1 DEF GetExecutions
<1>2. CASE x \notin setExecutionTx(es, e)
  <2>1. x \in Same(es, e) /\ e \in setExecutionTx(es, e)
    BY <1>2 DEF setExecutionTx, Put, GetExecutions
  <2>2. e.job = n
    BY <2>1 DEF Same, Key, GetExecutions
  <2>. QED BY <2>1, <2>2 DEF GetExecutions
<1>. QED BY <1>1, <1>2

\* SetExecution's trimming never takes the last execution of a job.
LEMMA TrimKeepsSome ==
    ASSUME NEW es, IsFiniteSet(es), NEW m, NEW fs \in Trimmed(es, m)
    PROVE  \A n : GetExecutions(es, n) # {} => GetExecutions(fs, n) # {}
<1> DEFINE own  == GetExecutions(es, m)
           over == Cardinality(own) - MaxExecutions
<1>1. IsFiniteSet(own) /\ Cardinality(own) \in Nat
  <2>1. own \in SUBSET es
    BY DEF GetExecutions
  <2>. QED BY <2>1, FS_Subset, FS_CardinalityType
<1>2. CASE fs = es
  BY <1>2
<1>3. CASE fs # es
  <2>1. PICK old \in SUBSET own : Cardinality(old) = over /\ fs = es \ old
    BY <1>3 DEF Trimmed
  <2>2. old # own
    BY <1>1, <2>1, StorageAssumption
  <2>. QED BY <2>1, <2>2 DEF GetExecutions
<1>. QED BY <1>2, <1>3

\* Where no name starts with another, no entry takes the last execution of a
\* job and leaves its counters.
LEMMA StepKeepsSome ==
    ASSUME NamePrefixes = {}, IInv, Counted(jobs, execs), Next
    PROVE  KeepsSome
<1>1. jobs \in JobMap /\ TreeOK(jobs) /\ execs \in SUBSET Execution
  BY IInvFacts
<1>2. IsFiniteSet(execs)
  BY DEF Counted
<1>3. ASSUME \A n \in JobNames : GetExecutions(execs, n) # {} => GetExecutions(execs', n) # {}
      PROVE  KeepsSome
  BY <1>3 DEF KeepsSome
<1>4. \A m, n : n # m => GetExecutions(deleteExecutionsTxFunc(execs, m), n) = GetExecutions(execs, n)
  BY DEF GetExecutions, deleteExecutionsTxFunc
<1>5. ASSUME NEW i \in JobInputs, applySetJob(i.name, i.job)
      PROVE  KeepsSome
  BY <1>3, <1>5 DEF applySetJob
<1>6. ASSUME NEW m \in JobNames, applyDeleteJob(m)
      PROVE  KeepsSome
  <2>1. CASE execs' = execs
    BY <1>3, <2>1
  <2>2. CASE execs' # execs
    <3>1. execs' = deleteExecutionsTxFunc(execs, m) /\ Stored(jobs, m) /\ jobs[m].deps = NoDeps
          /\ jobs' = DeleteJob(jobs, m).jobs
      BY <1>6, <2>2 DEF applyDeleteJob
    <3>2. ~Stored(jobs', m)
      BY <1>1, <3>1, DeleteJobTree DEF Pruned
    <3>. QED BY <1>4, <3>1, <3>2 DEF KeepsSome
  <2>. QED BY <2>1, <2>2
<1>7. ASSUME NEW m \in JobNames, applyDeleteExecutions(m)
      PROVE  KeepsSome
  <2>1. CASE ~Stored(jobs, m)
    BY <1>3, <1>7, <2>1 DEF applyDeleteExecutions
  <2>2. CASE Stored(jobs, m)
    <3>1. /\ execs' = deleteExecutionsTxFunc(execs, m)
          /\ jobs' = [jobs EXCEPT ![m] = ResetCounters(jobs[m])]
      BY <1>7, <2>2 DEF applyDeleteExecutions
    <3>2. jobs'[m].succ = 0 /\ jobs'[m].err = 0
      BY <1>1, <2>2, <3>1, StoredIsJob, ResetType DEF JobMap
    <3>. QED BY <1>4, <3>1, <3>2 DEF KeepsSome
  <2>. QED BY <2>1, <2>2
<1>8. ASSUME NEW e \in Starts, applySetExecution(e)
      PROVE  KeepsSome
  <2>1. execs' \in Trimmed(setExecutionTx(execs, e), e.job)
    BY <1>8 DEF applySetExecution, SetExecution
  <2>2. IsFiniteSet(setExecutionTx(execs, e))
    BY <1>2, TxSuccesses
  <2>3. \A n : GetExecutions(setExecutionTx(execs, e), n) # {} => GetExecutions(execs', n) # {}
    BY <2>1, <2>2, TrimKeepsSome
  <2>. QED BY <1>3, <2>3, TxKeepsSome
<1>9. ASSUME NEW e \in Results, applyExecutionDone(e)
      PROVE  KeepsSome
  <2>1. execs' = execs \/ execs' = setExecutionTx(execs, e)
    BY <1>9 DEF applyExecutionDone
  <2>. QED BY <1>3, <2>1, TxKeepsSome
<1>. QED BY <1>5, <1>6, <1>7, <1>8, <1>9 DEF Next

\* Where no name starts with another, the executions of a job that stays stored
\* only go together with its counters; neither the trimming of SetExecution
\* nor a late report empties them.  With such names the run FSM_prefix shows
\* deleteExecutionsTxFunc doing just that.
THEOREM CountersNotOrphaned == NamePrefixes = {} /\ Spec => NoOrphanCounters
<1> DEFINE Apart == NamePrefixes = {}
<1>1. Apart /\ IInv /\ Counted(jobs, execs) /\ [Next]_vars => [KeepsSome]_vars
  BY StepKeepsSome
<1>2. NoOrphanCounters <=> [][KeepsSome]_vars
  BY PTL DEF NoOrphanCounters, KeepsSome
<1>3. Apart /\ [Next]_vars => Apart'
  OBVIOUS
<1> HIDE DEF Apart
<1>4. Apart /\ Spec => NoOrphanCounters
  BY <1>1, <1>2, <1>3, Inductive, CountedInvariant, PTL DEF Spec
<1>. QED BY <1>4 DEF Apart
============================================================================
