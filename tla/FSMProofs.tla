----------------------------- MODULE FSMProofs -----------------------------
(***************************************************************************)
(* Proofs about the replicated state machine, for every set of names,      *)
(* inputs and bounds.                                                      *)
(***************************************************************************)
EXTENDS FSM, TLAPS

JobMap == [JobNames -> Job \cup {NoJob}]

\* ParentListsChild of any map of jobs.
TreeOK(js) ==
    \A n \in JobNames : Stored(js, n) /\ js[n].parent # NoParent =>
        /\ Stored(js, js[n].parent)
        /\ js[js[n].parent].deps[n] > 0

\* A stored record is a Job.
LEMMA StoredIsJob ==
    ASSUME NEW js \in JobMap, NEW n \in JobNames, Stored(js, n)
    PROVE  js[n] \in Job
BY DEF JobMap, Stored

\* SetJob's merge yields a Job, keeps a nonempty dependents list, takes the
\* caller's parent, schedule and configuration, and lowers no counter.
LEMMA MergeType ==
    ASSUME NEW s \in Job, NEW j \in Job, NEW t \in Time
    PROVE  /\ Merge(s, j, t) \in Job
           /\ Merge(s, j, t).parent = j.parent
           /\ Merge(s, j, t).schedule = j.schedule
           /\ Merge(s, j, t).config = j.config
           /\ Merge(s, j, t).deps = IF s.deps # NoDeps THEN s.deps ELSE j.deps
           /\ Merge(s, j, t).succ >= s.succ
           /\ Merge(s, j, t).err >= s.err
<1>1. /\ Later(s.lastErr, j.lastErr) \in Time
      /\ Later(s.lastSucc, j.lastSucc) \in Time
      /\ Later(s.succ, j.succ) \in Nat /\ Later(s.succ, j.succ) >= s.succ
      /\ Later(s.err, j.err) \in Nat /\ Later(s.err, j.err) >= s.err
      /\ Later(s.next, j.next) \in Time
  BY DEF Later, Job, Time
<1>. QED BY <1>1 DEF Merge, Job

\* A job stored for the first time is a Job and keeps what the caller sent.
LEMMA CreateType ==
    ASSUME NEW j \in Job, NEW t \in Time
    PROVE  /\ Create(j, t) \in Job
           /\ Create(j, t).parent = j.parent
           /\ Create(j, t).schedule = j.schedule
           /\ Create(j, t).config = j.config
           /\ Create(j, t).deps = j.deps
BY DEF Create, Job

\* Editing one entry of a dependents list yields a Job.
LEMMA EditDeps ==
    ASSUME NEW j \in Job, NEW d \in JobNames, NEW k \in Nat
    PROVE  LET r == [j EXCEPT !.deps[d] = k]
           IN  /\ r \in Job
               /\ r.parent = j.parent
               /\ r.deps = [j.deps EXCEPT ![d] = k]
               /\ r.succ = j.succ /\ r.err = j.err
               /\ r.schedule = j.schedule /\ r.config = j.config
BY DEF Job

----------------------------------------------------------------------------
(***************************************************************************)
(* Jobs: what the operations on the job tree preserve.                     *)
(***************************************************************************)

ParentsStored(js) ==
    \A n \in JobNames : Stored(js, n) /\ js[n].parent # NoParent =>
        Stored(js, js[n].parent)

\* ks differs from js at most in how often the jobs list c as a dependent.
SameButFor(ks, js, c) ==
    /\ ks \in JobMap
    /\ \A n \in JobNames : Stored(ks, n) <=> Stored(js, n)
    /\ \A n \in JobNames : Stored(js, n) =>
          /\ ks[n].parent = js[n].parent
          /\ ks[n].succ = js[n].succ
          /\ ks[n].err = js[n].err
          /\ ks[n].schedule = js[n].schedule
          /\ ks[n].config = js[n].config
          /\ \A d \in JobNames \ {c} : ks[n].deps[d] = js[n].deps[d]

\* ks has the parents of js, except that name hangs under p.
Grafted(ks, js, name, p) ==
    /\ p # name /\ (p # NoParent => p \in JobNames /\ Stored(js, p))
    /\ Stored(ks, name) /\ ks[name].parent = p
    /\ \A n \in JobNames \ {name} : Stored(ks, n) <=> Stored(js, n)
    /\ \A n \in JobNames \ {name} : Stored(js, n) => ks[n].parent = js[n].parent

\* ks has the parents of js, except that name, which has no children, is gone.
Pruned(ks, js, name) ==
    /\ Stored(js, name) /\ ~Stored(ks, name)
    /\ \A n \in JobNames : Stored(js, n) => js[n].parent # name
    /\ \A n \in JobNames \ {name} : Stored(ks, n) <=> Stored(js, n)
    /\ \A n \in JobNames \ {name} : Stored(js, n) => ks[n].parent = js[n].parent

\* What SetJob writes of the fields that the caller owns: those of name only.
Rewritten(ks, js, name, job) ==
    /\ ks[name].schedule = job.schedule /\ ks[name].config = job.config
    /\ \A n \in JobNames \ {name} : Stored(js, n) =>
          ks[n].schedule = js[n].schedule /\ ks[n].config = js[n].config

\* The parent name has before SetJob.
OldParent(js, name) == IF Stored(js, name) THEN js[name].parent ELSE NoParent

\* The dependents of n after SetJob's first transaction.
DepsKept(js, name, job, n) ==
    IF n # name \/ (Stored(js, name) /\ js[name].deps # NoDeps) THEN js[n].deps ELSE job.deps

\* What SetJob does to the dependents lists: name leaves the list of its old
\* parent and is added to that of its new one.
Relisted(ks, js, name, job) ==
    \A n, d \in JobNames : Stored(ks, n) =>
        ks[n].deps[d] =
            IF d # name \/ OldParent(js, name) = job.parent THEN DepsKept(js, name, job, n)[d]
            ELSE IF n = job.parent THEN DepsKept(js, name, job, n)[d] + 1
            ELSE IF n = OldParent(js, name) THEN 0
            ELSE DepsKept(js, name, job, n)[d]

\* What DeleteJob does to them.
Unlisted(ks, js, name) ==
    \A n, d \in JobNames : Stored(ks, n) =>
        ks[n].deps[d] = IF d = name /\ n = js[name].parent THEN 0 ELSE js[n].deps[d]

\* Storing an edited dependents list of a parent succeeds and changes nothing
\* else.
LEMMA SetParentEdits ==
    ASSUME NEW js \in JobMap, NEW p \in JobNames, NEW c \in JobNames, NEW k \in Nat,
           Stored(js, p), ParentsStored(js)
    PROVE  LET r == SetParent(js, p, [js[p] EXCEPT !.deps[c] = k])
           IN  /\ r.ok
               /\ SameButFor(r.jobs, js, c)
               /\ r.jobs[p].deps[c] = k
               /\ \A n \in JobNames \ {p} : r.jobs[n] = js[n]
<1> DEFINE e  == [js[p] EXCEPT !.deps[c] = k]
           ks == [js EXCEPT ![p] = e]
<1>1. js[p] \in Job
  BY StoredIsJob
<1>2. /\ e \in Job
      /\ e.parent = js[p].parent
      /\ e.deps = [js[p].deps EXCEPT ![c] = k]
      /\ e.succ = js[p].succ /\ e.err = js[p].err
      /\ e.schedule = js[p].schedule /\ e.config = js[p].config
  BY <1>1, EditDeps
<1>3. js[p].deps \in [JobNames -> Nat]
  BY <1>1 DEF Job
<1> HIDE DEF e
<1>4. SetParent(js, p, e) = Done(ks)
  BY <1>2 DEF SetParent, ParentsStored
<1>5. Done(ks).ok /\ Done(ks).jobs = ks
  BY DEF Done
<1>6. e # NoJob
  BY <1>2, StorageAssumption
<1>7. ks \in JobMap /\ ks[p] = e /\ \A n \in JobNames \ {p} : ks[n] = js[n]
  BY <1>2 DEF JobMap
<1>8. SameButFor(ks, js, c)
  BY <1>2, <1>3, <1>6, <1>7 DEF SameButFor, Stored
<1>9. ks[p].deps[c] = k
  BY <1>2, <1>3, <1>7
<1>10. SetParent(js, p, [js[p] EXCEPT !.deps[c] = k]) = Done(ks)
  BY <1>4 DEF e
<1>. QED BY <1>5, <1>7, <1>8, <1>9, <1>10

\* removeFromParent succeeds when the parent it is given is stored.
LEMMA RemoveSucceeds ==
    ASSUME NEW js \in JobMap, NEW c \in JobNames, NEW p \in JobNames \cup {NoParent},
           p # NoParent => Stored(js, p), ParentsStored(js)
    PROVE  LET r == removeFromParent(js, c, p)
           IN  /\ r.ok
               /\ SameButFor(r.jobs, js, c)
               /\ \A n \in JobNames \ {p} : r.jobs[n] = js[n]
               /\ p # NoParent => r.jobs[p].deps[c] = 0
<1>1. CASE p = NoParent
  BY <1>1 DEF removeFromParent, Done, SameButFor
<1>2. CASE p # NoParent
  <2>1. removeFromParent(js, c, p) = SetParent(js, p, [js[p] EXCEPT !.deps[c] = 0])
    BY <1>2 DEF removeFromParent
  <2>. QED BY <1>2, <2>1, SetParentEdits
<1>. QED BY <1>1, <1>2

\* addToParent succeeds when the parent it is given is stored.
LEMMA AddSucceeds ==
    ASSUME NEW js \in JobMap, NEW c \in JobNames, NEW p \in JobNames \cup {NoParent},
           p # NoParent => Stored(js, p), ParentsStored(js)
    PROVE  LET r == addToParent(js, c, p)
           IN  /\ r.ok
               /\ SameButFor(r.jobs, js, c)
               /\ \A n \in JobNames \ {p} : r.jobs[n] = js[n]
               /\ p # NoParent => r.jobs[p].deps[c] = js[p].deps[c] + 1
<1>1. CASE p = NoParent
  BY <1>1 DEF addToParent, Done, SameButFor
<1>2. CASE p # NoParent
  <2>1. js[p] \in Job
    BY <1>2, StoredIsJob
  <2>2. js[p].deps[c] + 1 \in Nat
    BY <2>1 DEF Job
  <2>3. [js[p] EXCEPT !.deps[c] = @ + 1] = [js[p] EXCEPT !.deps[c] = js[p].deps[c] + 1]
    BY <2>1 DEF Job
  <2>4. addToParent(js, c, p) = SetParent(js, p, [js[p] EXCEPT !.deps[c] = js[p].deps[c] + 1])
    BY <1>2, <2>3 DEF addToParent
  <2>. QED BY <1>2, <2>2, <2>4, SetParentEdits
<1>. QED BY <1>1, <1>2

\* SetJob refuses the job and changes nothing, or succeeds; either way the
\* tree stays whole and no counter falls.
LEMMA SetJobTree ==
    ASSUME NEW js \in JobMap, TreeOK(js), NEW name \in JobNames, NEW job \in Job,
           NEW t \in Time
    PROVE  LET r == SetJob(js, name, job, t)
           IN  /\ r.ok \in BOOLEAN
               /\ r.jobs \in JobMap
               /\ TreeOK(r.jobs)
               /\ r.ok <=> /\ Validate(name, job)
                           /\ job.parent # NoParent => Stored(js, job.parent)
               /\ ~r.ok => r.jobs = js
               /\ r.ok => /\ Grafted(r.jobs, js, name, job.parent)
                          /\ Rewritten(r.jobs, js, name, job)
                          /\ Relisted(r.jobs, js, name, job)
               /\ \A n \in JobNames : Stored(js, n) =>
                     Stored(r.jobs, n) /\ r.jobs[n].succ >= js[n].succ
                                      /\ r.jobs[n].err >= js[n].err
<1> DEFINE r         == SetJob(js, name, job, t)
           old       == IF Stored(js, name) THEN js[name].parent ELSE NoParent
           new       == IF Stored(js, name) THEN Merge(js[name], job, t) ELSE Create(job, t)
           committed == [js EXCEPT ![name] = new]
           removed   == removeFromParent(committed, name, old)
           added     == addToParent(removed.jobs, name, job.parent)
<1>1. CASE ~Validate(name, job) \/ (job.parent # NoParent /\ ~Stored(js, job.parent))
  <2>1. r = Failed(js)
    BY <1>1 DEF SetJob
  <2>2. \A n \in JobNames : Stored(js, n) => js[n].succ >= js[n].succ /\ js[n].err >= js[n].err
    BY StoredIsJob DEF Job
  <2>. QED BY <1>1, <2>1, <2>2 DEF Failed
<1>2. CASE Validate(name, job) /\ (job.parent # NoParent => Stored(js, job.parent))
  <2>1. /\ new \in Job
        /\ new.parent = job.parent
        /\ new.schedule = job.schedule /\ new.config = job.config
        /\ new.deps = DepsKept(js, name, job, name)
        /\ Stored(js, name) => /\ new.deps = IF js[name].deps # NoDeps
                                               THEN js[name].deps ELSE job.deps
                               /\ new.succ >= js[name].succ
                               /\ new.err >= js[name].err
    <3>1. CASE Stored(js, name)
      <4>1. js[name] \in Job /\ new = Merge(js[name], job, t)
        BY <3>1, StoredIsJob
      <4>2. DepsKept(js, name, job, name) = IF js[name].deps # NoDeps THEN js[name].deps ELSE job.deps
        BY <3>1 DEF DepsKept
      <4> HIDE DEF new
      <4>. QED BY <3>1, <4>1, <4>2, MergeType
    <3>2. CASE ~Stored(js, name)
      BY <3>2, CreateType DEF DepsKept
    <3>. QED BY <3>1, <3>2
  <2>2. job.parent \in JobNames \cup {NoParent} /\ job.parent # name
    BY <1>2 DEF Job, Validate
  <2>3. old \in JobNames \cup {NoParent} /\ (old # NoParent => Stored(js, old))
    BY StoredIsJob DEF TreeOK, Job
  <2>4. r = IF job.parent = old THEN Done(committed)
            ELSE IF ~removed.ok THEN removed ELSE added
    BY <1>2 DEF SetJob
  <2> HIDE DEF new
  <2>5. /\ committed \in JobMap
        /\ committed[name] = new
        /\ Stored(committed, name)
        /\ \A n \in JobNames \ {name} : committed[n] = js[n]
    BY <2>1, StorageAssumption DEF JobMap, Stored
  <2> HIDE DEF committed
  <2>6. \A n \in JobNames : Stored(js, n) =>
           Stored(committed, n) /\ committed[n].succ >= js[n].succ
                               /\ committed[n].err >= js[n].err
    <3> SUFFICES ASSUME NEW n \in JobNames, Stored(js, n)
                 PROVE  Stored(committed, n) /\ committed[n].succ >= js[n].succ
                                            /\ committed[n].err >= js[n].err
      OBVIOUS
    <3>1. js[n] \in Job
      BY StoredIsJob
    <3>2. CASE n = name
      BY <2>1, <2>5, <3>2
    <3>3. CASE n # name
      BY <2>5, <3>1, <3>3 DEF Stored, Job
    <3>. QED BY <3>2, <3>3
  <2>11. Grafted(committed, js, name, job.parent)
    BY <1>2, <2>1, <2>2, <2>5 DEF Grafted, Stored
  <2>12. Rewritten(committed, js, name, job)
    BY <2>1, <2>5 DEF Rewritten
  <2>13. \A n \in JobNames : committed[n].deps = DepsKept(js, name, job, n)
    BY <2>1, <2>5 DEF DepsKept
  <2>14. old = OldParent(js, name)
    BY DEF OldParent
  <2>7. ParentsStored(committed)
    <3> SUFFICES ASSUME NEW n \in JobNames, Stored(committed, n),
                        committed[n].parent # NoParent
                 PROVE  Stored(committed, committed[n].parent)
      BY DEF ParentsStored
    <3>1. CASE n = name
      BY <1>2, <2>1, <2>2, <2>5, <2>6, <3>1
    <3>2. CASE n # name
      <4>1. Stored(js, n) /\ committed[n] = js[n]
        BY <2>5, <3>2 DEF Stored
      <4>2. js[n].parent \in JobNames /\ Stored(js, js[n].parent)
        BY <4>1, StoredIsJob DEF TreeOK, Job
      <4>. QED BY <2>6, <4>1, <4>2
    <3>. QED BY <3>1, <3>2
  \* The edges of all other jobs.
  <2>8. \A n \in JobNames \ {name} : Stored(committed, n) /\ committed[n].parent # NoParent =>
           committed[committed[n].parent].deps[n] > 0
    <3> SUFFICES ASSUME NEW n \in JobNames \ {name}, Stored(committed, n),
                        committed[n].parent # NoParent
                 PROVE  committed[committed[n].parent].deps[n] > 0
      OBVIOUS
    <3>1. /\ Stored(js, n) /\ js[n] = committed[n]
          /\ Stored(js, js[n].parent)
          /\ js[js[n].parent].deps[n] > 0
          /\ js[n].parent \in JobNames
      BY <2>5, StoredIsJob DEF TreeOK, Stored, Job
    <3>2. CASE js[n].parent # name
      BY <2>5, <3>1, <3>2
    <3>3. CASE js[n].parent = name
      <4>1. js[name].deps # NoDeps
        BY <3>1, <3>3 DEF NoDeps
      <4>. QED BY <2>1, <2>5, <3>1, <3>3, <4>1
    <3>. QED BY <3>2, <3>3
  <2>9. CASE job.parent = old
    <3>1. job.parent # NoParent => committed[job.parent].deps[name] > 0
      BY <2>2, <2>5, <2>9 DEF TreeOK
    <3>2. TreeOK(committed)
      BY <2>1, <2>5, <2>7, <2>8, <3>1 DEF TreeOK, ParentsStored
    <3>3. r = Done(committed)
      BY <2>4, <2>9
    <3>4. Relisted(committed, js, name, job)
      BY <2>9, <2>13, <2>14 DEF Relisted
    <3>. QED BY <1>2, <2>5, <2>6, <2>11, <2>12, <3>2, <3>3, <3>4 DEF Done
  <2>10. CASE job.parent # old
    <3>1. /\ removed.ok
          /\ SameButFor(removed.jobs, committed, name)
          /\ \A n \in JobNames \ {old} : removed.jobs[n] = committed[n]
          /\ old # NoParent => removed.jobs[old].deps[name] = 0
      BY <2>3, <2>5, <2>6, <2>7, RemoveSucceeds
    <3> HIDE DEF removed
    <3>2. removed.jobs \in JobMap /\ ParentsStored(removed.jobs)
      <4>1. removed.jobs \in JobMap
        BY <3>1 DEF SameButFor
      <4>2. ASSUME NEW n \in JobNames, Stored(removed.jobs, n), removed.jobs[n].parent # NoParent
            PROVE  Stored(removed.jobs, removed.jobs[n].parent)
        <5>1. removed.jobs[n].parent \in JobNames
          BY <4>1, <4>2, StoredIsJob DEF Job
        <5>2. Stored(committed, n) /\ committed[n].parent = removed.jobs[n].parent
          BY <3>1, <4>2 DEF SameButFor
        <5>. QED BY <2>7, <3>1, <4>2, <5>1, <5>2 DEF SameButFor, ParentsStored
      <4>. QED BY <4>1, <4>2 DEF ParentsStored
    <3>3. job.parent # NoParent => Stored(removed.jobs, job.parent)
      BY <1>2, <2>2, <2>6, <3>1 DEF SameButFor
    <3>4. /\ added.ok
          /\ SameButFor(added.jobs, removed.jobs, name)
          /\ \A n \in JobNames \ {job.parent} : added.jobs[n] = removed.jobs[n]
          /\ job.parent # NoParent =>
                 added.jobs[job.parent].deps[name] = removed.jobs[job.parent].deps[name] + 1
      BY <2>2, <3>2, <3>3, AddSucceeds
    <3>5. r = added
      BY <2>4, <2>10, <3>1
    <3> HIDE DEF added
    <3>6. SameButFor(added.jobs, committed, name)
      BY <3>1, <3>4 DEF SameButFor
    <3>7. job.parent # NoParent => added.jobs[job.parent].deps[name] > 0
      <4> SUFFICES ASSUME job.parent # NoParent
                   PROVE  added.jobs[job.parent].deps[name] > 0
        OBVIOUS
      <4>1. removed.jobs[job.parent] \in Job
        BY <2>2, <3>2, <3>3, StoredIsJob
      <4>2. removed.jobs[job.parent].deps[name] \in Nat
        BY <4>1 DEF Job
      <4>. QED BY <3>4, <4>2
    <3>8. TreeOK(added.jobs)
      <4> SUFFICES ASSUME NEW n \in JobNames, Stored(added.jobs, n),
                          added.jobs[n].parent # NoParent
                   PROVE  /\ Stored(added.jobs, added.jobs[n].parent)
                          /\ added.jobs[added.jobs[n].parent].deps[n] > 0
        BY DEF TreeOK
      <4>1. Stored(committed, n) /\ committed[n].parent = added.jobs[n].parent
        BY <3>6 DEF SameButFor
      <4>2. committed[n].parent \in JobNames /\ Stored(committed, committed[n].parent)
        BY <2>5, <2>7, <4>1, StoredIsJob DEF ParentsStored, Job
      <4>3. CASE n = name
        BY <2>1, <2>5, <3>6, <3>7, <4>1, <4>2, <4>3 DEF SameButFor
      <4>4. CASE n # name
        BY <2>8, <3>6, <4>1, <4>2, <4>4 DEF SameButFor
      <4>. QED BY <4>3, <4>4
    <3>9. \A n \in JobNames : Stored(js, n) =>
             Stored(added.jobs, n) /\ added.jobs[n].succ >= js[n].succ
                                  /\ added.jobs[n].err >= js[n].err
      BY <2>6, <3>6 DEF SameButFor
    <3>10. Grafted(added.jobs, js, name, job.parent)
      BY <2>11, <3>6 DEF Grafted, SameButFor
    <3>11. Rewritten(added.jobs, js, name, job)
      <4>1. Stored(committed, name) /\ \A n \in JobNames : Stored(js, n) => Stored(committed, n)
        BY <2>5, <2>6
      <4>. QED BY <2>12, <3>6, <4>1 DEF Rewritten, SameButFor
    <3>12. Relisted(added.jobs, js, name, job)
      <4> SUFFICES ASSUME NEW n \in JobNames, NEW d \in JobNames, Stored(added.jobs, n)
                   PROVE  added.jobs[n].deps[d] =
                            IF d # name THEN committed[n].deps[d]
                            ELSE IF n = job.parent THEN committed[n].deps[d] + 1
                            ELSE IF n = old THEN 0 ELSE committed[n].deps[d]
        BY <2>10, <2>13, <2>14 DEF Relisted
      <4>1. Stored(committed, n)
        BY <3>6 DEF SameButFor
      <4>2. CASE d # name
        BY <3>6, <4>1, <4>2 DEF SameButFor
      <4>3. CASE d = name /\ n = job.parent
        BY <2>10, <3>1, <3>4, <4>3, StorageAssumption
      <4>4. CASE d = name /\ n # job.parent
        BY <3>1, <3>4, <4>4, StorageAssumption
      <4>. QED BY <4>2, <4>3, <4>4
    <3>. QED BY <1>2, <3>4, <3>5, <3>6, <3>8, <3>9, <3>10, <3>11, <3>12 DEF SameButFor
  <2>. QED BY <2>9, <2>10
<1>. QED BY <1>1, <1>2

\* DeleteJob refuses and changes nothing, or removes the one job; either way
\* the tree stays whole.
LEMMA DeleteJobTree ==
    ASSUME NEW js \in JobMap, TreeOK(js), NEW name \in JobNames
    PROVE  LET r == DeleteJob(js, name)
           IN  /\ r.jobs \in JobMap
               /\ TreeOK(r.jobs)
               /\ r.ok <=> Stored(js, name) /\ js[name].deps = NoDeps
               /\ ~r.ok => r.jobs = js
               /\ r.ok => Pruned(r.jobs, js, name) /\ Unlisted(r.jobs, js, name)
               /\ \A n \in JobNames : Stored(r.jobs, n) =>
                     /\ Stored(js, n)
                     /\ r.jobs[n].succ = js[n].succ
                     /\ r.jobs[n].err = js[n].err
                     /\ r.jobs[n].schedule = js[n].schedule
                     /\ r.jobs[n].config = js[n].config
<1> DEFINE r  == DeleteJob(js, name)
           ks == [js EXCEPT ![name] = NoJob]
           p  == js[name].parent
<1>1. CASE ~(Stored(js, name) /\ js[name].deps = NoDeps)
  BY <1>1 DEF DeleteJob, Failed
<1>2. CASE Stored(js, name) /\ js[name].deps = NoDeps
  <2>1. r = removeFromParent(ks, name, p)
    BY <1>2 DEF DeleteJob
  <2>2. /\ ks \in JobMap
        /\ ~Stored(ks, name)
        /\ \A n \in JobNames \ {name} : ks[n] = js[n]
    BY DEF JobMap, Stored
  <2> HIDE DEF ks
  \* Nobody names the deleted job as its parent.
  <2>3. ASSUME NEW n \in JobNames, Stored(js, n), js[n].parent # NoParent
        PROVE  /\ js[n].parent \in JobNames \ {name}
               /\ Stored(ks, js[n].parent)
               /\ js[js[n].parent].deps[n] > 0
               /\ ks[js[n].parent] = js[js[n].parent]
    <3>1. js[n].parent \in JobNames
      BY <2>3, StoredIsJob DEF Job
    <3>2. Stored(js, js[n].parent) /\ js[js[n].parent].deps[n] > 0
      BY <2>3 DEF TreeOK
    <3>3. js[n].parent # name
      BY <1>2, <3>2 DEF NoDeps
    <3>. QED BY <2>2, <3>1, <3>2, <3>3 DEF Stored
  <2>4. \A n \in JobNames : Stored(ks, n) => n # name /\ Stored(js, n) /\ ks[n] = js[n]
    BY <2>2 DEF Stored
  <2>5. ParentsStored(ks)
    BY <2>3, <2>4 DEF ParentsStored
  <2>6. p \in JobNames \cup {NoParent} /\ (p # NoParent => Stored(ks, p))
    BY <1>2, <2>3, StoredIsJob DEF Job
  <2>7. /\ r.ok /\ SameButFor(r.jobs, ks, name)
        /\ \A n \in JobNames \ {p} : r.jobs[n] = ks[n]
        /\ p # NoParent => r.jobs[p].deps[name] = 0
    BY <2>1, <2>2, <2>5, <2>6, RemoveSucceeds
  <2> HIDE DEF r
  <2>8. ASSUME NEW n \in JobNames, Stored(r.jobs, n)
        PROVE  /\ n # name /\ Stored(js, n) /\ ks[n] = js[n]
               /\ r.jobs[n].parent = js[n].parent
               /\ r.jobs[n].succ = js[n].succ
               /\ r.jobs[n].err = js[n].err
               /\ r.jobs[n].schedule = js[n].schedule
               /\ r.jobs[n].config = js[n].config
    BY <2>4, <2>7, <2>8 DEF SameButFor
  <2>9. TreeOK(r.jobs)
    <3> SUFFICES ASSUME NEW n \in JobNames, Stored(r.jobs, n), r.jobs[n].parent # NoParent
                 PROVE  /\ Stored(r.jobs, r.jobs[n].parent)
                        /\ r.jobs[r.jobs[n].parent].deps[n] > 0
      BY DEF TreeOK
    <3>1. /\ n # name /\ Stored(js, n)
          /\ r.jobs[n].parent = js[n].parent
      BY <2>8
    <3>2. /\ js[n].parent \in JobNames
          /\ Stored(ks, js[n].parent)
          /\ ks[js[n].parent].deps[n] > 0
      BY <2>3, <3>1
    <3>. QED BY <2>7, <3>1, <3>2 DEF SameButFor
  <2>10. r.jobs \in JobMap
    BY <2>7 DEF SameButFor
  <2>11. Pruned(r.jobs, js, name)
    <3>1. \A n \in JobNames : Stored(js, n) => js[n].parent # name
      BY <2>3, StorageAssumption
    <3>2. \A n \in JobNames \ {name} : Stored(r.jobs, n) <=> Stored(js, n)
      BY <2>2, <2>7 DEF SameButFor, Stored
    <3>3. ~Stored(r.jobs, name)
      BY <2>2, <2>7 DEF SameButFor
    <3>. QED BY <1>2, <2>8, <3>1, <3>2, <3>3 DEF Pruned
  <2>12. Unlisted(r.jobs, js, name)
    <3> SUFFICES ASSUME NEW n \in JobNames, NEW d \in JobNames, Stored(r.jobs, n)
                 PROVE  r.jobs[n].deps[d] = IF d = name /\ n = p THEN 0 ELSE js[n].deps[d]
      BY DEF Unlisted
    <3>1. Stored(ks, n) /\ ks[n] = js[n]
      BY <2>4, <2>7, <2>8 DEF SameButFor
    <3>2. CASE d # name
      BY <2>7, <3>1, <3>2 DEF SameButFor
    <3>3. CASE d = name
      BY <2>7, <3>1, <3>3, StorageAssumption
    <3>. QED BY <3>2, <3>3
  <2>. QED BY <1>2, <2>7, <2>8, <2>9, <2>10, <2>11, <2>12 DEF r
<1>. QED BY <1>1, <1>2

\* Rewriting one stored job without touching its place in the tree.
LEMMA UpdateTree ==
    ASSUME NEW js \in JobMap, TreeOK(js), NEW name \in JobNames, Stored(js, name),
           NEW j \in Job, j.parent = js[name].parent, j.deps = js[name].deps
    PROVE  LET ks == [js EXCEPT ![name] = j]
           IN  /\ ks \in JobMap
               /\ TreeOK(ks)
               /\ \A n \in JobNames : Stored(ks, n) <=> Stored(js, n)
<1> DEFINE ks == [js EXCEPT ![name] = j]
<1>1. ks \in JobMap /\ ks[name] = j /\ \A n \in JobNames \ {name} : ks[n] = js[n]
  BY DEF JobMap
<1>2. \A n \in JobNames : /\ Stored(ks, n) <=> Stored(js, n)
                         /\ ks[n].parent = js[n].parent
                         /\ ks[n].deps = js[n].deps
  BY <1>1, StorageAssumption DEF Stored
<1> HIDE DEF ks
<1>3. ASSUME NEW n \in JobNames, Stored(ks, n), ks[n].parent # NoParent
      PROVE  Stored(ks, ks[n].parent) /\ ks[ks[n].parent].deps[n] > 0
  <2>1. ks[n].parent \in JobNames
    BY <1>1, <1>3, StoredIsJob DEF Job
  <2>. QED BY <1>2, <1>3, <2>1 DEF TreeOK
<1>4. TreeOK(ks)
  BY <1>3 DEF TreeOK
<1>. QED BY <1>1, <1>2, <1>4 DEF ks

\* Counting a result and resetting the counters keep the job's type and place.
LEMMA CountType ==
    ASSUME NEW j \in Job, NEW st \in Statuses, NEW e \in Execution
    PROVE  /\ Count(j, st, e) \in Job
           /\ Count(j, st, e).parent = j.parent
           /\ Count(j, st, e).deps = j.deps
           /\ Count(j, st, e).schedule = j.schedule
           /\ Count(j, st, e).config = j.config
           /\ Count(j, st, e).succ >= j.succ
           /\ Count(j, st, e).err >= j.err
<1>1. e.finishedAt \in Time
  BY DEF Execution
<1>2. CASE e.success
  <2> DEFINE k == j.succ + 1
  <2>1. Count(j, st, e) =
          [j EXCEPT !.status = st, !.succ = k, !.lastSucc = e.finishedAt]
    BY <1>2 DEF Count, Job
  <2>2. k \in Nat /\ k >= j.succ /\ j.err >= j.err
    BY DEF Job
  <2> HIDE DEF k
  <2>. QED BY <1>1, <2>1, <2>2 DEF Job
<1>3. CASE ~e.success
  <2> DEFINE k == j.err + 1
  <2>1. Count(j, st, e) =
          [j EXCEPT !.status = st, !.err = k, !.lastErr = e.finishedAt]
    BY <1>3 DEF Count, Job
  <2>2. k \in Nat /\ k >= j.err /\ j.succ >= j.succ
    BY DEF Job
  <2> HIDE DEF k
  <2>. QED BY <1>1, <2>1, <2>2 DEF Job
<1>. QED BY <1>2, <1>3

\* DeleteExecutions' reset yields a Job with the same place in the tree.
LEMMA ResetType ==
    ASSUME NEW j \in Job
    PROVE  /\ ResetCounters(j) \in Job
           /\ ResetCounters(j).parent = j.parent
           /\ ResetCounters(j).deps = j.deps
           /\ ResetCounters(j).schedule = j.schedule
           /\ ResetCounters(j).config = j.config
           /\ ResetCounters(j).succ = 0
           /\ ResetCounters(j).err = 0
BY DEF ResetCounters, Job, Time, Never

----------------------------------------------------------------------------
(***************************************************************************)
(* Executions                                                              *)
(***************************************************************************)

KeysUnique(es) == \A x, y \in es : Key(x) = Key(y) => x = y

\* setExecutionTx keeps one execution for each key and replaces it only by one
\* that did not finish earlier.
LEMMA SetExecutionTxKeys ==
    ASSUME NEW es \in SUBSET Execution, KeysUnique(es), NEW e \in Execution
    PROVE  /\ setExecutionTx(es, e) \in SUBSET Execution
           /\ KeysUnique(setExecutionTx(es, e))
           /\ \A x \in es, y \in setExecutionTx(es, e) :
                 Key(x) = Key(y) => y.finishedAt >= x.finishedAt
<1>1. \A x \in Execution : x.finishedAt \in Nat
  BY DEF Execution, Time
<1>2. CASE Superseded(es, e)
  BY <1>1, <1>2 DEF setExecutionTx, KeysUnique
<1>3. CASE ~Superseded(es, e)
  <2>1. setExecutionTx(es, e) = {x \in es : Key(x) # Key(e)} \cup {e}
    BY <1>3 DEF setExecutionTx, Put, Same
  <2>2. \A x \in es : Key(x) = Key(e) => ~(x.finishedAt > e.finishedAt)
    BY <1>3 DEF Superseded, Same
  <2> HIDE DEF Key
  <2>3. KeysUnique(setExecutionTx(es, e))
    BY <2>1 DEF KeysUnique
  <2>4. ASSUME NEW x \in es, NEW y \in setExecutionTx(es, e), Key(x) = Key(y)
        PROVE  y.finishedAt >= x.finishedAt
    BY <1>1, <2>1, <2>2, <2>4 DEF KeysUnique
  <2>. QED BY <2>1, <2>3, <2>4
<1>. QED BY <1>2, <1>3

\* Removing executions keeps all that.
LEMMA SubsetKeys ==
    ASSUME NEW es \in SUBSET Execution, KeysUnique(es), NEW fs \in SUBSET es
    PROVE  fs \in SUBSET Execution /\ KeysUnique(fs)
BY DEF KeysUnique

\* SetExecution's trimming only drops executions.
LEMMA TrimmedSubset ==
    ASSUME NEW es \in SUBSET Execution, NEW n \in JobNames, NEW fs \in Trimmed(es, n)
    PROVE  fs \in SUBSET es
BY DEF Trimmed

\* computeStatus yields one of the statuses.
LEMMA StatusType ==
    ASSUME NEW es, NEW e
    PROVE  computeStatus(es, e) \in Statuses
BY DEF computeStatus, Statuses

\* Counting an execution yields totals again.
LEMMA StatType ==
    ASSUME NEW s \in Stat, NEW e
    PROVE  incrementStat(s, e) \in Stat
<1>1. CASE e.success
  <2>1. incrementStat(s, e) = [s EXCEPT !.succ = s.succ + 1]
    BY <1>1 DEF incrementStat
  <2>. QED BY <2>1 DEF Stat
<1>2. CASE ~e.success
  <2>1. incrementStat(s, e) = [s EXCEPT !.err = s.err + 1]
    BY <1>2 DEF incrementStat
  <2>. QED BY <2>1 DEF Stat
<1>. QED BY <1>1, <1>2

----------------------------------------------------------------------------
(***************************************************************************)
(* The inductive invariant                                                 *)
(***************************************************************************)

IInv ==
    /\ TypeOK
    /\ ParentListsChild
    /\ KeysUnique(execs)

\* IInv in the terms of the lemmas.
LEMMA IInvFacts ==
    ASSUME IInv
    PROVE  jobs \in JobMap /\ TreeOK(jobs) /\ execs \in SUBSET Execution
BY DEF IInv, TypeOK, JobMap, ParentListsChild, TreeOK

\* What an entry has to establish.
SoundEntry == IInv' /\ (resp' = "error" => UNCHANGED <<jobs, execs, stats>>)

\* The parts of IInv' that an entry has to establish.
LEMMA IInvNext ==
    ASSUME jobs' \in JobMap, TreeOK(jobs'), execs' \in SUBSET Execution,
           KeysUnique(execs'), stats' \in Stat, resp' \in {"ok", "error"}
    PROVE  IInv'
BY DEF IInv, TypeOK, JobMap, ParentListsChild, TreeOK

\* A SetJob entry preserves IInv, whatever it carries, and changes nothing when
\* it is refused.
LEMMA SetJobKeeps ==
    ASSUME IInv, NEW name \in JobNames, NEW job \in Job, applySetJob(name, job)
    PROVE  SoundEntry
<1>1. jobs \in JobMap /\ TreeOK(jobs) /\ execs \in SUBSET Execution
  BY IInvFacts
<1>2. KeysUnique(execs) /\ stats \in Stat
  BY DEF IInv, TypeOK
<1>3. PICK next \in NextTimes :
         /\ jobs' = SetJob(jobs, name, job, next).jobs
         /\ resp' = Answer(SetJob(jobs, name, job, next).ok)
         /\ UNCHANGED <<execs, stats>>
  BY DEF applySetJob
<1>4. next \in Time
  BY FSMAssumption
<1> DEFINE r == SetJob(jobs, name, job, next)
<1>5. r.ok \in BOOLEAN /\ r.jobs \in JobMap /\ TreeOK(r.jobs) /\ (~r.ok => r.jobs = jobs)
  BY <1>1, <1>4, SetJobTree
<1>6. jobs' = r.jobs /\ resp' = Answer(r.ok) /\ execs' = execs /\ stats' = stats
  BY <1>3
<1> HIDE DEF r
<1>7. resp' \in {"ok", "error"} /\ (resp' = "error" => ~r.ok)
  BY <1>5, <1>6 DEF Answer
<1>. QED BY <1>1, <1>2, <1>5, <1>6, <1>7, IInvNext DEF SoundEntry

\* The same for DeleteJob.
LEMMA DeleteJobKeeps ==
    ASSUME IInv, NEW n \in JobNames, applyDeleteJob(n)
    PROVE  SoundEntry
<1> DEFINE r == DeleteJob(jobs, n)
           deleted == Stored(jobs, n) /\ jobs[n].deps = NoDeps
<1>1. jobs \in JobMap /\ TreeOK(jobs) /\ execs \in SUBSET Execution
  BY IInvFacts
<1>2. KeysUnique(execs) /\ stats \in Stat
  BY DEF IInv, TypeOK
<1>3. /\ r.jobs \in JobMap /\ TreeOK(r.jobs)
      /\ r.ok <=> deleted
      /\ ~r.ok => r.jobs = jobs
  BY <1>1, DeleteJobTree
<1>4. /\ jobs' = r.jobs
      /\ execs' = IF deleted THEN deleteExecutionsTxFunc(execs, n) ELSE execs
      /\ resp' = Answer(r.ok) /\ stats' = stats
  BY DEF applyDeleteJob
<1> HIDE DEF r, deleted
<1>5. resp' \in {"ok", "error"} /\ (resp' = "error" => ~r.ok)
  BY <1>4 DEF Answer
<1>6. execs' \in SUBSET execs
  BY <1>4 DEF deleteExecutionsTxFunc
<1>. QED BY <1>1, <1>2, <1>3, <1>4, <1>5, <1>6, SubsetKeys, IInvNext DEF SoundEntry

\* The same for DeleteExecutions.
LEMMA DeleteExecutionsKeeps ==
    ASSUME IInv, NEW n \in JobNames, applyDeleteExecutions(n)
    PROVE  SoundEntry
<1>1. jobs \in JobMap /\ TreeOK(jobs) /\ execs \in SUBSET Execution
  BY IInvFacts
<1>2. KeysUnique(execs) /\ stats \in Stat
  BY DEF IInv, TypeOK
<1>3. CASE ~Stored(jobs, n)
  BY <1>1, <1>2, <1>3, IInvNext DEF applyDeleteExecutions, SoundEntry
<1>4. CASE Stored(jobs, n)
  <2>1. /\ execs' = deleteExecutionsTxFunc(execs, n)
        /\ jobs' = [jobs EXCEPT ![n] = ResetCounters(jobs[n])]
        /\ resp' = "ok" /\ stats' = stats
    BY <1>4 DEF applyDeleteExecutions
  <2>2. jobs' \in JobMap /\ TreeOK(jobs')
    BY <1>1, <1>4, <2>1, StoredIsJob, ResetType, UpdateTree
  <2>3. execs' \in SUBSET execs
    BY <2>1 DEF deleteExecutionsTxFunc
  <2>. QED BY <1>1, <1>2, <2>1, <2>2, <2>3, SubsetKeys, IInvNext DEF SoundEntry
<1>. QED BY <1>3, <1>4

\* The same for SetExecution.
LEMMA SetExecutionKeeps ==
    ASSUME IInv, NEW e \in Execution, applySetExecution(e)
    PROVE  SoundEntry
<1>1. jobs \in JobMap /\ TreeOK(jobs) /\ execs \in SUBSET Execution
  BY IInvFacts
<1>2. KeysUnique(execs) /\ stats \in Stat
  BY DEF IInv, TypeOK
<1>3. e.job \in JobNames
  BY DEF Execution
<1>4. execs' \in Trimmed(setExecutionTx(execs, e), e.job) /\ resp' = "ok"
      /\ jobs' = jobs /\ stats' = stats
  BY DEF applySetExecution, SetExecution
<1>5. setExecutionTx(execs, e) \in SUBSET Execution /\ KeysUnique(setExecutionTx(execs, e))
  BY <1>1, <1>2, SetExecutionTxKeys
<1>6. execs' \in SUBSET setExecutionTx(execs, e)
  BY <1>3, <1>4, <1>5, TrimmedSubset
<1>. QED BY <1>1, <1>2, <1>4, <1>5, <1>6, SubsetKeys, IInvNext DEF SoundEntry

\* The same for ExecutionDone.
LEMMA ExecutionDoneKeeps ==
    ASSUME IInv, NEW e \in Execution, applyExecutionDone(e)
    PROVE  SoundEntry
<1>1. jobs \in JobMap /\ TreeOK(jobs) /\ execs \in SUBSET Execution
  BY IInvFacts
<1>2. KeysUnique(execs) /\ stats \in Stat
  BY DEF IInv, TypeOK
<1>3. e.job \in JobNames
  BY DEF Execution
<1>4. CASE UNCHANGED <<jobs, execs, stats>> /\ resp' \in {"ok", "error"}
  BY <1>1, <1>2, <1>4, IInvNext DEF SoundEntry
<1>5. CASE /\ Stored(jobs, e.job)
           /\ execs' = setExecutionTx(execs, e)
           /\ resp' = "ok"
           /\ UNCHANGED <<jobs, stats>>
  BY <1>1, <1>2, <1>5, SetExecutionTxKeys, IInvNext DEF SoundEntry
<1>6. CASE /\ Stored(jobs, e.job)
           /\ execs' = setExecutionTx(execs, e)
           /\ resp' = "ok"
           /\ jobs' = [jobs EXCEPT ![e.job] =
                          Count(jobs[e.job], computeStatus(execs', e), e)]
           /\ stats' = incrementStat(stats, e)
  <2>1. PICK st \in Statuses : st = computeStatus(execs', e)
    BY StatusType
  <2>2. PICK j \in Job : /\ j = Count(jobs[e.job], st, e)
                         /\ j.parent = jobs[e.job].parent
                         /\ j.deps = jobs[e.job].deps
    BY <1>1, <1>3, <1>6, StoredIsJob, CountType
  <2>3. jobs' \in JobMap /\ TreeOK(jobs')
    <3>1. jobs' = [jobs EXCEPT ![e.job] = j]
      BY <1>6, <2>1, <2>2
    <3>2. PICK n \in JobNames : n = e.job
      BY <1>3
    <3>3. Stored(jobs, n) /\ j.parent = jobs[n].parent /\ j.deps = jobs[n].deps
      BY <1>6, <2>2, <3>2
    <3>4. [jobs EXCEPT ![n] = j] \in JobMap /\ TreeOK([jobs EXCEPT ![n] = j])
      BY <1>1, <3>3, UpdateTree
    <3>. QED BY <3>1, <3>2, <3>4
  <2>4. stats' \in Stat
    BY <1>2, <1>6, StatType
  <2>5. execs' \in SUBSET Execution /\ KeysUnique(execs')
    BY <1>1, <1>2, <1>6, SetExecutionTxKeys
  <2>. QED BY <1>6, <2>3, <2>4, <2>5, IInvNext DEF SoundEntry
<1>. QED BY <1>4, <1>5, <1>6 DEF applyExecutionDone

\* Every entry that the state machine may apply next preserves IInv, and an
\* entry that it refuses changes nothing.
LEMMA StepPreserves ==
    ASSUME IInv, Next
    PROVE  SoundEntry
<1>1. ASSUME NEW i \in JobInputs, applySetJob(i.name, i.job)
      PROVE  SoundEntry
  <2>1. i.name \in JobNames /\ i.job \in Job
    BY FSMAssumption
  <2>. QED BY <1>1, <2>1, SetJobKeeps
<1>2. Starts \subseteq Execution /\ Results \subseteq Execution
  BY FSMAssumption DEF Starts, Results
<1>. QED BY <1>1, <1>2, DeleteJobKeeps, DeleteExecutionsKeeps, SetExecutionKeeps,
            ExecutionDoneKeeps DEF Next

\* The empty store satisfies the inductive invariant.
LEMMA InitIInv == Init => IInv
BY DEF Init, IInv, TypeOK, ParentListsChild, KeysUnique, Stored, Stat

\* A step that changes nothing keeps the inductive invariant.
LEMMA StutterIInv == IInv /\ UNCHANGED vars => IInv'
BY DEF IInv, TypeOK, ParentListsChild, KeysUnique, vars, Stored

\* The inductive invariant holds in every reachable state.
THEOREM Inductive == Spec => []IInv
<1>1. IInv /\ [Next]_vars => IInv'
  BY StepPreserves, StutterIInv DEF SoundEntry
<1>. QED BY InitIInv, <1>1, PTL DEF Spec

\* The state machine keeps the types of its state (src/dkron/store.go writes
\* only well-formed jobs, executions and statistics).
THEOREM TypeCorrect == Spec => []TypeOK
<1>1. IInv => TypeOK
  BY DEF IInv
<1>. QED BY Inductive, <1>1, PTL

\* However clients interleave SetJob and DeleteJob, the parent of a stored job
\* is stored and lists it.
THEOREM TreeWhole == Spec => []ParentListsChild
<1>1. IInv => ParentListsChild
  BY DEF IInv
<1>. QED BY Inductive, <1>1, PTL

\* SetJob and DeleteJob never fail half way: an entry answered with an error
\* has changed nothing.
THEOREM NoPartialFailure == Spec => ErrorChangesNothing
<1>1. IInv /\ [Next]_vars => [resp' = "error" => UNCHANGED <<jobs, execs, stats>>]_vars
  BY StepPreserves DEF SoundEntry
<1>. QED BY Inductive, <1>1, PTL DEF Spec, ErrorChangesNothing

----------------------------------------------------------------------------
(***************************************************************************)
(* Counters and results                                                    *)
(***************************************************************************)

\* What a step may do to the counters of a job that stays stored.
KeepsCounters ==
    \A n \in JobNames : Stored(jobs, n) /\ Stored(jobs', n) =>
        \/ jobs'[n].succ >= jobs[n].succ /\ jobs'[n].err >= jobs[n].err
        \/ /\ jobs'[n].succ = 0 /\ jobs'[n].err = 0
           /\ GetExecutions(execs', n) = {}

\* A step that keeps the jobs keeps their counters.
LEMMA UnchangedKeepsCounters ==
    ASSUME jobs \in JobMap, jobs' = jobs
    PROVE  KeepsCounters
<1>1. \A n \in JobNames : Stored(jobs, n) => jobs[n].succ \in Nat /\ jobs[n].err \in Nat
  BY StoredIsJob DEF Job
<1>. QED BY <1>1 DEF KeepsCounters

\* No entry of the log lowers a counter of a job that stays stored, except to
\* zero and together with its executions.
LEMMA StepKeepsCounters ==
    ASSUME IInv, Next
    PROVE  KeepsCounters
<1>1. jobs \in JobMap /\ TreeOK(jobs) /\ execs \in SUBSET Execution
  BY IInvFacts
<1>2. ASSUME NEW i \in JobInputs, applySetJob(i.name, i.job)
      PROVE  KeepsCounters
  <2>1. i.name \in JobNames /\ i.job \in Job
    BY FSMAssumption
  <2>2. PICK next \in NextTimes : jobs' = SetJob(jobs, i.name, i.job, next).jobs
    BY <1>2 DEF applySetJob
  <2>3. next \in Time
    BY FSMAssumption
  <2>4. \A n \in JobNames : Stored(jobs, n) =>
           jobs'[n].succ >= jobs[n].succ /\ jobs'[n].err >= jobs[n].err
    BY <1>1, <2>1, <2>2, <2>3, SetJobTree
  <2>. QED BY <2>4 DEF KeepsCounters
<1>3. ASSUME NEW m \in JobNames, applyDeleteJob(m)
      PROVE  KeepsCounters
  <2>1. jobs' = DeleteJob(jobs, m).jobs
    BY <1>3 DEF applyDeleteJob
  <2>2. \A n \in JobNames : Stored(jobs', n) =>
           jobs'[n].succ = jobs[n].succ /\ jobs'[n].err = jobs[n].err
    BY <1>1, <2>1, DeleteJobTree
  <2>3. \A n \in JobNames : Stored(jobs, n) => jobs[n].succ \in Nat /\ jobs[n].err \in Nat
    BY <1>1, StoredIsJob DEF Job
  <2>. QED BY <2>2, <2>3 DEF KeepsCounters
<1>4. ASSUME NEW m \in JobNames, applyDeleteExecutions(m)
      PROVE  KeepsCounters
  <2>1. CASE ~Stored(jobs, m)
    BY <1>1, <1>4, <2>1, UnchangedKeepsCounters DEF applyDeleteExecutions
  <2>2. CASE Stored(jobs, m)
    <3>1. /\ execs' = deleteExecutionsTxFunc(execs, m)
          /\ jobs' = [jobs EXCEPT ![m] = ResetCounters(jobs[m])]
      BY <1>4, <2>2 DEF applyDeleteExecutions
    <3>2. jobs'[m].succ = 0 /\ jobs'[m].err = 0
      BY <1>1, <2>2, <3>1, StoredIsJob, ResetType DEF JobMap
    <3>3. GetExecutions(execs', m) = {}
      BY <3>1 DEF GetExecutions, deleteExecutionsTxFunc
    <3>4. \A n \in JobNames \ {m} : jobs'[n] = jobs[n]
      BY <1>1, <3>1 DEF JobMap
    <3>5. \A n \in JobNames : Stored(jobs, n) => jobs[n].succ \in Nat /\ jobs[n].err \in Nat
      BY <1>1, StoredIsJob DEF Job
    <3>. QED BY <3>2, <3>3, <3>4, <3>5 DEF KeepsCounters
  <2>. QED BY <2>1, <2>2
<1>5. ASSUME NEW e \in Starts, applySetExecution(e)
      PROVE  KeepsCounters
  BY <1>1, <1>5, UnchangedKeepsCounters DEF applySetExecution
<1>6. ASSUME NEW e \in Results, applyExecutionDone(e)
      PROVE  KeepsCounters
  <2>1. e \in Execution /\ e.job \in JobNames
    BY FSMAssumption DEF Results, Execution
  <2>2. CASE jobs' = jobs
    BY <1>1, <2>2, UnchangedKeepsCounters
  <2>3. CASE /\ Stored(jobs, e.job)
             /\ jobs' = [jobs EXCEPT ![e.job] =
                            Count(jobs[e.job], computeStatus(execs', e), e)]
    <3>1. jobs'[e.job].succ >= jobs[e.job].succ /\ jobs'[e.job].err >= jobs[e.job].err
      BY <1>1, <2>1, <2>3, StoredIsJob, StatusType, CountType DEF JobMap
    <3>2. \A n \in JobNames \ {e.job} : jobs'[n] = jobs[n]
      BY <1>1, <2>3 DEF JobMap
    <3>3. \A n \in JobNames : Stored(jobs, n) => jobs[n].succ \in Nat /\ jobs[n].err \in Nat
      BY <1>1, StoredIsJob DEF Job
    <3>. QED BY <3>1, <3>2, <3>3 DEF KeepsCounters
  <2>. QED BY <1>6, <2>2, <2>3 DEF applyExecutionDone
<1>. QED BY <1>2, <1>3, <1>4, <1>5, <1>6 DEF Next

\* No SetJob, however stale the record it carries, lowers a counter; only
\* DeleteExecutions does, to zero and with the executions gone.
THEOREM CountersSafe == Spec => CountersNeverDrop
<1>1. IInv /\ [Next]_vars => [KeepsCounters]_vars
  BY StepKeepsCounters
<1>2. CountersNeverDrop <=> [][KeepsCounters]_vars
  BY PTL DEF CountersNeverDrop, KeepsCounters
<1>. QED BY Inductive, <1>1, <1>2, PTL DEF Spec

\* What a step may do to a stored execution.
KeepsResults ==
    \A x \in execs, y \in execs' : Key(x) = Key(y) => y.finishedAt >= x.finishedAt

\* No entry of the log moves the FinishedAt stored under a key back.
LEMMA StepKeepsResults ==
    ASSUME IInv, Next
    PROVE  KeepsResults
<1>1. execs \in SUBSET Execution /\ KeysUnique(execs)
  BY DEF IInv, TypeOK
<1>2. \A x \in Execution : x.finishedAt \in Nat
  BY DEF Execution, Time
<1>3. ASSUME execs' \in SUBSET execs
      PROVE  KeepsResults
  BY <1>1, <1>2, <1>3 DEF KeepsResults, KeysUnique
<1>4. ASSUME NEW e \in ExecInputs, execs' \in SUBSET setExecutionTx(execs, e)
      PROVE  KeepsResults
  BY <1>1, <1>4, SetExecutionTxKeys, FSMAssumption DEF KeepsResults
<1>5. ASSUME NEW i \in JobInputs, applySetJob(i.name, i.job)
      PROVE  KeepsResults
  BY <1>3, <1>5 DEF applySetJob
<1>6. ASSUME NEW n \in JobNames, applyDeleteJob(n) \/ applyDeleteExecutions(n)
      PROVE  KeepsResults
  <2>1. execs' = execs \/ execs' = deleteExecutionsTxFunc(execs, n)
    BY <1>6 DEF applyDeleteJob, applyDeleteExecutions
  <2>. QED BY <1>3, <2>1 DEF deleteExecutionsTxFunc
<1>7. ASSUME NEW e \in Starts, applySetExecution(e)
      PROVE  KeepsResults
  <2>1. e \in ExecInputs /\ e \in Execution /\ e.job \in JobNames
    BY FSMAssumption DEF Starts, Execution
  <2>2. setExecutionTx(execs, e) \in SUBSET Execution
    BY <1>1, <2>1, SetExecutionTxKeys
  <2>3. execs' \in SUBSET setExecutionTx(execs, e)
    BY <1>7, <2>1, <2>2, TrimmedSubset DEF applySetExecution, SetExecution
  <2>. QED BY <1>4, <2>1, <2>3
<1>8. ASSUME NEW e \in Results, applyExecutionDone(e)
      PROVE  KeepsResults
  <2>1. execs' = execs \/ execs' = setExecutionTx(execs, e)
    BY <1>8 DEF applyExecutionDone
  <2>2. e \in ExecInputs
    BY DEF Results
  <2>. QED BY <1>3, <1>4, <2>1, <2>2
<1>. QED BY <1>5, <1>6, <1>7, <1>8 DEF Next

\* Whatever the order in which starts and results arrive, a stored result is
\* never replaced by an earlier one or by an unfinished execution.
THEOREM ResultsSafe == Spec => ResultsNeverRevert
<1>1. IInv /\ [Next]_vars => [KeepsResults]_vars
  BY StepKeepsResults
<1>2. ResultsNeverRevert <=> [][KeepsResults]_vars
  BY PTL DEF ResultsNeverRevert, KeepsResults
<1>. QED BY Inductive, <1>1, <1>2, PTL DEF Spec

----------------------------------------------------------------------------
(***************************************************************************)
(* What the owner of a job writes                                          *)
(***************************************************************************)

\* Every stored job passed Job.Validate.
StoreValid(js) == \A n \in JobNames : Stored(js, n) => Validate(n, js[n])

\* The step leaves the fields of n that its owner writes.
OwnKept(n) ==
    /\ Stored(jobs', n) <=> Stored(jobs, n)
    /\ Stored(jobs, n) => /\ jobs'[n].parent = jobs[n].parent
                          /\ jobs'[n].schedule = jobs[n].schedule
                          /\ jobs'[n].config = jobs[n].config

\* A SetJob entry writes the job that was sent, or is refused.
LEMMA SetJobWrites ==
    ASSUME IInv, StoreValid(jobs), NEW name \in JobNames, NEW job \in Job, applySetJob(name, job)
    PROVE  /\ StoreValid(jobs')
           /\ \A n \in JobNames \ {name} : OwnKept(n)
           /\ \/ /\ jobs' = jobs
                 /\ ~Validate(name, job) \/ (job.parent # NoParent /\ ~Stored(jobs, job.parent))
              \/ /\ Validate(name, job) /\ (job.parent # NoParent => Stored(jobs, job.parent))
                 /\ Stored(jobs', name)
                 /\ jobs'[name].parent = job.parent
                 /\ jobs'[name].schedule = job.schedule
                 /\ jobs'[name].config = job.config
<1>1. jobs \in JobMap /\ TreeOK(jobs)
  BY IInvFacts
<1>2. PICK next \in NextTimes : jobs' = SetJob(jobs, name, job, next).jobs
  BY DEF applySetJob
<1> DEFINE r == SetJob(jobs, name, job, next)
<1>3. /\ r.ok <=> Validate(name, job) /\ (job.parent # NoParent => Stored(jobs, job.parent))
      /\ ~r.ok => r.jobs = jobs
      /\ r.ok => Grafted(r.jobs, jobs, name, job.parent) /\ Rewritten(r.jobs, jobs, name, job)
  BY <1>1, FSMAssumption, SetJobTree
<1>4. jobs' = r.jobs
  BY <1>2
<1> HIDE DEF r
<1>5. CASE r.ok
  <2>1. /\ Stored(jobs', name) /\ jobs'[name].parent = job.parent
        /\ jobs'[name].schedule = job.schedule /\ jobs'[name].config = job.config
        /\ \A n \in JobNames \ {name} : OwnKept(n)
    BY <1>3, <1>4, <1>5 DEF Grafted, Rewritten, OwnKept
  <2>2. StoreValid(jobs')
    BY <1>3, <1>5, <2>1 DEF StoreValid, Validate, OwnKept
  <2>. QED BY <1>3, <1>5, <2>1, <2>2
<1>6. CASE ~r.ok
  BY <1>3, <1>4, <1>6 DEF OwnKept
<1>. QED BY <1>5, <1>6

\* A DeleteJob entry removes the job, or is refused.
LEMMA DeleteJobRemoves ==
    ASSUME IInv, StoreValid(jobs), NEW name \in JobNames, applyDeleteJob(name)
    PROVE  /\ StoreValid(jobs')
           /\ \A n \in JobNames \ {name} : OwnKept(n)
           /\ resp' = "error" => jobs' = jobs
           /\ resp' # "error" => ~Stored(jobs', name)
<1>1. jobs \in JobMap /\ TreeOK(jobs)
  BY IInvFacts
<1> DEFINE r == DeleteJob(jobs, name)
<1>2. /\ ~r.ok => r.jobs = jobs
      /\ r.ok => Pruned(r.jobs, jobs, name)
      /\ \A n \in JobNames : Stored(r.jobs, n) =>
            r.jobs[n].schedule = jobs[n].schedule /\ r.jobs[n].config = jobs[n].config
  BY <1>1, DeleteJobTree
<1>3. jobs' = r.jobs /\ resp' = Answer(r.ok)
  BY DEF applyDeleteJob
<1> HIDE DEF r
<1>4. CASE r.ok
  <2>1. ~Stored(jobs', name) /\ resp' = "ok" /\ \A n \in JobNames \ {name} : OwnKept(n)
    BY <1>2, <1>3, <1>4 DEF Pruned, OwnKept, Answer
  <2>. QED BY <2>1 DEF StoreValid, Validate, OwnKept
<1>5. CASE ~r.ok
  BY <1>2, <1>3, <1>5 DEF OwnKept, Answer
<1>. QED BY <1>4, <1>5

\* A step that leaves what the owners wrote leaves valid jobs.
LEMMA OwnKeptValid ==
    ASSUME StoreValid(jobs), \A n \in JobNames : OwnKept(n)
    PROVE  StoreValid(jobs')
BY DEF StoreValid, Validate, OwnKept

\* DeleteExecutions leaves what the owner wrote.
LEMMA ResetKeepsOwn ==
    ASSUME IInv, NEW name \in JobNames, applyDeleteExecutions(name)
    PROVE  \A n \in JobNames : OwnKept(n)
<1>1. jobs \in JobMap
  BY IInvFacts
<1>2. CASE UNCHANGED jobs
  BY <1>2 DEF OwnKept
<1>3. CASE Stored(jobs, name) /\ jobs' = [jobs EXCEPT ![name] = ResetCounters(jobs[name])]
  <2>1. PICK j \in Job : /\ j = ResetCounters(jobs[name]) /\ j.parent = jobs[name].parent
                         /\ j.schedule = jobs[name].schedule /\ j.config = jobs[name].config
    BY <1>1, <1>3, StoredIsJob, ResetType
  <2>. QED BY <1>1, <1>3, <2>1, StorageAssumption DEF JobMap, OwnKept, Stored
<1>. QED BY <1>2, <1>3 DEF applyDeleteExecutions

\* ExecutionDone leaves what the owner wrote.
LEMMA CountKeepsOwn ==
    ASSUME IInv, NEW e \in Execution, applyExecutionDone(e)
    PROVE  \A n \in JobNames : OwnKept(n)
<1>1. jobs \in JobMap /\ e.job \in JobNames
  BY IInvFacts DEF Execution
<1>2. CASE UNCHANGED jobs
  BY <1>2 DEF OwnKept
<1>3. CASE /\ Stored(jobs, e.job)
           /\ jobs' = [jobs EXCEPT ![e.job] = Count(jobs[e.job], computeStatus(execs', e), e)]
  <2>1. PICK st \in Statuses : st = computeStatus(execs', e)
    BY StatusType
  <2>2. PICK j \in Job : /\ j = Count(jobs[e.job], st, e) /\ j.parent = jobs[e.job].parent
                         /\ j.schedule = jobs[e.job].schedule /\ j.config = jobs[e.job].config
    BY <1>1, <1>3, StoredIsJob, CountType
  <2>3. jobs' = [jobs EXCEPT ![e.job] = j]
    BY <1>3, <2>1, <2>2
  <2>. QED BY <1>1, <1>3, <2>2, <2>3, StorageAssumption DEF JobMap, OwnKept, Stored
<1>. QED BY <1>2, <1>3 DEF applyExecutionDone

\* Whatever clients send, only jobs that pass Job.Validate are ever stored: a
\* job without parent has a schedule, and no job is its own parent.
THEOREM ValidStored == Spec => []StoreValid(jobs)
<1>1. Init => StoreValid(jobs)
  BY DEF Init, StoreValid, Stored
<1>2. IInv /\ StoreValid(jobs) /\ [Next]_vars => StoreValid(jobs)'
  <2> SUFFICES ASSUME IInv, StoreValid(jobs), [Next]_vars PROVE StoreValid(jobs')
    OBVIOUS
  <2>1. CASE UNCHANGED jobs
    BY <2>1
  <2>2. ASSUME NEW i \in JobInputs, applySetJob(i.name, i.job)
        PROVE  StoreValid(jobs')
    BY <2>2, FSMAssumption, SetJobWrites
  <2>3. ASSUME NEW n \in JobNames, applyDeleteJob(n)
        PROVE  StoreValid(jobs')
    BY <2>3, DeleteJobRemoves
  <2>4. ASSUME NEW n \in JobNames, applyDeleteExecutions(n)
        PROVE  StoreValid(jobs')
    BY <2>4, ResetKeepsOwn, OwnKeptValid
  <2>5. ASSUME NEW e \in Results, applyExecutionDone(e)
        PROVE  StoreValid(jobs')
    BY <2>5, FSMAssumption, CountKeepsOwn, OwnKeptValid DEF Results
  <2>6. ASSUME NEW e \in Starts, applySetExecution(e)
        PROVE  StoreValid(jobs')
    BY <2>1, <2>6 DEF applySetExecution
  <2>7. CASE UNCHANGED vars
    BY <2>1, <2>7 DEF vars
  <2>. QED BY <2>2, <2>3, <2>4, <2>5, <2>6, <2>7 DEF Next
<1>. QED BY <1>1, <1>2, Inductive, PTL DEF Spec

----------------------------------------------------------------------------
(***************************************************************************)
(* The job tree                                                            *)
(***************************************************************************)

there    == {n \in JobNames : Stored(jobs, n)}
parentOf == [n \in JobNames |-> IF Stored(jobs, n) THEN jobs[n].parent ELSE NoParent]

\* A step that grafts one job is a step of the tree.
LEMMA GraftIsPut ==
    ASSUME NEW name \in JobNames, NEW p, Grafted(jobs', jobs, name, p)
    PROVE  Tree!Put(name, p)
<1>1. p \in (there \cup {NoParent}) \ {name}
  BY DEF Grafted, there
<1>2. there' = there \cup {name}
  BY DEF Grafted, there
<1>3. parentOf' = [parentOf EXCEPT ![name] = p]
  BY DEF Grafted, parentOf
<1>. QED BY <1>1, <1>2, <1>3 DEF Tree!Put, Tree!Parents, there, parentOf

\* A step that prunes one job is a step of the tree.
LEMMA PruneIsRemove ==
    ASSUME NEW name \in JobNames, Pruned(jobs', jobs, name)
    PROVE  Tree!Remove(name)
<1>1. name \in there /\ \A n \in there : parentOf[n] # name
  BY DEF Pruned, there, parentOf
<1>2. there' = there \ {name}
  BY DEF Pruned, there
<1>3. parentOf' = [parentOf EXCEPT ![name] = NoParent]
  BY DEF Pruned, parentOf
<1>. QED BY <1>1, <1>2, <1>3 DEF Tree!Remove, there, parentOf

\* A step that keeps every job where it is leaves the tree alone.
LEMMA KeepIsStutter ==
    ASSUME \A n \in JobNames : Stored(jobs', n) <=> Stored(jobs, n),
           \A n \in JobNames : Stored(jobs, n) => jobs'[n].parent = jobs[n].parent
    PROVE  UNCHANGED Tree!treeVars
<1>1. there' = there
  BY DEF there
<1>2. parentOf' = parentOf
  BY DEF parentOf
<1>. QED BY <1>1, <1>2 DEF Tree!treeVars, there, parentOf

\* Every entry of the log is a step of the tree or leaves it alone.
LEMMA StepIsTreeStep ==
    ASSUME IInv, Next
    PROVE  Tree!Next \/ UNCHANGED Tree!treeVars
<1> DEFINE Goal == Tree!Next \/ UNCHANGED Tree!treeVars
<1>1. jobs \in JobMap /\ TreeOK(jobs)
  BY IInvFacts
<1>2. ASSUME jobs' = jobs
      PROVE  Goal
  BY <1>2, KeepIsStutter
<1>3. ASSUME NEW n \in JobNames, NEW j \in Job, Stored(jobs, n),
             j.parent = jobs[n].parent, jobs' = [jobs EXCEPT ![n] = j]
      PROVE  Goal
  <2>1. \A m \in JobNames : /\ Stored(jobs', m) <=> Stored(jobs, m)
                            /\ Stored(jobs, m) => jobs'[m].parent = jobs[m].parent
    BY <1>1, <1>3, StorageAssumption DEF JobMap, Stored
  <2>. QED BY <2>1, KeepIsStutter
<1>4. ASSUME NEW i \in JobInputs, applySetJob(i.name, i.job)
      PROVE  Goal
  <2>1. i.name \in JobNames /\ i.job \in Job
    BY FSMAssumption
  <2>2. PICK next \in NextTimes : jobs' = SetJob(jobs, i.name, i.job, next).jobs
    BY <1>4 DEF applySetJob
  <2>3. next \in Time
    BY FSMAssumption
  <2> DEFINE r == SetJob(jobs, i.name, i.job, next)
  <2>4. r.ok \in BOOLEAN /\ (~r.ok => r.jobs = jobs)
        /\ (r.ok => Grafted(r.jobs, jobs, i.name, i.job.parent))
    BY <1>1, <2>1, <2>3, SetJobTree
  <2>5. jobs' = r.jobs
    BY <2>2
  <2> HIDE DEF r
  <2>6. CASE ~r.ok
    BY <1>2, <2>4, <2>5, <2>6
  <2>7. CASE r.ok
    <3>1. Grafted(jobs', jobs, i.name, i.job.parent)
      BY <2>4, <2>5, <2>7
    <3>2. i.job.parent \in JobNames \cup {NoParent}
      BY <2>1 DEF Job
    <3>3. Tree!Put(i.name, i.job.parent)
      BY <2>1, <3>1, GraftIsPut
    <3>. QED BY <2>1, <3>2, <3>3 DEF Tree!Next
  <2>. QED BY <2>4, <2>6, <2>7
<1>5. ASSUME NEW n \in JobNames, applyDeleteJob(n)
      PROVE  Goal
  <2> DEFINE r == DeleteJob(jobs, n)
  <2>1. /\ ~r.ok => r.jobs = jobs
        /\ r.ok => Pruned(r.jobs, jobs, n)
    BY <1>1, DeleteJobTree
  <2>2. jobs' = r.jobs
    BY <1>5 DEF applyDeleteJob
  <2> HIDE DEF r
  <2>3. CASE r.ok
    BY <2>1, <2>2, <2>3, PruneIsRemove DEF Tree!Next
  <2>. QED BY <1>2, <2>1, <2>2, <2>3
<1>6. ASSUME NEW n \in JobNames, applyDeleteExecutions(n)
      PROVE  Goal
  <2>1. CASE ~Stored(jobs, n)
    BY <1>2, <1>6, <2>1 DEF applyDeleteExecutions
  <2>2. CASE Stored(jobs, n)
    <3>1. PICK j \in Job : j = ResetCounters(jobs[n]) /\ j.parent = jobs[n].parent
      BY <1>1, <2>2, StoredIsJob, ResetType
    <3>2. jobs' = [jobs EXCEPT ![n] = j]
      BY <1>6, <2>2, <3>1 DEF applyDeleteExecutions
    <3>. QED BY <1>3, <2>2, <3>1, <3>2
  <2>. QED BY <2>1, <2>2
<1>7. ASSUME NEW e \in Starts, applySetExecution(e)
      PROVE  Goal
  BY <1>2, <1>7 DEF applySetExecution
<1>8. ASSUME NEW e \in Results, applyExecutionDone(e)
      PROVE  Goal
  <2>1. e \in Execution /\ e.job \in JobNames
    BY FSMAssumption DEF Results, Execution
  <2>2. CASE jobs' = jobs
    BY <1>2, <2>2
  <2>3. CASE /\ Stored(jobs, e.job)
             /\ jobs' = [jobs EXCEPT ![e.job] =
                            Count(jobs[e.job], computeStatus(execs', e), e)]
    <3>1. PICK st \in Statuses : st = computeStatus(execs', e)
      BY StatusType
    <3>2. PICK j \in Job : j = Count(jobs[e.job], st, e) /\ j.parent = jobs[e.job].parent
      BY <1>1, <2>1, <2>3, StoredIsJob, CountType
    <3>3. jobs' = [jobs EXCEPT ![e.job] = j]
      BY <2>3, <3>1, <3>2
    <3>. QED BY <1>3, <2>1, <2>3, <3>2, <3>3
  <2>. QED BY <1>8, <2>2, <2>3 DEF applyExecutionDone
<1>. QED BY <1>4, <1>5, <1>6, <1>7, <1>8 DEF Next

\* The empty store is the empty tree.
LEMMA InitIsTreeInit == Init => Tree!Init
BY DEF Init, Tree!Init, Stored

\* The state machine implements the job tree for every set of names and every
\* choice of what clients send, jobs with made-up DependentJobs included: a
\* log entry hangs one job under a stored one, removes one childless job, or
\* leaves every job where it is (src/dkron/store.go, SetJob and DeleteJob).
THEOREM TreeImplemented == Spec => ImplementsJobTree
<1>1. IInv /\ [Next]_vars => [Tree!Next]_(Tree!treeVars)
  <2>1. ASSUME IInv, Next
        PROVE  Tree!Next \/ UNCHANGED Tree!treeVars
    BY <2>1, StepIsTreeStep
  <2>2. ASSUME UNCHANGED vars
        PROVE  UNCHANGED Tree!treeVars
    BY <2>2, KeepIsStutter DEF vars
  <2>. QED BY <2>1, <2>2
<1>. QED BY InitIsTreeInit, Inductive, <1>1, PTL DEF Spec, ImplementsJobTree, Tree!Spec
============================================================================
