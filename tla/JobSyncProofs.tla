--------------------------- MODULE JobSyncProofs ---------------------------
(***************************************************************************)
(* Proofs about the scheduler and the store of one server, for every set   *)
(* of jobs, handlers and bounds.                                           *)
(***************************************************************************)
EXTENDS JobSync, FSMProofs, FiniteSetTheorems

(***************************************************************************)
(* The inductive invariants.  Editing: inside Scheduler.AddJob or          *)
(* RemoveJob.  Running: inside Agent.Run.                                  *)
(***************************************************************************)

Editing(h) == h.st \in {"find", "remove", "put"}
Running(h) == h.st \in {"entry", "store"}

\* What thread t holds in each place of its handler.
Shape(h, t) ==
    /\ Running(h) => h.op = "run"
    /\ Editing(h) => h.op \in {"set", "delete", "start"}
    /\ Editing(h) \/ Running(h) => h.name \in JobNames
    /\ (Editing(h) /\ h.op # "delete") \/ Running(h) => h.job \in Job
    /\ h.st \in {"read", "clear", "start"} => h.op = "start"
    /\ h.st # "idle" => (h.op = "start" <=> t = Boot)

SyncInv ==
    /\ IInv
    /\ SyncTypeOK
    /\ \A t \in Threads : Shape(thread[t], t)

\* A job that is not raced is the concern of one thread at most.
Apart ==
    \A n \in JobNames \ raced, t, u \in Threads : Concerns(t, n) /\ Concerns(u, n) => t = u

\* Identifiers name entries, and a thread that removes an entry has found one
\* of its job, whatever overlaps.
Numbered ==
    /\ \A e \in entries : e.id <= lastId
    /\ \A e, f \in entries : e.id = f.id => e = f
    /\ \A t \in Threads : thread[t].st = "remove" =>
          /\ thread[t].id <= lastId
          /\ \A e \in entries : e.id = thread[t].id => e.name = thread[t].name

\* The leader loop adds jobs to the scheduler that it has cleared.
Filling == thread[Boot].st \in {"start", "find", "remove", "put"}

\* A job has one entry at most; a thread that removes an entry of the job has
\* found that one, and a thread that adds one has removed it.
One(n) ==
    /\ \A e, f \in EntriesOf(n) : e = f
    /\ \A t \in Threads : thread[t].name = n /\ thread[t].st = "remove" =>
          \A e \in EntriesOf(n) : e.id = thread[t].id
    /\ \A t \in Threads : thread[t].name = n /\ thread[t].st = "put" => EntriesOf(n) = {}

Single ==
    /\ thread[Boot].st # "idle" => ~started
    /\ started \/ Filling => \A n \in JobNames \ raced : One(n)

SyncSingle == Apart /\ Numbered /\ Single

\* The stored n has the parent, schedule and configuration of j.
Like(j, n) ==
    /\ Stored(jobs, n)
    /\ j.parent = jobs[n].parent /\ j.schedule = jobs[n].schedule /\ j.config = jobs[n].config

\* What was read of n is as stored, n missing included.
Read(j, n) == IF Stored(jobs, n) THEN j # NoJob /\ Like(j, n) ELSE j = NoJob

\* n is a job that cron has to fire.
Wanted(n) == Stored(jobs, n) /\ jobs[n].parent = NoParent /\ ~jobs[n].config.disabled

\* The entries of n are those the store asks for.
InSync(n) ==
    /\ Wanted(n) <=> EntriesOf(n) # {}
    /\ \A e \in EntriesOf(n) : e.schedule = jobs[n].schedule /\ e.config = jobs[n].config

\* A thread inside AddJob or RemoveJob brings what the store holds.
Carries(t) ==
    IF thread[t].op = "delete" THEN ~Stored(jobs, thread[t].name)
    ELSE Like(thread[t].job, thread[t].name)

\* While the scheduler runs, the entries of n follow the store or a thread is
\* about to make them, and what threads hold of n is as stored.
Follows(n) ==
    /\ InSync(n) \/ \E t \in Calls : Editing(thread[t]) /\ thread[t].name = n
    /\ \A t \in Calls : Editing(thread[t]) /\ thread[t].name = n => Carries(t)
    /\ \A t \in Calls : Running(thread[t]) /\ thread[t].name = n => Like(thread[t].job, n)

\* While the leader fills its scheduler, n is still to be added, as stored and
\* without entries, or done, or the boot is at it.
Fills(n) ==
    \/ Read(thread[Boot].todo[n], n) /\ EntriesOf(n) = {} /\ ~(Editing(thread[Boot]) /\ thread[Boot].name = n)
    \/ thread[Boot].todo[n] = NoJob /\ InSync(n) /\ ~(Editing(thread[Boot]) /\ thread[Boot].name = n)
    \/ thread[Boot].todo[n] = NoJob /\ Editing(thread[Boot]) /\ thread[Boot].name = n /\ Carries(Boot)

InStep(n) ==
    /\ started => Follows(n)
    /\ thread[Boot].st = "clear" => Read(thread[Boot].todo[n], n)
    /\ Filling => Fills(n)

SyncFollows ==
    /\ StoreValid(jobs)
    /\ steady => leads
    /\ steady => \A n \in JobNames \ raced : InStep(n)

----------------------------------------------------------------------------
(***************************************************************************)
(* Types                                                                   *)
(***************************************************************************)

\* A thread that does nothing is well formed.
LEMMA IdleThread == Idle \in Thread /\ \A t : Shape(Idle, t)
<1>1. Nothing \in [JobNames -> Job \cup {NoJob}]
  BY DEF Nothing
<1>2. NoEntry \in Ids
  BY JobSyncAssumption DEF NoEntry, Ids
<1>. QED BY <1>1, <1>2 DEF Idle, Thread, Shape, Editing, Running

\* Replacing what one thread holds by something well formed.
LEMMA MoveKeepsShape ==
    ASSUME SyncInv, NEW t \in Threads, NEW to \in Thread, Shape(to, t), Move(t, to)
    PROVE  thread' \in [Threads -> Thread] /\ \A u \in Threads : Shape(thread'[u], u)
<1>1. thread \in [Threads -> Thread] /\ \A u \in Threads : Shape(thread[u], u)
  BY DEF SyncInv, SyncTypeOK
<1>2. thread' = [thread EXCEPT ![t] = to]
  BY DEF Move
<1>. QED BY <1>1, <1>2

\* The parts of SyncInv' that an action has to establish.
LEMMA SyncInvNext ==
    ASSUME IInv', entries' \in SUBSET Entry, lastId' \in Ids, leads' \in BOOLEAN,
           started' \in BOOLEAN, steady' \in BOOLEAN, raced' \in SUBSET JobNames,
           loop' \in {"none", "on", "stopping"},
           thread' \in [Threads -> Thread], \A u \in Threads : Shape(thread'[u], u)
    PROVE  SyncInv'
BY DEF SyncInv, SyncTypeOK, IInv

\* Each action keeps every thread and every entry well formed.
LEMMA SyncStep ==
    ASSUME SyncInv, SyncNext
    PROVE  SyncInv'
<1>1. /\ IInv /\ jobs \in JobMap
      /\ entries \in SUBSET Entry /\ lastId \in Ids
      /\ leads \in BOOLEAN /\ started \in BOOLEAN
      /\ loop \in {"none", "on", "stopping"} /\ steady \in BOOLEAN /\ raced \in SUBSET JobNames
      /\ thread \in [Threads -> Thread] /\ \A u \in Threads : Shape(thread[u], u)
  BY IInvFacts DEF SyncInv, SyncTypeOK
<1>2. Calls \subseteq Threads /\ Boot \in Threads /\ Boot \notin Calls
  BY JobSyncAssumption DEF Threads
<1>3. UNCHANGED store => IInv'
  BY <1>1, StutterIInv DEF store, vars
<1>4. ASSUME NEW t \in Calls, NEW i \in JobInputs, SetJobCall(t, i)
      PROVE  SyncInv'
  <2>1. i.name \in JobNames /\ i.job \in Job
    BY FSMAssumption
  <2>2. IInv'
    BY <1>1, <1>4, <2>1, SetJobKeeps DEF SetJobCall, SoundEntry
  <2> DEFINE to == [Idle EXCEPT !.st = "find", !.op = "set", !.name = i.name, !.job = i.job]
  <2>3. to \in Thread /\ Shape(to, t)
    BY <1>2, <2>1, IdleThread DEF Thread, Shape, Editing, Running
  <2>4. UNCHANGED thread \/ Move(t, to)
    BY <1>4 DEF SetJobCall
  <2>5. thread' \in [Threads -> Thread] /\ \A u \in Threads : Shape(thread'[u], u)
    BY <1>1, <1>2, <2>3, <2>4, MoveKeepsShape
  <2>. QED BY <1>1, <1>4, <2>1, <2>2, <2>5, SyncInvNext DEF SetJobCall, Begin, sched, raft
<1>5. ASSUME NEW t \in Calls, NEW n \in JobNames, DeleteJobCall(t, n)
      PROVE  SyncInv'
  <2>2. IInv'
    BY <1>1, <1>5, DeleteJobKeeps DEF DeleteJobCall, SoundEntry
  <2> DEFINE to == [Idle EXCEPT !.st = "find", !.op = "delete", !.name = n]
  <2>3. to \in Thread /\ Shape(to, t)
    BY <1>2, IdleThread DEF Thread, Shape, Editing, Running
  <2>4. UNCHANGED thread \/ Move(t, to)
    BY <1>5 DEF DeleteJobCall
  <2>5. thread' \in [Threads -> Thread] /\ \A u \in Threads : Shape(thread'[u], u)
    BY <1>1, <1>2, <2>3, <2>4, MoveKeepsShape
  <2>. QED BY <1>1, <1>5, <2>2, <2>5, SyncInvNext DEF DeleteJobCall, Begin, sched, raft
<1>6. ASSUME NEW t \in Calls, NEW n \in JobNames, RunRead(t, n)
      PROVE  SyncInv'
  <2> DEFINE to == [Idle EXCEPT !.st = "entry", !.op = "run", !.name = n, !.job = jobs[n]]
  <2>1. jobs[n] \in Job
    BY <1>1, <1>6, StoredIsJob DEF RunRead
  <2>3. to \in Thread /\ Shape(to, t)
    BY <1>2, <2>1, IdleThread DEF Thread, Shape, Editing, Running
  <2>5. thread' \in [Threads -> Thread] /\ \A u \in Threads : Shape(thread'[u], u)
    BY <1>2, <1>6, <2>3, MoveKeepsShape DEF RunRead
  <2>. QED BY <1>1, <1>3, <1>6, <2>5, SyncInvNext DEF RunRead, Begin, sched, raft
<1>7. ASSUME NEW t \in Calls, RunEntry(t)
      PROVE  SyncInv'
  <2>1. thread[t] \in Thread /\ thread[t].job \in Job /\ Shape(thread[t], t)
    BY <1>1, <1>2, <1>7 DEF RunEntry, Shape, Running
  <2>2. PICK to : /\ to = Idle \/ \E next \in NextTimes :
                                   to = [thread[t] EXCEPT !.st = "store", !.job.next = next]
                  /\ Move(t, to)
    BY <1>7 DEF RunEntry
  <2>3. to \in Thread /\ Shape(to, t)
    <3>1. CASE to = Idle
      BY <3>1, IdleThread
    <3>2. ASSUME NEW next \in NextTimes,
                 to = [thread[t] EXCEPT !.st = "store", !.job.next = next]
          PROVE  to \in Thread /\ Shape(to, t)
      <4>1. [thread[t].job EXCEPT !.next = next] \in Job
        BY <2>1, FSMAssumption DEF Job
      <4>. QED BY <1>7, <2>1, <3>2, <4>1 DEF RunEntry, Thread, Shape, Editing, Running
    <3>. QED BY <2>2, <3>1, <3>2
  <2>5. thread' \in [Threads -> Thread] /\ \A u \in Threads : Shape(thread'[u], u)
    BY <1>2, <2>2, <2>3, MoveKeepsShape
  <2>. QED BY <1>1, <1>3, <1>7, <2>5, SyncInvNext DEF RunEntry, sched, role, raft
<1>8. ASSUME NEW t \in Calls, RunStore(t)
      PROVE  SyncInv'
  <2>1. thread[t].name \in JobNames /\ thread[t].job \in Job
    BY <1>1, <1>2, <1>8 DEF RunStore, Shape, Running
  <2>2. IInv'
    BY <1>1, <1>3, <1>8, <2>1, SetJobKeeps DEF RunStore, SoundEntry
  <2>5. thread' \in [Threads -> Thread] /\ \A u \in Threads : Shape(thread'[u], u)
    BY <1>2, <1>8, IdleThread, MoveKeepsShape DEF RunStore
  <2>. QED BY <1>1, <1>8, <2>2, <2>5, SyncInvNext DEF RunStore, sched, role, raft
<1>9. ASSUME NEW t \in Threads, GetEntryJob(t)
      PROVE  SyncInv'
  <2>1. thread[t] \in Thread /\ Shape(thread[t], t) /\ thread[t].st = "find"
    BY <1>1, <1>9 DEF GetEntryJob
  <2>2. PICK to : /\ \/ to = [thread[t] EXCEPT !.st = "put"]
                     \/ \E e \in EntriesOf(thread[t].name) :
                           to = [thread[t] EXCEPT !.st = "remove", !.id = e.id]
                  /\ Move(t, to)
    BY <1>9 DEF GetEntryJob
  <2>3. to \in Thread /\ Shape(to, t)
    BY <1>1, <2>1, <2>2 DEF EntriesOf, Entry, Thread, Shape, Editing, Running
  <2>5. thread' \in [Threads -> Thread] /\ \A u \in Threads : Shape(thread'[u], u)
    BY <2>2, <2>3, MoveKeepsShape
  <2>. QED BY <1>1, <1>3, <1>9, <2>5, SyncInvNext DEF GetEntryJob, sched, role, raft
<1>10. ASSUME NEW t \in Threads, RemoveJob(t)
       PROVE  SyncInv'
  <2>1. thread[t] \in Thread /\ Shape(thread[t], t) /\ thread[t].st = "remove"
    BY <1>1, <1>10 DEF RemoveJob
  <2> DEFINE to == [thread[t] EXCEPT !.st = "put", !.id = NoEntry]
  <2>2. NoEntry \in Ids
    BY JobSyncAssumption DEF NoEntry, Ids
  <2>3. to \in Thread /\ Shape(to, t)
    BY <2>1, <2>2 DEF Thread, Shape, Editing, Running
  <2>5. thread' \in [Threads -> Thread] /\ \A u \in Threads : Shape(thread'[u], u)
    BY <1>10, <2>3, MoveKeepsShape DEF RemoveJob
  <2>6. entries' \in SUBSET Entry
    BY <1>1, <1>10 DEF RemoveJob
  <2>. QED BY <1>1, <1>3, <1>10, <2>5, <2>6, SyncInvNext DEF RemoveJob, role, raft
<1>11. ASSUME NEW t \in Threads, AddJob(t)
       PROVE  SyncInv'
  <2>1. thread[t] \in Thread /\ Shape(thread[t], t) /\ thread[t].st = "put"
    BY <1>1, <1>11 DEF AddJob
  <2>3. Returned(t) \in Thread /\ Shape(Returned(t), t)
    <3>1. NoEntry \in Ids
      BY JobSyncAssumption DEF NoEntry, Ids
    <3>. QED BY <2>1, <3>1, IdleThread DEF Returned, Thread, Shape, Editing, Running
  <2>5. thread' \in [Threads -> Thread] /\ \A u \in Threads : Shape(thread'[u], u)
    BY <1>11, <2>3, MoveKeepsShape DEF AddJob
  <2>6. entries' \in SUBSET Entry /\ lastId' \in Ids
    <3>1. CASE UNCHANGED sched
      BY <1>1, <3>1 DEF sched
    <3>2. CASE ~UNCHANGED sched
      <4>1. /\ lastId < MaxEntries /\ lastId' = lastId + 1 /\ thread[t].op # "delete"
            /\ entries' = entries \cup {[id |-> lastId + 1, name |-> thread[t].name,
                                         schedule |-> thread[t].job.schedule,
                                         config |-> thread[t].job.config]}
        BY <1>11, <3>2 DEF AddJob
      <4>2. lastId' \in Ids
        BY <1>1, <4>1, JobSyncAssumption DEF Ids
      <4>. QED BY <1>1, <2>1, <4>1, <4>2 DEF Entry, Shape, Editing, Job
    <3>. QED BY <3>1, <3>2
  <2>. QED BY <1>1, <1>3, <1>11, <2>5, <2>6, SyncInvNext DEF AddJob, role, raft
<1>12. ASSUME NEW n \in JobNames, StartAdd(n)
       PROVE  SyncInv'
  <2>1. /\ thread[Boot] \in Thread /\ Shape(thread[Boot], Boot) /\ thread[Boot].st = "start"
        /\ thread[Boot].todo[n] # NoJob
    BY <1>1, <1>2, <1>12 DEF StartAdd
  <2> DEFINE to == [thread[Boot] EXCEPT !.st = "find", !.name = n,
                                        !.job = thread[Boot].todo[n], !.todo[n] = NoJob]
  <2>2. thread[Boot].todo[n] \in Job /\ thread[Boot].todo \in [JobNames -> Job \cup {NoJob}]
    BY <2>1 DEF Thread
  <2>3. to \in Thread /\ Shape(to, Boot)
    BY <2>1, <2>2 DEF Thread, Shape, Editing, Running
  <2>5. thread' \in [Threads -> Thread] /\ \A u \in Threads : Shape(thread'[u], u)
    BY <1>2, <1>12, <2>3, MoveKeepsShape DEF StartAdd
  <2>. QED BY <1>1, <1>3, <1>12, <2>5, SyncInvNext DEF StartAdd, sched, role, raft
<1>13. CASE GetJobs
  <2> DEFINE to == [thread[Boot] EXCEPT !.st = "clear", !.todo = jobs]
  <2>3. to \in Thread /\ Shape(to, Boot)
    BY <1>1, <1>2, <1>13 DEF GetJobs, JobMap, Thread, Shape, Editing, Running
  <2>5. thread' \in [Threads -> Thread] /\ \A u \in Threads : Shape(thread'[u], u)
    BY <1>2, <1>13, <2>3, MoveKeepsShape DEF GetJobs
  <2>. QED BY <1>1, <1>3, <1>13, <2>5, SyncInvNext DEF GetJobs, sched, role, raft
<1>14. CASE ClearCron
  <2> DEFINE to == [thread[Boot] EXCEPT !.st = "start"]
  <2>3. to \in Thread /\ Shape(to, Boot)
    BY <1>1, <1>2, <1>14 DEF ClearCron, Thread, Shape, Editing, Running
  <2>5. thread' \in [Threads -> Thread] /\ \A u \in Threads : Shape(thread'[u], u)
    BY <1>2, <1>14, <2>3, MoveKeepsShape DEF ClearCron
  <2>. QED BY <1>1, <1>3, <1>14, <2>5, SyncInvNext DEF ClearCron, role, raft
<1>15. CASE StartEnds
  <2>5. thread' \in [Threads -> Thread] /\ \A u \in Threads : Shape(thread'[u], u)
    BY <1>2, <1>15, IdleThread, MoveKeepsShape DEF StartEnds
  <2>. QED BY <1>1, <1>3, <1>15, <2>5, SyncInvNext DEF StartEnds, sched, raft
<1>16. CASE Elected \/ Deposed \/ Won \/ Lost \/ RevokeLeadership
  <2>1. IInv' /\ UNCHANGED <<entries, lastId, raced, thread>>
    BY <1>3, <1>16 DEF Elected, Deposed, Won, Lost, RevokeLeadership, sched
  <2>2. leads' \in BOOLEAN /\ started' \in BOOLEAN /\ steady' \in BOOLEAN
    BY <1>1, <1>16, Zenon DEF Elected, Deposed, Won, Lost, RevokeLeadership, raft
  <2>3. loop' \in {"none", "on", "stopping"}
    BY <1>1, <1>16 DEF Elected, Deposed, Won, Lost, RevokeLeadership
  <2>. QED BY <1>1, <2>1, <2>2, <2>3, SyncInvNext
<1>18. CASE Barrier
  <2> DEFINE to == [Idle EXCEPT !.st = "read", !.op = "start"]
  <2>3. to \in Thread /\ Shape(to, Boot)
    BY IdleThread DEF Idle, Thread, Shape, Editing, Running
  <2>5. thread' \in [Threads -> Thread] /\ \A u \in Threads : Shape(thread'[u], u)
    BY <1>2, <1>18, <2>3, MoveKeepsShape DEF Barrier
  <2>. QED BY <1>1, <1>3, <1>18, <2>5, SyncInvNext DEF Barrier, sched
<1>17. CASE Elsewhere
  <2>1. IInv'
    <3>1. ASSUME NEW i \in JobInputs, applySetJob(i.name, i.job)
          PROVE  IInv'
      BY <1>1, <3>1, FSMAssumption, SetJobKeeps DEF SoundEntry
    <3>2. ASSUME NEW n \in JobNames, applyDeleteJob(n)
          PROVE  IInv'
      BY <1>1, <3>2, DeleteJobKeeps DEF SoundEntry
    <3>. QED BY <1>17, <3>1, <3>2 DEF Elsewhere
  <2>. QED BY <1>1, <1>17, <2>1, SyncInvNext DEF Elsewhere, syncVars
<1>. QED
  BY <1>4, <1>5, <1>6, <1>7, <1>8, <1>9, <1>10, <1>11, <1>12, <1>13, <1>14, <1>15, <1>16,
     <1>17, <1>18 DEF SyncNext

\* SyncInv is an invariant of every instance.
THEOREM SyncInvariant == SyncSpec => []SyncInv
<1>1. SyncInit => SyncInv
  <2> SUFFICES ASSUME SyncInit PROVE SyncInv
    OBVIOUS
  <2>1. IInv
    BY InitIInv DEF SyncInit
  <2>2. thread \in [Threads -> Thread] /\ \A u \in Threads : Shape(thread[u], u)
    BY IdleThread DEF SyncInit
  <2>3. /\ entries \in SUBSET Entry /\ leads \in BOOLEAN /\ started \in BOOLEAN
        /\ steady \in BOOLEAN /\ raced \in SUBSET JobNames
    BY Zenon DEF SyncInit
  <2>4. lastId \in Ids /\ loop \in {"none", "on", "stopping"}
    BY JobSyncAssumption DEF SyncInit, Ids
  <2>. QED BY <2>1, <2>2, <2>3, <2>4 DEF SyncInv, SyncTypeOK, IInv
<1>2. SyncInv /\ [SyncNext]_allVars => SyncInv'
  <2>1. ASSUME SyncInv, UNCHANGED allVars
        PROVE  SyncInv'
    <3>1. IInv'
      BY <2>1, StutterIInv DEF SyncInv, allVars
    <3>. QED BY <2>1, <3>1 DEF SyncInv, SyncTypeOK, IInv, allVars, syncVars
  <2>. QED BY <2>1, SyncStep
<1>. QED BY <1>1, <1>2, PTL DEF SyncSpec

\* No handler ever carries, and no entry of cron ever holds, anything but a job
\* that was sent or read, for any number of handlers, elections and identifiers.
THEOREM SyncTypes == SyncSpec => []SyncTypeOK
<1>1. SyncInv => SyncTypeOK
  BY DEF SyncInv
<1>. QED BY <1>1, SyncInvariant, PTL

----------------------------------------------------------------------------
(***************************************************************************)
(* One entry for each job whose calls do not overlap                       *)
(***************************************************************************)

\* A job that is not raced after a call for it has begun is the concern of no
\* thread when it begins.
LEMMA BeginsAlone ==
    ASSUME NEW n \in JobNames, Begin(n)
    PROVE  /\ raced \subseteq raced'
           /\ n \notin raced' => \A u \in Threads : ~Concerns(u, n)
BY DEF Begin

\* Steps by which no thread takes on a job.
LEMMA FewerKeepApart ==
    ASSUME Apart, raced \subseteq raced',
           \A n \in JobNames \ raced', u \in Threads : Concerns(u, n)' => Concerns(u, n)
    PROVE  Apart'
BY DEF Apart

\* A call for m begins.
LEMMA CallKeepsApart ==
    ASSUME thread \in [Threads -> Thread], Apart, NEW t \in Calls, NEW m \in JobNames, Begin(m),
           NEW to, to.name = m, Move(t, to)
    PROVE  Apart'
<1>1. Calls \subseteq Threads /\ t # Boot
  BY JobSyncAssumption DEF Threads
<1>2. \A u \in Threads : thread'[u] = IF u = t THEN to ELSE thread[u]
  BY <1>1 DEF Move
<1>3. raced \subseteq raced' /\ (m \notin raced' => \A u \in Threads : ~Concerns(u, m))
  BY BeginsAlone
<1> SUFFICES ASSUME NEW n \in JobNames \ raced', NEW u \in Threads, NEW v \in Threads,
                    Concerns(u, n)', Concerns(v, n)'
             PROVE  u = v
  BY DEF Apart
<1>4. \A w \in Threads \ {t} : Concerns(w, n)' => Concerns(w, n)
  BY <1>2 DEF Concerns
<1>5. n # m => ~Concerns(t, n)'
  BY <1>1, <1>2 DEF Concerns
<1>6. CASE n = m
  BY <1>3, <1>4, <1>6
<1>7. CASE n # m
  BY <1>3, <1>4, <1>5, <1>7 DEF Apart
<1>. QED BY <1>6, <1>7

\* A thread that moves on within its job, or ends.
LEMMA MoveKeepsApart ==
    ASSUME thread \in [Threads -> Thread], Apart, UNCHANGED raced, NEW t \in Threads, NEW to,
           Move(t, to),
           to.st = "idle" \/ (thread[t].st # "idle" /\ (t = Boot \/ to.name = thread[t].name))
    PROVE  Apart'
<1>1. \A u \in Threads : thread'[u] = IF u = t THEN to ELSE thread[u]
  BY DEF Move
<1>2. \A n \in JobNames, u \in Threads : Concerns(u, n)' => Concerns(u, n)
  BY <1>1 DEF Concerns
<1>. QED BY <1>2, FewerKeepApart

\* A thread that moves to a place where it relies on no entry.
LEMMA MoveKeepsNumbered ==
    ASSUME thread \in [Threads -> Thread], Numbered, UNCHANGED <<entries, lastId>>,
           NEW t \in Threads, NEW to, Move(t, to), to.st # "remove"
    PROVE  Numbered'
<1>1. \A u \in Threads : thread'[u] = IF u = t THEN to ELSE thread[u]
  BY DEF Move
<1>. QED BY <1>1 DEF Numbered

\* Steps that leave the entries of n and the threads that rely on them.
LEMMA KeepsOne ==
    ASSUME NEW n, One(n), EntriesOf(n)' = EntriesOf(n),
           \A u \in Threads : thread'[u].st \in {"remove", "put"} /\ thread'[u].name = n
                                 => thread'[u] = thread[u]
    PROVE  One(n)'
BY DEF One

\* A thread that moves on to a place where it relies on no entry.
LEMMA MoveKeepsSingle ==
    ASSUME thread \in [Threads -> Thread], Single, raced \subseteq raced', UNCHANGED entries,
           NEW t \in Threads, NEW to, Move(t, to), to.st \notin {"remove", "put"},
           thread'[Boot].st # "idle" => ~started',
           started' \/ Filling' => started \/ Filling
    PROVE  Single'
<1>1. \A u \in Threads : thread'[u] = IF u = t THEN to ELSE thread[u]
  BY DEF Move
<1>2. ASSUME NEW n \in JobNames \ raced', started' \/ Filling'
      PROVE  One(n)'
  <2>1. One(n) /\ EntriesOf(n)' = EntriesOf(n)
    BY <1>2 DEF Single, EntriesOf
  <2>. QED BY <1>1, <2>1, KeepsOne
<1>. QED BY <1>2 DEF Single

\* Steps of other parts keep the cron entries and the threads as they were.
LEMMA SameSingle ==
    ASSUME SyncSingle, UNCHANGED <<entries, lastId, thread>>, raced \subseteq raced',
           started' => started
    PROVE  SyncSingle'
<1>1. Apart'
  <2>1. \A n \in JobNames, u \in Threads : Concerns(u, n)' => Concerns(u, n)
    BY DEF Concerns
  <2>. QED BY <2>1, FewerKeepApart DEF SyncSingle
<1>2. Numbered'
  BY DEF SyncSingle, Numbered
<1>3. Single'
  BY DEF SyncSingle, Single, Filling, One, EntriesOf
<1>. QED BY <1>1, <1>2, <1>3 DEF SyncSingle

\* Each action keeps the threads apart and the entries single.
LEMMA SingleStep ==
    ASSUME SyncInv, SyncSingle, SyncNext
    PROVE  SyncSingle'
<1>1. /\ thread \in [Threads -> Thread] /\ entries \in SUBSET Entry /\ lastId \in Nat
      /\ \A u \in Threads : Shape(thread[u], u)
  BY JobSyncAssumption DEF SyncInv, SyncTypeOK, Ids
<1>2. Calls \subseteq Threads /\ Boot \in Threads /\ Boot \notin Calls
  BY JobSyncAssumption DEF Threads
<1>3. Idle.st = "idle"
  BY DEF Idle
<1>4. Apart /\ Numbered /\ Single
  BY DEF SyncSingle
<1>5. ASSUME NEW t \in Calls, NEW to, Move(t, to), UNCHANGED started
      PROVE  /\ thread'[Boot] = thread[Boot]
             /\ thread'[Boot].st # "idle" => ~started'
             /\ started' \/ Filling' => started \/ Filling
  <2>1. thread'[Boot] = thread[Boot]
    BY <1>1, <1>2, <1>5 DEF Move
  <2>. QED BY <1>4, <1>5, <2>1 DEF Single, Filling
<1>6. ASSUME NEW t \in Calls, NEW to, NEW n \in JobNames, Begin(n), Move(t, to),
             to.name = n, to.st \notin {"remove", "put"}, UNCHANGED <<entries, lastId, started>>
      PROVE  SyncSingle'
  <2>1. Apart'
    BY <1>1, <1>4, <1>6, CallKeepsApart
  <2>2. Numbered'
    BY <1>1, <1>2, <1>4, <1>6, MoveKeepsNumbered
  <2>3. Single'
    BY <1>1, <1>2, <1>4, <1>5, <1>6, BeginsAlone, MoveKeepsSingle
  <2>. QED BY <2>1, <2>2, <2>3 DEF SyncSingle
<1>7. ASSUME NEW t \in Threads, NEW to, Move(t, to), UNCHANGED <<entries, lastId, raced>>,
             \/ to.st = "idle"
             \/ /\ thread[t].st # "idle" /\ to.st \notin {"remove", "put"}
                /\ t = Boot \/ to.name = thread[t].name,
             thread'[Boot].st # "idle" => ~started',
             started' \/ Filling' => started \/ Filling
      PROVE  SyncSingle'
  BY <1>1, <1>4, <1>7, MoveKeepsApart, MoveKeepsNumbered, MoveKeepsSingle DEF SyncSingle
<1>8. ASSUME NEW t \in Calls, NEW i \in JobInputs, SetJobCall(t, i)
      PROVE  SyncSingle'
  <2>1. PICK to : to = [Idle EXCEPT !.st = "find", !.op = "set", !.name = i.name, !.job = i.job]
    OBVIOUS
  <2>2. to.name = i.name /\ to.st = "find" /\ i.name \in JobNames
    BY <2>1, FSMAssumption DEF Idle
  <2>3. Begin(i.name) /\ (UNCHANGED thread \/ Move(t, to)) /\ UNCHANGED <<entries, lastId, started>>
    BY <1>8, <2>1 DEF SetJobCall, sched
  <2>. QED BY <1>6, <2>2, <2>3, SameSingle, BeginsAlone
<1>9. ASSUME NEW t \in Calls, NEW n \in JobNames, DeleteJobCall(t, n)
      PROVE  SyncSingle'
  <2>1. PICK to : to = [Idle EXCEPT !.st = "find", !.op = "delete", !.name = n]
    OBVIOUS
  <2>2. to.name = n /\ to.st = "find"
    BY <2>1 DEF Idle
  <2>3. Begin(n) /\ (UNCHANGED thread \/ Move(t, to)) /\ UNCHANGED <<entries, lastId, started>>
    BY <1>9, <2>1 DEF DeleteJobCall, sched
  <2>. QED BY <1>6, <2>2, <2>3, SameSingle, BeginsAlone
<1>10. ASSUME NEW t \in Calls, NEW n \in JobNames, RunRead(t, n)
       PROVE  SyncSingle'
  <2>1. PICK to : to = [Idle EXCEPT !.st = "entry", !.op = "run", !.name = n, !.job = jobs[n]]
    OBVIOUS
  <2>2. to.name = n /\ to.st = "entry"
    BY <2>1 DEF Idle
  <2>3. Begin(n) /\ Move(t, to) /\ UNCHANGED <<entries, lastId, started>>
    BY <1>10, <2>1 DEF RunRead, sched
  <2>. QED BY <1>6, <2>2, <2>3
<1>11. ASSUME NEW t \in Calls, RunEntry(t)
       PROVE  SyncSingle'
  <2>1. PICK to : /\ to = Idle \/ \E next \in NextTimes :
                                   to = [thread[t] EXCEPT !.st = "store", !.job.next = next]
                  /\ Move(t, to)
    BY <1>11 DEF RunEntry
  <2>2. /\ thread[t] \in Thread /\ thread[t].st = "entry"
        /\ UNCHANGED <<entries, lastId, raced, started>>
    BY <1>1, <1>2, <1>11 DEF RunEntry, sched, role
  <2>3. to.st = "idle" \/ (to.st = "store" /\ to.name = thread[t].name)
    BY <1>3, <2>1, <2>2 DEF Thread
  <2>. QED BY <1>2, <1>5, <1>7, <2>1, <2>2, <2>3
<1>12. ASSUME NEW t \in Calls, RunStore(t)
       PROVE  SyncSingle'
  <2>1. Move(t, Idle) /\ UNCHANGED <<entries, lastId, raced, started>>
    BY <1>12 DEF RunStore, sched, role
  <2>. QED BY <1>2, <1>3, <1>5, <1>7, <2>1
\* A thread inside AddJob, and what moves with it.
<1>13. ASSUME NEW t \in Threads, Editing(thread[t]), NEW to, Move(t, to), UNCHANGED started,
              t = Boot => to.st \in {"start", "find", "remove", "put"}
       PROVE  /\ thread'[Boot].st # "idle" => ~started'
              /\ started' \/ Filling' => started \/ Filling
              /\ thread[t].name \in JobNames /\ Concerns(t, thread[t].name)
              /\ \A u \in Threads : thread'[u] = IF u = t THEN to ELSE thread[u]
              /\ thread[t].name \notin raced => \A u \in Threads \ {t} : thread[u].name = thread[t].name =>
                                                   thread[u].st = "idle"
  <2>1. \A u \in Threads : thread'[u] = IF u = t THEN to ELSE thread[u]
    BY <1>1, <1>13 DEF Move
  <2>2. thread[t].name \in JobNames /\ thread[t].st # "idle"
    BY <1>1, <1>13 DEF Shape, Editing
  <2>3. t = Boot => Filling
    BY <1>13 DEF Filling, Editing
  <2>4. /\ thread'[Boot].st # "idle" => ~started'
        /\ started' \/ Filling' => started \/ Filling
    BY <1>2, <1>4, <1>13, <2>1, <2>2, <2>3 DEF Single, Filling
  <2>5. thread[t].name \notin raced => \A u \in Threads \ {t} : thread[u].name = thread[t].name =>
                                                   thread[u].st = "idle"
    BY <1>4, <2>2 DEF Apart, Concerns
  <2>. QED BY <2>1, <2>2, <2>4, <2>5 DEF Concerns
<1>14. ASSUME NEW t \in Threads, GetEntryJob(t)
       PROVE  SyncSingle'
  <2>1. PICK to : /\ \/ /\ to = [thread[t] EXCEPT !.st = "put"]
                        /\ EntriesOf(thread[t].name) = {}
                     \/ \E e \in EntriesOf(thread[t].name) :
                           to = [thread[t] EXCEPT !.st = "remove", !.id = e.id]
                  /\ Move(t, to)
    BY <1>14 DEF GetEntryJob
  <2>2. /\ thread[t] \in Thread /\ thread[t].st = "find" /\ Editing(thread[t])
        /\ UNCHANGED <<entries, lastId, raced, started>>
    BY <1>1, <1>14 DEF GetEntryJob, sched, role, Editing
  <2>3. /\ to.name = thread[t].name /\ to.st \in {"put", "remove"}
        /\ \/ to.st = "put" /\ EntriesOf(thread[t].name) = {}
           \/ \E e \in entries : to.st = "remove" /\ to.id = e.id /\ to.name = e.name
    BY <2>1, <2>2 DEF Thread, EntriesOf
  <2>4. Apart'
    BY <1>1, <1>4, <2>1, <2>2, <2>3, MoveKeepsApart
  <2>5. \A u \in Threads : thread'[u] = IF u = t THEN to ELSE thread[u]
    BY <1>1, <2>1 DEF Move
  <2>6. Numbered'
    BY <1>4, <2>2, <2>3, <2>5 DEF Numbered
  <2>7. ASSUME NEW n \in JobNames \ raced', started' \/ Filling'
        PROVE  One(n)'
    <3>1. One(n) /\ EntriesOf(n)' = EntriesOf(n)
      BY <1>4, <1>13, <2>1, <2>2, <2>3, <2>7 DEF Single, EntriesOf
    <3>2. CASE n # thread[t].name
      BY <2>3, <2>5, <3>1, <3>2, KeepsOne
    <3>3. CASE n = thread[t].name
      BY <2>2, <2>3, <2>5, <3>1, <3>3 DEF One, EntriesOf
    <3>. QED BY <3>2, <3>3
  <2>8. Single'
    BY <1>13, <2>1, <2>2, <2>3, <2>7 DEF Single
  <2>. QED BY <2>4, <2>6, <2>8 DEF SyncSingle
<1>15. ASSUME NEW t \in Threads, RemoveJob(t)
       PROVE  SyncSingle'
  <2>0. PICK to : to = [thread[t] EXCEPT !.st = "put", !.id = NoEntry]
    OBVIOUS
  <2>1. /\ thread[t] \in Thread /\ thread[t].st = "remove" /\ UNCHANGED <<lastId, raced, started>>
        /\ entries' = {e \in entries : e.id # thread[t].id} /\ Move(t, to) /\ Editing(thread[t])
    BY <1>1, <1>15, <2>0 DEF RemoveJob, role, Editing
  <2>2. to.name = thread[t].name /\ to.st = "put"
    BY <2>0, <2>1 DEF Thread
  <2>3. Apart'
    BY <1>1, <1>4, <2>1, <2>2, MoveKeepsApart
  <2>4. \A u \in Threads : thread'[u] = IF u = t THEN to ELSE thread[u]
    BY <1>1, <2>1 DEF Move
  <2>5. Numbered'
    BY <1>4, <2>1, <2>2, <2>4 DEF Numbered
  <2>6. ASSUME NEW n \in JobNames \ raced', started' \/ Filling'
        PROVE  One(n)'
    <3>1. One(n)
      BY <1>4, <1>13, <2>1, <2>2, <2>6 DEF Single
    <3>2. CASE n # thread[t].name
      <4>1. EntriesOf(n)' = EntriesOf(n)
        BY <1>4, <2>1, <3>2 DEF Numbered, EntriesOf
      <4>. QED BY <2>2, <2>4, <3>1, <3>2, <4>1, KeepsOne
    <3>3. CASE n = thread[t].name
      <4>1. EntriesOf(n)' = {}
        BY <2>1, <3>1, <3>3 DEF One, EntriesOf
      <4>. QED BY <4>1 DEF One
    <3>. QED BY <3>2, <3>3
  <2>7. Single'
    BY <1>13, <2>1, <2>2, <2>6 DEF Single
  <2>. QED BY <2>3, <2>5, <2>7 DEF SyncSingle
<1>16. ASSUME NEW t \in Threads, AddJob(t)
       PROVE  SyncSingle'
  <2>1. /\ thread[t] \in Thread /\ Shape(thread[t], t) /\ thread[t].st = "put"
        /\ Move(t, Returned(t)) /\ Editing(thread[t]) /\ UNCHANGED <<raced, started>>
    BY <1>1, <1>16 DEF AddJob, Editing, role
  <2>2. PICK to : to = Returned(t)
    OBVIOUS
  <2>3. /\ to.st = "idle" \/ (to.st = "start" /\ t = Boot)
        /\ t = Boot => to.st = "start"
    BY <1>3, <2>1, <2>2 DEF Returned, Thread, Shape
  <2>4. /\ thread'[Boot].st # "idle" => ~started'
        /\ started' \/ Filling' => started \/ Filling
    BY <1>13, <2>1, <2>2, <2>3
  <2>5. CASE UNCHANGED sched
    BY <1>7, <2>1, <2>2, <2>3, <2>4, <2>5 DEF sched
  <2>6. CASE ~UNCHANGED sched
    <3>0. PICK new : new = [id |-> lastId + 1, name |-> thread[t].name,
                            schedule |-> thread[t].job.schedule, config |-> thread[t].job.config]
      OBVIOUS
    <3>1. lastId' = lastId + 1 /\ entries' = entries \cup {new}
      BY <1>16, <2>6, <3>0 DEF AddJob
    <3>2. new.id = lastId + 1 /\ new.name = thread[t].name
      BY <3>0
    <3>3. Apart'
      BY <1>1, <1>4, <2>1, <2>2, <2>3, MoveKeepsApart
    <3>4. \A u \in Threads : thread'[u] = IF u = t THEN to ELSE thread[u]
      BY <1>1, <2>1, <2>2 DEF Move
    <3>5. \A e \in entries : e.id \in Nat /\ e.id <= lastId
      BY <1>1, <1>4, JobSyncAssumption DEF Numbered, Entry, Ids
    <3>6. Numbered'
      <4>1. \A u \in Threads : thread'[u].st = "remove" =>
                /\ thread'[u] = thread[u] /\ thread[u].id \in Nat
        BY <1>1, <2>3, <3>4, JobSyncAssumption DEF Thread, Ids
      <4>2. /\ \A e \in entries' : e.id <= lastId'
            /\ \A e, f \in entries' : e.id = f.id => e = f
        BY <1>1, <1>4, <3>1, <3>2, <3>5 DEF Numbered
      <4>3. ASSUME NEW u \in Threads, thread'[u].st = "remove"
            PROVE  /\ thread'[u].id <= lastId'
                   /\ \A e \in entries' : e.id = thread'[u].id => e.name = thread'[u].name
        BY <1>1, <1>4, <3>1, <3>2, <4>1, <4>3 DEF Numbered
      <4>. QED BY <4>2, <4>3 DEF Numbered
    <3>7. ASSUME NEW n \in JobNames \ raced', started' \/ Filling'
          PROVE  One(n)'
      <4>1. One(n)
        BY <1>4, <2>1, <2>4, <3>7 DEF Single
      <4>2. CASE n # thread[t].name
        <5>1. EntriesOf(n)' = EntriesOf(n)
          BY <3>1, <3>2, <4>2 DEF EntriesOf
        <5>. QED BY <2>3, <3>4, <4>1, <5>1, KeepsOne
      <4>3. CASE n = thread[t].name
        <5>1. EntriesOf(n)' = {new}
          BY <2>1, <3>1, <3>2, <4>1, <4>3 DEF One, EntriesOf
        <5>2. \A u \in Threads : thread'[u].st \in {"remove", "put"} => thread'[u].name # n
          BY <1>13, <2>1, <2>2, <2>3, <3>4, <3>7, <4>3
        <5>. QED BY <5>1, <5>2 DEF One
      <4>. QED BY <4>2, <4>3
    <3>. QED BY <2>4, <3>3, <3>6, <3>7 DEF SyncSingle, Single
  <2>. QED BY <2>5, <2>6
<1>17. ASSUME NEW n \in JobNames, StartAdd(n)
       PROVE  SyncSingle'
  <2>0. PICK to : to = [thread[Boot] EXCEPT !.st = "find", !.name = n,
                                            !.job = thread[Boot].todo[n], !.todo[n] = NoJob]
    OBVIOUS
  <2>1. /\ thread[Boot].st = "start" /\ Move(Boot, to)
        /\ UNCHANGED <<entries, lastId, raced, started>>
    BY <1>17, <2>0 DEF StartAdd, sched, role
  <2>2. to.st = "find" /\ thread'[Boot] = to
    BY <1>1, <1>2, <2>0, <2>1 DEF Thread, Move
  <2>. QED BY <1>2, <1>4, <1>7, <2>1, <2>2 DEF Single, Filling
<1>18. CASE GetJobs
  <2>0. PICK to : to = [thread[Boot] EXCEPT !.st = "clear", !.todo = jobs]
    OBVIOUS
  <2>1. /\ thread[Boot].st = "read" /\ Move(Boot, to)
        /\ UNCHANGED <<entries, lastId, raced, started>>
    BY <1>18, <2>0 DEF GetJobs, sched, role
  <2>2. to.st = "clear" /\ thread'[Boot] = to
    BY <1>1, <1>2, <2>0, <2>1 DEF Thread, Move
  <2>. QED BY <1>2, <1>4, <1>7, <2>1, <2>2 DEF Single, Filling
<1>19. CASE ClearCron
  <2>0. PICK to : to = [thread[Boot] EXCEPT !.st = "start"]
    OBVIOUS
  <2>1. /\ thread[Boot].st = "clear" /\ Move(Boot, to) /\ entries' = {}
        /\ UNCHANGED <<lastId, raced, started>>
    BY <1>19, <2>0 DEF ClearCron, role
  <2>2. to.st = "start"
    BY <1>1, <1>2, <2>0 DEF Thread
  <2>3. Apart'
    BY <1>1, <1>2, <1>4, <2>1, MoveKeepsApart
  <2>4. \A u \in Threads : thread'[u] = IF u = Boot THEN to ELSE thread[u]
    BY <1>1, <1>2, <2>1 DEF Move
  <2>5. Numbered'
    BY <1>4, <2>1, <2>2, <2>4 DEF Numbered
  <2>6. Single'
    <3>1. \A n \in JobNames : One(n)'
      BY <2>1 DEF One, EntriesOf
    <3>2. ~started'
      BY <1>4, <2>1 DEF Single
    <3>. QED BY <3>1, <3>2 DEF Single
  <2>. QED BY <2>3, <2>5, <2>6 DEF SyncSingle
<1>20. CASE StartEnds
  <2>1. /\ thread[Boot].st = "start" /\ Move(Boot, Idle)
        /\ UNCHANGED <<entries, lastId, raced>>
    BY <1>20 DEF StartEnds, sched
  <2>2. thread'[Boot] = Idle
    BY <1>1, <1>2, <2>1 DEF Move
  <2>. QED BY <1>2, <1>3, <1>7, <2>1, <2>2 DEF Filling
<1>21. CASE Barrier
  <2>0. PICK to : to = [Idle EXCEPT !.st = "read", !.op = "start"]
    OBVIOUS
  <2>1. /\ Move(Boot, to) /\ UNCHANGED <<entries, lastId, started>> /\ ~started
        /\ raced' = {n \in JobNames : \E u \in Threads : Concerns(u, n)}
    BY <1>21, <2>0 DEF Barrier, sched
  <2>2. to.st = "read"
    BY <2>0 DEF Idle
  <2>3. \A u \in Threads : thread'[u] = IF u = Boot THEN to ELSE thread[u]
    BY <1>1, <1>2, <2>1 DEF Move
  <2>4. Apart'
    BY <2>1, <2>3 DEF Apart, Concerns
  <2>5. Numbered'
    BY <1>1, <1>2, <1>4, <2>1, <2>2, MoveKeepsNumbered
  <2>6. Single'
    BY <1>2, <2>1, <2>2, <2>3 DEF Single, Filling
  <2>. QED BY <2>4, <2>5, <2>6 DEF SyncSingle
<1>22. CASE Elected \/ Deposed \/ Won \/ Lost \/ RevokeLeadership \/ Elsewhere
  <2>1. UNCHANGED <<entries, lastId, thread, raced>> /\ (started' => started)
    BY <1>22 DEF Elected, Deposed, Won, Lost, RevokeLeadership, Elsewhere, sched, syncVars
  <2>. QED BY <2>1, SameSingle
<1>. QED
  BY <1>8, <1>9, <1>10, <1>11, <1>12, <1>14, <1>15, <1>16, <1>17, <1>18, <1>19, <1>20, <1>21,
     <1>22 DEF SyncNext

\* SyncSingle is an invariant of every instance.
LEMMA SingleInvariant == SyncSpec => []SyncSingle
<1>1. SyncInit => SyncSingle
  <2> SUFFICES ASSUME SyncInit PROVE SyncSingle
    OBVIOUS
  <2>1. Boot \in Threads /\ \A t \in Threads : thread[t].st = "idle"
    BY DEF SyncInit, Idle, Threads
  <2>. QED BY <2>1 DEF SyncInit, SyncSingle, Apart, Numbered, Single, Concerns, Filling
<1>2. SyncInv /\ SyncSingle /\ [SyncNext]_allVars => SyncSingle'
  BY SingleStep, SameSingle DEF allVars, syncVars
<1>. QED BY <1>1, <1>2, SyncInvariant, PTL DEF SyncSpec

\* While the scheduler runs, a job whose calls did not overlap since it was
\* filled has one cron entry at most, for any number of jobs, handlers,
\* elections and overlapping calls for other jobs: AddJob takes out the entry
\* that GetEntryJob found, ClearCron what earlier terms left, and a RemoveJob
\* that is overtaken never hits the entry of another job.
THEOREM FiredOnce == SyncSpec => []FiresOnce
<1>1. SyncSingle => FiresOnce
  <2> SUFFICES ASSUME SyncSingle, started, NEW n \in JobNames \ raced
               PROVE  Cardinality(EntriesOf(n)) <= 1
    BY DEF FiresOnce
  <2>1. CASE EntriesOf(n) = {}
    BY <2>1, FS_EmptySet
  <2>2. ASSUME NEW e \in EntriesOf(n)
        PROVE  Cardinality(EntriesOf(n)) <= 1
    <3>1. EntriesOf(n) = {e}
      BY DEF SyncSingle, Single, One
    <3>2. Cardinality({e}) = 1
      BY FS_Singleton
    <3>. QED BY <3>1, <3>2
  <2>. QED BY <2>1, <2>2
<1>. QED BY <1>1, SingleInvariant, PTL

----------------------------------------------------------------------------
(***************************************************************************)
(* The scheduler follows the store                                         *)
(***************************************************************************)

\* What Job.Validate of the API and the console lets through.
ValidSent == \A i \in JobInputs : Validate(i.name, i.job)

\* Entries and stored fields that stay keep a job in step.
LEMMA InSyncKept ==
    ASSUME NEW n \in JobNames, OwnKept(n), EntriesOf(n)' = EntriesOf(n)
    PROVE  /\ InSync(n) => InSync(n)'
           /\ \A j : Like(j, n) => Like(j, n)'
           /\ \A j : Read(j, n) => Read(j, n)'
BY DEF OwnKept, InSync, Wanted, Like, Read

\* A call for another job, or a call that is refused.
LEMMA OtherInStep ==
    ASSUME NEW n \in JobNames, InStep(n), OwnKept(n), EntriesOf(n)' = EntriesOf(n),
           UNCHANGED started, thread'[Boot] = thread[Boot],
           \A u \in Calls : \/ thread'[u] = thread[u]
                            \/ /\ thread[u].st = "idle" \/ thread[u].name # n
                               /\ thread'[u].st = "idle" \/ thread'[u].name # n
    PROVE  InStep(n)'
<1>1. /\ InSync(n) => InSync(n)'
      /\ \A j : Like(j, n) => Like(j, n)'
      /\ \A j : Read(j, n) => Read(j, n)'
  BY InSyncKept
<1>2. ASSUME NEW u \in Calls \cup {Boot}, thread'[u] = thread[u], thread[u].name = n, Carries(u)
      PROVE  Carries(u)'
  BY <1>1, <1>2 DEF Carries, OwnKept
<1>3. started' => Follows(n)'
  <2> SUFFICES ASSUME Follows(n) PROVE Follows(n)'
    BY DEF InStep
  <2>1. InSync(n)' \/ \E t \in Calls : Editing(thread'[t]) /\ thread'[t].name = n
    BY <1>1 DEF Follows, Editing
  <2>2. \A t \in Calls : Editing(thread'[t]) /\ thread'[t].name = n => Carries(t)'
    BY <1>2 DEF Follows, Editing
  <2>3. \A t \in Calls : Running(thread'[t]) /\ thread'[t].name = n => Like(thread[t].job, n)'
    BY <1>1 DEF Follows, Running
  <2>. QED BY <2>1, <2>2, <2>3 DEF Follows
<1>4. thread'[Boot].st = "clear" => Read(thread[Boot].todo[n], n)'
  BY <1>1 DEF InStep
<1>5. Filling' => Fills(n)'
  BY <1>1, <1>2 DEF InStep, Filling, Fills
<1>. QED BY <1>3, <1>4, <1>5 DEF InStep

\* A call for n that nothing else concerns.
LEMMA CallInStep ==
    ASSUME SyncInv, NEW n \in JobNames, NEW t \in Calls, NEW to, Move(t, to),
           \A u \in Threads \ {t} : ~Concerns(u, n),
           started' => /\ InSync(n)' \/ (Editing(to) /\ to.name = n)
                       /\ Editing(to) => Carries(t)'
                       /\ Running(to) => Like(to.job, n)'
    PROVE  InStep(n)'
<1>1. Calls \subseteq Threads /\ Boot \in Threads /\ Boot # t
  BY JobSyncAssumption DEF Threads
<1>2. thread \in [Threads -> Thread]
  BY DEF SyncInv, SyncTypeOK
<1>3. \A u \in Threads : thread'[u] = IF u = t THEN to ELSE thread[u]
  BY <1>1, <1>2 DEF Move
<1>4. thread'[Boot].st = "idle"
  BY <1>1, <1>3 DEF Concerns
<1>5. \A u \in Calls \ {t} : Editing(thread'[u]) \/ Running(thread'[u]) => thread'[u].name # n
  BY <1>1, <1>3 DEF Concerns, Editing, Running
<1>6. started' => Follows(n)'
  BY <1>1, <1>3, <1>5 DEF Follows
<1>. QED BY <1>4, <1>6 DEF InStep, Filling

\* The end of AddJob and RemoveJob leaves the entry that the store asks for.
LEMMA AddsWanted ==
    ASSUME StoreValid(jobs), NEW t \in Threads, AddJob(t), NEW m \in JobNames,
           m = thread[t].name, EntriesOf(m) = {}, Carries(t)
    PROVE  InSync(m)'
<1>1. UNCHANGED jobs
  BY DEF AddJob, store
<1>0. PICK new : new = [id |-> lastId + 1, name |-> thread[t].name,
                        schedule |-> thread[t].job.schedule, config |-> thread[t].job.config]
  OBVIOUS
<1>2. /\ new.name = m /\ new.schedule = thread[t].job.schedule
      /\ new.config = thread[t].job.config
  BY <1>0
<1>3. CASE Wanted(m)
  <2>1. /\ thread[t].op # "delete" /\ thread[t].job.parent = NoParent
        /\ thread[t].job.schedule = jobs[m].schedule /\ thread[t].job.config = jobs[m].config
        /\ ~jobs[m].config.disabled
    BY <1>3 DEF Carries, Like, Wanted
  <2>2. jobs[m].schedule # NoSchedule
    BY <1>3 DEF Wanted, StoreValid, Validate
  <2>3. entries' = entries \cup {new}
    BY <1>0, <2>1, <2>2 DEF AddJob
  <2>4. EntriesOf(m)' = {new}
    BY <1>2, <2>3 DEF EntriesOf
  <2>. QED BY <1>1, <1>2, <1>3, <2>1, <2>4 DEF InSync, Wanted
<1>4. CASE ~Wanted(m)
  <2>1. UNCHANGED entries
    BY <1>4 DEF AddJob, Carries, Like, Wanted, sched
  <2>. QED BY <1>1, <1>4, <2>1 DEF InSync, Wanted, EntriesOf
<1>. QED BY <1>3, <1>4

\* The handlers keep every job in step whose calls do not overlap.
LEMMA CallStep ==
    ASSUME ValidSent, SyncInv, SyncSingle, StoreValid(jobs), steady => leads, steady, NEW t \in Calls,
           \/ \E i \in JobInputs : SetJobCall(t, i)
           \/ \E m \in JobNames : DeleteJobCall(t, m) \/ RunRead(t, m)
           \/ RunEntry(t) \/ RunStore(t) \/ GetEntryJob(t) \/ RemoveJob(t) \/ AddJob(t),
           NEW n \in JobNames, n \notin raced', n \notin raced => InStep(n)
    PROVE  InStep(n)'
<1>1. Calls \subseteq Threads /\ Boot \in Threads /\ Boot # t /\ Threads = Calls \cup {Boot}
  BY JobSyncAssumption DEF Threads
<1>2. /\ IInv /\ thread \in [Threads -> Thread] /\ thread[t] \in Thread /\ Shape(thread[t], t)
      /\ jobs \in JobMap
  BY <1>1, IInvFacts DEF SyncInv, SyncTypeOK
<1>3. Apart /\ Numbered /\ Single /\ leads
  BY DEF SyncSingle
<1>4. Idle.st = "idle" /\ ~Editing(Idle) /\ ~Running(Idle)
  BY DEF Idle, Editing, Running
<1>5. raced \subseteq raced' /\ InStep(n)
  BY BeginsAlone, FSMAssumption
     DEF SetJobCall, DeleteJobCall, RunRead, RunEntry, RunStore, GetEntryJob, RemoveJob, AddJob, role
<1>6. UNCHANGED jobs => \A m \in JobNames : OwnKept(m)
  BY DEF OwnKept
<1>7. UNCHANGED entries => \A m \in JobNames : EntriesOf(m)' = EntriesOf(m)
  BY DEF EntriesOf
<1>8. ASSUME NEW to, Move(t, to)
      PROVE  \A u \in Threads : thread'[u] = IF u = t THEN to ELSE thread[u]
  BY <1>1, <1>2, <1>8 DEF Move
\* A call for another job.
<1>9. ASSUME NEW m, m # n, OwnKept(n), EntriesOf(n)' = EntriesOf(n), UNCHANGED started, NEW to,
             UNCHANGED thread \/ Move(t, to), thread[t].st = "idle" \/ thread[t].name = m,
             to.st = "idle" \/ to.name = m
      PROVE  InStep(n)'
  <2>1. /\ thread'[Boot] = thread[Boot]
        /\ \A u \in Calls : \/ thread'[u] = thread[u]
                            \/ /\ thread[u].st = "idle" \/ thread[u].name # n
                               /\ thread'[u].st = "idle" \/ thread'[u].name # n
    BY <1>1, <1>8, <1>9
  <2>. QED BY <1>5, <1>9, <2>1, OtherInStep
<1>10. ASSUME NEW i \in JobInputs, SetJobCall(t, i)
       PROVE  InStep(n)'
  <2>0. PICK to : to = [Idle EXCEPT !.st = "find", !.op = "set", !.name = i.name, !.job = i.job]
    OBVIOUS
  <2>1. i.name \in JobNames /\ i.job \in Job /\ Validate(i.name, i.job)
    BY FSMAssumption DEF ValidSent
  <2>2. /\ MayBegin(t) /\ Begin(i.name) /\ applySetJob(i.name, i.job) /\ UNCHANGED <<entries, started>>
    BY <1>10 DEF SetJobCall, sched
  <2>3. to.st = "find" /\ to.op = "set" /\ to.name = i.name /\ to.job = i.job
    BY <2>0 DEF Idle
  <2>4. IF ParentError(i) THEN UNCHANGED thread ELSE Move(t, to)
    BY <1>10, <2>0 DEF SetJobCall
  <2>5. EntriesOf(n)' = EntriesOf(n) /\ thread[t].st = "idle"
    BY <1>7, <2>2 DEF MayBegin
  <2>6. CASE n # i.name
    <3>1. OwnKept(n)
      BY <1>2, <2>1, <2>2, <2>6, SetJobWrites
    <3>. QED BY <1>9, <2>2, <2>3, <2>4, <2>5, <2>6, <3>1
  <2>7. CASE n = i.name /\ ParentError(i)
    <3>1. UNCHANGED jobs
      BY <1>2, <2>1, <2>2, <2>7, SetJobWrites DEF ParentError, Validate
    <3>. QED BY <1>5, <1>6, <2>2, <2>4, <2>5, <2>7, <3>1, OtherInStep
  <2>8. CASE n = i.name /\ ~ParentError(i)
    <3>1. /\ Stored(jobs', i.name) /\ jobs'[i.name].parent = i.job.parent
          /\ jobs'[i.name].schedule = i.job.schedule /\ jobs'[i.name].config = i.job.config
      BY <1>2, <2>1, <2>2, <2>8, SetJobWrites DEF ParentError
    <3>2. thread'[t] = to
      BY <1>1, <1>8, <2>4, <2>8
    <3>3. Carries(t)' /\ Editing(to) /\ ~Running(to)
      BY <2>3, <3>1, <3>2 DEF Carries, Like, Editing, Running
    <3>4. \A u \in Threads \ {t} : ~Concerns(u, n)
      BY <2>2, <2>8, BeginsAlone
    <3>. QED BY <2>3, <2>4, <2>8, <3>3, <3>4, CallInStep
  <2>. QED BY <2>6, <2>7, <2>8
<1>11. ASSUME NEW m \in JobNames, DeleteJobCall(t, m)
       PROVE  InStep(n)'
  <2>0. PICK to : to = [Idle EXCEPT !.st = "find", !.op = "delete", !.name = m]
    OBVIOUS
  <2>1. /\ MayBegin(t) /\ Begin(m) /\ applyDeleteJob(m) /\ UNCHANGED <<entries, started>>
        /\ IF resp' = "error" THEN UNCHANGED thread ELSE Move(t, to)
    BY <1>11, <2>0 DEF DeleteJobCall, sched
  <2>2. /\ \A k \in JobNames \ {m} : OwnKept(k)
        /\ resp' = "error" => jobs' = jobs
        /\ resp' # "error" => ~Stored(jobs', m)
    BY <1>2, <2>1, DeleteJobRemoves
  <2>3. to.st = "find" /\ to.op = "delete" /\ to.name = m
    BY <2>0 DEF Idle
  <2>4. EntriesOf(n)' = EntriesOf(n) /\ thread[t].st = "idle"
    BY <1>7, <2>1 DEF MayBegin
  <2>5. CASE n # m
    BY <1>9, <2>1, <2>2, <2>3, <2>4, <2>5
  <2>6. CASE n = m /\ resp' = "error"
    BY <1>5, <1>6, <2>1, <2>2, <2>4, <2>6, OtherInStep
  <2>7. CASE n = m /\ resp' # "error"
    <3>1. thread'[t] = to
      BY <1>1, <1>8, <2>1, <2>7
    <3>2. Carries(t)' /\ Editing(to) /\ ~Running(to)
      BY <2>2, <2>3, <2>7, <3>1 DEF Carries, Editing, Running
    <3>3. \A u \in Threads \ {t} : ~Concerns(u, n)
      BY <2>1, <2>7, BeginsAlone
    <3>. QED BY <2>1, <2>3, <2>7, <3>2, <3>3, CallInStep
  <2>. QED BY <2>5, <2>6, <2>7
<1>12. ASSUME NEW m \in JobNames, RunRead(t, m)
       PROVE  InStep(n)'
  <2>0. PICK to : to = [Idle EXCEPT !.st = "entry", !.op = "run", !.name = m, !.job = jobs[m]]
    OBVIOUS
  <2>1. /\ MayBegin(t) /\ Begin(m) /\ Stored(jobs, m) /\ Move(t, to)
        /\ UNCHANGED <<jobs, entries, started>>
    BY <1>12, <2>0 DEF RunRead, store, sched
  <2>2. to.st = "entry" /\ to.name = m /\ to.job = jobs[m]
    BY <2>0 DEF Idle
  <2>3. EntriesOf(n)' = EntriesOf(n) /\ thread[t].st = "idle" /\ OwnKept(n)
    BY <1>6, <1>7, <2>1 DEF MayBegin
  <2>4. CASE n # m
    BY <1>9, <2>1, <2>2, <2>3, <2>4
  <2>5. CASE n = m
    <3>1. \A u \in Threads : ~Concerns(u, n)
      BY <2>1, <2>5, BeginsAlone
    <3>2. started => InSync(n)
      BY <1>1, <1>5, <3>1 DEF InStep, Follows, Concerns, Editing
    <3>3. started' => InSync(n)'
      BY <2>1, <2>3, <3>2, InSyncKept
    <3>4. ~Editing(to) /\ Like(to.job, n)'
      BY <2>1, <2>2, <2>5 DEF Like, Editing
    <3>. QED BY <2>1, <3>1, <3>3, <3>4, CallInStep
  <2>. QED BY <2>4, <2>5
\* A call in the middle concerns its job alone.
<1>13. ASSUME Editing(thread[t]) \/ Running(thread[t])
       PROVE  /\ thread[t].name \in JobNames
              /\ n = thread[t].name => \A u \in Threads \ {t} : ~Concerns(u, n)
  <2>1. thread[t].name \in JobNames /\ Concerns(t, thread[t].name)
    BY <1>2, <1>13 DEF Shape, Editing, Running, Concerns
  <2>. QED BY <1>1, <1>3, <1>5, <2>1 DEF Apart
<1>14. ASSUME Running(thread[t]), n = thread[t].name, started
       PROVE  InSync(n) /\ Like(thread[t].job, n)
  <2>1. \A u \in Calls : Editing(thread[u]) => thread[u].name # n
    BY <1>1, <1>13, <1>14 DEF Concerns, Editing, Running
  <2>. QED BY <1>5, <1>14, <2>1 DEF InStep, Follows
<1>15. CASE RunEntry(t)
  <2>1. Running(thread[t]) /\ UNCHANGED <<jobs, entries, started>>
    BY <1>15 DEF RunEntry, Running, store, sched, role
  <2>2. PICK to : /\ to = Idle \/ \E next \in NextTimes :
                                   to = [thread[t] EXCEPT !.st = "store", !.job.next = next]
                  /\ Move(t, to)
    BY <1>15 DEF RunEntry
  <2>3. /\ ~Editing(to)
        /\ to.st = "idle" \/ /\ to.name = thread[t].name
                             /\ to.job.parent = thread[t].job.parent
                             /\ to.job.schedule = thread[t].job.schedule
                             /\ to.job.config = thread[t].job.config
    <3>1. CASE to = Idle
      BY <1>4, <3>1
    <3>2. ASSUME NEW next \in NextTimes,
                 to = [thread[t] EXCEPT !.st = "store", !.job.next = next]
          PROVE  /\ to.st = "store" /\ to.name = thread[t].name
                 /\ to.job = [thread[t].job EXCEPT !.next = next]
      BY <1>2, <3>2 DEF Thread
    <3>3. thread[t].job \in Job
      BY <1>2, <2>1 DEF Shape
    <3>. QED BY <2>2, <3>1, <3>2, <3>3 DEF Editing, Job
  <2>4. EntriesOf(n)' = EntriesOf(n) /\ OwnKept(n)
    BY <1>6, <1>7, <2>1
  <2>5. CASE n # thread[t].name
    BY <1>9, <2>1, <2>2, <2>3, <2>4, <2>5
  <2>6. CASE n = thread[t].name
    <3>1. started' => InSync(n)' /\ (Running(to) => Like(to.job, n)')
      BY <1>14, <2>1, <2>3, <2>4, <2>6, InSyncKept DEF Like, Running
    <3>. QED BY <1>13, <2>1, <2>2, <2>3, <2>6, <3>1, CallInStep
  <2>. QED BY <2>5, <2>6
<1>16. CASE RunStore(t)
  <2>1. PICK m \in JobNames : m = thread[t].name /\ thread[t].job \in Job /\ Running(thread[t])
    BY <1>2, <1>13, <1>16 DEF RunStore, Running, Shape
  <2>2. /\ UNCHANGED <<entries, started>> /\ Move(t, Idle) /\ applySetJob(m, thread[t].job)
    BY <1>3, <1>16, <2>1 DEF RunStore, sched, role
  <2>3. /\ \A k \in JobNames \ {m} : OwnKept(k)
        /\ \/ jobs' = jobs
           \/ /\ Stored(jobs', m) /\ jobs'[m].parent = thread[t].job.parent
              /\ jobs'[m].schedule = thread[t].job.schedule
              /\ jobs'[m].config = thread[t].job.config
    BY <1>2, <2>1, <2>2, SetJobWrites
  <2>4. EntriesOf(n)' = EntriesOf(n)
    BY <1>7, <2>2
  <2>5. CASE n # m
    BY <1>4, <1>9, <2>1, <2>2, <2>3, <2>4, <2>5
  <2>6. CASE n = m
    <3>1. started => OwnKept(n)
      BY <1>6, <1>14, <2>1, <2>3, <2>6 DEF Like, OwnKept
    <3>2. started' => InSync(n)'
      BY <1>14, <2>1, <2>2, <2>4, <2>6, <3>1, InSyncKept
    <3>. QED BY <1>4, <1>13, <2>1, <2>2, <2>6, <3>2, CallInStep
  <2>. QED BY <2>5, <2>6
<1>17. ASSUME Editing(thread[t]), NEW to, Move(t, to), Editing(to), UNCHANGED <<jobs, started>>,
              to.name = thread[t].name, to.op = thread[t].op, to.job = thread[t].job,
              n # thread[t].name => EntriesOf(n)' = EntriesOf(n)
       PROVE  InStep(n)'
  <2>1. CASE n # thread[t].name
    BY <1>6, <1>9, <1>17, <2>1
  <2>2. CASE n = thread[t].name
    <3>1. thread'[t] = to
      BY <1>1, <1>8, <1>17
    <3>2. started => Carries(t)
      BY <1>5, <1>17, <2>2 DEF InStep, Follows
    <3>3. (started' => Carries(t)') /\ ~Running(to)
      BY <1>17, <3>1, <3>2 DEF Carries, Like, Editing, Running
    <3>. QED BY <1>13, <1>17, <2>2, <3>3, CallInStep
  <2>. QED BY <2>1, <2>2
<1>18. CASE GetEntryJob(t)
  <2>1. PICK to : /\ \/ to = [thread[t] EXCEPT !.st = "put"]
                     \/ \E e \in EntriesOf(thread[t].name) :
                           to = [thread[t] EXCEPT !.st = "remove", !.id = e.id]
                  /\ Move(t, to)
    BY <1>18 DEF GetEntryJob
  <2>2. Editing(thread[t]) /\ UNCHANGED <<jobs, entries, started>>
    BY <1>18 DEF GetEntryJob, Editing, store, sched, role
  <2>3. /\ Editing(to) /\ to.name = thread[t].name /\ to.op = thread[t].op
        /\ to.job = thread[t].job
    BY <1>2, <2>1 DEF Thread, Editing
  <2>. QED BY <1>7, <1>17, <2>1, <2>2, <2>3
<1>19. CASE RemoveJob(t)
  <2>1. PICK to : to = [thread[t] EXCEPT !.st = "put", !.id = NoEntry]
    OBVIOUS
  <2>2. /\ Editing(thread[t]) /\ thread[t].st = "remove" /\ UNCHANGED <<jobs, started>>
        /\ Move(t, to) /\ entries' = {e \in entries : e.id # thread[t].id}
    BY <1>19, <2>1 DEF RemoveJob, Editing, store, role
  <2>3. /\ Editing(to) /\ to.name = thread[t].name /\ to.op = thread[t].op
        /\ to.job = thread[t].job
    BY <1>2, <2>1 DEF Thread, Editing
  <2>4. n # thread[t].name => EntriesOf(n)' = EntriesOf(n)
    BY <1>1, <1>3, <2>2 DEF Numbered, EntriesOf
  <2>. QED BY <1>17, <2>2, <2>3, <2>4
<1>20. CASE AddJob(t)
  <2>1. /\ Editing(thread[t]) /\ thread[t].st = "put" /\ UNCHANGED <<jobs, started>>
        /\ Move(t, Returned(t)) /\ thread[t].op # "start"
    BY <1>1, <1>2, <1>20 DEF AddJob, Editing, store, role, Shape
  <2>2. Returned(t) = Idle
    BY <2>1 DEF Returned
  <2>3. n # thread[t].name => EntriesOf(n)' = EntriesOf(n)
    BY <1>20 DEF AddJob, EntriesOf, sched
  <2>4. CASE n # thread[t].name
    BY <1>4, <1>6, <1>9, <2>1, <2>2, <2>3, <2>4
  <2>5. CASE n = thread[t].name
    <3>1. started => EntriesOf(n) = {} /\ Carries(t)
      BY <1>1, <1>3, <1>5, <2>1, <2>5 DEF Single, One, InStep, Follows
    <3>2. started' => InSync(n)'
      BY <1>1, <1>20, <2>1, <2>5, <3>1, AddsWanted
    <3>. QED BY <1>4, <1>13, <2>1, <2>2, <2>5, <3>2, CallInStep
  <2>. QED BY <2>4, <2>5
<1>. QED
  BY <1>10, <1>11, <1>12, <1>15, <1>16, <1>18, <1>19, <1>20

\* The leader loop brings every job in step whose calls do not overlap with it.
LEMMA BootStep ==
    ASSUME SyncInv, SyncSingle, StoreValid(jobs),
           \/ GetJobs \/ ClearCron \/ StartEnds \/ \E m \in JobNames : StartAdd(m)
           \/ GetEntryJob(Boot) \/ RemoveJob(Boot) \/ AddJob(Boot),
           NEW n \in JobNames \ raced, InStep(n)
    PROVE  InStep(n)'
<1>1. Calls \subseteq Threads /\ Boot \in Threads /\ Boot \notin Calls
  BY JobSyncAssumption DEF Threads
<1>2. /\ jobs \in JobMap /\ thread \in [Threads -> Thread] /\ thread[Boot] \in Thread
      /\ Shape(thread[Boot], Boot) /\ thread[Boot].todo \in [JobNames -> Job \cup {NoJob}]
  BY <1>1, IInvFacts DEF SyncInv, SyncTypeOK, Thread
<1>3. Apart /\ Numbered /\ Single /\ thread[Boot].st # "idle" /\ ~started
  BY DEF SyncSingle, Single, GetJobs, ClearCron, StartEnds, StartAdd, GetEntryJob, RemoveJob, AddJob
<1>4. UNCHANGED jobs
  BY DEF GetJobs, ClearCron, StartEnds, StartAdd, GetEntryJob, RemoveJob, AddJob, store
<1>5. OwnKept(n) /\ (UNCHANGED entries => EntriesOf(n)' = EntriesOf(n))
  BY <1>4 DEF OwnKept, EntriesOf
<1>6. ASSUME NEW to, Move(Boot, to)
      PROVE  thread'[Boot] = to /\ \A u \in Calls : thread'[u] = thread[u]
  BY <1>1, <1>2, <1>6 DEF Move
<1>7. CASE GetJobs
  <2>1. PICK to : to = [thread[Boot] EXCEPT !.st = "clear", !.todo = jobs]
    OBVIOUS
  <2>2. to.st = "clear" /\ to.todo = jobs
    BY <1>2, <2>1 DEF Thread
  <2>3. thread'[Boot] = to /\ ~started'
    BY <1>3, <1>6, <1>7, <2>1 DEF GetJobs, role
  <2>. QED BY <1>4, <2>2, <2>3 DEF InStep, Filling, Read, Like, Stored
<1>8. CASE ClearCron
  <2>1. PICK to : to = [thread[Boot] EXCEPT !.st = "start"]
    OBVIOUS
  <2>2. to.st = "start" /\ to.todo = thread[Boot].todo
    BY <1>2, <2>1 DEF Thread
  <2>3. thread'[Boot] = to /\ ~started' /\ EntriesOf(n)' = {}
    BY <1>3, <1>6, <1>8, <2>1 DEF ClearCron, role, EntriesOf
  <2>4. Read(thread[Boot].todo[n], n)'
    BY <1>4, <1>8, <2>2, <2>3 DEF ClearCron, InStep, Read, Like
  <2>. QED BY <2>2, <2>3, <2>4 DEF InStep, Fills, Editing
<1>9. ASSUME NEW m \in JobNames, StartAdd(m)
      PROVE  InStep(n)'
  <2>1. PICK to : to = [thread[Boot] EXCEPT !.st = "find", !.name = m,
                                            !.job = thread[Boot].todo[m], !.todo[m] = NoJob]
    OBVIOUS
  <2>2. /\ thread[Boot].st = "start" /\ thread[Boot].todo[m] # NoJob /\ thread[Boot].op = "start"
        /\ thread'[Boot] = to /\ ~started' /\ UNCHANGED entries
    BY <1>2, <1>3, <1>6, <1>9, <2>1 DEF StartAdd, sched, role, Shape
  <2>3. /\ to.st = "find" /\ to.name = m /\ to.job = thread[Boot].todo[m] /\ to.op = "start"
        /\ to.todo = [thread[Boot].todo EXCEPT ![m] = NoJob]
    BY <1>2, <2>1, <2>2 DEF Thread
  <2>4. \/ Read(thread[Boot].todo[n], n) /\ EntriesOf(n) = {}
        \/ thread[Boot].todo[n] = NoJob /\ InSync(n)
    BY <2>2 DEF InStep, Filling, Fills, Editing
  <2>5. CASE n = m
    <3>1. Like(thread[Boot].todo[m], m)
      BY <2>2, <2>4, <2>5 DEF Read
    <3>2. Carries(Boot)'
      BY <1>4, <2>2, <2>3, <3>1 DEF Carries, Like
    <3>3. to.todo[n] = NoJob
      BY <1>2, <2>3, <2>5
    <3>. QED BY <2>2, <2>3, <2>5, <3>2, <3>3 DEF InStep, Fills, Editing
  <2>6. CASE n # m
    <3>1. to.todo[n] = thread[Boot].todo[n]
      BY <1>2, <2>3, <2>6
    <3>2. \/ Read(thread[Boot].todo[n], n)' /\ EntriesOf(n)' = {}
          \/ to.todo[n] = NoJob /\ InSync(n)'
      BY <1>4, <1>5, <2>2, <2>4, <3>1, InSyncKept DEF Read, Like
    <3>. QED BY <2>2, <2>3, <2>6, <3>2 DEF InStep, Fills, Editing
  <2>. QED BY <2>5, <2>6
\* Inside AddJob of the job that Start has taken.
<1>10. ASSUME Editing(thread[Boot])
       PROVE  thread[Boot].op = "start" /\ thread[Boot].name \in JobNames /\ Fills(n)
  BY <1>2, <1>10 DEF Shape, Editing, InStep, Filling
<1>11. ASSUME n # thread[Boot].name, Editing(thread[Boot]), EntriesOf(n)' = EntriesOf(n), ~started',
              NEW to, Move(Boot, to), to.todo = thread[Boot].todo, to.st # "clear",
              ~(Editing(to) /\ to.name = n)
       PROVE  InStep(n)'
  <2>1. thread'[Boot] = to
    BY <1>6, <1>11
  <2>2. \/ Read(thread[Boot].todo[n], n) /\ EntriesOf(n) = {}
        \/ thread[Boot].todo[n] = NoJob /\ InSync(n)
    BY <1>10, <1>11 DEF Fills
  <2>3. \/ Read(thread[Boot].todo[n], n)' /\ EntriesOf(n)' = {}
        \/ to.todo[n] = NoJob /\ InSync(n)'
    BY <1>4, <1>5, <1>11, <2>1, <2>2, InSyncKept DEF Read, Like
  <2>. QED BY <1>11, <2>1, <2>3 DEF InStep, Fills
<1>12. ASSUME Editing(thread[Boot]), NEW to, Move(Boot, to), Editing(to), UNCHANGED started,
              to.name = thread[Boot].name, to.op = thread[Boot].op, to.job = thread[Boot].job,
              to.todo = thread[Boot].todo,
              n # thread[Boot].name => EntriesOf(n)' = EntriesOf(n)
       PROVE  InStep(n)'
  <2>1. CASE n # thread[Boot].name
    BY <1>3, <1>11, <1>12, <2>1 DEF Editing
  <2>2. CASE n = thread[Boot].name
    <3>1. thread'[Boot] = to
      BY <1>6, <1>12
    <3>2. thread[Boot].todo[n] = NoJob /\ Carries(Boot)
      BY <1>10, <1>12, <2>2 DEF Fills
    <3>3. Carries(Boot)'
      BY <1>4, <1>12, <3>1, <3>2 DEF Carries, Like
    <3>. QED BY <1>3, <1>12, <2>2, <3>1, <3>2, <3>3 DEF InStep, Fills, Editing
  <2>. QED BY <2>1, <2>2
<1>13. CASE GetEntryJob(Boot)
  <2>1. PICK to : /\ \/ to = [thread[Boot] EXCEPT !.st = "put"]
                     \/ \E e \in EntriesOf(thread[Boot].name) :
                           to = [thread[Boot] EXCEPT !.st = "remove", !.id = e.id]
                  /\ Move(Boot, to)
    BY <1>13 DEF GetEntryJob
  <2>2. Editing(thread[Boot]) /\ UNCHANGED <<entries, started>>
    BY <1>13 DEF GetEntryJob, Editing, sched, role
  <2>3. /\ Editing(to) /\ to.name = thread[Boot].name /\ to.op = thread[Boot].op
        /\ to.job = thread[Boot].job /\ to.todo = thread[Boot].todo
    BY <1>2, <2>1 DEF Thread, Editing
  <2>. QED BY <1>5, <1>12, <2>1, <2>2, <2>3
<1>14. CASE RemoveJob(Boot)
  <2>1. PICK to : to = [thread[Boot] EXCEPT !.st = "put", !.id = NoEntry]
    OBVIOUS
  <2>2. /\ Editing(thread[Boot]) /\ thread[Boot].st = "remove" /\ UNCHANGED started
        /\ Move(Boot, to) /\ entries' = {e \in entries : e.id # thread[Boot].id}
    BY <1>14, <2>1 DEF RemoveJob, Editing, role
  <2>3. /\ Editing(to) /\ to.name = thread[Boot].name /\ to.op = thread[Boot].op
        /\ to.job = thread[Boot].job /\ to.todo = thread[Boot].todo
    BY <1>2, <2>1 DEF Thread, Editing
  <2>4. n # thread[Boot].name => EntriesOf(n)' = EntriesOf(n)
    BY <1>1, <1>3, <2>2 DEF Numbered, EntriesOf
  <2>. QED BY <1>12, <2>2, <2>3, <2>4
<1>15. CASE AddJob(Boot)
  <2>1. /\ Editing(thread[Boot]) /\ thread[Boot].st = "put" /\ UNCHANGED started
        /\ Move(Boot, Returned(Boot))
    BY <1>15 DEF AddJob, Editing, role
  <2>2. PICK to : to = Returned(Boot)
    OBVIOUS
  <2>3. to.st = "start" /\ to.todo = thread[Boot].todo
    BY <1>2, <1>10, <2>1, <2>2 DEF Returned, Thread
  <2>4. n # thread[Boot].name => EntriesOf(n)' = EntriesOf(n)
    BY <1>15 DEF AddJob, EntriesOf, sched
  <2>5. CASE n # thread[Boot].name
    BY <1>3, <1>11, <2>1, <2>2, <2>3, <2>4, <2>5 DEF Editing
  <2>6. CASE n = thread[Boot].name
    <3>1. thread[Boot].todo[n] = NoJob /\ Carries(Boot)
      BY <1>10, <2>1, <2>6 DEF Fills
    <3>2. EntriesOf(n) = {}
      BY <1>1, <1>3, <2>1, <2>6 DEF Single, One, Filling
    <3>3. InSync(n)'
      BY <1>1, <1>15, <2>6, <3>1, <3>2, AddsWanted
    <3>4. thread'[Boot] = to
      BY <1>6, <2>1, <2>2
    <3>. QED BY <1>3, <2>1, <2>3, <3>1, <3>3, <3>4 DEF InStep, Fills, Editing
  <2>. QED BY <2>5, <2>6
<1>16. CASE StartEnds
  <2>1. /\ thread[Boot].st = "start" /\ thread[Boot].todo = Nothing
        /\ Move(Boot, Idle) /\ UNCHANGED entries
    BY <1>16 DEF StartEnds, sched
  <2>2. InSync(n)
    BY <2>1 DEF InStep, Filling, Fills, Editing, Nothing, Read, InSync, Wanted
  <2>3. InSync(n)'
    BY <1>5, <2>1, <2>2, InSyncKept
  <2>4. \A u \in Calls : Editing(thread'[u]) \/ Running(thread'[u]) => thread'[u].name # n
    BY <1>1, <1>3, <1>6, <2>1 DEF Apart, Concerns, Editing, Running
  <2>5. thread'[Boot].st = "idle"
    BY <1>6, <2>1 DEF Idle
  <2>. QED BY <2>3, <2>4, <2>5 DEF InStep, Follows, Filling
<1>. QED
  BY <1>7, <1>8, <1>9, <1>13, <1>14, <1>15, <1>16

\* No step stores an invalid job.
LEMMA KeepsValid ==
    ASSUME SyncInv, StoreValid(jobs), SyncNext
    PROVE  StoreValid(jobs')
<1>1. IInv /\ thread \in [Threads -> Thread] /\ \A t \in Threads : Shape(thread[t], t)
  BY DEF SyncInv, SyncTypeOK
<1>2. ASSUME NEW name \in JobNames, NEW job \in Job, applySetJob(name, job)
      PROVE  StoreValid(jobs')
  BY <1>1, <1>2, SetJobWrites
<1>3. ASSUME NEW name \in JobNames, applyDeleteJob(name)
      PROVE  StoreValid(jobs')
  BY <1>1, <1>3, DeleteJobRemoves
<1>4. UNCHANGED jobs => StoreValid(jobs')
  OBVIOUS
<1>5. ASSUME NEW t \in Calls, RunStore(t)
      PROVE  StoreValid(jobs')
  <2>1. thread[t].name \in JobNames /\ thread[t].job \in Job
    BY <1>1, <1>5 DEF RunStore, Shape, Running, Threads
  <2>. QED BY <1>2, <1>4, <1>5, <2>1 DEF RunStore, store
<1>6. ASSUME NEW i \in JobInputs
      PROVE  i.name \in JobNames /\ i.job \in Job
  BY FSMAssumption
<1>. QED
  BY <1>2, <1>3, <1>4, <1>5, <1>6
     DEF SyncNext, SetJobCall, DeleteJobCall, RunRead, RunEntry, GetEntryJob, RemoveJob, AddJob,
         StartAdd, Elected, Deposed, Won, Lost, Barrier, GetJobs, ClearCron, StartEnds,
         RevokeLeadership, Elsewhere, store

\* Steps of other parts keep the jobs in step.
LEMMA SameInStep ==
    ASSUME NEW n, InStep(n), UNCHANGED <<jobs, entries, thread>>, started' => started
    PROVE  InStep(n)'
BY DEF InStep, Follows, Fills, Filling, InSync, Wanted, Carries, Like, Read, EntriesOf

\* Every action keeps the scheduler in step with the store.
LEMMA FollowsStep ==
    ASSUME ValidSent, SyncInv, SyncSingle, SyncFollows, SyncNext
    PROVE  SyncFollows'
<1>1. StoreValid(jobs) /\ (steady => leads)
  BY DEF SyncFollows
<1>2. StoreValid(jobs')
  BY <1>1, KeepsValid
<1>3. ASSUME NEW n, n \in JobNames, steady, n \notin raced
      PROVE  InStep(n)
  BY <1>3 DEF SyncFollows
<1>4. ASSUME NEW t \in Calls,
             \/ \E i \in JobInputs : SetJobCall(t, i)
             \/ \E m \in JobNames : DeleteJobCall(t, m) \/ RunRead(t, m)
             \/ RunEntry(t) \/ RunStore(t) \/ GetEntryJob(t) \/ RemoveJob(t) \/ AddJob(t)
      PROVE  SyncFollows'
  <2>1. UNCHANGED <<leads, steady>>
    BY <1>4 DEF SetJobCall, DeleteJobCall, RunRead, RunEntry, RunStore, GetEntryJob, RemoveJob,
                AddJob, role, raft
  <2>2. ASSUME steady, NEW n \in JobNames, n \notin raced'
        PROVE  InStep(n)'
    BY <1>1, <1>3, <1>4, <2>2, CallStep
  <2>. QED BY <1>1, <1>2, <2>1, <2>2 DEF SyncFollows
<1>5. CASE \/ GetJobs \/ ClearCron \/ StartEnds \/ \E m \in JobNames : StartAdd(m)
           \/ GetEntryJob(Boot) \/ RemoveJob(Boot) \/ AddJob(Boot)
  <2>1. UNCHANGED <<leads, steady, raced>>
    BY <1>5 DEF GetJobs, ClearCron, StartEnds, StartAdd, GetEntryJob, RemoveJob, AddJob, role, raft
  <2>2. ASSUME steady, NEW n \in JobNames \ raced
        PROVE  InStep(n)'
    BY <1>1, <1>3, <1>5, <2>2, BootStep
  <2>. QED BY <1>1, <1>2, <2>1, <2>2 DEF SyncFollows
<1>6. CASE Barrier
  <2>1. PICK to : to = [Idle EXCEPT !.st = "read", !.op = "start"]
    OBVIOUS
  <2>2. to.st = "read"
    BY <2>1 DEF Idle
  <2>3. leads' /\ ~started' /\ Move(Boot, to) /\ thread \in [Threads -> Thread]
    BY <1>6, <2>1 DEF Barrier, SyncInv, SyncTypeOK
  <2>4. thread'[Boot].st = "read"
    BY <2>2, <2>3 DEF Move, Threads
  <2>5. \A n \in JobNames : InStep(n)'
    BY <2>3, <2>4 DEF InStep, Filling
  <2>. QED BY <1>2, <2>3, <2>5 DEF SyncFollows
<1>7. CASE Elected \/ Deposed \/ Won \/ Lost \/ RevokeLeadership
  <2>1. /\ UNCHANGED <<jobs, entries, thread, raced>> /\ (started' => started)
        /\ steady' => steady /\ leads'
    BY <1>1, <1>7 DEF Elected, Deposed, Won, Lost, RevokeLeadership, store, sched, raft
  <2>2. ASSUME steady, NEW n \in JobNames \ raced
        PROVE  InStep(n)'
    BY <1>3, <2>1, <2>2, SameInStep
  <2>. QED BY <1>2, <2>1, <2>2 DEF SyncFollows
<1>8. CASE Elsewhere
  BY <1>1, <1>2, <1>8 DEF Elsewhere, syncVars, SyncFollows
<1>9. Threads = Calls \cup {Boot}
  BY DEF Threads
<1>. QED BY <1>4, <1>5, <1>6, <1>7, <1>8, <1>9 DEF SyncNext

\* While the server leads without a break since it filled its scheduler, every
\* job whose calls did not overlap since is in the scheduler exactly as it is
\* stored, when it is enabled and has no parent, and not otherwise, unless a
\* call for it is under way: for any number of jobs, handlers that overlap,
\* elections, terms of other servers and leader loops that were told to stop
\* late, when clients send jobs that pass Job.Validate.
THEOREM SchedulerInStep == ValidSent /\ SyncSpec => []SchedulerFollowsStore
<1>1. SyncInit => SyncFollows
  BY DEF SyncInit, SyncFollows, Init, StoreValid, Stored
<1>2. ValidSent /\ SyncInv /\ SyncSingle /\ SyncFollows /\ [SyncNext]_allVars => SyncFollows'
  <2>1. ASSUME SyncFollows, UNCHANGED allVars
        PROVE  SyncFollows'
    <3>1. /\ UNCHANGED <<jobs, entries, thread, raced, steady, leads>> /\ (started' => started)
      BY <2>1 DEF allVars, vars, syncVars
    <3>2. ASSUME steady, NEW n \in JobNames \ raced
          PROVE  InStep(n)'
      BY <2>1, <3>1, <3>2, SameInStep DEF SyncFollows
    <3>. QED BY <2>1, <3>1, <3>2 DEF SyncFollows
  <2>. QED BY <2>1, FollowsStep
<1>3. SyncInv /\ SyncFollows => SchedulerFollowsStore
  <2> SUFFICES ASSUME SyncInv, SyncFollows, steady, started, NEW n \in JobNames \ raced,
                      \A t \in Threads : ~Concerns(t, n)
               PROVE  {<<e.schedule, e.config>> : e \in EntriesOf(n)} =
                          {<<jobs[m].schedule, jobs[m].config>> :
                              m \in {m \in {n} : /\ Stored(jobs, m)
                                                 /\ jobs[m].parent = NoParent
                                                 /\ ~jobs[m].config.disabled}}
    BY DEF SchedulerFollowsStore
  <2>1. InSync(n)
    BY DEF SyncFollows, InStep, Follows, Concerns, Editing, Threads
  <2>2. CASE Wanted(n)
    <3>1. {m \in {n} : /\ Stored(jobs, m) /\ jobs[m].parent = NoParent
                       /\ ~jobs[m].config.disabled} = {n}
      BY <2>2 DEF Wanted
    <3>2. PICK e \in EntriesOf(n) : TRUE
      BY <2>1, <2>2 DEF InSync
    <3>. QED BY <2>1, <3>1, <3>2 DEF InSync
  <2>3. CASE ~Wanted(n)
    <3>1. {m \in {n} : /\ Stored(jobs, m) /\ jobs[m].parent = NoParent
                       /\ ~jobs[m].config.disabled} = {}
      BY <2>3 DEF Wanted
    <3>. QED BY <2>1, <2>3, <3>1 DEF InSync
  <2>. QED BY <2>2, <2>3
<1>4. ValidSent /\ [SyncNext]_allVars => ValidSent'
  BY DEF ValidSent
<1> HIDE DEF ValidSent
<1>. QED BY <1>1, <1>2, <1>3, <1>4, SyncInvariant, SingleInvariant, PTL DEF SyncSpec
============================================================================
