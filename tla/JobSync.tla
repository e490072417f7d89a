------------------------------ MODULE JobSync ------------------------------
(***************************************************************************)
(* One server keeps the cron entries of its scheduler (scheduler.go) in    *)
(* step with the store: its handlers (grpc.go) first send a change through *)
(* Raft and then change the entries, Agent.Run (run.go) writes back a job  *)
(* that it read before, and a server that becomes the leader fills its     *)
(* scheduler from the store (leader.go).  Scheduler.AddJob and RemoveJob   *)
(* take no lock, so all of this interleaves.  While another server leads,  *)
(* the store changes and the entries do not, and the server may lead again *)
(* before its leader loop has noticed that it lost the leadership.         *)
(***************************************************************************)
EXTENDS FSM

CONSTANTS
    Calls,        \* handlers that may run at the same time
    Boot,         \* the leader loop, when it starts the scheduler
    MaxInFlight,  \* bound: calls, the boot included, that overlap
    MaxEntries    \* bound: identifiers that cron hands out

Threads == Calls \cup {Boot}
NoEntry == 0
Ids     == 0..MaxEntries

ASSUME JobSyncAssumption ==
    /\ Boot \notin Calls /\ IsFiniteSet(Calls)
    /\ \A c \in Configs : c.disabled \in BOOLEAN
    /\ {MaxInFlight, MaxEntries} \subseteq Nat

VARIABLES
    entries,   \* the entries of Scheduler.Cron, and of their jobs what fires
    lastId,    \* the last identifier of an entry
    leads,     \* this server is the Raft leader
    loop,      \* the leader loop: none, on, or told to stop
    started,   \* Scheduler.started
    thread,    \* where each handler is
    steady,    \* history: has led without break since the loop's last barrier
    raced      \* history: jobs whose calls overlapped since that barrier

syncVars == <<entries, lastId, leads, loop, started, thread, steady, raced>>
allVars  == <<vars, syncVars>>
store    == <<jobs, execs, stats, resp>>
sched    == <<entries, lastId>>
raft     == <<leads, steady>>
role     == <<raft, loop, started, raced>>

Entry == [id : Ids, name : JobNames, schedule : Schedules, config : Configs]

\* todo holds the jobs that Scheduler.Start has still to add.
Thread == [st   : {"idle", "entry", "store", "find", "remove", "put", "read", "clear", "start"},
           op   : {"none", "set", "delete", "run", "start"},
           name : JobNames \cup {NoJob},
           job  : Job \cup {NoJob},
           id   : Ids,
           todo : [JobNames -> Job \cup {NoJob}]]

Nothing == [n \in JobNames |-> NoJob]
Idle    == [st |-> "idle", op |-> "none", name |-> NoJob, job |-> NoJob, id |-> NoEntry,
            todo |-> Nothing]

Busy    == {t \in Threads : thread[t].st # "idle"}
Move(t, to) == thread' = [thread EXCEPT ![t] = to]

\* Thread t is under way with job n.  The boot concerns every job.
Concerns(t, n) == thread[t].st # "idle" /\ (t = Boot \/ thread[t].name = n)

\* A new call may begin: the bound on what overlaps.
MayBegin(t) == thread[t].st = "idle" /\ Cardinality(Busy) < MaxInFlight

\* A call for job n begins, which makes a race of it when another is under way.
Begin(n) == raced' = raced \cup {m \in {n} : \E u \in Threads : Concerns(u, m)}

EntriesOf(n) == {e \in entries : e.name = n}

----------------------------------------------------------------------------
(***************************************************************************)
(* Scheduler.AddJob and Scheduler.RemoveJob, for the thread that calls     *)
(* them.                                                                   *)
(***************************************************************************)

\* GetEntryJob: some entry with the name, if there is one.
GetEntryJob(t) ==
    /\ thread[t].st = "find"
    /\ IF EntriesOf(thread[t].name) = {}
         THEN Move(t, [thread[t] EXCEPT !.st = "put"])
         ELSE \E e \in EntriesOf(thread[t].name) :
                 Move(t, [thread[t] EXCEPT !.st = "remove", !.id = e.id])
    /\ UNCHANGED <<store, sched, role>>

\* A defective AddJob that leaves the entry it found.
RemoveNothing(t) ==
    /\ thread[t].st = "remove"
    /\ Move(t, [thread[t] EXCEPT !.st = "put", !.id = NoEntry])
    /\ UNCHANGED <<store, sched, role>>

\* Cron.Remove of the entry found: nothing when it is gone by now.
RemoveJob(t) ==
    /\ thread[t].st = "remove"
    /\ entries' = {e \in entries : e.id # thread[t].id}
    /\ Move(t, [thread[t] EXCEPT !.st = "put", !.id = NoEntry])
    /\ UNCHANGED <<store, lastId, role>>

\* What a thread does after AddJob or RemoveJob: Start takes the next job.
Returned(t) ==
    IF thread[t].op = "start"
      THEN [thread[t] EXCEPT !.st = "start", !.name = NoJob, !.job = NoJob]
      ELSE Idle

\* The rest of AddJob: a disabled job and a job with a parent get no entry,
\* and cron refuses an empty schedule.  RemoveJob has nothing left to do.
AddJob(t) ==
    /\ thread[t].st = "put"
    /\ IF /\ thread[t].op # "delete"
          /\ ~thread[t].job.config.disabled
          /\ thread[t].job.parent = NoParent
          /\ thread[t].job.schedule # NoSchedule
         THEN /\ lastId < MaxEntries
              /\ entries' = entries \cup {[id |-> lastId + 1, name |-> thread[t].name,
                                           schedule |-> thread[t].job.schedule,
                                           config |-> thread[t].job.config]}
              /\ lastId' = lastId + 1
         ELSE UNCHANGED sched
    /\ Move(t, Returned(t))
    /\ UNCHANGED <<store, role>>

----------------------------------------------------------------------------
(***************************************************************************)
(* The handlers                                                            *)
(***************************************************************************)

\* The two errors of the state machine that Agent.applySetJob passes on.
ParentError(i) ==
    i.job.parent # NoParent /\ (i.job.parent = i.name \/ ~Stored(jobs, i.job.parent))

\* GRPCServer.SetJob, up to sched.AddJob of the job that was sent.
SetJobCall(t, i) ==
    /\ MayBegin(t) /\ Begin(i.name)
    /\ leads
    /\ applySetJob(i.name, i.job)
    /\ IF ParentError(i) THEN UNCHANGED thread
       ELSE Move(t, [Idle EXCEPT !.st = "find", !.op = "set", !.name = i.name, !.job = i.job])
    /\ UNCHANGED <<sched, raft, loop, started>>

\* GRPCServer.DeleteJob, up to sched.RemoveJob.
DeleteJobCall(t, n) ==
    /\ MayBegin(t) /\ Begin(n)
    /\ leads
    /\ applyDeleteJob(n)
    /\ IF resp' = "error" THEN UNCHANGED thread
       ELSE Move(t, [Idle EXCEPT !.st = "find", !.op = "delete", !.name = n])
    /\ UNCHANGED <<sched, raft, loop, started>>

\* Agent.Run, of a job without parent: read the job ...
RunRead(t, n) ==
    /\ MayBegin(t) /\ Begin(n)
    /\ Stored(jobs, n) /\ jobs[n].parent = NoParent
    /\ Move(t, [Idle EXCEPT !.st = "entry", !.op = "run", !.name = n, !.job = jobs[n]])
    /\ UNCHANGED <<store, sched, raft, loop, started>>

\* A defective Run that takes Next from the empty EntryJob.
RunNoEntry(t) ==
    /\ thread[t].st = "entry"
    /\ Move(t, [thread[t] EXCEPT !.st = "store", !.job.next = NoJob])
    /\ UNCHANGED <<store, sched, role>>

\* ... take Next from its entry, and give up without one ...
RunEntry(t) ==
    /\ thread[t].st = "entry"
    /\ IF EntriesOf(thread[t].name) = {} THEN Move(t, Idle)
       ELSE \E next \in NextTimes :
              Move(t, [thread[t] EXCEPT !.st = "store", !.job.next = next])
    /\ UNCHANGED <<store, sched, role>>

\* ... and write it back.  Raft refuses the entry of a server that is not the
\* leader any more.  The dispatch that follows is module Runs.
RunStore(t) ==
    /\ thread[t].st = "store"
    /\ IF leads THEN applySetJob(thread[t].name, thread[t].job) ELSE UNCHANGED store
    /\ Move(t, Idle)
    /\ UNCHANGED <<sched, role>>

----------------------------------------------------------------------------
(***************************************************************************)
(* Leadership                                                              *)
(***************************************************************************)

\* Raft makes this server the leader, whatever its leader loop does.
Elected ==
    /\ ~leads
    /\ leads' = TRUE
    /\ UNCHANGED <<store, sched, steady, loop, started, raced, thread>>

\* Raft deposes the server; handlers and the leader loop go on.
Deposed ==
    /\ leads
    /\ leads' = FALSE /\ steady' = FALSE
    /\ UNCHANGED <<store, sched, loop, started, raced, thread>>

\* monitorLeadership reads LeaderCh, which keeps the newest value only and so
\* says whether the server leads.  It starts a loop unless the last one still
\* runs: then that one goes on, and the notice is dropped.
Won ==
    /\ leads /\ loop = "none"
    /\ loop' = "on"
    /\ UNCHANGED <<store, sched, raft, started, raced, thread>>

\* monitorLeadership tells the loop to stop.  It reads no notice until the loop
\* has ended.
Lost ==
    /\ ~leads /\ loop = "on"
    /\ loop' = "stopping"
    /\ UNCHANGED <<store, sched, raft, started, raced, thread>>

\* The loop, before it has established the leadership, passes the barrier,
\* even when it was told to stop meanwhile.
Barrier ==
    /\ loop # "none" /\ leads /\ ~started
    /\ MayBegin(Boot)
    /\ Move(Boot, [Idle EXCEPT !.st = "read", !.op = "start"])
    /\ steady' = TRUE
    /\ raced' = {n \in JobNames : \E u \in Threads : Concerns(u, n)}
    /\ UNCHANGED <<store, sched, leads, loop, started>>

\* establishLeadership: read all the jobs ...
GetJobs ==
    /\ thread[Boot].st = "read"
    /\ Move(Boot, [thread[Boot] EXCEPT !.st = "clear", !.todo = jobs])
    /\ UNCHANGED <<store, sched, role>>

\* A defective Start that keeps the entries of the last term.
KeepCron ==
    /\ thread[Boot].st = "clear"
    /\ Move(Boot, [thread[Boot] EXCEPT !.st = "start"])
    /\ UNCHANGED <<store, sched, role>>

\* ... and Scheduler.Start: ClearCron removes every entry ...
ClearCron ==
    /\ thread[Boot].st = "clear"
    /\ entries' = {}
    /\ Move(Boot, [thread[Boot] EXCEPT !.st = "start"])
    /\ UNCHANGED <<store, lastId, role>>

\* ... AddJob of each job read ...
StartAdd(n) ==
    /\ thread[Boot].st = "start"
    /\ thread[Boot].todo[n] # NoJob
    /\ Move(Boot, [thread[Boot] EXCEPT !.st = "find", !.name = n,
                                       !.job = thread[Boot].todo[n], !.todo[n] = NoJob])
    /\ UNCHANGED <<store, sched, role>>

\* ... and Cron.Start.
StartEnds ==
    /\ thread[Boot].st = "start" /\ thread[Boot].todo = Nothing
    /\ started' = TRUE
    /\ Move(Boot, Idle)
    /\ UNCHANGED <<store, sched, raft, loop, raced>>

\* The loop ends: revokeLeadership, which is Scheduler.Stop.
RevokeLeadership ==
    /\ loop = "stopping" /\ thread[Boot].st = "idle"
    /\ loop' = "none" /\ started' = FALSE
    /\ UNCHANGED <<store, sched, raft, raced, thread>>

\* Another server leads and its clients change the store.
Elsewhere ==
    /\ ~leads
    /\ \/ \E i \in JobInputs : applySetJob(i.name, i.job)
       \/ \E n \in JobNames : applyDeleteJob(n)
    /\ UNCHANGED syncVars

----------------------------------------------------------------------------
SyncInit ==
    /\ Init
    /\ entries = {} /\ lastId = 0
    /\ leads = FALSE /\ loop = "none" /\ started = FALSE
    /\ thread = [t \in Threads |-> Idle]
    /\ steady = FALSE /\ raced = {}

SyncNext ==
    \/ \E t \in Calls, i \in JobInputs : SetJobCall(t, i)
    \/ \E t \in Calls, n \in JobNames : DeleteJobCall(t, n) \/ RunRead(t, n)
    \/ \E t \in Calls : RunEntry(t) \/ RunStore(t)
    \/ \E t \in Threads : GetEntryJob(t) \/ RemoveJob(t) \/ AddJob(t)
    \/ \E n \in JobNames : StartAdd(n)
    \/ Elected \/ Deposed \/ Won \/ Lost
    \/ Barrier \/ GetJobs \/ ClearCron \/ StartEnds \/ RevokeLeadership
    \/ Elsewhere

SyncSpec == SyncInit /\ [][SyncNext]_allVars

----------------------------------------------------------------------------
(***************************************************************************)
(* Properties                                                              *)
(***************************************************************************)

\* The state is well formed: a handler only carries jobs that were sent or
\* read, and entries only hold such jobs.
SyncTypeOK ==
    /\ TypeOK
    /\ entries \subseteq Entry /\ lastId \in Ids
    /\ leads \in BOOLEAN /\ started \in BOOLEAN
    /\ loop \in {"none", "on", "stopping"}
    /\ steady \in BOOLEAN /\ raced \subseteq JobNames
    /\ thread \in [Threads -> Thread]

\* No job fires twice: Scheduler.mu "is to prevent concurrent edits to Cron",
\* and AddJob removes the entry a job already has.
OneEntryPerJob == \A n \in JobNames : Cardinality(EntriesOf(n)) <= 1

\* What does hold, although AddJob takes no lock: while the scheduler runs, a
\* job fires once unless two calls for it overlapped, or a call for it the
\* filling of the scheduler.  What other jobs' calls do, and the entries that
\* earlier terms left, never matter.
FiresOnce == started => \A n \in JobNames \ raced : Cardinality(EntriesOf(n)) <= 1

\* While the server leads as it did when it filled its scheduler, the scheduler
\* holds a job exactly as it is stored, if it is enabled and has no parent,
\* and not otherwise: a SetJob or DeleteJob that returned took effect in both.
\* Only a job whose calls overlapped may be out of step, and one that a call
\* is about to change.  A server that leads again with its scheduler still
\* running is out of step until its loop ends.
SchedulerFollowsStore ==
    steady /\ started => \A n \in JobNames \ raced :
        \/ \E t \in Threads : Concerns(t, n)
        \/ {<<e.schedule, e.config>> : e \in EntriesOf(n)} =
               {<<jobs[m].schedule, jobs[m].config>> :
                   m \in {m \in {n} : /\ Stored(jobs, m)
                                      /\ jobs[m].parent = NoParent
                                      /\ ~jobs[m].config.disabled}}
============================================================================
