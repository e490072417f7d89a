----------------------------- MODULE RunsProofs -----------------------------
(***************************************************************************)
(* Proofs about the runs of jobs, for every number of servers, nodes, runs *)
(* and dispatches, and every number of failures except where a theorem     *)
(* says so.                                                                *)
(***************************************************************************)
EXTENDS Runs, FSMProofs, Sequences

\* The state of Runs is well formed and its store is whole.
RunInv ==
    /\ IInv /\ RunsTypeOK
    /\ faults \in [{"break", "stepdown", "crash", "node"} -> Nat]

(***************************************************************************)
(* activeExecutions                                                        *)
(***************************************************************************)

\* A run that was not made yet has no goroutines.
Unmade == \A i \in Tasks : i[1] > runs => task[i].st = "none" /\ task[i].server = NoServer

\* A goroutine that receives has the execution of its own command.
Linked ==
    \A i \in Tasks :
        /\ task[i].st = "dial" => task[i].got = 0
        /\ task[i].st \in {"recv", "first"} /\ task[i].got > 0 =>
              Key(task[i].ex) = Key(cmd[CmdOf(i)].ex)

\* The goroutine that will delete the entry a.
Owns(i, a) ==
    /\ task[i].st \in {"recv", "first", "report"} /\ task[i].got > 0
    /\ a = <<task[i].server, Key(task[i].ex)>>

Owned == \A a \in active : \E i \in Tasks : Owns(i, a)

(***************************************************************************)
(* Dispatching once                                                        *)
(***************************************************************************)

Handling == {"apply", "fetch", "retry", "notify", "chain", "wait"}

\* Without a loss of the leadership but by a crash, only the leader works.
Loyal ==
    /\ \A i \in Tasks : task[i].st \notin {"none", "closed"} =>
          task[i].server = leader /\ leader # NoServer
    /\ \A c \in CallIds : call[c].st \notin {"none", "answered"} => call[c].server # NoServer
    /\ \A c \in CallIds : call[c].st \in Handling => call[c].server = leader
    /\ \A i \in Tasks : task[i].st = "report" =>
          /\ call[i].answer # "unavailable"
          /\ call[i].st # "answered" => call[i].server = leader /\ call[i].via = NoServer

\* A command that runs has sent its first message and is on a running node.
Begun ==
    \A k \in Cmds : /\ cmd[k].st = "running" => cmd[k].sent = 1 /\ k[2] \in nodesUp
                    /\ cmd[k].st = "fallback" => cmd[k].sent > 0

\* Only the last attempt of a goroutine may have started its command.
LastTry ==
    \A k \in Cmds : Started(k) =>
        task[<<k[1], k[2]>>].try = k[3] /\ task[<<k[1], k[2]>>].st \notin {"none", "dial"}

(***************************************************************************)
(* Concurrency "forbid"                                                    *)
(***************************************************************************)

\* No stored job is retried.
NoRetries == \A n \in JobNames : Stored(jobs, n) => jobs[n].config.retries = 0

\* Commands that started are told apart by the instant of their start.
Commands ==
    /\ now > 0
    /\ \A k \in Cmds : Started(k) => cmd[k].ex.startedAt \in 1..(now - 1) /\ cmd[k].ex.attempt > 0
    /\ \A k, l \in Cmds :
          Started(k) /\ Started(l) /\ cmd[k].ex.startedAt = cmd[l].ex.startedAt => k = l

\* A version of an execution that is no result of a command that runs.
Unfinished(e) ==
    /\ e.attempt > 0 /\ e.startedAt < now
    /\ \A k \in Cmds : cmd[k].st = "running" /\ Key(e) = Key(cmd[k].ex) => e.finishedAt = Never

\* A version of an execution whose command does not run.
Over(e) ==
    /\ e.attempt > 0 /\ e.startedAt < now
    /\ \A k \in Cmds : cmd[k].st = "running" => Key(e) # Key(cmd[k].ex)

StoreHolds == \A e \in execs : Unfinished(e)

CallsHold == \A c \in CallIds : call[c].st # "none" => Over(call[c].ex) /\ call[c].st # "retry"

\* Without breaking streams, only a node that crashed ends one early.
Held(i) ==
    /\ Unfinished(task[i].ex)
    /\ task[i].got = 2 => Over(task[i].ex)
    /\ task[i].got = 0 => task[i].ex.startedAt = Never
    /\ task[i].req.startedAt = Never /\ task[i].req.attempt > 0
    /\ task[i].req.finishedAt = Never \/ i[2] \notin nodesUp
    /\ task[i].st \in {"recv", "first"} =>
          Started(CmdOf(i)) /\ (cmd[CmdOf(i)].open \/ i[2] \notin nodesUp)

TasksHold ==
    \A i \in Tasks : IF task[i].st = "none" THEN task[i].server = NoServer ELSE Held(i)

----------------------------------------------------------------------------
(***************************************************************************)
(* Types                                                                   *)
(***************************************************************************)

\* What the handlers write into an execution leaves an execution.
LEMMA ExecutionEdits ==
    ASSUME NEW e \in Execution, NEW t \in Nat
    PROVE  /\ \A ok \in BOOLEAN : [e EXCEPT !.finishedAt = t, !.success = ok] \in Execution
           /\ \A n \in Nodes : [e EXCEPT !.startedAt = t, !.node = n] \in Execution
           /\ NextAttempt(e) \in Execution
<1>1. ASSUME NEW ok \in BOOLEAN
      PROVE  [e EXCEPT !.finishedAt = t, !.success = ok] \in Execution
  BY DEF Execution, Time
<1>2. ASSUME NEW n \in Nodes
      PROVE  [e EXCEPT !.startedAt = t, !.node = n] \in Execution
  BY DEF Execution, Time
<1>3. [e EXCEPT !.attempt = e.attempt + 1] \in Execution
  BY DEF Execution
<1>. QED BY <1>1, <1>2, <1>3 DEF NextAttempt

\* The executions that runs begin with.
LEMMA NewExecutions ==
    /\ NoExec \in Execution
    /\ \A n \in JobNames : now \in Nat => NewExecution(n) \in Execution
<1>1. NoNode \in Nodes /\ (CHOOSE n \in JobNames : TRUE) \in JobNames
  BY RunsAssumption
<1>2. NoExec \in Execution
  BY <1>1 DEF NoExec, Execution, Time, Never
<1>3. ASSUME NEW n \in JobNames, now \in Nat
      PROVE  NewExecution(n) \in Execution
  <2>1. NewExecution(n) = [NoExec EXCEPT !.job = n, !.group = now, !.attempt = 1]
    BY DEF NewExecution
  <2>2. \A e \in Execution : [e EXCEPT !.job = n, !.group = now, !.attempt = 1] \in Execution
    BY <1>3 DEF Execution
  <2>. QED BY <1>2, <2>1, <2>2
<1>. QED BY <1>2, <1>3

\* Nothing yet.
LEMMA Nothings == NoTask \in Task /\ NoCmd \in Cmd /\ IdleCall \in Call
<1>1. 0 \in Tries /\ NoExec \in Execution /\ NoDeps \in [JobNames -> Nat]
  BY RunsAssumption, NewExecutions DEF Tries, NoDeps
<1>. QED BY <1>1 DEF NoTask, Task, NoCmd, Cmd, IdleCall, Call

\* The command of a goroutine's attempt.
LEMMA CmdOfType ==
    ASSUME task \in [Tasks -> Task], NEW i \in Tasks
    PROVE  /\ CmdOf(i) \in Cmds /\ i = <<i[1], i[2]>> /\ i[1] \in RunIds /\ i[2] \in RunNodes
           /\ i[2] \in Nodes /\ CmdOf(i)[1] = i[1] /\ CmdOf(i)[2] = i[2]
           /\ CmdOf(i)[3] = task[i].try
<1>1. task[i].try \in Tries
  BY DEF Task
<1>. QED BY <1>1 DEF CmdOf, Cmds, Tasks, RunNodes

\* RunInv in parts.
Clock   == now \in Nat /\ runs \in 0..MaxRuns /\ waiter \in [RunIds -> CallIds \cup {NoCall}]
Cluster ==
    /\ leader \in up \cup {NoServer} /\ up \subseteq Servers /\ nodesUp \subseteq RunNodes
    /\ faults \in [{"break", "stepdown", "crash", "node"} -> Nat]
Works   == task \in [Tasks -> Task] /\ cmd \in [Cmds -> Cmd] /\ call \in [CallIds -> Call]

\* Nothing of RunInv is outside the parts.
LEMMA RunParts == RunInv <=> IInv /\ Clock /\ Cluster /\ Works
BY DEF RunInv, RunsTypeOK, IInv, Clock, Cluster, Works

\* The same after a step.
LEMMA RunPartsNext ==
    ASSUME IInv', Clock', Cluster', Works'
    PROVE  RunInv'
BY DEF RunInv, RunsTypeOK, IInv, Clock, Cluster, Works

\* Steps that leave a part alone keep it.
LEMMA SameStore == RunInv /\ UNCHANGED store => IInv'
BY StutterIInv DEF RunInv, store, vars

\* Steps that leave the servers and nodes alone.
LEMMA SameCluster == RunInv /\ UNCHANGED cluster => Cluster'
BY DEF RunInv, RunsTypeOK, Cluster, cluster

\* Steps that read the clock at most once and make no run.
LEMMA SameClock == RunInv /\ UNCHANGED <<runs, waiter>> /\ now' \in {now, now + 1} => Clock'
BY DEF RunInv, RunsTypeOK, Clock

\* One goroutine, command or report changes.
LEMMA OneTask ==
    ASSUME RunInv, NEW i \in Tasks, NEW t \in Task, task' = [task EXCEPT ![i] = t]
    PROVE  task' \in [Tasks -> Task]
BY DEF RunInv, RunsTypeOK

\* The same for a command.
LEMMA OneCmd ==
    ASSUME RunInv, NEW k \in Cmds, NEW m \in Cmd, cmd' = [cmd EXCEPT ![k] = m]
    PROVE  cmd' \in [Cmds -> Cmd]
BY DEF RunInv, RunsTypeOK

\* The same for a report.
LEMMA OneCall ==
    ASSUME RunInv, NEW c \in CallIds, NEW h \in Call, call' = [call EXCEPT ![c] = h]
    PROVE  call' \in [CallIds -> Call]
BY DEF RunInv, RunsTypeOK

\* Agent.Run keeps the types; the goroutines that it starts are new.
LEMMA RunTypes ==
    ASSUME RunInv, NEW s \in Servers \cup {NoServer}, NEW ex \in Execution, NEW targets,
           NEW by \in CallIds \cup {NoCall}, Run(s, ex, targets, by)
    PROVE  IInv' /\ Clock' /\ task' \in [Tasks -> Task]
<1>1. /\ IInv /\ jobs \in JobMap /\ now \in Nat /\ runs \in 0..MaxRuns /\ MaxRuns \in Nat
      /\ waiter \in [RunIds -> CallIds \cup {NoCall}] /\ task \in [Tasks -> Task]
      /\ ex.job \in JobNames
  BY IInvFacts, RunsAssumption DEF RunInv, RunsTypeOK, Execution
<1>2. IInv'
  <2>1. CASE UNCHANGED store
    BY <2>1, SameStore
  <2>2. CASE applySetJob(ex.job, [jobs[ex.job] EXCEPT !.next = now + 1])
    <3>1. jobs[ex.job] \in Job
      BY <1>1, StoredIsJob DEF Run, CanRun
    <3>2. [jobs[ex.job] EXCEPT !.next = now + 1] \in Job
      BY <1>1, <3>1 DEF Job, Time
    <3>. QED BY <1>1, <2>2, <3>2, SetJobKeeps DEF SoundEntry
  <2>. QED BY <2>1, <2>2 DEF Run
<1>3. Clock'
  <2>1. runs' = runs + 1 /\ runs < MaxRuns /\ now' = now + 1 /\ waiter' = [waiter EXCEPT ![runs'] = by]
    BY DEF Run
  <2>2. runs' \in 0..MaxRuns /\ runs' \in RunIds /\ now' \in Nat
    BY <1>1, <2>1 DEF RunIds
  <2>. QED BY <1>1, <2>1, <2>2 DEF Clock
<1>4. task' \in [Tasks -> Task]
  <2>1. [NoTask EXCEPT !.st = "dial", !.server = s, !.req = ex, !.ex = ex] \in Task
    BY Nothings DEF Task
  <2>. QED BY <1>1, <2>1 DEF Run
<1>. QED BY <1>2, <1>3, <1>4

\* A return of agentRunAttempt.
LEMMA AttemptTypes ==
    ASSUME RunInv, NEW i \in Tasks, NEW retryable, AttemptFails(i, retryable)
    PROVE  \E t \in Task :
              /\ task' = [task EXCEPT ![i] = t]
              /\ \/ t = [task[i] EXCEPT !.st = "closed"]
                 \/ /\ retryable
                    /\ t = [task[i] EXCEPT !.st = "dial", !.try = task[i].try + 1, !.got = 0,
                                           !.ex = task[i].req]
<1>1. task \in [Tasks -> Task] /\ task[i] \in Task
  BY DEF RunInv, RunsTypeOK
<1>2. CASE retryable /\ task[i].try < AgentRunMaxRetries
  <2>1. PICK t : t = [task[i] EXCEPT !.st = "dial", !.try = task[i].try + 1, !.got = 0,
                                     !.ex = task[i].req]
    OBVIOUS
  <2>2. task[i].try + 1 \in Tries
    BY <1>1, <1>2, RunsAssumption DEF Task, Tries
  <2>3. task[i].req \in Execution /\ 0 \in 0..2
    BY <1>1 DEF Task
  <2>4. t \in Task
    BY <1>1, <2>1, <2>2, <2>3 DEF Task
  <2>5. task' = [task EXCEPT ![i] = t]
    BY <1>2, <2>1 DEF AttemptFails
  <2>. QED BY <1>2, <2>1, <2>4, <2>5
<1>3. CASE ~(retryable /\ task[i].try < AgentRunMaxRetries)
  <2>1. PICK t : t = [task[i] EXCEPT !.st = "closed"]
    OBVIOUS
  <2>2. t \in Task
    BY <1>1, <2>1 DEF Task
  <2>3. task' = [task EXCEPT ![i] = t]
    BY <1>3, <2>1 DEF AttemptFails
  <2>. QED BY <2>1, <2>2, <2>3
<1>. QED BY <1>2, <1>3

\* What RunInv says of one goroutine, its command and its report.
LEMMA RunFacts ==
    ASSUME RunInv
    PROVE  /\ now \in Nat /\ leader \in Servers \cup {NoServer}
           /\ \A i \in Tasks :
                 /\ task[i] \in Task /\ task[i].ex \in Execution /\ task[i].req \in Execution
                 /\ CmdOf(i) \in Cmds /\ cmd[CmdOf(i)] \in Cmd
                 /\ cmd[CmdOf(i)].ex \in Execution /\ i \in CallIds
                 /\ i[2] \in Nodes
           /\ \A k \in Cmds : cmd[k] \in Cmd /\ cmd[k].ex \in Execution /\ k \in CallIds
           /\ \A c \in CallIds : call[c] \in Call /\ call[c].ex \in Execution
BY CmdOfType DEF RunInv, RunsTypeOK, Task, Cmd, Call, CallIds

\* The scheduler.
LEMMA FireTypes ==
    ASSUME RunInv, NEW n \in JobNames, Fire(n)
    PROVE  RunInv'
<1>1. NewExecution(n) \in Execution /\ leader \in Servers \cup {NoServer}
  BY RunFacts, NewExecutions
<1>2. IInv' /\ Clock' /\ task' \in [Tasks -> Task]
  BY <1>1, RunTypes DEF Fire
<1>3. UNCHANGED <<cluster, cmd, call>>
  BY DEF Fire
<1>. QED BY <1>2, <1>3, SameCluster, RunPartsNext DEF Works, RunInv, RunsTypeOK

\* The dispatching goroutine.
LEMMA TaskTypes ==
    ASSUME RunInv, NEW i \in Tasks, TaskStep(i)
    PROVE  RunInv'
<1>1. /\ now \in Nat /\ leader \in Servers \cup {NoServer} /\ task[i] \in Task
      /\ task[i].ex \in Execution /\ task[i].req \in Execution /\ CmdOf(i) \in Cmds
      /\ cmd[CmdOf(i)] \in Cmd /\ cmd[CmdOf(i)].ex \in Execution /\ i \in CallIds
      /\ i[2] \in Nodes
  BY RunFacts
<1>2. Works
  BY RunParts
<1>3. ASSUME NEW retryable, AttemptFails(i, retryable)
      PROVE  task' \in [Tasks -> Task]
  BY <1>3, AttemptTypes, OneTask
<1>4. CASE DialFails(i)
  BY <1>2, <1>3, <1>4, SameStore, SameCluster, SameClock, RunPartsNext DEF DialFails, Works
<1>5. CASE Dispatch(i)
  <2>1. PICK m : m = [st |-> "running", open |-> TRUE, sent |-> 1,
                      ex |-> [task[i].req EXCEPT !.startedAt = now, !.node = i[2]]]
    OBVIOUS
  <2>2. m \in Cmd
    <3>1. PICK n \in Nodes : n = i[2]
      BY <1>1
    <3>2. [task[i].req EXCEPT !.startedAt = now, !.node = n] \in Execution
      BY <1>1, ExecutionEdits
    <3>3. 1 \in 0..2
      OBVIOUS
    <3>. QED BY <2>1, <3>1, <3>2, <3>3 DEF Cmd
  <2>3. cmd' \in [Cmds -> Cmd]
    BY <1>1, <1>5, <2>1, <2>2, OneCmd DEF Dispatch
  <2>4. task' \in [Tasks -> Task]
    BY <1>2, <1>5 DEF Dispatch, Works, Task
  <2>. QED BY <1>2, <1>5, <2>3, <2>4, SameStore, SameCluster, SameClock, RunPartsNext
           DEF Dispatch, Works
<1>6. CASE RecvFirst(i)
  <2>1. PICK e : e = [cmd[CmdOf(i)].ex EXCEPT !.finishedAt = task[i].req.finishedAt,
                                              !.success = FALSE]
    OBVIOUS
  <2>2. e \in Execution
    <3>1. task[i].req.finishedAt \in Nat
      BY <1>1 DEF Execution, Time
    <3>. QED BY <1>1, <2>1, <3>1, ExecutionEdits
  <2>3. task' = [task EXCEPT ![i].st = "first", ![i].got = 1, ![i].ex = e]
    BY <1>6, <2>1 DEF RecvFirst
  <2>4. PICK t : t = [task[i] EXCEPT !.st = "first", !.got = 1, !.ex = e]
    OBVIOUS
  <2>5. t \in Task
    <3>1. 1 \in 0..2
      OBVIOUS
    <3>. QED BY <1>1, <2>2, <2>4, <3>1 DEF Task
  <2>6. task' = [task EXCEPT ![i] = t]
    BY <1>1, <1>2, <2>3, <2>4 DEF Works, Task
  <2>7. task' \in [Tasks -> Task]
    BY <2>5, <2>6, OneTask
  <2>. QED BY <1>2, <1>6, <2>7, SameStore, SameCluster, SameClock, RunPartsNext DEF RecvFirst, Works
<1>7. CASE CallSetExecution(i)
  <2>1. CASE leader # NoServer
    <3>1. applySetExecution(task[i].ex) /\ task' = [task EXCEPT ![i].st = "recv"]
      BY <1>7, <2>1 DEF CallSetExecution
    <3>2. IInv'
      BY <1>1, <3>1, SetExecutionKeeps DEF SoundEntry, RunInv
    <3>3. task' \in [Tasks -> Task]
      BY <1>2, <3>1 DEF Works, Task
    <3>. QED BY <1>2, <1>7, <2>1, <3>2, <3>3, SameCluster, SameClock, RunPartsNext
             DEF CallSetExecution, Works
  <2>2. CASE leader = NoServer
    <3>1. AttemptFails(i, TRUE) /\ cmd' = [cmd EXCEPT ![CmdOf(i)].open = FALSE] /\ UNCHANGED store
      BY <1>7, <2>2 DEF CallSetExecution
    <3>2. cmd' \in [Cmds -> Cmd]
      BY <1>2, <3>1 DEF Works, Cmd
    <3>. QED BY <1>2, <1>3, <1>7, <3>1, <3>2, SameStore, SameCluster, SameClock, RunPartsNext
             DEF CallSetExecution, Works
  <2>. QED BY <2>1, <2>2
<1>8. CASE RecvFinal(i)
  <2>1. task' = [task EXCEPT ![i].got = 2, ![i].ex = cmd[CmdOf(i)].ex]
    BY <1>8 DEF RecvFinal
  <2>2. PICK t : t = [task[i] EXCEPT !.got = 2, !.ex = cmd[CmdOf(i)].ex]
    OBVIOUS
  <2>3. t \in Task
    <3>1. 2 \in 0..2
      OBVIOUS
    <3>. QED BY <1>1, <2>2, <3>1 DEF Task
  <2>4. task' = [task EXCEPT ![i] = t]
    BY <1>1, <1>2, <2>1, <2>2 DEF Works, Task
  <2>5. task' \in [Tasks -> Task]
    BY <2>3, <2>4, OneTask
  <2>. QED BY <1>2, <1>8, <2>5, SameStore, SameCluster, SameClock, RunPartsNext DEF RecvFinal, Works
<1>9. ASSUME NEW ex \in Execution, SendDone(i, ex)
      PROVE  call' \in [CallIds -> Call]
  <2>1. PICK h : h = [IdleCall EXCEPT !.ex = ex, !.server = leader,
                        !.st = IF leader = NoServer THEN "answered" ELSE "sent",
                        !.answer = IF leader = NoServer THEN "unavailable" ELSE "none"]
    OBVIOUS
  <2>2. h \in Call
    BY <1>1, <2>1, Nothings DEF Call
  <2>. QED BY <1>1, <1>9, <2>1, <2>2, OneCall DEF SendDone
<1>10. CASE RecvEOF(i)
  <2>1. call' \in [CallIds -> Call]
    BY <1>1, <1>9, <1>10 DEF RecvEOF
  <2>2. task' \in [Tasks -> Task]
    BY <1>2, <1>10 DEF RecvEOF, Works, Task
  <2>. QED BY <1>2, <1>10, <2>1, <2>2, SameStore, SameCluster, SameClock, RunPartsNext
           DEF RecvEOF, Works
<1>11. CASE RecvError(i)
  <2>1. PICK e : e = [task[i].ex EXCEPT !.finishedAt = now, !.success = FALSE]
    OBVIOUS
  <2>2. e \in Execution
    BY <1>1, <2>1, ExecutionEdits
  <2>3. PICK r \in Execution : r = IF task[i].got = 0 THEN e ELSE task[i].req
    BY <1>1, <2>2
  <2>4. SendDone(i, e) /\ task' = [task EXCEPT ![i].st = "report", ![i].ex = e, ![i].req = r]
    BY <1>1, <1>11, <2>1, <2>3 DEF RecvError, Task
  <2>5. PICK t : t = [task[i] EXCEPT !.st = "report", !.ex = e, !.req = r]
    OBVIOUS
  <2>6. t \in Task
    BY <1>1, <2>2, <2>5 DEF Task
  <2>7. task' = [task EXCEPT ![i] = t]
    BY <1>1, <1>2, <2>4, <2>5 DEF Works, Task
  <2>8. task' \in [Tasks -> Task]
    BY <2>6, <2>7, OneTask
  <2>. QED BY <1>2, <1>9, <1>11, <2>2, <2>4, <2>8, SameStore, SameCluster, SameClock, RunPartsNext
           DEF RecvError, Works
<1>12. CASE DoneReturns(i)
  <2>1. call' \in [CallIds -> Call]
    BY <1>1, <1>12, Nothings, OneCall DEF DoneReturns
  <2>. QED BY <1>2, <1>3, <1>12, <2>1, SameStore, SameCluster, SameClock, RunPartsNext
           DEF DoneReturns, Works
<1>. QED BY <1>4, <1>5, <1>6, <1>7, <1>8, <1>10, <1>11, <1>12 DEF TaskStep

\* The command on the node.
LEMMA CmdTypes ==
    ASSUME RunInv, NEW k \in Cmds, CmdStep(k)
    PROVE  RunInv'
<1>1. Works /\ now \in Nat /\ cmd[k] \in Cmd /\ cmd[k].ex \in Execution /\ k \in CallIds
  BY RunParts, RunFacts
<1>2. ASSUME NEW ok \in BOOLEAN, Finish(k, ok)
      PROVE  RunInv'
  <2>1. PICK e \in Execution : e = [cmd[k].ex EXCEPT !.finishedAt = now, !.success = ok]
    BY <1>1, ExecutionEdits
  <2>2. PICK n \in 0..2 : n = IF cmd[k].open THEN 2 ELSE cmd[k].sent
    BY <1>1 DEF Cmd
  <2>3. PICK m : m = [cmd[k] EXCEPT !.ex = e, !.st = IF cmd[k].open THEN "over" ELSE "fallback",
                                    !.sent = n]
    OBVIOUS
  <2>4. m \in Cmd
    BY <1>1, <2>3 DEF Cmd
  <2>5. cmd' = [cmd EXCEPT ![k] = m]
    BY <1>2, <2>1, <2>2, <2>3 DEF Finish
  <2>6. cmd' \in [Cmds -> Cmd]
    BY <2>4, <2>5, OneCmd
  <2>. QED BY <1>1, <1>2, <2>6, SameStore, SameCluster, SameClock, RunPartsNext DEF Finish, Works
<1>3. CASE Fallback(k)
  <2>1. cmd' \in [Cmds -> Cmd]
    BY <1>1, <1>3 DEF Fallback, Works, Cmd
  <2>2. call' \in [CallIds -> Call]
    <3>1. CASE UNCHANGED call
      BY <1>1, <3>1 DEF Works
    <3>2. ASSUME NEW s \in up, call' = [call EXCEPT ![k] =
                     [IdleCall EXCEPT !.st = "sent", !.server = s, !.ex = cmd[k].ex]]
          PROVE  call' \in [CallIds -> Call]
      <4>1. PICK h : h = [IdleCall EXCEPT !.st = "sent", !.server = s, !.ex = cmd[k].ex]
        OBVIOUS
      <4>2. s \in Servers
        BY DEF RunInv, RunsTypeOK
      <4>3. h \in Call
        BY <1>1, <4>1, <4>2, Nothings DEF Call
      <4>. QED BY <1>1, <3>2, <4>1, <4>3, OneCall
    <3>. QED BY <1>3, <3>1, <3>2 DEF Fallback
  <2>. QED BY <1>1, <1>3, <2>1, <2>2, SameStore, SameCluster, SameClock, RunPartsNext
           DEF Fallback, Works
<1>. QED BY <1>2, <1>3 DEF CmdStep

\* The report at a server.
LEMMA CallTypes ==
    ASSUME RunInv, NEW c \in CallIds, CallStep(c)
    PROVE  RunInv'
<1>1. /\ Works /\ now \in Nat /\ leader \in Servers \cup {NoServer} /\ call[c] \in Call
      /\ call[c].ex \in Execution /\ call[c].server \in Servers \cup {NoServer}
      /\ call[c].left \in [JobNames -> Nat] /\ call[c].ex.job \in JobNames
  BY RunParts, RunFacts DEF Call, Execution
<1>2. ASSUME NEW answer \in {"ok", "error", "unavailable"}, Answered(c, answer)
      PROVE  call' \in [CallIds -> Call]
  <2>1. Told(call[c], answer, up) \in {"ok", "error", "unavailable"}
    BY <1>2 DEF Told
  <2>. QED BY <1>1, <1>2, <2>1 DEF Answered, Works, Call
<1>3. ASSUME NEW st \in {"apply", "fetch", "retry", "chain", "wait"},
             call' = [call EXCEPT ![c].st = st]
      PROVE  call' \in [CallIds -> Call]
  BY <1>1, <1>3 DEF Works, Call
<1>4. CASE ForwardDone(c)
  <2>1. call' \in [CallIds -> Call]
    <3>1. CASE leader = NoServer
      BY <1>2, <1>4, <3>1 DEF ForwardDone
    <3>2. CASE leader # NoServer
      <4>1. call' = [call EXCEPT ![c].server = leader]
        BY <1>4, <3>2 DEF ForwardDone
      <4>. QED BY <1>1, <4>1 DEF Works, Call
    <3>. QED BY <3>1, <3>2
  <2>. QED BY <1>1, <1>4, <2>1, SameStore, SameCluster, SameClock, RunPartsNext
           DEF ForwardDone, Works
<1>5. CASE AcceptDone(c)
  <2>1. call' \in [CallIds -> Call]
    BY <1>2, <1>3, <1>5 DEF AcceptDone
  <2>. QED BY <1>1, <1>5, <2>1, SameStore, SameCluster, SameClock, RunPartsNext
           DEF AcceptDone, Works
<1>6. CASE ApplyDone(c)
  <2>1. call' \in [CallIds -> Call]
    BY <1>2, <1>3, <1>6 DEF ApplyDone
  <2>2. applyExecutionDone(call[c].ex) \/ UNCHANGED store
    BY <1>6 DEF ApplyDone
  <2>3. IInv'
    BY <1>1, <2>2, SameStore, ExecutionDoneKeeps DEF SoundEntry, RunInv
  <2>. QED BY <1>1, <1>6, <2>1, <2>3, SameCluster, SameClock, RunPartsNext DEF ApplyDone, Works
<1>7. CASE FetchJob(c)
  <2>1. call' \in [CallIds -> Call]
    <3>1. CASE Answered(c, "error")
      BY <1>2, <3>1
    <3>2. CASE call' = [call EXCEPT ![c].st = "retry"]
      BY <1>3, <3>2
    <3>3. CASE /\ Stored(jobs, call[c].ex.job)
               /\ call' = [call EXCEPT ![c].st = "notify",
                     ![c].left = IF jobs[call[c].ex.job].status = "success"
                                   THEN jobs[call[c].ex.job].deps ELSE NoDeps,
                     ![c].eph  = jobs[call[c].ex.job].config.ephemeral
                                   /\ jobs[call[c].ex.job].status = "success"]
      <4>1. jobs[call[c].ex.job] \in Job
        BY <1>1, <3>3, StoredIsJob, IInvFacts DEF RunInv
      <4>2. PICK deps \in [JobNames -> Nat] :
               deps = IF jobs[call[c].ex.job].status = "success"
                        THEN jobs[call[c].ex.job].deps ELSE NoDeps
        BY <4>1 DEF Job, NoDeps
      <4>3. PICK eph \in BOOLEAN : eph = (jobs[call[c].ex.job].config.ephemeral
                                            /\ jobs[call[c].ex.job].status = "success")
        OBVIOUS
      <4>4. PICK h : h = [call[c] EXCEPT !.st = "notify", !.left = deps, !.eph = eph]
        OBVIOUS
      <4>5. h \in Call
        BY <1>1, <4>4 DEF Call
      <4>6. call' = [call EXCEPT ![c].st = "notify", ![c].left = deps, ![c].eph = eph]
        BY <3>3, <4>2, <4>3
      <4>7. call' = [call EXCEPT ![c] = h]
        BY <1>1, <4>4, <4>6 DEF Works, Call
      <4>. QED BY <4>5, <4>7, OneCall
    <3>. QED BY <1>7, <3>1, <3>2, <3>3 DEF FetchJob
  <2>. QED BY <1>1, <1>7, <2>1, SameStore, SameCluster, SameClock, RunPartsNext
           DEF FetchJob, Works
<1>8. CASE RetryRun(c)
  <2>1. CASE CanRun(call[c].server, call[c].ex.job)
    <3>1. Run(call[c].server, NextAttempt(call[c].ex), nodesUp \cap {call[c].ex.node}, c)
      BY <1>8, <2>1 DEF RetryRun
    <3>2. NextAttempt(call[c].ex) \in Execution
      BY <1>1, ExecutionEdits
    <3>3. IInv' /\ Clock' /\ task' \in [Tasks -> Task]
      BY <1>1, <3>1, <3>2, RunTypes
    <3>4. call' \in [CallIds -> Call]
      <4>1. CASE Answered(c, "error")
        BY <1>2, <4>1
      <4>2. CASE call' = [call EXCEPT ![c].st = "wait", ![c].retry = TRUE]
        BY <1>1, <4>2 DEF Works, Call
      <4>. QED BY <1>8, <2>1, <4>1, <4>2 DEF RetryRun
    <3>. QED BY <1>1, <1>8, <3>3, <3>4, SameCluster, RunPartsNext DEF RetryRun, Works
  <2>2. CASE ~CanRun(call[c].server, call[c].ex.job)
    <3>1. Answered(c, "error") /\ UNCHANGED <<store, runs, waiter, task, now>>
      BY <1>8, <2>2 DEF RetryRun
    <3>2. call' \in [CallIds -> Call]
      BY <1>2, <3>1
    <3>. QED BY <1>1, <1>8, <3>1, <3>2, SameStore, SameClock, SameCluster, RunPartsNext
             DEF RetryRun, Works
  <2>. QED BY <2>1, <2>2
<1>9. CASE RunReturns(c)
  <2>1. call' \in [CallIds -> Call]
    BY <1>2, <1>3, <1>9 DEF RunReturns
  <2>. QED BY <1>1, <1>9, <2>1, SameStore, SameCluster, SameClock, RunPartsNext
           DEF RunReturns, Works
<1>10. CASE Notify(c)
  <2>1. call' \in [CallIds -> Call]
    BY <1>2, <1>3, <1>10 DEF Notify
  <2>. QED BY <1>1, <1>10, <2>1, SameStore, SameCluster, SameClock, RunPartsNext
           DEF Notify, Works
<1>11. CASE EndDone(c)
  <2>1. applyDeleteJob(call[c].ex.job) \/ UNCHANGED store
    BY <1>11 DEF EndDone
  <2>2. IInv'
    BY <1>1, <2>1, SameStore, DeleteJobKeeps DEF SoundEntry, RunInv
  <2>3. resp' \in {"ok", "error"}
    BY <2>2 DEF IInv, TypeOK
  <2>4. call' \in [CallIds -> Call]
    BY <1>2, <1>11, <2>3 DEF EndDone
  <2>. QED BY <1>1, <1>11, <2>2, <2>4, SameCluster, SameClock, RunPartsNext DEF EndDone, Works
<1>12. ASSUME NEW d \in JobNames, RunDependent(c, d)
       PROVE  RunInv'
  <2>1. call[c].left[d] \in Nat /\ call[c].left[d] > 0 /\ call[c].left[d] - 1 \in Nat
    BY <1>1, <1>12 DEF RunDependent
  <2>2. PICK deps \in [JobNames -> Nat] : deps = [call[c].left EXCEPT ![d] = call[c].left[d] - 1]
    BY <1>1, <2>1
  <2>3. ASSUME NEW st \in {call[c].st, "wait"},
               call' = [call EXCEPT ![c].left[d] = @ - 1, ![c].st = st]
        PROVE  call' \in [CallIds -> Call]
    <3>1. PICK h : h = [call[c] EXCEPT !.left = deps, !.st = st]
      OBVIOUS
    <3>2. st \in {"none", "sent", "apply", "fetch", "retry", "notify", "chain", "wait", "answered"}
      BY <1>1 DEF Call
    <3>3. h \in Call
      BY <1>1, <3>1, <3>2 DEF Call
    <3>4. call' = [call EXCEPT ![c] = h]
      BY <1>1, <2>2, <2>3, <3>1 DEF Works, Call
    <3>. QED BY <3>3, <3>4, OneCall
  <2>4. CASE UNCHANGED <<store, runs, waiter, task, now>>
    <3>1. call' \in [CallIds -> Call]
      <4>1. CASE Answered(c, "error")
        BY <1>2, <4>1
      <4>2. CASE call' = [call EXCEPT ![c].left[d] = @ - 1]
        <5>1. PICK h : h = [call[c] EXCEPT !.left = deps]
          OBVIOUS
        <5>2. h \in Call
          BY <1>1, <5>1 DEF Call
        <5>3. call' = [call EXCEPT ![c] = h]
          BY <1>1, <2>2, <4>2, <5>1 DEF Works, Call
        <5>. QED BY <5>2, <5>3, OneCall
      <4>3. CASE call' = [call EXCEPT ![c].left[d] = @ - 1, ![c].st = "wait"]
        BY <2>3, <4>3
      <4>. QED BY <1>12, <4>1, <4>2, <4>3 DEF RunDependent
    <3>. QED BY <1>1, <1>12, <2>4, <3>1, SameStore, SameClock, SameCluster, RunPartsNext
             DEF RunDependent, Works
  <2>5. CASE /\ Run(call[c].server, NewExecution(d), nodesUp, c)
             /\ call' = [call EXCEPT ![c].left[d] = @ - 1, ![c].st = "wait"]
    <3>1. NewExecution(d) \in Execution
      BY <1>1, NewExecutions
    <3>2. IInv' /\ Clock' /\ task' \in [Tasks -> Task]
      BY <1>1, <2>5, <3>1, RunTypes
    <3>3. call' \in [CallIds -> Call]
      BY <2>3, <2>5
    <3>. QED BY <1>1, <1>12, <3>2, <3>3, SameCluster, RunPartsNext DEF RunDependent, Works
  <2>. QED BY <1>12, <2>4, <2>5 DEF RunDependent
<1>. QED BY <1>4, <1>5, <1>6, <1>7, <1>8, <1>9, <1>10, <1>11, <1>12 DEF CallStep

\* Failures and elections.
LEMMA FaultTypes ==
    ASSUME RunInv, Fault \/ \E s \in Servers : Elect(s)
    PROVE  RunInv'
<1>1. Works /\ Clock /\ Cluster /\ now \in Nat
  BY RunParts DEF Clock
<1>2. ASSUME NEW kind \in {"break", "stepdown", "crash", "node"}, NEW bound, Faulty(kind, bound)
      PROVE  faults' \in [{"break", "stepdown", "crash", "node"} -> Nat]
  BY <1>1, <1>2 DEF Faulty, Cluster
<1>3. ASSUME NEW i \in Tasks, Refuse(i)
      PROVE  RunInv'
  <2>1. PICK m : m = [NoCmd EXCEPT !.st = "over", !.open = FALSE]
    OBVIOUS
  <2>2. m \in Cmd
    BY <2>1, Nothings DEF Cmd
  <2>3. cmd' \in [Cmds -> Cmd]
    BY <1>3, <2>1, <2>2, RunFacts, OneCmd DEF Refuse
  <2>4. task' \in [Tasks -> Task]
    BY <1>1, <1>3 DEF Refuse, Works, Task
  <2>5. Cluster'
    BY <1>1, <1>2, <1>3 DEF Refuse, Cluster
  <2>. QED BY <1>1, <1>3, <2>3, <2>4, <2>5, SameStore, SameClock, RunPartsNext DEF Refuse, Works
<1>4. ASSUME NEW k \in Cmds, BreakStream(k)
      PROVE  RunInv'
  <2>1. cmd' \in [Cmds -> Cmd]
    BY <1>1, <1>4 DEF BreakStream, Works, Cmd
  <2>2. Cluster'
    BY <1>1, <1>2, <1>4 DEF BreakStream, Cluster
  <2>. QED BY <1>1, <1>4, <2>1, <2>2, SameStore, SameClock, RunPartsNext DEF BreakStream, Works
<1>5. CASE StepDown
  <2>1. Cluster'
    BY <1>1, <1>2, <1>5 DEF StepDown, Cluster
  <2>. QED BY <1>1, <1>5, <2>1, SameStore, SameClock, RunPartsNext DEF StepDown, Works
<1>6. ASSUME NEW s \in Servers, Crash(s)
      PROVE  RunInv'
  <2>1. Cluster'
    BY <1>1, <1>2, <1>6 DEF Crash, Cluster
  <2>2. \A i \in Tasks : [task[i] EXCEPT !.st = "closed"] \in Task
    BY <1>1 DEF Works, Task
  <2>3. task' \in [Tasks -> Task]
    BY <1>1, <1>6, <2>2 DEF Crash, Works
  <2>4. \A k \in Cmds : [cmd[k] EXCEPT !.open = FALSE] \in Cmd
    BY <1>1 DEF Works, Cmd
  <2>5. cmd' \in [Cmds -> Cmd]
    BY <1>1, <1>6, <2>4 DEF Crash, Works
  <2>6. \A c \in CallIds :
            [call[c] EXCEPT !.st = "answered", !.answer = Told(call[c], "unavailable", up')] \in Call
    <3>1. \A c \in CallIds : Told(call[c], "unavailable", up') \in {"ok", "unavailable"}
      BY DEF Told
    <3>. QED BY <1>1, <3>1 DEF Works, Call
  <2>7. call' \in [CallIds -> Call]
    BY <1>1, <1>6, <2>6 DEF Crash, Works
  <2>8. IInv' /\ Clock'
    BY <1>6, SameStore, SameClock DEF Crash
  <2>. QED BY <2>1, <2>3, <2>5, <2>7, <2>8, RunPartsNext DEF Works
<1>7. ASSUME NEW n \in RunNodes, NodeCrash(n)
      PROVE  RunInv'
  <2>1. Cluster'
    BY <1>1, <1>2, <1>7 DEF NodeCrash, Cluster
  <2>2. \A k \in Cmds : [cmd[k] EXCEPT !.st = "over", !.open = FALSE] \in Cmd
    BY <1>1 DEF Works, Cmd
  <2>3. cmd' \in [Cmds -> Cmd]
    BY <1>1, <1>7, <2>2 DEF NodeCrash, Works
  <2>. QED BY <1>1, <1>7, <2>1, <2>3, SameStore, SameClock, RunPartsNext DEF NodeCrash, Works
<1>8. ASSUME NEW s \in Servers, Elect(s)
      PROVE  RunInv'
  <2>1. Cluster'
    BY <1>1, <1>8 DEF Elect, Cluster
  <2>. QED BY <1>1, <1>8, <2>1, SameStore, SameClock, RunPartsNext DEF Elect, Works
<1>. QED BY <1>3, <1>4, <1>5, <1>6, <1>7, <1>8 DEF Fault

\* The start.
LEMMA InitTypes == RunsInit => RunInv
<1> SUFFICES ASSUME RunsInit
             PROVE  RunInv
  OBVIOUS
<1>1. IInv
  BY RunsAssumption DEF RunsInit, IInv, TypeOK, ParentListsChild, KeysUnique, Whole, Stat
<1>2. leader \in up \cup {NoServer}
  BY RunsAssumption DEF RunsInit
<1>3. Cluster
  BY <1>2 DEF RunsInit, Cluster
<1>4. Clock
  BY RunsAssumption DEF RunsInit, Clock
<1>5. Works
  BY Nothings DEF RunsInit, Works
<1>. QED BY <1>1, <1>3, <1>4, <1>5, RunParts

\* A step that changes nothing.
LEMMA StutterTypes == RunInv /\ UNCHANGED allVars => RunInv'
<1> SUFFICES ASSUME RunInv, UNCHANGED allVars
             PROVE  RunInv'
  OBVIOUS
<1>1. UNCHANGED <<store, cluster, runs, waiter, now, task, cmd, call>>
  BY DEF allVars, runVars, vars, store, cluster
<1>. QED BY <1>1, SameStore, SameCluster, SameClock, RunPartsNext, RunParts DEF Works

\* Every step keeps the state well formed and the store whole.
THEOREM RunsInvariant == RunsSpec => []RunInv
<1>1. RunInv /\ [RunsNext]_allVars => RunInv'
  BY FireTypes, TaskTypes, CmdTypes, CallTypes, FaultTypes, StutterTypes DEF RunsNext
<1>. QED BY InitTypes, <1>1, PTL DEF RunsSpec

\* The leader is a running server, a dispatch is tried no more often than the
\* retry loop of GRPCClient.AgentRun allows, and every execution that is sent,
\* received, reported or stored is well formed.
THEOREM RunsTyped == RunsSpec => []RunsTypeOK
<1>1. RunInv => RunsTypeOK
  BY DEF RunInv
<1>. QED BY RunsInvariant, <1>1, PTL

----------------------------------------------------------------------------
(***************************************************************************)
(* activeExecutions                                                        *)
(***************************************************************************)

ActiveInv == Unmade /\ Linked /\ Owned

\* The commands of other goroutines are other commands.
LEMMA OtherCmd ==
    ASSUME task \in [Tasks -> Task], NEW i \in Tasks, NEW j \in Tasks, i # j
    PROVE  <<CmdOf(j)[1], CmdOf(j)[2]>> # i
BY CmdOfType

\* A step that leaves the goroutines and what their commands are about.
LEMMA ActiveSame ==
    ASSUME RunInv, ActiveInv, UNCHANGED <<runs, task, active>>,
           \A k \in Cmds : Key(cmd'[k].ex) = Key(cmd[k].ex)
    PROVE  ActiveInv'
<1>1. task \in [Tasks -> Task] /\ \A i \in Tasks : CmdOf(i) \in Cmds /\ CmdOf(i)' = CmdOf(i)
  BY CmdOfType DEF RunInv, RunsTypeOK, CmdOf
<1>2. Unmade'
  BY DEF ActiveInv, Unmade
<1>3. Linked'
  <2> SUFFICES ASSUME NEW i \in Tasks
               PROVE  (/\ task[i].st = "dial" => task[i].got = 0
                       /\ task[i].st \in {"recv", "first"} /\ task[i].got > 0 =>
                             Key(task[i].ex) = Key(cmd[CmdOf(i)].ex))'
    BY DEF Linked
  <2>1. Key(cmd'[CmdOf(i)].ex) = Key(cmd[CmdOf(i)].ex)
    BY <1>1
  <2>. QED BY <1>1, <2>1 DEF ActiveInv, Linked
<1>4. Owned'
  BY DEF ActiveInv, Owned, Owns
<1>. QED BY <1>2, <1>3, <1>4 DEF ActiveInv

\* A step of one goroutine.
LEMMA ActiveOne ==
    ASSUME RunInv, ActiveInv, UNCHANGED runs, NEW i \in Tasks, NEW t \in Task,
           task[i].st # "none", task' = [task EXCEPT ![i] = t],
           \A k \in Cmds : <<k[1], k[2]>> # i => Key(cmd'[k].ex) = Key(cmd[k].ex),
           t.st = "dial" => t.got = 0,
           t.st \in {"recv", "first"} /\ t.got > 0 =>
              Key(t.ex) = Key(cmd'[<<i[1], i[2], t.try>>].ex),
           \A a \in active' :
              \/ \E j \in Tasks \ {i} : Owns(j, a)
              \/ /\ t.st \in {"recv", "first", "report"} /\ t.got > 0
                 /\ a = <<t.server, Key(t.ex)>>
    PROVE  ActiveInv'
<1>1. /\ task \in [Tasks -> Task] /\ task'[i] = t /\ \A j \in Tasks \ {i} : task'[j] = task[j]
      /\ \A j \in Tasks : CmdOf(j) \in Cmds
      /\ \A j \in Tasks \ {i} : CmdOf(j)' = CmdOf(j)
      /\ CmdOf(i)' = <<i[1], i[2], t.try>>
  BY CmdOfType DEF RunInv, RunsTypeOK, CmdOf
<1>2. Unmade'
  BY <1>1 DEF ActiveInv, Unmade
<1>3. Linked'
  <2> SUFFICES ASSUME NEW j \in Tasks
               PROVE  (/\ task[j].st = "dial" => task[j].got = 0
                       /\ task[j].st \in {"recv", "first"} /\ task[j].got > 0 =>
                             Key(task[j].ex) = Key(cmd[CmdOf(j)].ex))'
    BY DEF Linked
  <2>1. CASE j = i
    BY <1>1, <2>1
  <2>2. CASE j # i
    <3>1. Key(cmd'[CmdOf(j)].ex) = Key(cmd[CmdOf(j)].ex)
      BY <1>1, <2>2, OtherCmd
    <3>. QED BY <1>1, <2>2, <3>1 DEF ActiveInv, Linked
  <2>. QED BY <2>1, <2>2
<1>4. Owned'
  BY <1>1 DEF Owned, Owns
<1>. QED BY <1>2, <1>3, <1>4 DEF ActiveInv

\* A return of agentRunAttempt deletes the entry of the goroutine.
LEMMA ActiveAttempt ==
    ASSUME RunInv, ActiveInv, UNCHANGED runs, NEW i \in Tasks, task[i].st # "none", NEW retryable,
           \A k \in Cmds : <<k[1], k[2]>> # i => Key(cmd'[k].ex) = Key(cmd[k].ex),
           AttemptFails(i, retryable)
    PROVE  ActiveInv'
<1>1. PICK t \in Task :
         /\ task' = [task EXCEPT ![i] = t]
         /\ \/ t = [task[i] EXCEPT !.st = "closed"]
            \/ t = [task[i] EXCEPT !.st = "dial", !.try = task[i].try + 1, !.got = 0,
                                   !.ex = task[i].req]
  BY AttemptTypes
<1>2. task[i] \in Task
  BY RunFacts
<1>3. t.st = "closed" \/ (t.st = "dial" /\ t.got = 0)
  BY <1>1, <1>2 DEF Task
<1>4. ASSUME NEW a \in active'
      PROVE  \E j \in Tasks \ {i} : Owns(j, a)
  <2>1. a \in active /\ a # <<task[i].server, Key(task[i].ex)>>
    BY <1>4 DEF AttemptFails
  <2>. QED BY <2>1 DEF ActiveInv, Owned, Owns
<1>. QED BY <1>1, <1>3, <1>4, ActiveOne

\* A call of Agent.Run.
LEMMA ActiveRun ==
    ASSUME RunInv, ActiveInv, NEW s, NEW ex, NEW targets, NEW by, Run(s, ex, targets, by),
           UNCHANGED <<cmd, active>>
    PROVE  ActiveInv'
<1>1. /\ task \in [Tasks -> Task] /\ runs \in Nat /\ runs' = runs + 1
      /\ task' = [i \in Tasks |->
                    IF i[1] = runs' /\ i[2] \in targets
                      THEN [NoTask EXCEPT !.st = "dial", !.server = s, !.req = ex, !.ex = ex]
                      ELSE task[i]]
  BY DEF RunInv, RunsTypeOK, Run
<1>2. ASSUME NEW i \in Tasks
      PROVE  \/ /\ task'[i] = task[i] /\ CmdOf(i)' = CmdOf(i)
             \/ /\ i[1] = runs + 1 /\ task[i].st = "none" /\ i[1] \in Nat
                /\ task'[i].st = "dial" /\ task'[i].got = 0
  <2>1. i[1] \in Nat
    BY <1>1, CmdOfType DEF RunIds
  <2>2. CASE i[1] = runs' /\ i[2] \in targets
    <3>1. task[i].st = "none"
      BY <1>1, <2>1, <2>2 DEF ActiveInv, Unmade
    <3>. QED BY <1>1, <2>1, <2>2, <3>1 DEF NoTask
  <2>3. CASE ~(i[1] = runs' /\ i[2] \in targets)
    BY <1>1, <2>3 DEF CmdOf
  <2>. QED BY <2>2, <2>3
<1>3. Unmade'
  <2> SUFFICES ASSUME NEW i \in Tasks, i[1] > runs'
               PROVE  task'[i].st = "none" /\ task'[i].server = NoServer
    BY DEF Unmade
  <2>1. i[1] \in Nat
    BY <1>1, CmdOfType DEF RunIds
  <2>. QED BY <1>1, <1>2, <2>1 DEF ActiveInv, Unmade
<1>4. Linked'
  BY <1>2 DEF ActiveInv, Linked
<1>5. Owned'
  <2> SUFFICES ASSUME NEW a \in active
               PROVE  \E i \in Tasks : Owns(i, a)'
    BY DEF Owned
  <2>1. PICK i \in Tasks : Owns(i, a)
    BY DEF ActiveInv, Owned
  <2>2. task'[i] = task[i]
    BY <1>2, <2>1 DEF Owns
  <2>. QED BY <2>1, <2>2 DEF Owns
<1>. QED BY <1>3, <1>4, <1>5 DEF ActiveInv

\* The steps of a goroutine.
LEMMA ActiveTask ==
    ASSUME RunInv, ActiveInv, NEW i \in Tasks, TaskStep(i)
    PROVE  ActiveInv'
<1>1. /\ task \in [Tasks -> Task] /\ cmd \in [Cmds -> Cmd] /\ task[i] \in Task /\ CmdOf(i) \in Cmds
      /\ task[i].ex \in Execution /\ cmd[CmdOf(i)].ex \in Execution
      /\ i = <<i[1], i[2]>> /\ CmdOf(i) = <<i[1], i[2], task[i].try>>
  BY RunFacts, CmdOfType DEF RunInv, RunsTypeOK, CmdOf
<1>2. ASSUME cmd' = cmd \/ \E m : cmd' = [cmd EXCEPT ![CmdOf(i)] = m]
      PROVE  \A k \in Cmds : <<k[1], k[2]>> # i => Key(cmd'[k].ex) = Key(cmd[k].ex)
  BY <1>1, <1>2
<1>3. UNCHANGED runs /\ task[i].st # "none"
  BY DEF TaskStep, DialFails, Dispatch, RecvFirst, CallSetExecution, RecvFinal, RecvEOF,
         RecvError, DoneReturns
<1>4. ASSUME NEW retryable, AttemptFails(i, retryable), UNCHANGED cmd
      PROVE  ActiveInv'
  BY <1>2, <1>3, <1>4, ActiveAttempt
<1>5. ASSUME NEW a \in active, ~Owns(i, a)
      PROVE  \E j \in Tasks \ {i} : Owns(j, a)
  BY <1>5 DEF ActiveInv, Owned
<1>6. CASE DialFails(i) \/ DoneReturns(i)
  BY <1>4, <1>6 DEF DialFails, DoneReturns
<1>7. CASE Dispatch(i)
  <2>1. PICK t : t = [task[i] EXCEPT !.st = "recv"]
    OBVIOUS
  <2>2. t \in Task /\ t.st = "recv" /\ t.got = task[i].got
    BY <1>1, <2>1 DEF Task
  <2>3. task' = [task EXCEPT ![i] = t] /\ UNCHANGED active /\ task[i].st = "dial"
    BY <1>7, <2>1 DEF Dispatch
  <2>4. task[i].got = 0
    BY <2>3 DEF ActiveInv, Linked
  <2>5. \A k \in Cmds : <<k[1], k[2]>> # i => Key(cmd'[k].ex) = Key(cmd[k].ex)
    BY <1>2, <1>7 DEF Dispatch
  <2>6. \A a \in active' : \E j \in Tasks \ {i} : Owns(j, a)
    BY <1>5, <2>3 DEF Owns
  <2>7. (t.st = "dial" => t.got = 0)
        /\ (t.st \in {"recv", "first"} /\ t.got > 0 =>
              Key(t.ex) = Key(cmd'[<<i[1], i[2], t.try>>].ex))
    BY <2>2, <2>4
  <2>8. \A a \in active' :
             \/ \E j \in Tasks \ {i} : Owns(j, a)
             \/ /\ t.st \in {"recv", "first", "report"} /\ t.got > 0
                /\ a = <<t.server, Key(t.ex)>>
    BY <2>6
  <2>. QED BY <1>3, <2>2, <2>3, <2>5, <2>7, <2>8, ActiveOne
<1>8. CASE RecvFirst(i)
  <2>1. PICK e : e = [cmd[CmdOf(i)].ex EXCEPT !.finishedAt = task[i].req.finishedAt,
                                              !.success = FALSE]
    OBVIOUS
  <2>2. Key(e) = Key(cmd[CmdOf(i)].ex)
    BY <1>1, <2>1 DEF Key, Execution
  <2>3. /\ task' = [task EXCEPT ![i].st = "first", ![i].got = 1, ![i].ex = e]
        /\ active' = active \cup {<<task[i].server, Key(e)>>}
        /\ task[i].st = "recv" /\ task[i].got = 0 /\ UNCHANGED cmd
    BY <1>8, <2>1 DEF RecvFirst
  <2>4. PICK t : t = [task[i] EXCEPT !.st = "first", !.got = 1, !.ex = e]
    OBVIOUS
  <2>5. /\ t.st = "first" /\ t.got = 1 /\ t.ex = e /\ t.try = task[i].try
        /\ t.server = task[i].server
    BY <1>1, <2>4 DEF Task
  <2>6. task' = [task EXCEPT ![i] = t]
    BY <1>1, <2>3, <2>4 DEF Task
  <2>7. t \in Task
    <3>1. task' \in [Tasks -> Task]
      BY TaskTypes DEF RunInv, RunsTypeOK
    <3>. QED BY <1>1, <2>6, <3>1
  <2>8. \A a \in active' : \/ \E j \in Tasks \ {i} : Owns(j, a)
                           \/ a = <<t.server, Key(t.ex)>>
    BY <1>5, <2>3, <2>5 DEF Owns
  <2>9. (t.st = "dial" => t.got = 0)
        /\ (t.st \in {"recv", "first"} /\ t.got > 0 =>
              Key(t.ex) = Key(cmd'[<<i[1], i[2], t.try>>].ex))
    BY <1>1, <2>2, <2>3, <2>5
  <2>10. \A a \in active' :
             \/ \E j \in Tasks \ {i} : Owns(j, a)
             \/ /\ t.st \in {"recv", "first", "report"} /\ t.got > 0
                /\ a = <<t.server, Key(t.ex)>>
    BY <2>5, <2>8
  <2>11. \A k \in Cmds : <<k[1], k[2]>> # i => Key(cmd'[k].ex) = Key(cmd[k].ex)
    BY <1>2, <2>3
  <2>. QED BY <1>3, <2>6, <2>7, <2>9, <2>10, <2>11, ActiveOne
<1>9. CASE CallSetExecution(i)
  <2>1. CASE leader # NoServer
    <3>1. /\ task' = [task EXCEPT ![i].st = "recv"] /\ UNCHANGED <<active, cmd>>
          /\ task[i].st = "first"
      BY <1>9, <2>1 DEF CallSetExecution
    <3>2. PICK t : t = [task[i] EXCEPT !.st = "recv"]
      OBVIOUS
    <3>3. /\ t \in Task /\ t.st = "recv" /\ t.got = task[i].got /\ t.ex = task[i].ex
          /\ t.try = task[i].try /\ t.server = task[i].server
      BY <1>1, <3>2 DEF Task
    <3>4. task' = [task EXCEPT ![i] = t]
      BY <3>1, <3>2
    <3>5. task[i].got > 0 => Key(task[i].ex) = Key(cmd[CmdOf(i)].ex)
      BY <3>1 DEF ActiveInv, Linked
    <3>6. \A a \in active' : \/ \E j \in Tasks \ {i} : Owns(j, a)
                             \/ t.got > 0 /\ a = <<t.server, Key(t.ex)>>
      BY <1>5, <3>1, <3>3 DEF Owns
    <3>7. (t.st = "dial" => t.got = 0)
          /\ (t.st \in {"recv", "first"} /\ t.got > 0 =>
                Key(t.ex) = Key(cmd'[<<i[1], i[2], t.try>>].ex))
      BY <1>1, <3>1, <3>3, <3>5
    <3>8. \A a \in active' :
               \/ \E j \in Tasks \ {i} : Owns(j, a)
               \/ /\ t.st \in {"recv", "first", "report"} /\ t.got > 0
                  /\ a = <<t.server, Key(t.ex)>>
      BY <3>3, <3>6
    <3>9. \A k \in Cmds : <<k[1], k[2]>> # i => Key(cmd'[k].ex) = Key(cmd[k].ex)
      BY <1>2, <3>1
    <3>. QED BY <1>3, <3>3, <3>4, <3>7, <3>8, <3>9, ActiveOne
  <2>2. CASE leader = NoServer
    <3>1. AttemptFails(i, TRUE) /\ cmd' = [cmd EXCEPT ![CmdOf(i)].open = FALSE]
      BY <1>9, <2>2 DEF CallSetExecution
    <3>. QED BY <1>2, <1>3, <3>1, ActiveAttempt
  <2>. QED BY <2>1, <2>2
<1>10. CASE RecvFinal(i)
  <2>1. /\ task' = [task EXCEPT ![i].got = 2, ![i].ex = cmd[CmdOf(i)].ex]
        /\ task[i].st = "recv" /\ task[i].got = 1 /\ UNCHANGED <<active, cmd>>
    BY <1>10 DEF RecvFinal
  <2>2. PICK t : t = [task[i] EXCEPT !.got = 2, !.ex = cmd[CmdOf(i)].ex]
    OBVIOUS
  <2>3. /\ t.st = "recv" /\ t.got = 2 /\ t.ex = cmd[CmdOf(i)].ex /\ t.try = task[i].try
        /\ t.server = task[i].server
    BY <1>1, <2>1, <2>2 DEF Task
  <2>4. task' = [task EXCEPT ![i] = t]
    BY <1>1, <2>1, <2>2 DEF Task
  <2>5. t \in Task
    <3>1. task' \in [Tasks -> Task]
      BY TaskTypes DEF RunInv, RunsTypeOK
    <3>. QED BY <1>1, <2>4, <3>1
  <2>6. Key(task[i].ex) = Key(t.ex)
    BY <2>1, <2>3 DEF ActiveInv, Linked
  <2>7. \A a \in active' : \/ \E j \in Tasks \ {i} : Owns(j, a)
                           \/ a = <<t.server, Key(t.ex)>>
    BY <1>5, <2>1, <2>3, <2>6 DEF Owns
  <2>8. (t.st = "dial" => t.got = 0)
        /\ (t.st \in {"recv", "first"} /\ t.got > 0 =>
              Key(t.ex) = Key(cmd'[<<i[1], i[2], t.try>>].ex))
    BY <1>1, <2>1, <2>3
  <2>9. \A a \in active' :
             \/ \E j \in Tasks \ {i} : Owns(j, a)
             \/ /\ t.st \in {"recv", "first", "report"} /\ t.got > 0
                /\ a = <<t.server, Key(t.ex)>>
    BY <2>3, <2>7
  <2>10. \A k \in Cmds : <<k[1], k[2]>> # i => Key(cmd'[k].ex) = Key(cmd[k].ex)
    BY <1>2, <2>1
  <2>. QED BY <1>3, <2>4, <2>5, <2>8, <2>9, <2>10, ActiveOne
<1>11. CASE RecvEOF(i) \/ RecvError(i)
  <2>1. PICK t : task' = [task EXCEPT ![i] = t] /\ t.st = "report" /\ Key(t.ex) = Key(task[i].ex)
                 /\ t.got = task[i].got /\ t.server = task[i].server
    <3>1. CASE RecvEOF(i)
      <4>1. PICK t : t = [task[i] EXCEPT !.st = "report"]
        OBVIOUS
      <4>2. task' = [task EXCEPT ![i] = t]
        BY <3>1, <4>1 DEF RecvEOF
      <4>3. /\ t.st = "report" /\ t.ex = task[i].ex /\ t.got = task[i].got
            /\ t.server = task[i].server
        BY <1>1, <4>1 DEF Task
      <4>. QED BY <4>2, <4>3
    <3>2. CASE RecvError(i)
      <4>1. PICK e : e = [task[i].ex EXCEPT !.finishedAt = now, !.success = FALSE]
        OBVIOUS
      <4>2. PICK r : r = IF task[i].got = 0 THEN e ELSE task[i].req
        OBVIOUS
      <4>3. PICK t : t = [task[i] EXCEPT !.st = "report", !.ex = e, !.req = r]
        OBVIOUS
      <4>4. task' = [task EXCEPT ![i].st = "report", ![i].ex = e, ![i].req = r]
        BY <1>1, <3>2, <4>1, <4>2 DEF RecvError, Task
      <4>5. task' = [task EXCEPT ![i] = t]
        BY <1>1, <4>3, <4>4 DEF Task
      <4>6. /\ t.st = "report" /\ t.ex = e /\ t.got = task[i].got /\ t.server = task[i].server
        BY <1>1, <4>3 DEF Task
      <4>7. Key(e) = Key(task[i].ex)
        BY <1>1, <4>1 DEF Key, Execution
      <4>. QED BY <4>5, <4>6, <4>7
    <3>. QED BY <1>11, <3>1, <3>2
  <2>2. task[i].st = "recv" /\ UNCHANGED <<active, cmd>>
    BY <1>11 DEF RecvEOF, RecvError
  <2>3. t \in Task
    <3>1. task' \in [Tasks -> Task]
      BY TaskTypes DEF RunInv, RunsTypeOK
    <3>. QED BY <1>1, <2>1, <3>1
  <2>4. \A a \in active' : \/ \E j \in Tasks \ {i} : Owns(j, a)
                           \/ t.got > 0 /\ a = <<t.server, Key(t.ex)>>
    BY <1>5, <2>1, <2>2 DEF Owns
  <2>. QED BY <1>2, <1>3, <2>1, <2>2, <2>3, <2>4, ActiveOne
<1>. QED BY <1>6, <1>7, <1>8, <1>9, <1>10, <1>11 DEF TaskStep

\* The steps of everything else.
LEMMA ActiveRest ==
    ASSUME RunInv, ActiveInv,
           \/ \E n \in JobNames : Fire(n)
           \/ \E k \in Cmds : CmdStep(k)
           \/ \E c \in CallIds : CallStep(c)
           \/ \E s \in Servers : Elect(s)
           \/ StepDown \/ \E k \in Cmds : BreakStream(k)
           \/ \E n \in RunNodes : NodeCrash(n)
           \/ UNCHANGED allVars
    PROVE  ActiveInv'
<1>1. cmd \in [Cmds -> Cmd] /\ \A k \in Cmds : cmd[k] \in Cmd /\ cmd[k].ex \in Execution
  BY RunFacts DEF RunInv, RunsTypeOK
<1>2. ASSUME NEW n \in JobNames, Fire(n)
      PROVE  ActiveInv'
  BY <1>2, ActiveRun DEF Fire
<1>3. ASSUME NEW c \in CallIds, CallStep(c)
      PROVE  ActiveInv'
  <2>1. UNCHANGED <<cmd, active>>
    BY <1>3 DEF CallStep, ForwardDone, AcceptDone, ApplyDone, FetchJob, RetryRun, RunReturns,
                Notify, EndDone, RunDependent
  <2>2. \/ UNCHANGED <<runs, task>>
        \/ \E s, ex, targets : Run(s, ex, targets, c)
    BY <1>3 DEF CallStep, ForwardDone, AcceptDone, ApplyDone, FetchJob, RetryRun, RunReturns,
                Notify, EndDone, RunDependent
  <2>. QED BY <2>1, <2>2, ActiveSame, ActiveRun
<1>4. ASSUME NEW k \in Cmds, CmdStep(k) \/ BreakStream(k)
      PROVE  ActiveInv'
  <2>1. UNCHANGED <<runs, task, active>>
    BY <1>4 DEF CmdStep, Finish, Fallback, BreakStream
  <2>2. CASE \E ok \in BOOLEAN : Finish(k, ok)
    <3>1. PICK ok \in BOOLEAN : Finish(k, ok)
      BY <2>2
    <3>2. PICK e : e = [cmd[k].ex EXCEPT !.finishedAt = now, !.success = ok]
      OBVIOUS
    <3>3. Key(e) = Key(cmd[k].ex)
      BY <1>1, <3>2 DEF Key, Execution
    <3>4. cmd'[k].ex = e /\ \A l \in Cmds \ {k} : cmd'[l] = cmd[l]
      BY <1>1, <3>1, <3>2 DEF Finish, Cmd
    <3>5. \A l \in Cmds : Key(cmd'[l].ex) = Key(cmd[l].ex)
      BY <3>3, <3>4
    <3>. QED BY <2>1, <3>5, ActiveSame
  <2>3. CASE Fallback(k) \/ BreakStream(k)
    <3>1. \A l \in Cmds : cmd'[l].ex = cmd[l].ex
      <4>1. CASE Fallback(k)
        BY <1>1, <4>1 DEF Fallback, Cmd
      <4>2. CASE BreakStream(k)
        BY <1>1, <4>2 DEF BreakStream, Cmd
      <4>. QED BY <2>3, <4>1, <4>2
    <3>. QED BY <2>1, <3>1, ActiveSame
  <2>. QED BY <1>4, <2>2, <2>3 DEF CmdStep
<1>5. ASSUME NEW n \in RunNodes, NodeCrash(n)
      PROVE  ActiveInv'
  <2>1. \A l \in Cmds : cmd'[l].ex = cmd[l].ex
    BY <1>1, <1>5 DEF NodeCrash, Cmd
  <2>. QED BY <1>5, <2>1, ActiveSame DEF NodeCrash
<1>6. ASSUME UNCHANGED <<runs, task, active, cmd>>
      PROVE  ActiveInv'
  BY <1>6, ActiveSame
<1>7. ASSUME (\E s \in Servers : Elect(s)) \/ StepDown \/ UNCHANGED allVars
      PROVE  ActiveInv'
  BY <1>6, <1>7 DEF Elect, StepDown, allVars, runVars
<1>. QED BY <1>2, <1>3, <1>4, <1>5, <1>7

\* A refused dispatch and a crash.
LEMMA ActiveCrash ==
    ASSUME RunInv, ActiveInv,
           (\E i \in Tasks : Refuse(i)) \/ (\E s \in Servers : Crash(s))
    PROVE  ActiveInv'
<1>1. /\ task \in [Tasks -> Task] /\ cmd \in [Cmds -> Cmd] /\ up \subseteq Servers
      /\ \A i \in Tasks : task[i] \in Task /\ CmdOf(i) \in Cmds
      /\ \A k \in Cmds : cmd[k] \in Cmd
  BY RunFacts DEF RunInv, RunsTypeOK
<1>2. ASSUME NEW i \in Tasks, Refuse(i)
      PROVE  ActiveInv'
  <2>1. PICK t : t = [task[i] EXCEPT !.st = "recv"]
    OBVIOUS
  <2>2. t \in Task /\ t.st = "recv" /\ t.got = task[i].got
    BY <1>1, <2>1 DEF Task
  <2>3. task' = [task EXCEPT ![i] = t] /\ UNCHANGED <<runs, active>> /\ task[i].st = "dial"
    BY <1>2, <2>1 DEF Refuse
  <2>4. task[i].got = 0
    BY <2>3 DEF ActiveInv, Linked
  <2>5. \A k \in Cmds : <<k[1], k[2]>> # i => cmd'[k] = cmd[k]
    BY <1>1, <1>2, CmdOfType DEF Refuse
  <2>6. \A a \in active' : \E j \in Tasks \ {i} : Owns(j, a)
    BY <2>3 DEF ActiveInv, Owned, Owns
  <2>7. (t.st = "dial" => t.got = 0)
        /\ (t.st \in {"recv", "first"} /\ t.got > 0 =>
              Key(t.ex) = Key(cmd'[<<i[1], i[2], t.try>>].ex))
    BY <2>2, <2>4
  <2>8. \A a \in active' :
             \/ \E j \in Tasks \ {i} : Owns(j, a)
             \/ /\ t.st \in {"recv", "first", "report"} /\ t.got > 0
                /\ a = <<t.server, Key(t.ex)>>
    BY <2>6
  <2>9. task[i].st # "none" /\ \A k \in Cmds : <<k[1], k[2]>> # i => Key(cmd'[k].ex) = Key(cmd[k].ex)
    BY <2>3, <2>5
  <2>. QED BY <2>2, <2>3, <2>7, <2>8, <2>9, ActiveOne
<1>3. ASSUME NEW s \in Servers, Crash(s)
      PROVE  ActiveInv'
  <2>1. ASSUME NEW i \in Tasks
        PROVE  \/ task[i].server = s /\ task'[i] = [task[i] EXCEPT !.st = "closed"]
               \/ task[i].server # s /\ task'[i] = task[i] /\ CmdOf(i)' = CmdOf(i)
    BY <1>3 DEF Crash, CmdOf
  <2>2. UNCHANGED runs /\ active' = {a \in active : a[1] # s} /\ s # NoServer
    BY <1>3, RunsAssumption DEF Crash
  <2>3. \A k \in Cmds : cmd'[k].ex = cmd[k].ex
    BY <1>1, <1>3 DEF Crash, Cmd
  <2>4. Unmade'
    BY <2>1, <2>2 DEF ActiveInv, Unmade
  <2>5. Linked'
    <3> SUFFICES ASSUME NEW i \in Tasks
                 PROVE  (/\ task[i].st = "dial" => task[i].got = 0
                         /\ task[i].st \in {"recv", "first"} /\ task[i].got > 0 =>
                               Key(task[i].ex) = Key(cmd[CmdOf(i)].ex))'
      BY DEF Linked
    <3>1. CASE task'[i].st = "closed"
      BY <3>1
    <3>2. CASE task'[i].st # "closed"
      <4>1. task[i].server # s /\ task'[i] = task[i] /\ CmdOf(i)' = CmdOf(i)
        BY <1>1, <2>1, <3>2 DEF Task
      <4>2. cmd'[CmdOf(i)].ex = cmd[CmdOf(i)].ex
        BY <1>1, <2>3
      <4>. QED BY <4>1, <4>2 DEF ActiveInv, Linked
    <3>. QED BY <3>1, <3>2
  <2>6. Owned'
    <3> SUFFICES ASSUME NEW a \in active'
                 PROVE  \E i \in Tasks : Owns(i, a)'
      BY DEF Owned
    <3>1. PICK i \in Tasks : Owns(i, a)
      BY <2>2 DEF ActiveInv, Owned
    <3>2. task[i].server # s
      BY <2>2, <3>1 DEF Owns
    <3>3. task'[i] = task[i]
      BY <2>1, <3>2
    <3>. QED BY <3>1, <3>3 DEF Owns
  <2>. QED BY <2>4, <2>5, <2>6 DEF ActiveInv
<1>. QED BY <1>2, <1>3

\* Every step keeps the goroutines linked to their commands and to the
\* entries they will delete.
THEOREM ActiveInvariant == RunsSpec => []ActiveInv
<1>1. RunsInit => ActiveInv
  BY DEF RunsInit, ActiveInv, Unmade, Linked, Owned, NoTask
<1>2. RunInv /\ ActiveInv /\ [RunsNext]_allVars => ActiveInv'
  BY ActiveTask, ActiveRest, ActiveCrash DEF RunsNext, Fault
<1>. QED BY <1>1, <1>2, RunsInvariant, PTL DEF RunsSpec

\* activeExecutions of a server holds nothing that no goroutine will delete,
\* however dispatches fail, streams break and servers crash
\* (GRPCClient.agentRunAttempt in src/dkron/grpc_client.go).
THEOREM NoLeakedEntries == RunsSpec => []ActiveHasTask
<1>1. ActiveInv => ActiveHasTask
  BY DEF ActiveInv, Owned, Owns, ActiveHasTask
<1>. QED BY ActiveInvariant, <1>1, PTL

----------------------------------------------------------------------------
(***************************************************************************)
(* Dispatching once                                                        *)
(***************************************************************************)

OnceInv == Loyal /\ LastTry

\* Every step keeps commands on running nodes.
LEMMA BegunStep ==
    ASSUME RunInv, Begun, [RunsNext]_allVars
    PROVE  Begun'
<1>1. /\ task \in [Tasks -> Task] /\ cmd \in [Cmds -> Cmd] /\ nodesUp \subseteq RunNodes
      /\ \A i \in Tasks : CmdOf(i) \in Cmds /\ CmdOf(i)[2] = i[2]
      /\ \A k \in Cmds : cmd[k] \in Cmd
  BY RunFacts, CmdOfType DEF RunInv, RunsTypeOK
<1>2. ASSUME UNCHANGED <<cmd, nodesUp>>
      PROVE  Begun'
  BY <1>2 DEF Begun
<1>3. ASSUME NEW n \in JobNames, Fire(n)
      PROVE  Begun'
  BY <1>2, <1>3 DEF Fire, cluster
<1>4. ASSUME NEW c \in CallIds, CallStep(c)
      PROVE  Begun'
  BY <1>2, <1>4 DEF CallStep, ForwardDone, AcceptDone, ApplyDone, FetchJob, RetryRun, RunReturns,
                    Notify, EndDone, RunDependent, cluster
<1>5. ASSUME NEW i \in Tasks, DialFails(i) \/ RecvFirst(i) \/ RecvFinal(i) \/ RecvEOF(i)
                                 \/ RecvError(i) \/ DoneReturns(i)
      PROVE  Begun'
  BY <1>2, <1>5 DEF DialFails, RecvFirst, RecvFinal, RecvEOF, RecvError, DoneReturns, cluster
<1>6. ASSUME NEW i \in Tasks, Dispatch(i) \/ Refuse(i)
      PROVE  Begun'
  <2>1. UNCHANGED nodesUp /\ \A k \in Cmds \ {CmdOf(i)} : cmd'[k] = cmd[k]
    BY <1>1, <1>6 DEF Dispatch, Refuse, cluster
  <2>2. CASE Dispatch(i)
    <3>1. cmd'[CmdOf(i)].st = "running" /\ cmd'[CmdOf(i)].sent = 1 /\ CmdOf(i)[2] \in nodesUp
      BY <1>1, <2>2 DEF Dispatch
    <3>. QED BY <2>1, <3>1 DEF Begun
  <2>3. CASE Refuse(i)
    <3>1. cmd'[CmdOf(i)].st = "over"
      BY <1>1, <2>3 DEF Refuse, NoCmd
    <3>. QED BY <2>1, <3>1 DEF Begun
  <2>. QED BY <1>6, <2>2, <2>3
<1>7. ASSUME UNCHANGED nodesUp,
             \A k \in Cmds : \/ cmd'[k].st = cmd[k].st /\ cmd'[k].sent = cmd[k].sent
                             \/ cmd'[k].st \notin {"running", "fallback"}
                             \/ cmd[k].st = "running" /\ cmd'[k].st = "fallback"
                                  /\ cmd'[k].sent = cmd[k].sent
      PROVE  Begun'
  BY <1>7 DEF Begun
<1>8. ASSUME NEW i \in Tasks, CallSetExecution(i)
      PROVE  Begun'
  <2>1. \A k \in Cmds : cmd'[k].st = cmd[k].st /\ cmd'[k].sent = cmd[k].sent
    <3>1. CASE UNCHANGED cmd
      BY <3>1
    <3>2. CASE cmd' = [cmd EXCEPT ![CmdOf(i)].open = FALSE]
      BY <1>1, <3>2 DEF Cmd
    <3>. QED BY <1>8, <3>1, <3>2 DEF CallSetExecution
  <2>. QED BY <1>7, <1>8, <2>1 DEF CallSetExecution, cluster
<1>9. ASSUME NEW k \in Cmds, CmdStep(k)
      PROVE  Begun'
  <2>1. ASSUME NEW ok \in BOOLEAN, Finish(k, ok)
        PROVE  Begun'
    <3>1. /\ cmd[k].st = "running" /\ \A l \in Cmds \ {k} : cmd'[l] = cmd[l]
          /\ \/ cmd'[k].st = "over"
             \/ cmd'[k].st = "fallback" /\ cmd'[k].sent = cmd[k].sent
      BY <1>1, <2>1 DEF Finish, Cmd
    <3>. QED BY <1>7, <2>1, <3>1 DEF Finish, cluster
  <2>2. CASE Fallback(k)
    <3>1. cmd'[k].st = "over" /\ \A l \in Cmds \ {k} : cmd'[l] = cmd[l]
      BY <1>1, <2>2 DEF Fallback, Cmd
    <3>. QED BY <1>7, <2>2, <3>1 DEF Fallback, cluster
  <2>. QED BY <1>9, <2>1, <2>2 DEF CmdStep
<1>10. ASSUME NEW k \in Cmds, BreakStream(k)
       PROVE  Begun'
  <2>1. \A l \in Cmds : cmd'[l].st = cmd[l].st /\ cmd'[l].sent = cmd[l].sent
    BY <1>1, <1>10 DEF BreakStream, Cmd
  <2>. QED BY <1>7, <1>10, <2>1 DEF BreakStream
<1>11. ASSUME NEW s \in Servers, Crash(s)
       PROVE  Begun'
  <2>1. \A l \in Cmds : cmd'[l].st = cmd[l].st /\ cmd'[l].sent = cmd[l].sent
    BY <1>1, <1>11 DEF Crash, Cmd
  <2>. QED BY <1>7, <1>11, <2>1 DEF Crash
<1>12. ASSUME NEW n \in RunNodes, NodeCrash(n)
       PROVE  Begun'
  <2>1. ASSUME NEW k \in Cmds
        PROVE  \/ k[2] # n /\ cmd'[k] = cmd[k]
               \/ cmd'[k] = cmd[k] /\ cmd[k].st \notin {"running", "fallback"}
               \/ cmd'[k].st = "over"
    BY <1>1, <1>12 DEF NodeCrash, Cmd
  <2>. QED BY <1>12, <2>1 DEF Begun, NodeCrash
<1>13. CASE (\E s \in Servers : Elect(s)) \/ StepDown \/ UNCHANGED allVars
  BY <1>2, <1>13 DEF Elect, StepDown, allVars, runVars
<1>. QED BY <1>3, <1>4, <1>5, <1>6, <1>8, <1>9, <1>10, <1>11, <1>12, <1>13
         DEF RunsNext, TaskStep, Fault

\* A command that runs has sent its first message, on a node that is up
\* (AgentServer.AgentRun in src/dkron/grpc_agent.go).
THEOREM BegunInvariant == RunsSpec => []Begun
<1>1. RunsInit => Begun
  BY DEF RunsInit, Begun, NoCmd
<1>. QED BY <1>1, BegunStep, RunsInvariant, PTL DEF RunsSpec

\* One goroutine moves, and its report with it.
LEMMA LoyalTask ==
    ASSUME RunInv, Loyal, NEW i \in Tasks, NEW t \in Task, task' = [task EXCEPT ![i] = t],
           task[i].st \notin {"none", "closed"}, t.server = task[i].server, UNCHANGED leader,
           \/ UNCHANGED call /\ (t.st = "report" => task[i].st = "report")
           \/ /\ t.st = "report"
              /\ \E h \in Call : /\ call' = [call EXCEPT ![i] = h]
                                 /\ h.st = "sent" /\ h.server = leader /\ h.answer = "none"
                                 /\ h.via = NoServer
           \/ t.st = "closed" /\ call' = [call EXCEPT ![i] = IdleCall]
    PROVE  Loyal'
<1>1. /\ task'[i] = t /\ \A j \in Tasks \ {i} : task'[j] = task[j]
      /\ i \in CallIds /\ call \in [CallIds -> Call]
      /\ \A j \in Tasks : j \in CallIds
  BY RunFacts DEF RunInv, RunsTypeOK
<1>2. task[i].server = leader /\ leader # NoServer
  BY DEF Loyal
<1>3. \A c \in CallIds : \/ call'[c] = call[c]
                         \/ c = i /\ call'[c] = IdleCall /\ t.st = "closed"
                         \/ /\ c = i /\ t.st = "report"
                            /\ call'[c].st = "sent" /\ call'[c].server = leader
                            /\ call'[c].answer = "none" /\ call'[c].via = NoServer
  BY <1>1
<1>5. IdleCall.st = "none" /\ "sent" \notin Handling /\ "none" \notin Handling
      /\ IdleCall.answer = "none"
  BY DEF IdleCall, Handling
<1>6. \A j \in Tasks : task'[j].st \notin {"none", "closed"} =>
          task'[j].server = leader /\ leader # NoServer
  BY <1>1, <1>2 DEF Loyal
<1>7. \A c \in CallIds : /\ call'[c].st \notin {"none", "answered"} => call'[c].server # NoServer
                         /\ call'[c].st \in Handling => call'[c].server = leader
  BY <1>2, <1>3, <1>5 DEF Loyal
<1>8. ASSUME NEW j \in Tasks, task'[j].st = "report"
      PROVE  /\ call'[j].answer # "unavailable"
             /\ call'[j].st # "answered" => call'[j].server = leader /\ call'[j].via = NoServer
  <2>1. CASE j # i
    <3>1. call'[j] = call[j] /\ task'[j] = task[j]
      BY <1>1, <1>3, <2>1
    <3>. QED BY <1>8, <3>1 DEF Loyal
  <2>2. CASE j = i
    <3>1. t.st = "report"
      BY <1>1, <1>8, <2>2
    <3>2. CASE UNCHANGED call /\ task[i].st = "report"
      BY <2>2, <3>2 DEF Loyal
    <3>3. CASE /\ call'[i].st = "sent" /\ call'[i].server = leader
               /\ call'[i].answer = "none" /\ call'[i].via = NoServer
      BY <2>2, <3>3
    <3>. QED BY <1>1, <3>1, <3>2, <3>3
  <2>. QED BY <2>1, <2>2
<1>. QED BY <1>6, <1>7, <1>8 DEF Loyal

\* One goroutine moves, and what it started is what it is at.
LEMMA LastTryTask ==
    ASSUME RunInv, LastTry, NEW i \in Tasks, NEW t \in Task, task' = [task EXCEPT ![i] = t],
           \A k \in Cmds : cmd'[k].sent = cmd[k].sent \/ k = CmdOf(i),
           \/ /\ task[i].st = "dial"
              /\ \/ t.try = task[i].try /\ t.st \notin {"none", "dial"}
                 \/ UNCHANGED cmd
           \/ t.try = task[i].try /\ t.st \notin {"none", "dial"}
    PROVE  LastTry'
<1>1. /\ task'[i] = t /\ \A j \in Tasks \ {i} : task'[j] = task[j]
      /\ CmdOf(i) = <<i[1], i[2], task[i].try>> /\ i = <<i[1], i[2]>>
      /\ CmdOf(i) \in Cmds
  BY CmdOfType DEF RunInv, RunsTypeOK, CmdOf
<1> SUFFICES ASSUME NEW k \in Cmds, cmd'[k].sent > 0
             PROVE  /\ task'[<<k[1], k[2]>>].try = k[3]
                    /\ task'[<<k[1], k[2]>>].st \notin {"none", "dial"}
  BY DEF LastTry, Started
<1>2. <<k[1], k[2]>> \in Tasks
  BY DEF Cmds, Tasks
<1>3. CASE <<k[1], k[2]>> # i
  <2>1. cmd'[k].sent = cmd[k].sent
    BY <1>1, <1>3
  <2>. QED BY <1>1, <1>2, <1>3, <2>1 DEF LastTry, Started
<1>4. CASE <<k[1], k[2]>> = i
  <2>1. CASE cmd'[k].sent = cmd[k].sent
    <3>1. task[i].try = k[3] /\ task[i].st \notin {"none", "dial"}
      BY <1>4, <2>1 DEF LastTry, Started
    <3>. QED BY <1>1, <1>4, <3>1
  <2>2. CASE cmd'[k].sent # cmd[k].sent
    <3>1. k = CmdOf(i) /\ cmd' # cmd
      BY <2>2
    <3>2. k[3] = task[i].try
      BY <1>1, <3>1
    <3>. QED BY <1>1, <1>4, <3>1, <3>2
  <2>. QED BY <2>1, <2>2
<1>. QED BY <1>3, <1>4

\* The steps of a goroutine.
LEMMA OnceTask ==
    ASSUME RunInv, OnceInv, NEW i \in Tasks, TaskStep(i)
    PROVE  OnceInv'
<1>1. /\ task \in [Tasks -> Task] /\ cmd \in [Cmds -> Cmd] /\ call \in [CallIds -> Call]
      /\ task[i] \in Task /\ CmdOf(i) \in Cmds /\ i \in CallIds /\ cmd[CmdOf(i)] \in Cmd
      /\ task[i].try \in Tries
  BY RunFacts DEF RunInv, RunsTypeOK, Task
<1>2. task' \in [Tasks -> Task]
  BY TaskTypes DEF RunInv, RunsTypeOK
<1>3. UNCHANGED leader /\ task[i].st \notin {"none", "closed"}
  BY DEF TaskStep, DialFails, Dispatch, RecvFirst, CallSetExecution, RecvFinal, RecvEOF,
         RecvError, DoneReturns, cluster
<1>4. leader # NoServer
  BY <1>3 DEF OnceInv, Loyal
<1>5. CASE DialFails(i)
  <2>1. PICK t \in Task :
           /\ task' = [task EXCEPT ![i] = t]
           /\ \/ t = [task[i] EXCEPT !.st = "closed"]
              \/ t = [task[i] EXCEPT !.st = "dial", !.try = task[i].try + 1, !.got = 0,
                                     !.ex = task[i].req]
    BY <1>5, AttemptTypes DEF DialFails
  <2>2. t.server = task[i].server /\ t.st # "report"
    BY <1>1, <2>1 DEF Task
  <2>3. UNCHANGED <<cmd, call>> /\ task[i].st = "dial"
    BY <1>5 DEF DialFails
  <2>4. Loyal'
    BY <1>3, <2>1, <2>2, <2>3, LoyalTask DEF OnceInv
  <2>5. LastTry'
    BY <2>1, <2>3, LastTryTask DEF OnceInv
  <2>. QED BY <2>4, <2>5 DEF OnceInv
<1>6. ASSUME NEW t \in Task, task' = [task EXCEPT ![i] = t],
             t.try = task[i].try, t.server = task[i].server,
             t.st \in {"recv", "first"}, UNCHANGED call,
             \A k \in Cmds : cmd'[k].sent = cmd[k].sent \/ k = CmdOf(i)
      PROVE  OnceInv'
  <2>1. Loyal'
    BY <1>3, <1>6, LoyalTask DEF OnceInv
  <2>2. LastTry'
    BY <1>6, LastTryTask DEF OnceInv
  <2>. QED BY <2>1, <2>2 DEF OnceInv
<1>7. CASE Dispatch(i)
  <2>1. PICK t : t = [task[i] EXCEPT !.st = "recv"]
    OBVIOUS
  <2>2. t \in Task /\ t.st = "recv" /\ t.try = task[i].try /\ t.server = task[i].server
    BY <1>1, <2>1 DEF Task
  <2>3. task' = [task EXCEPT ![i] = t] /\ UNCHANGED call
    BY <1>7, <2>1 DEF Dispatch
  <2>4. \A k \in Cmds : cmd'[k].sent = cmd[k].sent \/ k = CmdOf(i)
    BY <1>1, <1>7 DEF Dispatch
  <2>. QED BY <1>6, <2>2, <2>3, <2>4
<1>8. CASE RecvFirst(i) \/ RecvFinal(i) \/ CallSetExecution(i)
  <2>1. /\ task'[i].try = task[i].try /\ task'[i].server = task[i].server
        /\ task'[i].st \in {"recv", "first"} /\ \A j \in Tasks \ {i} : task'[j] = task[j]
    <3>1. CASE RecvFirst(i)
      BY <1>1, <3>1 DEF RecvFirst, Task
    <3>2. CASE RecvFinal(i)
      BY <1>1, <3>2 DEF RecvFinal, Task
    <3>3. CASE CallSetExecution(i)
      BY <1>1, <1>4, <3>3 DEF CallSetExecution, Task
    <3>. QED BY <1>8, <3>1, <3>2, <3>3
  <2>2. UNCHANGED <<cmd, call>>
    BY <1>4, <1>8 DEF RecvFirst, RecvFinal, CallSetExecution
  <2>3. PICK t \in Task : t = task'[i]
    BY <1>2
  <2>4. task' = [task EXCEPT ![i] = t]
    BY <1>1, <1>2, <2>1, <2>3
  <2>. QED BY <1>6, <2>1, <2>2, <2>3, <2>4
<1>9. CASE RecvEOF(i) \/ RecvError(i)
  <2>1. /\ task'[i].try = task[i].try /\ task'[i].server = task[i].server
        /\ task'[i].st = "report" /\ \A j \in Tasks \ {i} : task'[j] = task[j]
    <3>1. CASE RecvEOF(i)
      BY <1>1, <3>1 DEF RecvEOF, Task
    <3>2. CASE RecvError(i)
      BY <1>1, <3>2 DEF RecvError, Task
    <3>. QED BY <1>9, <3>1, <3>2
  <2>2. UNCHANGED cmd /\ \E ex : SendDone(i, ex)
    BY <1>9 DEF RecvEOF, RecvError
  <2>3. PICK t \in Task : t = task'[i]
    BY <1>2
  <2>4. task' = [task EXCEPT ![i] = t]
    BY <1>1, <1>2, <2>1, <2>3
  <2>5. \E h \in Call : /\ call' = [call EXCEPT ![i] = h]
                        /\ h.st = "sent" /\ h.server = leader /\ h.answer = "none"
                        /\ h.via = NoServer
    <3>1. PICK ex : SendDone(i, ex)
      BY <2>2
    <3>2. call' \in [CallIds -> Call]
      BY TaskTypes DEF RunInv, RunsTypeOK
    <3>3. PICK h : h = [IdleCall EXCEPT !.ex = ex, !.server = leader, !.st = "sent",
                                        !.answer = "none"]
      OBVIOUS
    <3>4. h.st = "sent" /\ h.server = leader /\ h.answer = "none" /\ h.via = NoServer
      BY <3>3 DEF IdleCall
    <3>5. call' = [call EXCEPT ![i] = h]
      BY <1>4, <3>1, <3>3 DEF SendDone
    <3>6. h \in Call
      BY <1>1, <3>2, <3>5
    <3>. QED BY <3>4, <3>5, <3>6
  <2>6. Loyal'
    BY <1>3, <2>1, <2>3, <2>4, <2>5, LoyalTask DEF OnceInv
  <2>7. LastTry'
    BY <2>1, <2>2, <2>3, <2>4, LastTryTask DEF OnceInv
  <2>. QED BY <2>6, <2>7 DEF OnceInv
<1>10. CASE DoneReturns(i)
  <2>1. call[i].answer # "unavailable"
    BY <1>10 DEF DoneReturns, OnceInv, Loyal
  <2>2. PICK t : t = [task[i] EXCEPT !.st = "closed"]
    OBVIOUS
  <2>3. /\ task' = [task EXCEPT ![i] = t] /\ UNCHANGED cmd
        /\ call' = [call EXCEPT ![i] = IdleCall]
    BY <1>10, <2>1, <2>2 DEF DoneReturns, AttemptFails
  <2>4. t \in Task /\ t.st = "closed" /\ t.try = task[i].try /\ t.server = task[i].server
    BY <1>1, <2>2 DEF Task
  <2>5. Loyal'
    BY <1>3, <2>3, <2>4, LoyalTask DEF OnceInv
  <2>6. LastTry'
    BY <2>3, <2>4, LastTryTask DEF OnceInv
  <2>. QED BY <2>5, <2>6 DEF OnceInv
<1>. QED BY <1>5, <1>7, <1>8, <1>9, <1>10 DEF TaskStep

\* A report moves on at the leader.
CallsLoyal ==
    \A c \in CallIds :
        \/ call'[c] = call[c]
        \/ /\ call[c].st # "answered" /\ call'[c].st = "answered"
           /\ call[c].via = NoServer => call'[c].answer # "unavailable"
        \/ /\ call[c].st \notin {"none", "answered"}
           /\ call'[c].st \notin {"none", "answered"}
           /\ call'[c].server = leader /\ leader # NoServer
           /\ call[c].server = leader => call'[c].via = call[c].via
           /\ call'[c].answer = call[c].answer

\* Reports move on, and new goroutines are the leader's.
LEMMA LoyalCalls ==
    ASSUME RunInv, Loyal, UNCHANGED leader, CallsLoyal,
           \A i \in Tasks : \/ task'[i] = task[i]
                            \/ task'[i].st = "dial" /\ task'[i].server = leader /\ leader # NoServer
    PROVE  Loyal'
<1>1. \A i \in Tasks : i \in CallIds
  BY DEF CallIds
<1>2. "answered" \notin Handling
  BY DEF Handling
<1>3. \A i \in Tasks : task'[i].st \notin {"none", "closed"} =>
          task'[i].server = leader /\ leader # NoServer
  BY DEF Loyal
<1>4. \A c \in CallIds : call'[c].st \notin {"none", "answered"} => call'[c].server # NoServer
  BY DEF Loyal, CallsLoyal
<1>5. \A c \in CallIds : call'[c].st \in Handling => call'[c].server = leader
  BY <1>2 DEF Loyal, CallsLoyal
<1>6. ASSUME NEW i \in Tasks, task'[i].st = "report"
      PROVE  /\ call'[i].answer # "unavailable"
             /\ call'[i].st # "answered" => call'[i].server = leader /\ call'[i].via = NoServer
  <2>1. /\ task[i].st = "report" /\ call[i].answer # "unavailable"
        /\ call[i].st # "answered" => call[i].server = leader /\ call[i].via = NoServer
    BY <1>6 DEF Loyal
  <2>. QED BY <1>1, <2>1 DEF CallsLoyal
<1>. QED BY <1>3, <1>4, <1>5, <1>6 DEF Loyal

\* Agent.Run at the leader starts goroutines that have dispatched nothing.
LEMMA OnceRun ==
    ASSUME RunInv, ActiveInv, OnceInv, NEW ex, NEW targets, NEW by,
           Run(leader, ex, targets, by), leader # NoServer, UNCHANGED <<leader, cmd>>, CallsLoyal
    PROVE  OnceInv'
<1>1. ASSUME NEW i \in Tasks
      PROVE  \/ task'[i] = task[i]
             \/ task[i].st = "none" /\ task'[i].st = "dial" /\ task'[i].server = leader
  <2>1. i[1] \in Nat /\ runs \in Nat
    BY CmdOfType DEF RunInv, RunsTypeOK, RunIds
  <2>2. CASE i[1] = runs' /\ i[2] \in targets
    <3>1. i[1] > runs
      BY <2>1, <2>2 DEF Run
    <3>. QED BY <2>2, <3>1 DEF Run, NoTask, ActiveInv, Unmade
  <2>3. CASE ~(i[1] = runs' /\ i[2] \in targets)
    BY <2>3 DEF Run
  <2>. QED BY <2>2, <2>3
<1>2. Loyal'
  BY <1>1, LoyalCalls DEF OnceInv
<1>3. LastTry'
  <2> SUFFICES ASSUME NEW k \in Cmds, cmd[k].sent > 0
               PROVE  /\ task'[<<k[1], k[2]>>].try = k[3]
                      /\ task'[<<k[1], k[2]>>].st \notin {"none", "dial"}
    BY DEF LastTry, Started
  <2>1. <<k[1], k[2]>> \in Tasks
    BY DEF Cmds, Tasks
  <2>. QED BY <1>1, <2>1 DEF OnceInv, LastTry, Started
<1>. QED BY <1>2, <1>3 DEF OnceInv

\* A step that leaves the goroutines and what the commands have sent.
LEMMA OnceSame ==
    ASSUME RunInv, OnceInv, UNCHANGED <<leader, task>>, CallsLoyal,
           \A k \in Cmds : Started(k)' => Started(k)
    PROVE  OnceInv'
<1>1. Loyal'
  BY LoyalCalls DEF OnceInv
<1>2. LastTry'
  BY DEF OnceInv, LastTry
<1>. QED BY <1>1, <1>2 DEF OnceInv

\* The steps of a report.
LEMMA OnceCall ==
    ASSUME RunInv, ActiveInv, OnceInv, NEW c \in CallIds, CallStep(c)
    PROVE  OnceInv'
<1>1. /\ call \in [CallIds -> Call] /\ call[c] \in Call /\ call[c].left \in [JobNames -> Nat]
  BY RunFacts DEF RunInv, RunsTypeOK, Call
<1>2. UNCHANGED <<leader, cmd>>
  BY DEF CallStep, ForwardDone, AcceptDone, ApplyDone, FetchJob, RetryRun, RunReturns,
         Notify, EndDone, RunDependent, cluster
<1>3. ASSUME NEW answer, answer # "unavailable", Answered(c, answer)
      PROVE  CallsLoyal
  <2>1. call[c].st # "answered"
    BY DEF CallStep, ForwardDone, AcceptDone, ApplyDone, FetchJob, RetryRun, RunReturns,
           Notify, EndDone, RunDependent
  <2>2. call[c].via = NoServer => Told(call[c], answer, up) = answer
    BY DEF Told
  <2>3. call'[c].st = "answered" /\ call'[c].answer = Told(call[c], answer, up)
    BY <1>1, <1>3 DEF Answered, Call
  <2>4. \A d \in CallIds \ {c} : call'[d] = call[d]
    BY <1>1, <1>3 DEF Answered
  <2>. QED BY <1>3, <2>1, <2>2, <2>3, <2>4 DEF CallsLoyal
<1>4. call[c].st \in Handling => call[c].server = leader /\ leader # NoServer
  BY DEF OnceInv, Loyal, Handling
<1>5. ASSUME call[c].st \in Handling \/ (call[c].st = "sent" /\ call[c].server = leader),
             \A d \in CallIds \ {c} : call'[d] = call[d],
             call'[c].st \in Handling, call'[c].server = call[c].server,
             call'[c].answer = call[c].answer, call'[c].via = call[c].via
      PROVE  CallsLoyal
  BY <1>1, <1>5 DEF OnceInv, Loyal, Handling, CallsLoyal
<1>6. ASSUME UNCHANGED task, CallsLoyal
      PROVE  OnceInv'
  BY <1>2, <1>6, OnceSame DEF Started
<1>7. CASE ForwardDone(c)
  <2>1. CallsLoyal
    <3>1. CASE leader = NoServer
      BY <1>3, <1>7, <3>1 DEF ForwardDone
    <3>2. CASE leader # NoServer
      BY <1>1, <1>7, <3>2 DEF ForwardDone, CallsLoyal, Call
    <3>. QED BY <3>1, <3>2
  <2>. QED BY <1>6, <1>7, <2>1 DEF ForwardDone
<1>8. CASE AcceptDone(c)
  <2>1. CASE Answered(c, "error")
    BY <1>3, <1>6, <1>8, <2>1 DEF AcceptDone
  <2>2. CASE call' = [call EXCEPT ![c].st = "apply"]
    <3>1. CallsLoyal
      BY <1>1, <1>5, <1>8, <2>2 DEF AcceptDone, Handling, Call
    <3>. QED BY <1>6, <1>8, <3>1 DEF AcceptDone
  <2>. QED BY <1>8, <2>1, <2>2 DEF AcceptDone
<1>9. CASE ApplyDone(c)
  <2>1. CallsLoyal
    BY <1>1, <1>3, <1>4, <1>5, <1>9 DEF ApplyDone, Handling, Call
  <2>. QED BY <1>6, <1>9, <2>1 DEF ApplyDone
<1>10. CASE FetchJob(c)
  <2>1. CallsLoyal
    BY <1>1, <1>3, <1>5, <1>10 DEF FetchJob, Handling, Call
  <2>. QED BY <1>6, <1>10, <2>1 DEF FetchJob
<1>11. CASE RetryRun(c)
  <2>1. call[c].server = leader /\ leader # NoServer
    BY <1>4, <1>11 DEF RetryRun, Handling
  <2>2. CallsLoyal
    BY <1>1, <1>3, <1>5, <1>11 DEF RetryRun, Handling, Call
  <2>3. CASE UNCHANGED task
    BY <1>6, <2>2, <2>3
  <2>4. CASE Run(call[c].server, NextAttempt(call[c].ex), nodesUp \cap {call[c].ex.node}, c)
    BY <1>2, <2>1, <2>2, <2>4, OnceRun
  <2>. QED BY <1>11, <2>3, <2>4 DEF RetryRun
<1>12. CASE RunReturns(c)
  <2>1. CallsLoyal
    BY <1>1, <1>3, <1>5, <1>12 DEF RunReturns, Handling, Call
  <2>. QED BY <1>6, <1>12, <2>1 DEF RunReturns
<1>13. CASE Notify(c)
  <2>1. CallsLoyal
    BY <1>1, <1>3, <1>5, <1>13 DEF Notify, Handling, Call
  <2>. QED BY <1>6, <1>13, <2>1 DEF Notify
<1>14. CASE EndDone(c)
  <2>1. resp' \in {"ok", "error"}
    BY CallTypes DEF RunInv, IInv, TypeOK
  <2>2. CallsLoyal
    BY <1>3, <1>14, <2>1 DEF EndDone
  <2>. QED BY <1>6, <1>14, <2>2 DEF EndDone
<1>15. ASSUME NEW d \in JobNames, RunDependent(c, d)
       PROVE  OnceInv'
  <2>1. call[c].server = leader /\ leader # NoServer /\ call[c].st = "chain"
    BY <1>4, <1>15 DEF RunDependent, Handling
  <2>2. CallsLoyal
    <3>1. CASE Answered(c, "error")
      BY <1>3, <3>1
    <3>2. CASE call' = [call EXCEPT ![c].left[d] = @ - 1]
      BY <1>1, <1>5, <2>1, <3>2 DEF Handling, Call
    <3>3. CASE call' = [call EXCEPT ![c].left[d] = @ - 1, ![c].st = "wait"]
      BY <1>1, <1>5, <2>1, <3>3 DEF Handling, Call
    <3>. QED BY <1>15, <3>1, <3>2, <3>3 DEF RunDependent
  <2>3. CASE UNCHANGED task
    BY <1>6, <2>2, <2>3
  <2>4. CASE Run(call[c].server, NewExecution(d), nodesUp, c)
    BY <1>2, <2>1, <2>2, <2>4, OnceRun
  <2>. QED BY <1>15, <2>3, <2>4 DEF RunDependent
<1>. QED BY <1>7, <1>8, <1>9, <1>10, <1>11, <1>12, <1>13, <1>14, <1>15 DEF CallStep

\* Goroutines and commands report under names of their own.
LEMMA TasksAreNotCmds == \A i \in Tasks, k \in Cmds : i # k
<1> SUFFICES ASSUME NEW i \in Tasks, NEW k \in Cmds
             PROVE  i # k
  OBVIOUS
<1>1. Len(i) = 2 /\ Len(k) = 3
  BY DEF Tasks, Cmds
<1>. QED BY <1>1

\* The steps of a command.
LEMMA OnceCmd ==
    ASSUME RunInv, Begun, OnceInv, NEW k \in Cmds, CmdStep(k) \/ BreakStream(k)
    PROVE  OnceInv'
<1>1. cmd \in [Cmds -> Cmd] /\ cmd[k] \in Cmd /\ call \in [CallIds -> Call] /\ k \in CallIds
      /\ up \subseteq Servers /\ \A i \in Tasks : i \in CallIds
  BY RunFacts DEF RunInv, RunsTypeOK
<1>2. UNCHANGED <<leader, task>>
  BY DEF CmdStep, Finish, Fallback, BreakStream, cluster
<1>3. ASSUME NEW ok \in BOOLEAN, Finish(k, ok)
      PROVE  OnceInv'
  <2>1. Started(k) /\ UNCHANGED call
    BY <1>3 DEF Begun, Finish, Started
  <2>2. \A l \in Cmds \ {k} : cmd'[l] = cmd[l]
    BY <1>1, <1>3 DEF Finish
  <2>3. \A l \in Cmds : Started(l)' => Started(l)
    BY <2>1, <2>2 DEF Started
  <2>. QED BY <1>2, <2>1, <2>3, OnceSame DEF CallsLoyal
<1>4. CASE BreakStream(k)
  <2>1. UNCHANGED call /\ \A l \in Cmds : cmd'[l].sent = cmd[l].sent
    BY <1>1, <1>4 DEF BreakStream, Cmd
  <2>. QED BY <1>2, <2>1, OnceSame DEF Started, CallsLoyal
<1>5. CASE Fallback(k)
  <2>1. \A l \in Cmds : cmd'[l].sent = cmd[l].sent
    BY <1>1, <1>5 DEF Fallback, Cmd
  <2>2. LastTry'
    BY <1>2, <2>1 DEF OnceInv, LastTry, Started
  <2>3. \A c \in CallIds : \/ call'[c] = call[c]
                           \/ c = k /\ call'[c].st = "sent" /\ call'[c].server # NoServer
    BY <1>1, <1>5, RunsAssumption DEF Fallback, IdleCall
  <2>4. \A i \in Tasks : call'[i] = call[i]
    BY <1>1, <2>3, TasksAreNotCmds
  <2>5. Loyal'
    BY <1>2, <2>3, <2>4 DEF OnceInv, Loyal, Handling
  <2>. QED BY <2>2, <2>5 DEF OnceInv
<1>. QED BY <1>3, <1>4, <1>5 DEF CmdStep

\* Elections and failures other than a loss of the leadership.
LEMMA OnceFault ==
    ASSUME RunInv, OnceInv,
           \/ \E i \in Tasks : Refuse(i)
           \/ \E s \in Servers : Crash(s)
           \/ \E n \in RunNodes : NodeCrash(n)
           \/ \E s \in Servers : Elect(s)
    PROVE  OnceInv'
<1>1. /\ task \in [Tasks -> Task] /\ cmd \in [Cmds -> Cmd] /\ call \in [CallIds -> Call]
      /\ \A i \in Tasks : task[i] \in Task /\ CmdOf(i) \in Cmds /\ i \in CallIds
      /\ \A k \in Cmds : cmd[k] \in Cmd
      /\ \A c \in CallIds : call[c] \in Call
  BY RunFacts DEF RunInv, RunsTypeOK
<1>2. ASSUME NEW i \in Tasks, Refuse(i)
      PROVE  OnceInv'
  <2>1. PICK t : t = [task[i] EXCEPT !.st = "recv"]
    OBVIOUS
  <2>2. t \in Task /\ t.st = "recv" /\ t.try = task[i].try /\ t.server = task[i].server
    BY <1>1, <2>1 DEF Task
  <2>3. /\ task' = [task EXCEPT ![i] = t] /\ UNCHANGED <<call, leader>> /\ task[i].st = "dial"
    BY <1>2, <2>1 DEF Refuse
  <2>4. \A k \in Cmds : cmd'[k].sent = cmd[k].sent \/ k = CmdOf(i)
    BY <1>1, <1>2 DEF Refuse
  <2>5. Loyal'
    BY <2>2, <2>3, LoyalTask DEF OnceInv
  <2>6. LastTry'
    BY <2>2, <2>3, <2>4, LastTryTask DEF OnceInv
  <2>. QED BY <2>5, <2>6 DEF OnceInv
<1>3. ASSUME NEW s \in Servers, Crash(s)
      PROVE  OnceInv'
  <2>1. ASSUME NEW i \in Tasks
        PROVE  /\ task'[i].try = task[i].try /\ task'[i].server = task[i].server
               /\ \/ task[i].server = s /\ task'[i].st = "closed"
                  \/ task[i].server # s /\ task'[i].st = task[i].st
    BY <1>1, <1>3 DEF Crash, Task
  <2>2. ASSUME NEW c \in CallIds
        PROVE  /\ call'[c].server = call[c].server
               /\ \/ /\ call[c].server = s /\ call'[c].st = "answered"
                     /\ call[c].st \notin {"none", "answered"}
                  \/ /\ call[c].server # s \/ call[c].st \in {"none", "answered"}
                     /\ call'[c] = call[c]
    BY <1>1, <1>3 DEF Crash, Call
  <2>3. leader' = IF leader = s THEN NoServer ELSE leader
    BY <1>3 DEF Crash
  <2>4. \A k \in Cmds : cmd'[k].sent = cmd[k].sent
    BY <1>1, <1>3 DEF Crash, Cmd
  <2>5. LastTry'
    <3> SUFFICES ASSUME NEW k \in Cmds, cmd'[k].sent > 0
                 PROVE  /\ task'[<<k[1], k[2]>>].try = k[3]
                        /\ task'[<<k[1], k[2]>>].st \notin {"none", "dial"}
      BY DEF LastTry, Started
    <3>1. <<k[1], k[2]>> \in Tasks
      BY DEF Cmds, Tasks
    <3>. QED BY <2>1, <2>4, <3>1 DEF OnceInv, LastTry, Started
  <2>6. \A i \in Tasks : task'[i].st \notin {"none", "closed"} =>
            /\ task[i].st = task'[i].st /\ task'[i].server = leader' /\ leader' # NoServer
            /\ leader # s
    BY <2>1, <2>3 DEF OnceInv, Loyal
  <2>7. \A c \in CallIds :
            /\ call'[c].st \notin {"none", "answered"} => call'[c].server # NoServer
            /\ call'[c].st \in Handling => call'[c].server = leader'
    BY <2>2, <2>3 DEF OnceInv, Loyal, Handling
  <2>8. \A i \in Tasks : task'[i].st = "report" =>
            /\ call'[i].answer # "unavailable"
            /\ call'[i].st # "answered" => call'[i].server = leader' /\ call'[i].via = NoServer
    BY <1>1, <2>2, <2>3, <2>6 DEF OnceInv, Loyal
  <2>. QED BY <2>5, <2>6, <2>7, <2>8 DEF OnceInv, Loyal
<1>4. ASSUME NEW n \in RunNodes, NodeCrash(n)
      PROVE  OnceInv'
  <2>1. UNCHANGED <<leader, task, call>> /\ \A k \in Cmds : cmd'[k].sent = cmd[k].sent
    BY <1>1, <1>4 DEF NodeCrash, Cmd
  <2>. QED BY <2>1, OnceSame DEF Started, CallsLoyal
<1>5. ASSUME NEW s \in Servers, Elect(s)
      PROVE  OnceInv'
  BY <1>5 DEF Elect, OnceInv, Loyal, LastTry, Started, Handling
<1>. QED BY <1>2, <1>3, <1>4, <1>5

\* Every step, if the leadership is lost by crashes only.
LEMMA OnceStep ==
    ASSUME MaxStepDowns = 0, RunInv, ActiveInv, Begun, OnceInv, [RunsNext]_allVars
    PROVE  OnceInv'
<1>1. ~StepDown
  BY DEF StepDown, Faulty, RunInv
<1>2. ASSUME NEW n \in JobNames, Fire(n)
      PROVE  OnceInv'
  BY <1>2, OnceRun DEF Fire, CallsLoyal, cluster
<1>3. CASE UNCHANGED allVars
  BY <1>3, OnceSame DEF allVars, runVars, CallsLoyal, Started
<1>. QED BY <1>1, <1>2, <1>3, OnceTask, OnceCall, OnceCmd, OnceFault DEF RunsNext, Fault

\* At the start nothing was dispatched.
LEMMA OnceInit == RunsInit => OnceInv
BY DEF RunsInit, OnceInv, Loyal, LastTry, Started, NoTask, NoCmd, IdleCall, Handling

\* A loss of the leadership apart, AgentRun's retry loop never dispatches an
\* execution again once the node has started its command: a redispatch comes
\* from a dial that failed, since a report that the crash of its server left
\* unanswered has no goroutine any more (GRPCClient.AgentRun in
\* src/dkron/grpc_client.go).
THEOREM DispatchedOnce == MaxStepDowns = 0 /\ RunsSpec => []StartedOnce
<1> DEFINE Steady == MaxStepDowns = 0
<1>1. RunsInit => OnceInv
  BY OnceInit
<1>2. Steady /\ RunInv /\ ActiveInv /\ Begun /\ OnceInv /\ [RunsNext]_allVars => OnceInv'
  BY OnceStep
<1>3. LastTry => StartedOnce
  <2> SUFFICES ASSUME LastTry, NEW k \in Cmds, NEW l \in Cmds, Started(k), Started(l),
                      k[1] = l[1], k[2] = l[2]
               PROVE  k = l
    BY DEF StartedOnce
  <2>1. k[3] = l[3]
    BY DEF LastTry
  <2>. QED BY <2>1 DEF Cmds
<1>4. Steady /\ [RunsNext]_allVars => Steady'
  OBVIOUS
<1>5. OnceInv => LastTry
  BY DEF OnceInv
<1> HIDE DEF Steady
<1>6. Steady /\ RunsSpec => []StartedOnce
  BY <1>1, <1>2, <1>3, <1>4, <1>5, RunsInvariant, ActiveInvariant, BegunInvariant, PTL
     DEF RunsSpec
<1>. QED BY <1>6 DEF Steady

----------------------------------------------------------------------------
(***************************************************************************)
(* Concurrency "forbid"                                                    *)
(***************************************************************************)

ForbidInv == NoRetries /\ Commands /\ StoreHolds /\ CallsHold /\ TasksHold

\* Unfinished and Over after a step.
UnfinishedNext(e) ==
    /\ e.attempt > 0 /\ e.startedAt < now'
    /\ \A k \in Cmds : cmd'[k].st = "running" /\ Key(e) = Key(cmd'[k].ex) => e.finishedAt = Never

OverNext(e) ==
    /\ e.attempt > 0 /\ e.startedAt < now'
    /\ \A k \in Cmds : cmd'[k].st = "running" => Key(e) # Key(cmd'[k].ex)

\* Time passes and nodes do not come back.
Passing == now' \in {now, now + 1} /\ nodesUp' \subseteq nodesUp

\* The command goes on, or ends.
CmdKept(k) ==
    /\ Key(cmd'[k].ex) = Key(cmd[k].ex) /\ cmd'[k].ex.attempt = cmd[k].ex.attempt
    /\ Started(k)' => Started(k)
    /\ cmd'[k].st = "running" => cmd[k].st = "running"

\* A command begins now.
CmdBegins(k) ==
    /\ now' = now + 1 /\ cmd'[k].ex.startedAt = now /\ cmd'[k].ex.attempt > 0
    /\ \A l \in Cmds \ {k} : CmdKept(l)

CmdsMove == (\A k \in Cmds : CmdKept(k)) \/ (\E k \in Cmds : CmdBegins(k))

\* Equal keys, equal instants.
LEMMA KeyStart ==
    ASSUME NEW a, NEW b, Key(a) = Key(b)
    PROVE  a.startedAt = b.startedAt /\ a.job = b.job
BY DEF Key

\* Whatever moves, commands stay apart, and what was no result of a running
\* command is none afterwards: a command that begins is younger than all.
LEMMA Aging ==
    ASSUME RunInv, Begun, Commands, Passing, CmdsMove, Begun'
    PROVE  /\ Commands'
           /\ \A e \in Execution : /\ Unfinished(e) => UnfinishedNext(e)
                                   /\ Over(e) => OverNext(e)
<1>1. /\ now \in Nat /\ now > 0 /\ now' \in Nat /\ now' >= now
      /\ \A k \in Cmds : cmd[k] \in Cmd /\ cmd[k].ex \in Execution
      /\ \A e \in Execution : e.startedAt \in Nat
  BY RunFacts DEF Commands, Passing, Execution, Time
<1>2. \A k \in Cmds : cmd'[k].st = "running" => Started(k)'
  BY DEF Begun, Started
<1>3. \A k \in Cmds : CmdKept(k) => cmd'[k].ex.startedAt = cmd[k].ex.startedAt
  BY KeyStart DEF CmdKept
<1>4. ASSUME NEW k \in Cmds, Started(k)'
      PROVE  /\ cmd'[k].ex.startedAt \in 1..(now' - 1) /\ cmd'[k].ex.attempt > 0
             /\ \/ Started(k) /\ CmdKept(k)
                \/ CmdBegins(k)
  <2>1. CASE CmdKept(k)
    <3>1. Started(k) /\ cmd'[k].ex.attempt = cmd[k].ex.attempt
      BY <1>4, <2>1 DEF CmdKept
    <3>2. cmd[k].ex.startedAt \in 1..(now - 1) /\ cmd[k].ex.attempt > 0
      BY <3>1 DEF Commands
    <3>. QED BY <1>1, <1>3, <2>1, <3>1, <3>2
  <2>2. CASE CmdBegins(k)
    BY <1>1, <2>2 DEF CmdBegins
  <2>. QED BY <2>1, <2>2 DEF CmdsMove, CmdBegins
<1>5. ASSUME NEW k \in Cmds, NEW l \in Cmds, Started(k)', Started(l)',
             cmd'[k].ex.startedAt = cmd'[l].ex.startedAt
      PROVE  k = l
  <2>1. ASSUME NEW a \in Cmds, NEW b \in Cmds, a # b, Started(b)', CmdBegins(a)
        PROVE  cmd'[a].ex.startedAt # cmd'[b].ex.startedAt
    <3>1. CmdKept(b) /\ cmd'[a].ex.startedAt = now
      BY <2>1 DEF CmdBegins
    <3>2. Started(b)
      BY <2>1, <3>1 DEF CmdKept
    <3>3. cmd[b].ex.startedAt \in 1..(now - 1)
      BY <3>2 DEF Commands
    <3>. QED BY <1>1, <1>3, <3>1, <3>3
  <2>2. CASE Started(k) /\ CmdKept(k) /\ Started(l) /\ CmdKept(l)
    BY <1>3, <1>5, <2>2 DEF Commands
  <2>. QED BY <1>4, <1>5, <2>1, <2>2
<1>6. Commands'
  BY <1>1, <1>4, <1>5 DEF Commands
<1>7. ASSUME NEW e \in Execution, NEW k \in Cmds, e.startedAt < now, cmd'[k].st = "running",
             Key(e) = Key(cmd'[k].ex)
      PROVE  cmd[k].st = "running" /\ Key(e) = Key(cmd[k].ex)
  <2>1. CASE CmdKept(k)
    BY <1>7, <2>1 DEF CmdKept
  <2>2. CASE CmdBegins(k)
    <3>1. e.startedAt = now
      BY <1>7, <2>2, KeyStart DEF CmdBegins
    <3>. QED BY <1>1, <1>7, <3>1
  <2>. QED BY <2>1, <2>2 DEF CmdsMove, CmdBegins
<1>8. \A e \in Execution : e.startedAt < now => e.startedAt < now'
  BY <1>1
<1>9. ASSUME NEW e \in Execution, Unfinished(e)
      PROVE  UnfinishedNext(e)
  BY <1>7, <1>8, <1>9 DEF Unfinished, UnfinishedNext
<1>10. ASSUME NEW e \in Execution, Over(e)
       PROVE  OverNext(e)
  BY <1>7, <1>8, <1>10 DEF Over, OverNext
<1>. QED BY <1>6, <1>9, <1>10

\* What every step does to the commands, without breaking streams.
LEMMA CmdsMoves ==
    ASSUME MaxBreaks = 0, RunInv, Begun, TasksHold, [RunsNext]_allVars
    PROVE  Passing /\ CmdsMove
<1>1. /\ task \in [Tasks -> Task] /\ cmd \in [Cmds -> Cmd] /\ now \in Nat
      /\ \A i \in Tasks : task[i] \in Task /\ CmdOf(i) \in Cmds /\ task[i].req \in Execution
      /\ \A k \in Cmds : cmd[k] \in Cmd /\ cmd[k].ex \in Execution
  BY RunFacts DEF RunInv, RunsTypeOK
<1>2. (\A i \in Tasks : ~Refuse(i)) /\ (\A k \in Cmds : ~BreakStream(k))
  BY DEF Refuse, BreakStream, Faulty, RunInv
<1>3. ASSUME UNCHANGED cmd
      PROVE  CmdsMove
  BY <1>3 DEF CmdsMove, CmdKept, Started
<1>4. ASSUME \A k \in Cmds : /\ cmd'[k].ex = cmd[k].ex /\ cmd'[k].sent = cmd[k].sent
                             /\ cmd'[k].st = "running" => cmd[k].st = "running"
      PROVE  CmdsMove
  BY <1>4 DEF CmdsMove, CmdKept, Started
<1>5. ASSUME NEW n \in JobNames, Fire(n)
      PROVE  Passing /\ CmdsMove
  BY <1>3, <1>5 DEF Fire, Run, Passing, cluster
<1>6. ASSUME NEW c \in CallIds, CallStep(c)
      PROVE  Passing /\ CmdsMove
  BY <1>3, <1>6 DEF CallStep, ForwardDone, AcceptDone, ApplyDone, FetchJob, RetryRun, RunReturns,
                    Notify, EndDone, RunDependent, Run, Passing, cluster
<1>7. ASSUME NEW i \in Tasks, DialFails(i) \/ RecvFirst(i) \/ RecvFinal(i) \/ RecvEOF(i)
                                 \/ RecvError(i) \/ DoneReturns(i)
      PROVE  Passing /\ CmdsMove
  BY <1>3, <1>7 DEF DialFails, RecvFirst, RecvFinal, RecvEOF, RecvError, DoneReturns, Passing,
                    cluster
<1>8. ASSUME NEW i \in Tasks, Dispatch(i)
      PROVE  Passing /\ CmdsMove
  <2>1. PICK e : e = [task[i].req EXCEPT !.startedAt = now, !.node = i[2]]
    OBVIOUS
  <2>2. e.startedAt = now /\ e.attempt = task[i].req.attempt
    BY <1>1, <2>1 DEF Execution
  <2>3. task[i].req.attempt > 0
    BY <1>8 DEF Dispatch, TasksHold, Held
  <2>4. cmd'[CmdOf(i)].ex = e /\ now' = now + 1 /\ \A k \in Cmds \ {CmdOf(i)} : cmd'[k] = cmd[k]
    BY <1>1, <1>8, <2>1 DEF Dispatch
  <2>5. CmdBegins(CmdOf(i))
    BY <2>2, <2>3, <2>4 DEF CmdBegins, CmdKept, Started
  <2>. QED BY <1>1, <1>8, <2>5 DEF CmdsMove, Passing, Dispatch, cluster
<1>9. ASSUME NEW i \in Tasks, CallSetExecution(i)
      PROVE  Passing /\ CmdsMove
  <2>1. CASE UNCHANGED cmd
    BY <1>3, <1>9, <2>1 DEF CallSetExecution, Passing, cluster
  <2>2. CASE cmd' = [cmd EXCEPT ![CmdOf(i)].open = FALSE]
    <3>1. \A k \in Cmds : /\ cmd'[k].ex = cmd[k].ex /\ cmd'[k].sent = cmd[k].sent
                          /\ cmd'[k].st = cmd[k].st
      BY <1>1, <2>2 DEF Cmd
    <3>. QED BY <1>4, <1>9, <3>1 DEF CallSetExecution, Passing, cluster
  <2>. QED BY <1>9, <2>1, <2>2 DEF CallSetExecution
<1>10. ASSUME NEW k \in Cmds, CmdStep(k)
       PROVE  Passing /\ CmdsMove
  <2>1. ASSUME NEW ok \in BOOLEAN, Finish(k, ok)
        PROVE  Passing /\ CmdsMove
    <3>1. PICK e : e = [cmd[k].ex EXCEPT !.finishedAt = now, !.success = ok]
      OBVIOUS
    <3>2. Key(e) = Key(cmd[k].ex) /\ e.attempt = cmd[k].ex.attempt
      BY <1>1, <3>1 DEF Key, Execution
    <3>3. /\ cmd'[k].ex = e /\ cmd'[k].st # "running"
          /\ \A l \in Cmds \ {k} : cmd'[l] = cmd[l]
      BY <1>1, <2>1, <3>1 DEF Finish, Cmd
    <3>4. Started(k)
      BY <2>1 DEF Finish, Begun, Started
    <3>5. \A l \in Cmds : CmdKept(l)
      BY <3>2, <3>3, <3>4 DEF CmdKept, Started
    <3>. QED BY <1>1, <2>1, <3>5 DEF Finish, CmdsMove, Passing, cluster
  <2>2. CASE Fallback(k)
    <3>1. \A l \in Cmds : /\ cmd'[l].ex = cmd[l].ex /\ cmd'[l].sent = cmd[l].sent
                          /\ cmd'[l].st = "running" => cmd[l].st = "running"
      BY <1>1, <2>2 DEF Fallback, Cmd
    <3>. QED BY <1>4, <2>2, <3>1 DEF Fallback, Passing, cluster
  <2>. QED BY <1>10, <2>1, <2>2 DEF CmdStep
<1>11. ASSUME NEW s \in Servers, Crash(s)
       PROVE  Passing /\ CmdsMove
  <2>1. \A l \in Cmds : /\ cmd'[l].ex = cmd[l].ex /\ cmd'[l].sent = cmd[l].sent
                        /\ cmd'[l].st = cmd[l].st
    BY <1>1, <1>11 DEF Crash, Cmd
  <2>. QED BY <1>4, <1>11, <2>1 DEF Crash, Passing
<1>12. ASSUME NEW n \in RunNodes, NodeCrash(n)
       PROVE  Passing /\ CmdsMove
  <2>1. \A l \in Cmds : /\ cmd'[l].ex = cmd[l].ex /\ cmd'[l].sent = cmd[l].sent
                        /\ cmd'[l].st = "running" => cmd[l].st = "running"
    BY <1>1, <1>12 DEF NodeCrash, Cmd
  <2>. QED BY <1>4, <1>12, <2>1 DEF NodeCrash, Passing
<1>13. CASE (\E s \in Servers : Elect(s)) \/ StepDown \/ UNCHANGED allVars
  BY <1>3, <1>13 DEF Elect, StepDown, Passing, allVars, runVars
<1>14. ASSUME NEW i \in Tasks, TaskStep(i)
       PROVE  Passing /\ CmdsMove
  BY <1>7, <1>8, <1>9, <1>14 DEF TaskStep
<1>15. CASE Fault
  BY <1>2, <1>11, <1>12, <1>13, <1>15 DEF Fault
<1>. QED BY <1>5, <1>6, <1>10, <1>13, <1>14, <1>15 DEF RunsNext

\* No step changes what the owner of a job wrote.
LEMMA ConfigsKept ==
    ASSUME RunInv, StoreValid(jobs), [RunsNext]_allVars
    PROVE  /\ StoreValid(jobs')
           /\ \A n \in JobNames : Stored(jobs', n) =>
                 Stored(jobs, n) /\ jobs'[n].config = jobs[n].config
<1> DEFINE Kept == /\ StoreValid(jobs')
                   /\ \A n \in JobNames : Stored(jobs', n) =>
                         Stored(jobs, n) /\ jobs'[n].config = jobs[n].config
<1>1. IInv /\ jobs \in JobMap /\ now \in Nat
      /\ \A c \in CallIds : call[c].ex \in Execution /\ call[c].ex.job \in JobNames
      /\ \A i \in Tasks : task[i].ex \in Execution
  BY RunFacts, IInvFacts DEF RunInv, Execution
<1>2. ASSUME UNCHANGED jobs
      PROVE  Kept
  BY <1>2
<1>3. ASSUME \A n \in JobNames : OwnKept(n)
      PROVE  Kept
  BY <1>3, OwnKeptValid DEF OwnKept
<1>4. ASSUME NEW s, NEW ex, ex.job \in JobNames, NEW targets, NEW by, Run(s, ex, targets, by)
      PROVE  Kept
  <2>1. CASE UNCHANGED store
    BY <1>2, <2>1 DEF store
  <2>2. CASE applySetJob(ex.job, [jobs[ex.job] EXCEPT !.next = now + 1])
    <3>1. jobs[ex.job] \in Job /\ Stored(jobs, ex.job)
      BY <1>1, <1>4, StoredIsJob DEF Run, CanRun
    <3>2. PICK j : j = [jobs[ex.job] EXCEPT !.next = now + 1]
      OBVIOUS
    <3>3. j \in Job /\ j.config = jobs[ex.job].config
      BY <1>1, <3>1, <3>2 DEF Job, Time
    <3>4. applySetJob(ex.job, j)
      BY <2>2, <3>2
    <3>5. /\ StoreValid(jobs') /\ \A n \in JobNames \ {ex.job} : OwnKept(n)
          /\ jobs' = jobs \/ jobs'[ex.job].config = j.config
      BY <1>1, <1>4, <3>3, <3>4, SetJobWrites
    <3>. QED BY <3>1, <3>3, <3>5 DEF OwnKept
  <2>. QED BY <1>4, <2>1, <2>2 DEF Run
<1>5. \A d \in JobNames : NewExecution(d).job = d
  BY <1>1, NewExecutions DEF NewExecution, NoExec
<1>6. ASSUME NEW n \in JobNames, Fire(n)
      PROVE  Kept
  BY <1>4, <1>5, <1>6 DEF Fire
<1>7. ASSUME NEW c \in CallIds, CallStep(c)
      PROVE  Kept
  <2>1. CASE UNCHANGED store
    BY <1>2, <2>1 DEF store
  <2>2. CASE ApplyDone(c) /\ applyExecutionDone(call[c].ex)
    BY <1>1, <1>3, <2>2, CountKeepsOwn
  <2>3. CASE EndDone(c) /\ applyDeleteJob(call[c].ex.job)
    <3>1. /\ StoreValid(jobs') /\ \A n \in JobNames \ {call[c].ex.job} : OwnKept(n)
          /\ jobs' = jobs \/ ~Stored(jobs', call[c].ex.job)
      BY <1>1, <2>3, DeleteJobRemoves
    <3>. QED BY <3>1 DEF OwnKept
  <2>4. CASE RetryRun(c) /\ Run(call[c].server, NextAttempt(call[c].ex),
                                nodesUp \cap {call[c].ex.node}, c)
    <3>1. NextAttempt(call[c].ex).job = call[c].ex.job
      BY <1>1 DEF NextAttempt, Execution
    <3>. QED BY <1>1, <1>4, <2>4, <3>1
  <2>5. ASSUME NEW d \in JobNames, Run(call[c].server, NewExecution(d), nodesUp, c)
        PROVE  Kept
    BY <1>4, <1>5, <2>5
  <2>. QED BY <1>7, <2>1, <2>2, <2>3, <2>4, <2>5
           DEF CallStep, ForwardDone, AcceptDone, ApplyDone, FetchJob, RetryRun, RunReturns,
               Notify, EndDone, RunDependent
<1>8. ASSUME NEW i \in Tasks, TaskStep(i)
      PROVE  Kept
  BY <1>2, <1>8 DEF TaskStep, DialFails, Dispatch, RecvFirst, CallSetExecution, RecvFinal, RecvEOF,
                    RecvError, DoneReturns, applySetExecution, store
<1>9. ASSUME NEW k \in Cmds, CmdStep(k)
      PROVE  Kept
  BY <1>2, <1>9 DEF CmdStep, Finish, Fallback, store
<1>10. CASE Fault \/ (\E s \in Servers : Elect(s)) \/ UNCHANGED allVars
  BY <1>2, <1>10 DEF Fault, Refuse, BreakStream, StepDown, Crash, NodeCrash, Elect, store, allVars,
                     vars
<1>. QED BY <1>6, <1>7, <1>8, <1>9, <1>10 DEF RunsNext

\* What the store holds was there, was received first, or was reported of a job
\* that is stored.
LEMMA ExecsFrom ==
    ASSUME RunInv, [RunsNext]_allVars, NEW e \in execs'
    PROVE  \/ e \in execs
           \/ \E i \in Tasks : task[i].st = "first" /\ e = task[i].ex
           \/ \E c \in CallIds : call[c].st = "apply" /\ e = call[c].ex /\ Stored(jobs, e.job)
<1> DEFINE From == \/ e \in execs
                   \/ \E i \in Tasks : task[i].st = "first" /\ e = task[i].ex
                   \/ \E c \in CallIds : call[c].st = "apply" /\ e = call[c].ex /\ Stored(jobs, e.job)
<1>1. ASSUME UNCHANGED execs
      PROVE  From
  BY <1>1
<1>2. ASSUME NEW x
      PROVE  setExecutionTx(execs, x) \subseteq execs \cup {x}
  BY DEF setExecutionTx, Put
<1>3. ASSUME NEW s, NEW ex, NEW targets, NEW by, Run(s, ex, targets, by)
      PROVE  From
  BY <1>1, <1>3 DEF Run, applySetJob, store
<1>4. ASSUME NEW n \in JobNames, Fire(n)
      PROVE  From
  BY <1>3, <1>4 DEF Fire
<1>5. ASSUME NEW c \in CallIds, CallStep(c)
      PROVE  From
  <2>1. CASE UNCHANGED store
    BY <1>1, <2>1 DEF store
  <2>2. CASE ApplyDone(c) /\ applyExecutionDone(call[c].ex)
    <3>1. execs' = execs \/ (execs' \subseteq execs \cup {call[c].ex} /\ Stored(jobs, call[c].ex.job))
      BY <1>2, <2>2 DEF applyExecutionDone
    <3>. QED BY <2>2, <3>1 DEF ApplyDone
  <2>3. CASE EndDone(c) /\ applyDeleteJob(call[c].ex.job)
    BY <2>3 DEF applyDeleteJob, deleteExecutionsTxFunc
  <2>4. ASSUME NEW ex, NEW targets, Run(call[c].server, ex, targets, c)
        PROVE  From
    BY <1>3, <2>4
  <2>. QED BY <1>5, <2>1, <2>2, <2>3, <2>4
           DEF CallStep, ForwardDone, AcceptDone, ApplyDone, FetchJob, RetryRun, RunReturns,
               Notify, EndDone, RunDependent
<1>6. ASSUME NEW i \in Tasks, TaskStep(i)
      PROVE  From
  <2>1. CASE UNCHANGED store
    BY <1>1, <2>1 DEF store
  <2>2. CASE CallSetExecution(i) /\ applySetExecution(task[i].ex)
    <3>1. execs' \subseteq setExecutionTx(execs, task[i].ex)
      BY <2>2 DEF applySetExecution, SetExecution, Trimmed
    <3>. QED BY <1>2, <2>2, <3>1 DEF CallSetExecution
  <2>. QED BY <1>6, <2>1, <2>2
           DEF TaskStep, DialFails, Dispatch, RecvFirst, CallSetExecution, RecvFinal, RecvEOF,
               RecvError, DoneReturns
<1>7. ASSUME NEW k \in Cmds, CmdStep(k)
      PROVE  From
  BY <1>1, <1>7 DEF CmdStep, Finish, Fallback, store
<1>8. CASE Fault \/ (\E s \in Servers : Elect(s)) \/ UNCHANGED allVars
  BY <1>1, <1>8 DEF Fault, Refuse, BreakStream, StepDown, Crash, NodeCrash, Elect, store, allVars,
                    vars
<1>. QED BY <1>4, <1>5, <1>6, <1>7, <1>8 DEF RunsNext

\* What all steps start from.
Steps == RunInv /\ ActiveInv /\ Begun /\ ForbidInv

\* What Aging says.
Aged ==
    \A e \in Execution : (Unfinished(e) => UnfinishedNext(e)) /\ (Over(e) => OverNext(e))

\* Commands that started are told apart by their keys.
LEMMA Apart ==
    ASSUME Begun, Commands, NEW k \in Cmds, NEW l \in Cmds, cmd[k].st = "running", Started(l),
           Key(cmd[l].ex) = Key(cmd[k].ex)
    PROVE  k = l
<1>1. Started(k)
  BY DEF Begun, Started
<1>2. cmd[k].ex.startedAt = cmd[l].ex.startedAt
  BY KeyStart
<1>. QED BY <1>1, <1>2 DEF Commands

\* An execution that no node has started is of no command.
LEMMA NeverOver ==
    ASSUME RunInv, Begun, Commands, NEW e \in Execution, e.startedAt = Never, e.attempt > 0
    PROVE  Over(e)
<1>1. now > 0 /\ now \in Nat
  BY RunFacts DEF Commands
<1>2. ASSUME NEW k \in Cmds, cmd[k].st = "running"
      PROVE  Key(e) # Key(cmd[k].ex)
  <2>1. Started(k)
    BY <1>2 DEF Begun, Started
  <2>2. cmd[k].ex.startedAt \in 1..(now - 1)
    BY <2>1 DEF Commands
  <2>3. cmd[k].ex.startedAt # Never
    BY <1>1, <2>2 DEF Never
  <2>. QED BY <2>3, KeyStart
<1>. QED BY <1>1, <1>2 DEF Over, Never

\* Only a node that crashed ends a stream early.
LEMMA BrokenOver ==
    ASSUME Steps, NEW i \in Tasks, task[i].st = "recv", ~cmd[CmdOf(i)].open
    PROVE  i[2] \notin nodesUp /\ Over(task[i].ex)
<1>1. /\ task[i].ex \in Execution /\ CmdOf(i) \in Cmds /\ CmdOf(i)[2] = i[2]
      /\ task[i].got \in 0..2 /\ now \in Nat
  BY RunFacts, CmdOfType DEF Steps, RunInv, RunsTypeOK, Task
<1>2. Held(i)
  BY DEF Steps, ForbidInv, TasksHold
<1>3. i[2] \notin nodesUp /\ Started(CmdOf(i)) /\ Unfinished(task[i].ex)
  BY <1>2 DEF Held
<1>4. CASE task[i].got = 0
  BY <1>1, <1>2, <1>3, <1>4, NeverOver DEF Held, Unfinished, Steps, ForbidInv
<1>5. CASE task[i].got > 0
  <2>1. Key(task[i].ex) = Key(cmd[CmdOf(i)].ex)
    BY <1>5 DEF Steps, ActiveInv, Linked
  <2>2. ASSUME NEW k \in Cmds, cmd[k].st = "running", Key(task[i].ex) = Key(cmd[k].ex)
        PROVE  FALSE
    <3>1. k = CmdOf(i)
      BY <1>1, <1>3, <2>1, <2>2, Apart DEF Steps, ForbidInv
    <3>2. k[2] \in nodesUp
      BY <2>2 DEF Steps, Begun
    <3>. QED BY <1>1, <1>3, <3>1, <3>2
  <2>. QED BY <1>3, <2>2 DEF Unfinished, Over
<1>. QED BY <1>1, <1>3, <1>4, <1>5

\* The executions in reports stay, and new ones are over.
CallKept(c) ==
    \/ call'[c].st = "none"
    \/ call[c].st # "none" /\ call'[c].ex = call[c].ex /\ call'[c].st # "retry"
    \/ Over(call'[c].ex) /\ call'[c].st # "retry"

\* What every step does to the reports.
LEMMA CallsKept ==
    ASSUME Steps, [RunsNext]_allVars
    PROVE  \A c \in CallIds : CallKept(c)
<1>1. /\ call \in [CallIds -> Call] /\ now \in Nat /\ RunInv
      /\ \A i \in Tasks : task[i] \in Task /\ task[i].ex \in Execution /\ i \in CallIds
      /\ \A k \in Cmds : cmd[k].ex \in Execution /\ k \in CallIds
      /\ \A c \in CallIds : call[c] \in Call /\ call[c].ex \in Execution
  BY RunFacts DEF Steps, RunInv, RunsTypeOK
<1>2. \A c \in CallIds : call[c].st # "retry"
  BY DEF Steps, ForbidInv, CallsHold
<1>3. ASSUME UNCHANGED call
      PROVE  \A c \in CallIds : CallKept(c)
  BY <1>2, <1>3 DEF CallKept
<1>4. ASSUME NEW d \in CallIds, NEW h, call' = [call EXCEPT ![d] = h], h.st # "retry",
             \/ h.st = "none" \/ Over(h.ex)
             \/ call[d].st # "none" /\ h.ex = call[d].ex
      PROVE  \A c \in CallIds : CallKept(c)
  <2>1. call'[d] = h /\ \A c \in CallIds \ {d} : call'[c] = call[c]
    BY <1>1, <1>4
  <2>. QED BY <1>2, <1>4, <2>1 DEF CallKept
<1>5. ASSUME NEW i \in Tasks, NEW ex, Over(ex), SendDone(i, ex)
      PROVE  \A c \in CallIds : CallKept(c)
  <2>1. PICK h : h = [IdleCall EXCEPT !.ex = ex, !.server = leader,
                        !.st = IF leader = NoServer THEN "answered" ELSE "sent",
                        !.answer = IF leader = NoServer THEN "unavailable" ELSE "none"]
    OBVIOUS
  <2>2. h.ex = ex /\ h.st # "retry"
    BY <2>1 DEF IdleCall
  <2>3. call' = [call EXCEPT ![i] = h]
    BY <1>5, <2>1 DEF SendDone
  <2>. QED BY <1>1, <1>4, <1>5, <2>2, <2>3
<1>6. ASSUME NEW i \in Tasks, RecvEOF(i)
      PROVE  \A c \in CallIds : CallKept(c)
  <2>1. Over(task[i].ex)
    BY <1>6 DEF RecvEOF, Steps, ForbidInv, TasksHold, Held
  <2>. QED BY <1>5, <1>6, <2>1 DEF RecvEOF
<1>7. ASSUME NEW i \in Tasks, RecvError(i)
      PROVE  \A c \in CallIds : CallKept(c)
  <2>1. PICK e : e = [task[i].ex EXCEPT !.finishedAt = now, !.success = FALSE]
    OBVIOUS
  <2>2. Key(e) = Key(task[i].ex) /\ e.attempt = task[i].ex.attempt
        /\ e.startedAt = task[i].ex.startedAt
    BY <1>1, <2>1 DEF Key, Execution
  <2>3. Over(task[i].ex)
    BY <1>7, BrokenOver DEF RecvError
  <2>4. Over(e)
    BY <2>2, <2>3 DEF Over
  <2>. QED BY <1>5, <1>7, <2>1, <2>4 DEF RecvError
<1>8. ASSUME NEW i \in Tasks, DoneReturns(i)
      PROVE  \A c \in CallIds : CallKept(c)
  <2>1. IdleCall.st = "none"
    BY DEF IdleCall
  <2>. QED BY <1>1, <1>4, <1>8, <2>1 DEF DoneReturns
<1>9. ASSUME NEW i \in Tasks, TaskStep(i)
      PROVE  \A c \in CallIds : CallKept(c)
  BY <1>3, <1>6, <1>7, <1>8, <1>9
     DEF TaskStep, DialFails, Dispatch, RecvFirst, CallSetExecution, RecvFinal
<1>10. ASSUME NEW k \in Cmds, CmdStep(k)
       PROVE  \A c \in CallIds : CallKept(c)
  <2>1. CASE UNCHANGED call
    BY <1>3, <2>1
  <2>2. ASSUME NEW s \in up, Fallback(k), call' = [call EXCEPT ![k] =
                    [IdleCall EXCEPT !.st = "sent", !.server = s, !.ex = cmd[k].ex]]
        PROVE  \A c \in CallIds : CallKept(c)
    <3>1. PICK h : h = [IdleCall EXCEPT !.st = "sent", !.server = s, !.ex = cmd[k].ex]
      OBVIOUS
    <3>2. h.ex = cmd[k].ex /\ h.st = "sent" /\ call' = [call EXCEPT ![k] = h]
      BY <2>2, <3>1 DEF IdleCall
    <3>3. Started(k) /\ cmd[k].st = "fallback"
      BY <2>2 DEF Fallback, Steps, Begun, Started
    <3>4. \A l \in Cmds : cmd[l].st = "running" => Key(cmd[k].ex) # Key(cmd[l].ex)
      BY <3>3, Apart DEF Steps, ForbidInv
    <3>5. cmd[k].ex.startedAt < now /\ cmd[k].ex.attempt > 0
      <4>1. cmd[k].ex.startedAt \in 1..(now - 1) /\ cmd[k].ex.attempt > 0
        BY <3>3 DEF Steps, ForbidInv, Commands
      <4>. QED BY <1>1, <4>1
    <3>6. Over(h.ex)
      BY <3>2, <3>4, <3>5 DEF Over
    <3>. QED BY <1>1, <1>4, <3>2, <3>6
  <2>. QED BY <1>10, <2>1, <2>2 DEF CmdStep, Finish, Fallback
<1>11. ASSUME NEW c \in CallIds, CallStep(c)
       PROVE  \A d \in CallIds : CallKept(d)
  <2>1. ASSUME \A d \in CallIds \ {c} : call'[d] = call[d],
               call[c].st # "none", call'[c].ex = call[c].ex, call'[c].st # "retry"
        PROVE  \A d \in CallIds : CallKept(d)
    BY <1>2, <2>1 DEF CallKept
  <2>2. ASSUME NEW answer, Answered(c, answer), call[c].st # "none"
        PROVE  \A d \in CallIds : CallKept(d)
    BY <1>1, <2>1, <2>2 DEF Answered, Call
  <2>3. ASSUME NEW st, call[c].st # "none", st # "retry", call' = [call EXCEPT ![c].st = st]
        PROVE  \A d \in CallIds : CallKept(d)
    BY <1>1, <2>1, <2>3 DEF Call
  <2>4. CASE ForwardDone(c)
    <3>1. CASE leader = NoServer
      BY <2>2, <2>4, <3>1 DEF ForwardDone
    <3>2. CASE leader # NoServer
      BY <1>1, <1>2, <2>1, <2>4, <3>2 DEF ForwardDone, Call
    <3>. QED BY <3>1, <3>2
  <2>5. CASE AcceptDone(c) \/ ApplyDone(c) \/ RunReturns(c) \/ Notify(c) \/ EndDone(c)
    BY <2>2, <2>3, <2>5 DEF AcceptDone, ApplyDone, RunReturns, Notify, EndDone
  <2>6. CASE FetchJob(c)
    <3>1. CASE ~Stored(jobs, call[c].ex.job)
      BY <2>2, <2>6, <3>1 DEF FetchJob
    <3>2. CASE Stored(jobs, call[c].ex.job)
      <4>1. jobs[call[c].ex.job].config.retries = 0 /\ call[c].ex.attempt > 0
            /\ call[c].ex.attempt \in Nat
        BY <1>1, <2>6, <3>2 DEF FetchJob, Steps, ForbidInv, NoRetries, CallsHold, Over, Execution
      <4>2. (call[c].ex.attempt < jobs[call[c].ex.job].config.retries + 1) = FALSE
        BY <4>1, SMT
      <4>3. \E left, eph : call' = [call EXCEPT ![c].st = "notify", ![c].left = left,
                                                ![c].eph = eph]
        BY <2>6, <3>2, <4>2 DEF FetchJob
      <4>4. call[c].st # "none"
        BY <2>6 DEF FetchJob
      <4>. QED BY <1>1, <2>1, <4>3, <4>4 DEF Call
    <3>. QED BY <3>1, <3>2
  <2>7. ~RetryRun(c)
    BY <1>2 DEF RetryRun
  <2>8. ASSUME NEW d \in JobNames, RunDependent(c, d)
        PROVE  \A x \in CallIds : CallKept(x)
    <3>1. call[c].st = "chain"
      BY <2>8 DEF RunDependent
    <3>2. CASE Answered(c, "error")
      BY <2>2, <3>1, <3>2
    <3>3. CASE call' = [call EXCEPT ![c].left[d] = @ - 1]
      BY <1>1, <2>1, <3>1, <3>3 DEF Call
    <3>4. CASE call' = [call EXCEPT ![c].left[d] = @ - 1, ![c].st = "wait"]
      BY <1>1, <2>1, <3>1, <3>4 DEF Call
    <3>. QED BY <2>8, <3>2, <3>3, <3>4 DEF RunDependent
  <2>. QED BY <1>11, <2>4, <2>5, <2>6, <2>7, <2>8 DEF CallStep
<1>12. ASSUME NEW s \in Servers, Crash(s)
       PROVE  \A c \in CallIds : CallKept(c)
  <2>1. ASSUME NEW c \in CallIds
        PROVE  \/ call'[c] = call[c]
               \/ call[c].st # "none" /\ call'[c].ex = call[c].ex /\ call'[c].st = "answered"
    BY <1>1, <1>12 DEF Crash, Call
  <2>. QED BY <1>2, <2>1 DEF CallKept
<1>13. CASE Fault \/ (\E s \in Servers : Elect(s)) \/ UNCHANGED allVars
  BY <1>3, <1>12, <1>13 DEF Fault, Refuse, BreakStream, StepDown, NodeCrash, Elect, allVars, runVars
<1>14. ASSUME NEW n \in JobNames, Fire(n)
       PROVE  \A c \in CallIds : CallKept(c)
  BY <1>3, <1>14 DEF Fire
<1>. QED BY <1>9, <1>10, <1>11, <1>13, <1>14 DEF RunsNext

\* The stream of goroutine j stays as it is, unless its node crashes.
StreamKept(j) ==
    task[j].st \in {"recv", "first"} /\ Started(CmdOf(j)) =>
        /\ cmd'[CmdOf(j)].sent > 0
        /\ cmd[CmdOf(j)].open => cmd'[CmdOf(j)].open \/ j[2] \notin nodesUp'

\* What a goroutine is left with after a step of its own.
LEMMA HeldNext ==
    ASSUME NEW i \in Tasks, NEW t, task'[i] = t,
           UnfinishedNext(t.ex), t.got = 2 => OverNext(t.ex), t.got = 0 => t.ex.startedAt = Never,
           t.req.startedAt = Never, t.req.attempt > 0,
           t.req.finishedAt = Never \/ i[2] \notin nodesUp',
           t.st \in {"recv", "first"} =>
              /\ cmd'[<<i[1], i[2], t.try>>].sent > 0
              /\ cmd'[<<i[1], i[2], t.try>>].open \/ i[2] \notin nodesUp'
    PROVE  Held(i)'
<1>1. CmdOf(i)' = <<i[1], i[2], t.try>>
  BY DEF CmdOf
<1>. QED BY <1>1 DEF Held, UnfinishedNext, Unfinished, OverNext, Over, Started

\* A goroutine that does not move, or ends.
LEMMA HeldSame ==
    ASSUME RunInv, Aged, Passing, NEW j \in Tasks, Held(j),
           \/ task'[j] = task[j] /\ StreamKept(j)
           \/ task'[j] = [task[j] EXCEPT !.st = "closed"]
    PROVE  Held(j)'
<1>1. /\ task[j] \in Task /\ task[j].ex \in Execution /\ CmdOf(j) = <<j[1], j[2], task[j].try>>
  BY RunFacts DEF CmdOf
<1>2. PICK t : t = task'[j]
  OBVIOUS
<1>3. t.ex = task[j].ex /\ t.got = task[j].got /\ t.req = task[j].req /\ t.try = task[j].try
  BY <1>1, <1>2 DEF Task
<1>4. UnfinishedNext(t.ex) /\ (t.got = 2 => OverNext(t.ex))
  BY <1>1, <1>3 DEF Held, Aged
<1>5. /\ t.got = 0 => t.ex.startedAt = Never
      /\ t.req.startedAt = Never /\ t.req.attempt > 0
      /\ t.req.finishedAt = Never \/ j[2] \notin nodesUp'
  BY <1>3 DEF Held, Passing
<1>6. t.st \in {"recv", "first"} =>
         /\ cmd'[<<j[1], j[2], t.try>>].sent > 0
         /\ cmd'[<<j[1], j[2], t.try>>].open \/ j[2] \notin nodesUp'
  <2>1. CASE task'[j] = task[j] /\ StreamKept(j)
    BY <1>1, <1>2, <2>1 DEF Held, StreamKept, Passing
  <2>2. CASE task'[j] = [task[j] EXCEPT !.st = "closed"]
    BY <1>1, <1>2, <2>2 DEF Task
  <2>. QED BY <2>1, <2>2
<1>. QED BY <1>2, <1>4, <1>5, <1>6, HeldNext

\* One goroutine moves.
LEMMA TasksOne ==
    ASSUME RunInv, TasksHold, Aged, Passing, NEW i \in Tasks, NEW t,
           task' = [task EXCEPT ![i] = t], t.st # "none", Held(i)',
           \A j \in Tasks \ {i} : StreamKept(j)
    PROVE  TasksHold'
<1>1. task'[i] = t /\ \A j \in Tasks \ {i} : task'[j] = task[j]
  BY DEF RunInv, RunsTypeOK
<1>2. ASSUME NEW j \in Tasks \ {i}, task[j].st # "none"
      PROVE  Held(j)'
  BY <1>1, <1>2, HeldSame DEF TasksHold
<1>. QED BY <1>1, <1>2 DEF TasksHold

\* No goroutine moves, but some may end with their server.
LEMMA TasksSame ==
    ASSUME RunInv, TasksHold, Aged, Passing,
           \A j \in Tasks : \/ task'[j] = task[j] /\ StreamKept(j)
                            \/ /\ task'[j] = [task[j] EXCEPT !.st = "closed"]
                               /\ task[j].server # NoServer
    PROVE  TasksHold'
<1>1. \A j \in Tasks : task[j] \in Task
  BY RunFacts
<1>2. ASSUME NEW j \in Tasks, task[j].st # "none"
      PROVE  Held(j)' /\ task'[j].st # "none"
  BY <1>1, <1>2, HeldSame DEF TasksHold, Task
<1>3. \A j \in Tasks : task[j].st = "none" => task'[j].st = "none" /\ task'[j].server = NoServer
  BY DEF TasksHold
<1>. QED BY <1>2, <1>3 DEF TasksHold

\* A return of agentRunAttempt: another dispatch begins with the request.
LEMMA TasksAttempt ==
    ASSUME Steps, Aged, Passing, NEW i \in Tasks, NEW retryable, AttemptFails(i, retryable),
           task[i].st # "none", \A j \in Tasks \ {i} : StreamKept(j)
    PROVE  TasksHold'
<1>1. RunInv /\ task[i] \in Task /\ task[i].req \in Execution /\ task \in [Tasks -> Task]
  BY RunFacts DEF Steps, RunInv, RunsTypeOK
<1>2. PICK t \in Task :
         /\ task' = [task EXCEPT ![i] = t]
         /\ \/ t = [task[i] EXCEPT !.st = "closed"]
            \/ t = [task[i] EXCEPT !.st = "dial", !.try = task[i].try + 1, !.got = 0,
                                   !.ex = task[i].req]
  BY <1>1, AttemptTypes
<1>3. task'[i] = t /\ Held(i)
  BY <1>1, <1>2 DEF Steps, ForbidInv, TasksHold
<1>4. CASE t = [task[i] EXCEPT !.st = "closed"]
  <2>1. Held(i)'
    BY <1>1, <1>3, <1>4, HeldSame
  <2>2. t.st # "none"
    BY <1>1, <1>4 DEF Task
  <2>. QED BY <1>1, <1>2, <2>1, <2>2, TasksOne DEF Steps, ForbidInv
<1>5. CASE t = [task[i] EXCEPT !.st = "dial", !.try = task[i].try + 1, !.got = 0,
                               !.ex = task[i].req]
  <2>1. t.st = "dial" /\ t.got = 0 /\ t.ex = task[i].req /\ t.req = task[i].req
    BY <1>1, <1>5 DEF Task
  <2>2. Over(task[i].req)
    BY <1>1, <1>3, NeverOver DEF Held, Steps, ForbidInv
  <2>3. OverNext(task[i].req)
    BY <1>1, <2>2 DEF Aged
  <2>4. UnfinishedNext(t.ex)
    BY <2>1, <2>3 DEF OverNext, UnfinishedNext
  <2>5. /\ t.ex.startedAt = Never /\ t.req.startedAt = Never /\ t.req.attempt > 0
        /\ t.req.finishedAt = Never \/ i[2] \notin nodesUp'
        /\ t.got # 2 /\ t.st \notin {"recv", "first"}
    BY <1>3, <2>1 DEF Held, Passing
  <2>6. Held(i)'
    BY <1>3, <2>4, <2>5, HeldNext
  <2>. QED BY <1>1, <1>2, <2>1, <2>6, TasksOne DEF Steps, ForbidInv
<1>. QED BY <1>2, <1>4, <1>5

\* Agent.Run for an execution that no node has started.
LEMMA TasksRun ==
    ASSUME Steps, Aged, Passing, NEW s, NEW d \in JobNames, NEW targets, NEW by,
           Run(s, NewExecution(d), targets, by), UNCHANGED <<cmd, nodesUp>>
    PROVE  TasksHold'
<1>1. RunInv /\ NewExecution(d) \in Execution /\ task \in [Tasks -> Task]
  BY RunFacts, NewExecutions DEF Steps, RunInv, RunsTypeOK
<1>2. PICK ex \in Execution : ex = NewExecution(d)
  BY <1>1
<1>3. ex.startedAt = Never /\ ex.attempt = 1 /\ ex.finishedAt = Never
  BY <1>2 DEF NewExecution, NoExec
<1>4. Over(ex)
  BY <1>1, <1>3, NeverOver DEF Steps, ForbidInv
<1>5. OverNext(ex) /\ UnfinishedNext(ex)
  BY <1>4 DEF Aged, OverNext, UnfinishedNext
<1>6. PICK t : t = [NoTask EXCEPT !.st = "dial", !.server = s, !.req = ex, !.ex = ex]
  OBVIOUS
<1>7. t.st = "dial" /\ t.got = 0 /\ t.ex = ex /\ t.req = ex
  BY <1>6 DEF NoTask
<1>8. ASSUME NEW i \in Tasks
      PROVE  task'[i] = t \/ task'[i] = task[i]
  BY <1>2, <1>6 DEF Run
<1>9. ASSUME NEW i \in Tasks, task'[i] = t
      PROVE  Held(i)'
  <2>1. t.req.attempt > 0
    BY <1>3, <1>7
  <2>. QED BY <1>3, <1>5, <1>7, <1>9, <2>1, HeldNext
<1>10. ASSUME NEW i \in Tasks, task'[i] = task[i], task[i].st # "none"
       PROVE  Held(i)'
  <2>1. StreamKept(i)
    BY DEF StreamKept, Started
  <2>. QED BY <1>1, <1>10, <2>1, HeldSame DEF Steps, ForbidInv, TasksHold
<1>. QED BY <1>7, <1>8, <1>9, <1>10 DEF TasksHold, Steps, ForbidInv

\* What every step does to the goroutines.
LEMMA TasksKept ==
    ASSUME MaxBreaks = 0, Steps, Aged, Passing, [RunsNext]_allVars
    PROVE  TasksHold'
<1>1. /\ RunInv /\ TasksHold /\ Begun /\ Commands
      /\ task \in [Tasks -> Task] /\ cmd \in [Cmds -> Cmd] /\ now \in Nat
      /\ \A i \in Tasks : /\ task[i] \in Task /\ task[i].ex \in Execution
                          /\ task[i].req \in Execution
                          /\ CmdOf(i) \in Cmds /\ cmd[CmdOf(i)] \in Cmd
                          /\ cmd[CmdOf(i)].ex \in Execution
                          /\ CmdOf(i) = <<i[1], i[2], task[i].try>> /\ CmdOf(i)[2] = i[2]
      /\ \A k \in Cmds : cmd[k] \in Cmd
  BY RunFacts, CmdOfType DEF Steps, ForbidInv, RunInv, RunsTypeOK, CmdOf
<1>2. UNCHANGED <<cmd, nodesUp>> => \A j \in Tasks : StreamKept(j)
  BY DEF StreamKept, Started
<1>3. ASSUME UNCHANGED <<cmd, nodesUp, task>>
      PROVE  TasksHold'
  BY <1>1, <1>2, <1>3, TasksSame
<1>4. ASSUME NEW n \in JobNames, Fire(n)
      PROVE  TasksHold'
  BY <1>4, TasksRun DEF Fire, cluster
<1>5. ASSUME NEW c \in CallIds, CallStep(c)
      PROVE  TasksHold'
  <2>1. UNCHANGED <<cmd, nodesUp>>
    BY <1>5 DEF CallStep, ForwardDone, AcceptDone, ApplyDone, FetchJob, RetryRun, RunReturns,
                Notify, EndDone, RunDependent, cluster
  <2>2. call[c].st # "retry"
    BY DEF Steps, ForbidInv, CallsHold
  <2>3. UNCHANGED task \/ \E d \in JobNames : Run(call[c].server, NewExecution(d), nodesUp, c)
    BY <1>5, <2>2 DEF CallStep, ForwardDone, AcceptDone, ApplyDone, FetchJob, RetryRun, RunReturns,
                      Notify, EndDone, RunDependent
  <2>. QED BY <1>3, <2>1, <2>3, TasksRun
<1>6. ASSUME NEW i \in Tasks, DialFails(i) \/ DoneReturns(i)
      PROVE  TasksHold'
  <2>1. /\ UNCHANGED <<cmd, nodesUp>> /\ task[i].st # "none"
        /\ \E retryable : AttemptFails(i, retryable)
    BY <1>6 DEF DialFails, DoneReturns, cluster
  <2>. QED BY <1>2, <2>1, TasksAttempt
<1>7. ASSUME NEW i \in Tasks, NEW m, cmd' = [cmd EXCEPT ![CmdOf(i)] = m], UNCHANGED nodesUp
      PROVE  \A j \in Tasks \ {i} : StreamKept(j)
  <2>1. ASSUME NEW j \in Tasks \ {i}
        PROVE  cmd'[CmdOf(j)] = cmd[CmdOf(j)]
    <3>1. CmdOf(j) # CmdOf(i)
      BY <1>1, <2>1, CmdOfType
    <3>. QED BY <1>1, <1>7, <3>1
  <2>. QED BY <2>1 DEF StreamKept, Started
<1>8. ASSUME NEW i \in Tasks, Dispatch(i)
      PROVE  TasksHold'
  <2>1. PICK t : t = [task[i] EXCEPT !.st = "recv"]
    OBVIOUS
  <2>2. /\ t.st = "recv" /\ t.got = task[i].got /\ t.ex = task[i].ex /\ t.req = task[i].req
        /\ t.try = task[i].try
    BY <1>1, <2>1 DEF Task
  <2>3. /\ task' = [task EXCEPT ![i] = t] /\ task'[i] = t /\ UNCHANGED nodesUp
        /\ task[i].st = "dial"
    BY <1>1, <1>8, <2>1 DEF Dispatch, cluster
  <2>4. task[i].got = 0 /\ Held(i)
    BY <1>1, <2>3 DEF Steps, ActiveInv, Linked, TasksHold
  <2>5. UnfinishedNext(t.ex)
    BY <1>1, <2>2, <2>4 DEF Held, Aged
  <2>6. cmd'[CmdOf(i)].sent > 0 /\ cmd'[CmdOf(i)].open
    BY <1>1, <1>8 DEF Dispatch
  <2>7. /\ t.ex.startedAt = Never /\ t.req.startedAt = Never /\ t.req.attempt > 0
        /\ t.req.finishedAt = Never \/ i[2] \notin nodesUp'
        /\ t.got # 2
    BY <2>2, <2>3, <2>4 DEF Held
  <2>8. cmd'[<<i[1], i[2], t.try>>].sent > 0 /\ cmd'[<<i[1], i[2], t.try>>].open
    BY <1>1, <2>2, <2>6
  <2>9. Held(i)'
    BY <2>3, <2>5, <2>7, <2>8, HeldNext
  <2>10. \A j \in Tasks \ {i} : StreamKept(j)
    BY <1>7, <1>8, <2>3 DEF Dispatch
  <2>. QED BY <1>1, <2>2, <2>3, <2>9, <2>10, TasksOne
<1>9. ASSUME NEW i \in Tasks, NEW t, task' = [task EXCEPT ![i] = t], UNCHANGED <<cmd, nodesUp>>,
             task[i].st \in {"recv", "first"}, t.try = task[i].try, t.st # "none",
             t.ex \in Execution, Unfinished(t.ex), t.got = 2 => Over(t.ex),
             t.got = 0 => t.ex.startedAt = Never,
             t.req.startedAt = Never, t.req.attempt > 0,
             t.req.finishedAt = Never \/ i[2] \notin nodesUp
      PROVE  TasksHold'
  <2>1. Held(i) /\ task'[i] = t
    BY <1>1, <1>9 DEF TasksHold
  <2>2. UnfinishedNext(t.ex) /\ (t.got = 2 => OverNext(t.ex))
    BY <1>9 DEF Aged
  <2>3. /\ cmd'[<<i[1], i[2], t.try>>].sent > 0
        /\ cmd'[<<i[1], i[2], t.try>>].open \/ i[2] \notin nodesUp'
    BY <1>1, <1>9, <2>1 DEF Held, Started
  <2>4. Held(i)'
    BY <1>9, <2>1, <2>2, <2>3, HeldNext
  <2>. QED BY <1>1, <1>2, <1>9, <2>4, TasksOne
<1>10. ASSUME NEW i \in Tasks, RecvFirst(i)
       PROVE  TasksHold'
  <2>1. PICK e : e = [cmd[CmdOf(i)].ex EXCEPT !.finishedAt = task[i].req.finishedAt,
                                              !.success = FALSE]
    OBVIOUS
  <2>2. /\ Key(e) = Key(cmd[CmdOf(i)].ex) /\ e.attempt = cmd[CmdOf(i)].ex.attempt
        /\ e.startedAt = cmd[CmdOf(i)].ex.startedAt /\ e.finishedAt = task[i].req.finishedAt
    BY <1>1, <2>1 DEF Key, Execution
  <2>3. PICK t : t = [task[i] EXCEPT !.st = "first", !.got = 1, !.ex = e]
    OBVIOUS
  <2>4. /\ t.st = "first" /\ t.got = 1 /\ t.ex = e /\ t.req = task[i].req
        /\ t.try = task[i].try
    BY <1>1, <2>3 DEF Task
  <2>5. /\ task' = [task EXCEPT ![i] = t] /\ UNCHANGED <<cmd, nodesUp>> /\ task[i].st = "recv"
        /\ Started(CmdOf(i))
    BY <1>1, <1>10, <2>1, <2>3 DEF RecvFirst, Task, Started, cluster
  <2>6. Held(i)
    BY <1>1, <2>5 DEF TasksHold
  <2>7. cmd[CmdOf(i)].ex.startedAt \in 1..(now - 1) /\ cmd[CmdOf(i)].ex.attempt > 0
    BY <1>1, <2>5 DEF Commands
  <2>8. ASSUME NEW k \in Cmds, cmd[k].st = "running", Key(e) = Key(cmd[k].ex)
        PROVE  e.finishedAt = Never
    <3>1. k = CmdOf(i)
      BY <1>1, <2>2, <2>5, <2>8, Apart
    <3>2. i[2] \in nodesUp
      BY <1>1, <2>8, <3>1 DEF Begun
    <3>. QED BY <2>2, <2>6, <3>2 DEF Held
  <2>9. Unfinished(e)
    <3>1. e.startedAt < now /\ e.attempt > 0
      BY <1>1, <2>2, <2>7
    <3>. QED BY <2>8, <3>1 DEF Unfinished
  <2>10. e \in Execution
    <3>1. task[i].req.finishedAt \in Nat
      BY <1>1 DEF Execution, Time
    <3>. QED BY <1>1, <2>1, <3>1, ExecutionEdits
  <2>11. /\ t.req.startedAt = Never /\ t.req.attempt > 0
         /\ t.req.finishedAt = Never \/ i[2] \notin nodesUp
    BY <2>4, <2>6 DEF Held
  <2>12. /\ t.ex \in Execution /\ Unfinished(t.ex) /\ t.got # 2 /\ t.got # 0 /\ t.st # "none"
         /\ t.try = task[i].try
    BY <2>4, <2>9, <2>10
  <2>. QED BY <1>9, <2>5, <2>11, <2>12
<1>11. ASSUME NEW i \in Tasks, CallSetExecution(i)
       PROVE  TasksHold'
  <2>1. CASE leader # NoServer
    <3>1. PICK t : t = [task[i] EXCEPT !.st = "recv"]
      OBVIOUS
    <3>2. /\ t.st = "recv" /\ t.got = task[i].got /\ t.ex = task[i].ex /\ t.req = task[i].req
          /\ t.try = task[i].try
      BY <1>1, <3>1 DEF Task
    <3>3. /\ task' = [task EXCEPT ![i] = t] /\ UNCHANGED <<cmd, nodesUp>> /\ task[i].st = "first"
      BY <1>11, <2>1, <3>1 DEF CallSetExecution, cluster
    <3>4. Held(i)
      BY <1>1, <3>3 DEF TasksHold
    <3>5. /\ Unfinished(t.ex) /\ (t.got = 2 => Over(t.ex)) /\ (t.got = 0 => t.ex.startedAt = Never)
          /\ t.req.startedAt = Never /\ t.req.attempt > 0 /\ t.ex \in Execution
          /\ t.req.finishedAt = Never \/ i[2] \notin nodesUp
      BY <1>1, <3>2, <3>4 DEF Held
    <3>. QED BY <1>9, <3>2, <3>3, <3>5
  <2>2. CASE leader = NoServer
    <3>1. /\ AttemptFails(i, TRUE) /\ cmd' = [cmd EXCEPT ![CmdOf(i)].open = FALSE]
          /\ UNCHANGED nodesUp /\ task[i].st = "first"
      BY <1>11, <2>2 DEF CallSetExecution, cluster
    <3>2. \A j \in Tasks \ {i} : StreamKept(j)
      BY <1>7, <3>1
    <3>. QED BY <3>1, <3>2, TasksAttempt
  <2>. QED BY <2>1, <2>2
<1>12. ASSUME NEW i \in Tasks, RecvFinal(i)
       PROVE  TasksHold'
  <2>1. PICK t : t = [task[i] EXCEPT !.got = 2, !.ex = cmd[CmdOf(i)].ex]
    OBVIOUS
  <2>2. /\ t.st = task[i].st /\ t.got = 2 /\ t.ex = cmd[CmdOf(i)].ex /\ t.req = task[i].req
        /\ t.try = task[i].try
    BY <1>1, <2>1 DEF Task
  <2>3. /\ task' = [task EXCEPT ![i] = t] /\ UNCHANGED <<cmd, nodesUp>> /\ task[i].st = "recv"
        /\ cmd[CmdOf(i)].sent = 2 /\ Started(CmdOf(i))
    <3>1. /\ task' = [task EXCEPT ![i].got = 2, ![i].ex = cmd[CmdOf(i)].ex]
          /\ UNCHANGED <<cmd, nodesUp>> /\ task[i].st = "recv" /\ cmd[CmdOf(i)].sent = 2
      BY <1>12 DEF RecvFinal, cluster
    <3>2. task' = [task EXCEPT ![i] = t]
      BY <1>1, <2>1, <3>1 DEF Task
    <3>3. Started(CmdOf(i))
      BY <3>1 DEF Started
    <3>. QED BY <3>1, <3>2, <3>3
  <2>4. Held(i)
    BY <1>1, <2>3 DEF TasksHold
  <2>5. cmd[CmdOf(i)].ex.startedAt \in 1..(now - 1) /\ cmd[CmdOf(i)].ex.attempt > 0
    BY <1>1, <2>3 DEF Commands
  <2>6. ASSUME NEW k \in Cmds, cmd[k].st = "running", Key(t.ex) = Key(cmd[k].ex)
        PROVE  FALSE
    <3>1. k = CmdOf(i)
      BY <1>1, <2>2, <2>3, <2>6, Apart
    <3>. QED BY <1>1, <2>3, <2>6, <3>1 DEF Begun
  <2>7. t.ex.startedAt < now /\ t.ex.attempt > 0
    BY <1>1, <2>2, <2>5
  <2>8. Unfinished(t.ex) /\ Over(t.ex)
    BY <2>6, <2>7 DEF Unfinished, Over
  <2>9. /\ t.req.startedAt = Never /\ t.req.attempt > 0 /\ t.ex \in Execution /\ t.got # 0
        /\ t.req.finishedAt = Never \/ i[2] \notin nodesUp
    BY <1>1, <2>2, <2>4 DEF Held
  <2>10. t.st # "none" /\ t.try = task[i].try
    BY <2>2, <2>3
  <2>. QED BY <1>9, <2>3, <2>8, <2>9, <2>10
<1>13. ASSUME NEW i \in Tasks, RecvEOF(i)
       PROVE  TasksHold'
  <2>1. PICK t : t = [task[i] EXCEPT !.st = "report"]
    OBVIOUS
  <2>2. /\ t.st = "report" /\ t.got = task[i].got /\ t.ex = task[i].ex /\ t.req = task[i].req
        /\ t.try = task[i].try
    BY <1>1, <2>1 DEF Task
  <2>3. /\ task' = [task EXCEPT ![i] = t] /\ UNCHANGED <<cmd, nodesUp>> /\ task[i].st = "recv"
    BY <1>13, <2>1 DEF RecvEOF, cluster
  <2>4. Held(i)
    BY <1>1, <2>3 DEF TasksHold
  <2>5. /\ Unfinished(t.ex) /\ (t.got = 2 => Over(t.ex)) /\ (t.got = 0 => t.ex.startedAt = Never)
        /\ t.req.startedAt = Never /\ t.req.attempt > 0 /\ t.ex \in Execution
        /\ t.req.finishedAt = Never \/ i[2] \notin nodesUp
    BY <1>1, <2>2, <2>4 DEF Held
  <2>. QED BY <1>9, <2>2, <2>3, <2>5
<1>14. ASSUME NEW i \in Tasks, RecvError(i)
       PROVE  TasksHold'
  <2>1. PICK e : e = [task[i].ex EXCEPT !.finishedAt = now, !.success = FALSE]
    OBVIOUS
  <2>2. /\ Key(e) = Key(task[i].ex) /\ e.attempt = task[i].ex.attempt
        /\ e.startedAt = task[i].ex.startedAt /\ e \in Execution
    <3>1. e \in Execution
      BY <1>1, <2>1, ExecutionEdits
    <3>. QED BY <1>1, <2>1, <3>1 DEF Key, Execution
  <2>3. PICK r : r = IF task[i].got = 0 THEN e ELSE task[i].req
    OBVIOUS
  <2>4. PICK t : t = [task[i] EXCEPT !.st = "report", !.ex = e, !.req = r]
    OBVIOUS
  <2>5. /\ t.st = "report" /\ t.got = task[i].got /\ t.ex = e /\ t.req = r
        /\ t.try = task[i].try
    BY <1>1, <2>4 DEF Task
  <2>6. task' = [task EXCEPT ![i].st = "report", ![i].ex = e, ![i].req = r]
    BY <1>1, <1>14, <2>1, <2>3 DEF RecvError, Task
  <2>7. /\ task' = [task EXCEPT ![i] = t] /\ UNCHANGED <<cmd, nodesUp>> /\ task[i].st = "recv"
    BY <1>1, <1>14, <2>4, <2>6 DEF RecvError, Task, cluster
  <2>8. i[2] \notin nodesUp /\ Over(task[i].ex) /\ Held(i)
    BY <1>1, <1>14, <2>7, BrokenOver DEF RecvError, TasksHold
  <2>9. Over(e) /\ Unfinished(e)
    BY <2>2, <2>8 DEF Over, Unfinished
  <2>10. /\ r.startedAt = Never /\ r.attempt > 0
         /\ t.got = 0 => e.startedAt = Never
    BY <2>2, <2>3, <2>5, <2>8, <2>9 DEF Held, Over
  <2>. QED BY <1>9, <2>2, <2>5, <2>7, <2>8, <2>9, <2>10
<1>15. ASSUME UNCHANGED task,
              \A k \in Cmds : /\ cmd[k].sent > 0 => cmd'[k].sent > 0
                              /\ cmd'[k].open = cmd[k].open \/ k[2] \notin nodesUp'
       PROVE  TasksHold'
  <2>1. \A j \in Tasks : StreamKept(j)
    BY <1>1, <1>15 DEF StreamKept, Started
  <2>. QED BY <1>1, <1>15, <2>1, TasksSame
<1>16. ASSUME NEW k \in Cmds, CmdStep(k)
       PROVE  TasksHold'
  <2>1. UNCHANGED task
    BY <1>16 DEF CmdStep, Finish, Fallback
  <2>2. ASSUME NEW ok \in BOOLEAN, Finish(k, ok)
        PROVE  TasksHold'
    <3>1. /\ \A l \in Cmds \ {k} : cmd'[l] = cmd[l]
          /\ cmd'[k].open = cmd[k].open
          /\ cmd'[k].sent = IF cmd[k].open THEN 2 ELSE cmd[k].sent
      BY <1>1, <2>2 DEF Finish, Cmd
    <3>2. cmd[k].sent > 0 => cmd'[k].sent > 0
      BY <3>1
    <3>. QED BY <1>15, <2>1, <3>1, <3>2
  <2>3. CASE Fallback(k)
    <3>1. \A l \in Cmds : cmd'[l].open = cmd[l].open /\ cmd'[l].sent = cmd[l].sent
      BY <1>1, <2>3 DEF Fallback, Cmd
    <3>. QED BY <1>15, <2>1, <3>1
  <2>. QED BY <1>16, <2>2, <2>3 DEF CmdStep
<1>17. ASSUME NEW n \in RunNodes, NodeCrash(n)
       PROVE  TasksHold'
  <2>1. ASSUME NEW k \in Cmds
        PROVE  cmd'[k].sent = cmd[k].sent /\ (cmd'[k].open = cmd[k].open \/ k[2] = n)
    BY <1>1, <1>17 DEF NodeCrash, Cmd
  <2>. QED BY <1>15, <1>17, <2>1 DEF NodeCrash
<1>18. ASSUME NEW s \in Servers, Crash(s)
       PROVE  TasksHold'
  <2>1. s # NoServer /\ UNCHANGED nodesUp
    BY <1>18, RunsAssumption DEF Crash
  <2>2. ASSUME NEW j \in Tasks
        PROVE  \/ task'[j] = task[j] /\ StreamKept(j)
               \/ task'[j] = [task[j] EXCEPT !.st = "closed"] /\ task[j].server # NoServer
    <3>1. CASE task[j].server = s
      BY <1>18, <2>1, <3>1 DEF Crash
    <3>2. CASE task[j].server # s
      <4>1. j = <<CmdOf(j)[1], CmdOf(j)[2]>>
        BY <1>1, CmdOfType
      <4>2. task'[j] = task[j] /\ cmd'[CmdOf(j)] = cmd[CmdOf(j)]
        BY <1>1, <1>18, <3>2, <4>1 DEF Crash
      <4>. QED BY <4>2 DEF StreamKept, Started
    <3>. QED BY <3>1, <3>2
  <2>. QED BY <1>1, <2>2, TasksSame
<1>19. (\A i \in Tasks : ~Refuse(i)) /\ (\A k \in Cmds : ~BreakStream(k))
  BY <1>1 DEF Refuse, BreakStream, Faulty, RunInv
<1>20. CASE (\E s \in Servers : Elect(s)) \/ StepDown \/ UNCHANGED allVars
  BY <1>3, <1>20 DEF Elect, StepDown, allVars, runVars
<1>21. ASSUME NEW i \in Tasks, TaskStep(i)
       PROVE  TasksHold'
  BY <1>6, <1>8, <1>10, <1>11, <1>12, <1>13, <1>14, <1>21 DEF TaskStep
<1>22. CASE Fault
  BY <1>17, <1>18, <1>19, <1>20, <1>22 DEF Fault
<1>. QED BY <1>4, <1>5, <1>16, <1>20, <1>21, <1>22 DEF RunsNext

\* No stored job at the start is retried.
StoredOnce == \A n \in JobNames : Stored(StoredJobs, n) => StoredJobs[n].config.retries = 0

\* Without breaking streams and retries, no step lets a result of a running
\* command into the store, a report or a goroutine.
LEMMA ForbidStep ==
    ASSUME MaxBreaks = 0, Steps, StoreValid(jobs), [RunsNext]_allVars, RunInv', Begun'
    PROVE  ForbidInv' /\ StoreValid(jobs)'
<1>1. /\ RunInv /\ Begun /\ NoRetries /\ Commands /\ StoreHolds /\ CallsHold /\ TasksHold
      /\ execs \subseteq Execution
      /\ \A i \in Tasks : task[i].ex \in Execution
      /\ \A c \in CallIds : call[c].ex \in Execution
      /\ \A c \in CallIds : call'[c].ex \in Execution
  <2>1. call' \in [CallIds -> Call]
    BY DEF RunInv, RunsTypeOK
  <2>2. \A h \in Call : h.ex \in Execution
    BY DEF Call
  <2>. QED BY <2>1, <2>2, RunFacts, IInvFacts DEF Steps, ForbidInv, RunInv
<1>2. Passing /\ CmdsMove
  BY <1>1, CmdsMoves
<1>3. Commands' /\ Aged
  BY <1>1, <1>2, Aging DEF Aged
<1>4. NoRetries' /\ StoreValid(jobs)'
  <2>1. /\ StoreValid(jobs')
        /\ \A n \in JobNames : Stored(jobs', n) =>
              Stored(jobs, n) /\ jobs'[n].config = jobs[n].config
    BY <1>1, ConfigsKept
  <2>2. NoRetries'
    BY <1>1, <2>1 DEF NoRetries, Stored
  <2>3. StoreValid(jobs)'
    BY <2>1
  <2>. QED BY <2>2, <2>3
<1>5. StoreHolds'
  <2>1. ASSUME NEW e \in execs'
        PROVE  UnfinishedNext(e)
    <3>1. CASE e \in execs
      BY <1>1, <1>3, <3>1 DEF StoreHolds, Aged
    <3>2. ASSUME NEW i \in Tasks, task[i].st = "first", e = task[i].ex
          PROVE  UnfinishedNext(e)
      BY <1>1, <1>3, <3>2 DEF TasksHold, Held, Aged
    <3>3. ASSUME NEW c \in CallIds, call[c].st = "apply", e = call[c].ex
          PROVE  UnfinishedNext(e)
      <4>1. OverNext(e)
        BY <1>1, <1>3, <3>3 DEF CallsHold, Aged
      <4>. QED BY <4>1 DEF OverNext, UnfinishedNext
    <3>. QED BY <1>1, <2>1, <3>1, <3>2, <3>3, ExecsFrom
  <2>. QED BY <2>1 DEF StoreHolds, Unfinished, UnfinishedNext
<1>6. CallsHold'
  <2>1. ASSUME NEW c \in CallIds, call'[c].st # "none"
        PROVE  OverNext(call'[c].ex) /\ call'[c].st # "retry"
    <3>1. CallKept(c)
      BY CallsKept
    <3>2. CASE call[c].st # "none" /\ call'[c].ex = call[c].ex /\ call'[c].st # "retry"
      BY <1>1, <1>3, <3>2 DEF CallsHold, Aged
    <3>3. CASE Over(call'[c].ex) /\ call'[c].st # "retry"
      BY <1>1, <1>3, <3>3 DEF Aged
    <3>. QED BY <2>1, <3>1, <3>2, <3>3 DEF CallKept
  <2>. QED BY <2>1 DEF CallsHold, Over, OverNext
<1>7. TasksHold'
  BY <1>2, <1>3, TasksKept
<1>. QED BY <1>3, <1>4, <1>5, <1>6, <1>7 DEF ForbidInv

\* While a command of a "forbid" job runs and its start is stored, no server
\* runs the job again, whoever leads and whoever crashes, as long as jobs are
\* not retried and no stream breaks under a command that goes on (the comment
\* in Job.isRunnable, src/dkron/job.go).
THEOREM StoreForbids == MaxBreaks = 0 /\ StoredOnce /\ RunsSpec => []ForbidHolds
<1> DEFINE Given == MaxBreaks = 0 /\ StoredOnce
           Valid == StoreValid(jobs)
<1>1. Given /\ RunsInit => ForbidInv /\ Valid
  <2> SUFFICES ASSUME Given, RunsInit
               PROVE  ForbidInv /\ Valid
    OBVIOUS
  <2>1. StoreValid(jobs)
    BY RunsAssumption DEF RunsInit, Whole, StoreValid
  <2>2. NoRetries
    BY DEF RunsInit, NoRetries, StoredOnce
  <2>3. Commands
    BY DEF RunsInit, Commands, Started, NoCmd
  <2>4. StoreHolds /\ CallsHold
    BY DEF RunsInit, StoreHolds, CallsHold, IdleCall
  <2>5. TasksHold
    BY DEF RunsInit, TasksHold, NoTask
  <2>. QED BY <2>1, <2>2, <2>3, <2>4, <2>5 DEF ForbidInv
<1>2. Given /\ RunInv /\ RunInv' /\ ActiveInv /\ Begun /\ Begun' /\ ForbidInv /\ Valid
        /\ [RunsNext]_allVars => ForbidInv' /\ Valid'
  BY ForbidStep DEF Steps
<1>3. RunInv /\ Begun /\ ForbidInv => ForbidHolds
  <2> SUFFICES ASSUME RunInv, Begun, ForbidInv, NEW k \in Cmds, cmd[k].st = "running",
                      StartStored(k), Stored(jobs, cmd[k].ex.job),
                      jobs[cmd[k].ex.job].config.forbid
               PROVE  ~isRunnable(cmd[k].ex.job)
    BY DEF ForbidHolds
  <2>1. PICK e \in execs : Key(e) = Key(cmd[k].ex)
    BY DEF StartStored
  <2>2. e.finishedAt = Never /\ e.job = cmd[k].ex.job /\ e.startedAt = cmd[k].ex.startedAt
    BY <2>1, KeyStart DEF ForbidInv, StoreHolds, Unfinished
  <2>3. cmd[k].ex.startedAt \in 1..(now - 1) /\ now \in Nat
    BY RunFacts DEF Begun, ForbidInv, Commands, Started
  <2>4. e.startedAt # Never
    BY <2>2, <2>3 DEF Never
  <2>5. e \in GetRunningExecutions(execs, cmd[k].ex.job)
    BY <2>2, <2>4 DEF GetRunningExecutions, GetExecutions
  <2>. QED BY <2>5 DEF isRunnable
<1>4. Given /\ [RunsNext]_allVars => Given'
  BY DEF StoredOnce
<1> HIDE DEF Given, Valid
<1>5. Given /\ RunsSpec => []ForbidHolds
  BY <1>1, <1>2, <1>3, <1>4, RunsInvariant, ActiveInvariant, BegunInvariant, PTL DEF RunsSpec
<1>. QED BY <1>5 DEF Given
=============================================================================
