-------------------------------- MODULE Runs --------------------------------
(***************************************************************************)
(* How a run of a job travels: the leader dispatches it to its target      *)
(* nodes (Agent.Run, GRPCClient.AgentRun), each node runs the command and  *)
(* streams its state back (AgentServer.AgentRun), and the result reaches   *)
(* the leader (GRPCServer.ExecutionDone), which stores it, retries a       *)
(* failure, starts the dependent jobs and deletes an ephemeral job.        *)
(* Servers may lose the leadership or crash, nodes may crash, and streams  *)
(* may break.  Module FSM is the store that all of this goes through.      *)
(*                                                                         *)
(* A run <<r, n>> of node n in the r-th call of Agent.Run is a goroutine   *)
(* of the dispatching server; its t-th dispatch starts the command         *)
(* <<r, n, t>> on the node.                                                *)
(***************************************************************************)
EXTENDS FSM

CONSTANTS
    Servers, NoServer,
    NoNode,          \* the NodeName of an execution that no node has started
    NoCall,
    StoredJobs,      \* the jobs at the start
    MaxRuns,         \* bound: calls of Agent.Run
    MaxFires,        \* bound: how many of them the scheduler makes
    AgentRunMaxRetries,
    MaxBreaks,       \* bound: streams that break
    MaxStepDowns,    \* bound: leadership losses without a crash
    MaxCrashes,      \* bound: servers that crash
    MaxNodeCrashes   \* bound: nodes that crash

RunNodes == Nodes \ {NoNode}
RunIds   == 1..MaxRuns
Tries    == 0..AgentRunMaxRetries
Tasks    == RunIds \X RunNodes
Cmds     == RunIds \X RunNodes \X Tries
CallIds  == Tasks \cup Cmds     \* who reports: the dispatcher or the node

ASSUME RunsAssumption ==
    /\ Servers # {} /\ NoServer \notin Servers
    /\ JobNames # {}
    /\ NoNode \in Nodes
    /\ NoCall \notin CallIds
    /\ StoredJobs \in [JobNames -> Job \cup {NoJob}] /\ Whole(StoredJobs)
    /\ \A c \in Configs : c.retries \in Nat /\ c.forbid \in BOOLEAN /\ c.ephemeral \in BOOLEAN
    /\ {MaxRuns, MaxFires, AgentRunMaxRetries, MaxBreaks, MaxStepDowns, MaxCrashes,
        MaxNodeCrashes} \subseteq Nat

VARIABLES
    now,       \* clock: every reading is a new instant
    leader,    \* the server that leads, or NoServer
    up,        \* servers that are running
    nodesUp,   \* nodes that are running
    runs,      \* calls of Agent.Run made so far
    waiter,    \* the ExecutionDone call that waits for a call of Agent.Run
    task,      \* the dispatching goroutines
    cmd,       \* the commands on the nodes
    call,      \* the ExecutionDone calls
    active,    \* <<server, key>>: the servers' activeExecutions
    faults     \* what has gone wrong so far

runVars == <<now, leader, up, nodesUp, runs, waiter, task, cmd, call, active, faults>>
allVars == <<vars, runVars>>
store   == <<jobs, execs, stats, resp>>
cluster == <<leader, up, nodesUp, faults>>

NoExec == [job |-> CHOOSE n \in JobNames : TRUE, node |-> NoNode, startedAt |-> Never,
           group |-> 0, attempt |-> 0, finishedAt |-> Never, success |-> FALSE]

Task == [st     : {"none", "dial", "recv", "first", "report", "closed"},
         server : Servers \cup {NoServer},
         req    : Execution,      \* what AgentRun sends to the node
         ex     : Execution,      \* the last version received
         got    : 0..2,           \* messages received
         try    : Tries]

Cmd == [st     : {"none", "running", "fallback", "over"},
        ex     : Execution,
        open   : BOOLEAN,         \* the stream has not broken
        sent   : 0..2]            \* messages sent, 2 with the end of the stream

Call == [st     : {"none", "sent", "apply", "fetch", "retry", "notify", "chain",
                   "wait", "answered"},
         server : Servers \cup {NoServer},   \* where the call is handled
         via    : Servers \cup {NoServer},   \* the server that forwarded it
         ex     : Execution,
         left   : [JobNames -> Nat],   \* dependent jobs still to be run
         eph    : BOOLEAN,             \* delete the job at the end
         retry  : BOOLEAN,             \* the run waited for is a retry
         answer : {"none", "ok", "error", "unavailable"}]

NoTask == [st |-> "none", server |-> NoServer, req |-> NoExec, ex |-> NoExec,
           got |-> 0, try |-> 0]
NoCmd  == [st |-> "none", ex |-> NoExec, open |-> TRUE, sent |-> 0]
IdleCall == [st |-> "none", server |-> NoServer, via |-> NoServer, ex |-> NoExec, left |-> NoDeps,
             eph |-> FALSE, retry |-> FALSE, answer |-> "none"]

CmdOf(i) == <<i[1], i[2], task[i].try>>

\* One more failure of the kind, while the bound allows it.
Faulty(kind, bound) == faults[kind] < bound /\ faults' = [faults EXCEPT ![kind] = @ + 1]

----------------------------------------------------------------------------
(***************************************************************************)
(* Starting a run                                                          *)
(***************************************************************************)

\* A defective check that trusts the memory of the servers alone.
RunnableByMemory(n) ==
    jobs[n].config.forbid => \A a \in active : a[2][1] # n

\* Job.isRunnable, for a job that is enabled and due, without a global lock,
\* whose executions are all younger than DefaultStaleExecutionThreshold.
\* The executions active on a server that crashed are gone with it.
isRunnable(n) ==
    jobs[n].config.forbid =>
        /\ \A a \in active : a[2][1] # n
        /\ GetRunningExecutions(execs, n) = {}

NewExecution(n) == [NoExec EXCEPT !.job = n, !.group = now, !.attempt = 1]

\* Agent.Run on server s gets as far as its targets.  A job without parent is
\* stored through Raft first, which takes the leadership.
CanRun(s, n) == Stored(jobs, n) /\ (jobs[n].parent = NoParent => s = leader)

\* Agent.Run on server s: store the Next of the job's cron entry, and start
\* one goroutine for each target.  Without targets it returns an error.
Run(s, ex, targets, by) ==
    /\ runs < MaxRuns
    /\ CanRun(s, ex.job)
    /\ IF jobs[ex.job].parent = NoParent
         THEN applySetJob(ex.job, [jobs[ex.job] EXCEPT !.next = now + 1])
         ELSE UNCHANGED store
    /\ runs' = runs + 1
    /\ waiter' = [waiter EXCEPT ![runs'] = by]
    /\ task' = [i \in Tasks |->
                  IF i[1] = runs' /\ i[2] \in targets
                    THEN [NoTask EXCEPT !.st = "dial", !.server = s, !.req = ex, !.ex = ex]
                    ELSE task[i]]
    /\ now' = now + 1

\* The scheduler of the leader runs a job: Job.Run.  MaxFires counts the runs
\* that nobody waits for.
Fire(n) ==
    /\ Cardinality({r \in 1..runs : waiter[r] = NoCall}) < MaxFires
    /\ leader # NoServer
    /\ Stored(jobs, n) /\ jobs[n].parent = NoParent
    /\ isRunnable(n)
    /\ Run(leader, NewExecution(n), nodesUp, NoCall)
    /\ UNCHANGED <<cluster, cmd, call, active>>

----------------------------------------------------------------------------
(***************************************************************************)
(* The dispatching goroutine: GRPCClient.AgentRun                          *)
(***************************************************************************)

\* A defective return that leaves the execution in activeExecutions.
AttemptLeaks(i, retryable) ==
    /\ task' = [task EXCEPT ![i].st = "closed"]
    /\ UNCHANGED active

\* A defective loop with one attempt too many.
AttemptOnceMore(i, retryable) ==
    /\ task' = [task EXCEPT ![i] =
                  IF retryable /\ task[i].try <= AgentRunMaxRetries
                    THEN [@ EXCEPT !.st = "dial", !.try = @ + 1, !.got = 0]
                    ELSE [@ EXCEPT !.st = "closed"]]
    /\ active' = active \ {<<task[i].server, Key(task[i].ex)>>}

\* agentRunAttempt returns err: the deferred deletions clear activeExecutions
\* and AgentRun dispatches again if the error may be transient.
AttemptFails(i, retryable) ==
    /\ task' = [task EXCEPT ![i] =
                  IF retryable /\ task[i].try < AgentRunMaxRetries
                    THEN [task[i] EXCEPT !.st = "dial", !.try = task[i].try + 1, !.got = 0,
                                         !.ex = task[i].req]
                    ELSE [task[i] EXCEPT !.st = "closed"]]
    /\ active' = active \ {<<task[i].server, Key(task[i].ex)>>}

\* The node cannot be reached.
DialFails(i) ==
    /\ task[i].st = "dial"
    /\ i[2] \notin nodesUp
    /\ AttemptFails(i, TRUE)
    /\ UNCHANGED <<store, cluster, now, runs, waiter, cmd, call>>

\* The node receives the request and AgentServer.AgentRun sends the first
\* message, with the start time and its name.
Dispatch(i) ==
    /\ task[i].st = "dial"
    /\ i[2] \in nodesUp
    /\ cmd' = [cmd EXCEPT ![CmdOf(i)] =
                 [st |-> "running", open |-> TRUE, sent |-> 1,
                  ex |-> [task[i].req EXCEPT !.startedAt = now, !.node = i[2]]]]
    /\ task' = [task EXCEPT ![i].st = "recv"]
    /\ now' = now + 1
    /\ UNCHANGED <<store, cluster, runs, waiter, call, active>>

\* The stream breaks before the node can send the first message: the node
\* gives up without running the command.
Refuse(i) ==
    /\ task[i].st = "dial"
    /\ Faulty("break", MaxBreaks)
    /\ cmd' = [cmd EXCEPT ![CmdOf(i)] = [NoCmd EXCEPT !.st = "over", !.open = FALSE]]
    /\ task' = [task EXCEPT ![i].st = "recv"]
    /\ UNCHANGED <<store, leader, up, nodesUp, now, runs, waiter, call, active>>

\* The first message arrives and is registered as active.
RecvFirst(i) ==
    /\ task[i].st = "recv" /\ task[i].got = 0 /\ cmd[CmdOf(i)].sent > 0
    /\ LET first == [cmd[CmdOf(i)].ex EXCEPT !.finishedAt = task[i].req.finishedAt,
                                             !.success = FALSE]
       IN  /\ task' = [task EXCEPT ![i].st = "first", ![i].got = 1, ![i].ex = first]
           /\ active' = active \cup {<<task[i].server, Key(first)>>}
    /\ UNCHANGED <<store, cluster, now, runs, waiter, cmd, call>>

\* GRPCClient.SetExecution reaches the leader and Raft, or fails: then the
\* attempt returns its error and closes the connection although the command
\* may be running.
CallSetExecution(i) ==
    /\ task[i].st = "first"
    /\ IF leader # NoServer
         THEN /\ applySetExecution(task[i].ex)
              /\ task' = [task EXCEPT ![i].st = "recv"]
              /\ UNCHANGED <<active, cmd>>
         ELSE /\ AttemptFails(i, TRUE)
              /\ cmd' = [cmd EXCEPT ![CmdOf(i)].open = FALSE]
              /\ UNCHANGED store
    /\ UNCHANGED <<cluster, now, runs, waiter, call>>

\* The final message arrives.
RecvFinal(i) ==
    /\ task[i].st = "recv" /\ task[i].got = 1 /\ cmd[CmdOf(i)].sent = 2
    /\ task' = [task EXCEPT ![i].got = 2, ![i].ex = cmd[CmdOf(i)].ex]
    /\ UNCHANGED <<store, cluster, now, runs, waiter, cmd, call, active>>

\* GRPCClient.ExecutionDone to the leader that the caller knows.
SendDone(c, ex) ==
    call' = [call EXCEPT ![c] =
               [IdleCall EXCEPT !.ex = ex, !.server = leader,
                                !.st = IF leader = NoServer THEN "answered" ELSE "sent",
                                !.answer = IF leader = NoServer THEN "unavailable" ELSE "none"]]

\* A defective end of the stream that reports nothing.
RecvEOFSilent(i) ==
    /\ task[i].st = "recv" /\ task[i].got = 2
    /\ AttemptFails(i, FALSE)
    /\ UNCHANGED <<store, cluster, now, runs, waiter, cmd, call>>

\* The end of the stream: report the result.
RecvEOF(i) ==
    /\ task[i].st = "recv" /\ task[i].got = 2
    /\ call[i].st = "none"
    /\ SendDone(i, task[i].ex)
    /\ task' = [task EXCEPT ![i].st = "report"]
    /\ UNCHANGED <<store, cluster, now, runs, waiter, cmd, active>>

\* The stream breaks: report a failure, whatever the command does and also
\* when its result was received already.  Before the first message the request
\* itself is the execution that is changed.
RecvError(i) ==
    /\ task[i].st = "recv" /\ ~cmd[CmdOf(i)].open
    /\ call[i].st = "none"
    /\ LET failed == [task[i].ex EXCEPT !.finishedAt = now, !.success = FALSE]
       IN  /\ SendDone(i, failed)
           /\ task' = [task EXCEPT ![i].st = "report", ![i].ex = failed,
                                   ![i].req = IF task[i].got = 0 THEN failed ELSE @]
    /\ now' = now + 1
    /\ UNCHANGED <<store, cluster, runs, waiter, cmd, active>>

\* A defective return that hands a recorded failure to the retry loop.
DoneRetried(i) ==
    /\ task[i].st = "report" /\ call[i].st = "answered"
    /\ call' = [call EXCEPT ![i] = IdleCall]
    /\ AttemptFails(i, ~call[i].ex.success)
    /\ UNCHANGED <<store, cluster, now, runs, waiter, cmd>>

\* ExecutionDone returns to the goroutine.
DoneReturns(i) ==
    /\ task[i].st = "report" /\ call[i].st = "answered"
    /\ call' = [call EXCEPT ![i] = IdleCall]
    /\ AttemptFails(i, call[i].answer = "unavailable")
    /\ UNCHANGED <<store, cluster, now, runs, waiter, cmd>>

----------------------------------------------------------------------------
(***************************************************************************)
(* The command on the node: AgentServer.AgentRun                           *)
(***************************************************************************)

\* The executor returns.  The final message ends the stream, unless it broke.
Finish(k, ok) ==
    /\ cmd[k].st = "running"
    /\ cmd' = [cmd EXCEPT ![k] =
                 [cmd[k] EXCEPT !.ex = [cmd[k].ex EXCEPT !.finishedAt = now, !.success = ok],
                                !.st   = IF cmd[k].open THEN "over" ELSE "fallback",
                                !.sent = IF cmd[k].open THEN 2 ELSE cmd[k].sent]]
    /\ now' = now + 1
    /\ UNCHANGED <<store, cluster, runs, waiter, task, call, active>>

\* The fallback: ExecutionDone to any server that answers, if there is one.
Fallback(k) ==
    /\ cmd[k].st = "fallback"
    /\ cmd' = [cmd EXCEPT ![k].st = "over"]
    /\ IF up = {} THEN UNCHANGED call
       ELSE \E s \in up : call' = [call EXCEPT ![k] =
                             [IdleCall EXCEPT !.st = "sent", !.server = s, !.ex = cmd[k].ex]]
    /\ UNCHANGED <<store, cluster, now, runs, waiter, task, active>>

----------------------------------------------------------------------------
(***************************************************************************)
(* The report at a server: GRPCServer.ExecutionDone                        *)
(***************************************************************************)

\* What the caller is told when the handler returns answer: the server that
\* forwarded the call drops the answer and returns ErrNotLeader, which the
\* caller takes for success.  When that server has crashed, the caller knows.
Told(h, answer, alive) ==
    IF h.via = NoServer THEN answer ELSE IF h.via \in alive THEN "ok" ELSE "unavailable"

Answered(c, answer) ==
    call' = [call EXCEPT ![c].st = "answered", ![c].answer = Told(call[c], answer, up)]

\* A defective follower that answers without forwarding.
DropDone(c) ==
    /\ call[c].st = "sent" /\ call[c].server # leader
    /\ Answered(c, "ok")
    /\ UNCHANGED <<store, cluster, now, runs, waiter, task, cmd, active>>

\* Not the leader: forward the call, and answer ErrNotLeader when it returns.
\* Without a leader it fails at once, and the result is dropped.
ForwardDone(c) ==
    /\ call[c].st = "sent" /\ call[c].server # leader
    /\ IF leader = NoServer THEN Answered(c, "ok")
       ELSE call' = [call EXCEPT ![c].server = leader,
                                 ![c].via = IF call[c].via = NoServer THEN call[c].server
                                                                      ELSE call[c].via]
    /\ UNCHANGED <<store, cluster, now, runs, waiter, task, cmd, active>>

\* The leader looks the job up before it processes the execution.
AcceptDone(c) ==
    /\ call[c].st = "sent" /\ call[c].server = leader
    /\ IF Stored(jobs, call[c].ex.job) THEN call' = [call EXCEPT ![c].st = "apply"]
       ELSE Answered(c, "error")
    /\ UNCHANGED <<store, cluster, now, runs, waiter, task, cmd, active>>

\* raft.Apply, which fails when the leadership is lost meanwhile.  The answer
\* of the state machine is not looked at.
ApplyDone(c) ==
    /\ call[c].st = "apply"
    /\ IF call[c].server = leader
         THEN applyExecutionDone(call[c].ex) /\ call' = [call EXCEPT ![c].st = "fetch"]
         ELSE Answered(c, "error") /\ UNCHANGED store
    /\ UNCHANGED <<cluster, now, runs, waiter, task, cmd, active>>

\* Read the job again and decide: retry a failure, or go on to the
\* notifications and the dependent jobs.
FetchJob(c) ==
    /\ call[c].st = "fetch"
    /\ LET ex  == call[c].ex
           job == jobs[ex.job]
       IN  IF ~Stored(jobs, ex.job) THEN Answered(c, "error")
           ELSE IF ~ex.success /\ ex.attempt < job.config.retries + 1
             THEN call' = [call EXCEPT ![c].st = "retry"]
             ELSE call' = [call EXCEPT ![c].st = "notify",
                             ![c].left = IF job.status = "success" THEN job.deps ELSE NoDeps,
                             ![c].eph  = job.config.ephemeral /\ job.status = "success"]
    /\ UNCHANGED <<store, cluster, now, runs, waiter, task, cmd, active>>

\* A defective retry that forgets to count the attempt.
RetryForever(ex) == ex

\* Only the attempt changes: the execution keeps its times, FinishedAt too.
NextAttempt(ex) == [ex EXCEPT !.attempt = @ + 1]

\* After the backoff, run the job again on the same node.  Agent.Run gives up
\* when the node is gone or never reported its name.
RetryRun(c) ==
    /\ call[c].st = "retry"
    /\ LET targets == nodesUp \cap {call[c].ex.node}
       IN  IF CanRun(call[c].server, call[c].ex.job)
             THEN /\ Run(call[c].server, NextAttempt(call[c].ex), targets, c)
                  /\ IF targets = {} THEN Answered(c, "error")
                     ELSE call' = [call EXCEPT ![c].st = "wait", ![c].retry = TRUE]
             ELSE Answered(c, "error") /\ UNCHANGED <<store, runs, waiter, task, now>>
    /\ UNCHANGED <<cluster, cmd, active>>

\* Agent.Run returns when all its dispatches are over.
RunReturns(c) ==
    /\ call[c].st = "wait"
    /\ \A i \in Tasks : waiter[i[1]] = c => task[i].st \in {"none", "closed"}
    /\ IF call[c].retry THEN Answered(c, "ok")
       ELSE call' = [call EXCEPT ![c].st = "chain"]
    /\ UNCHANGED <<store, cluster, now, runs, waiter, task, cmd, active>>

\* SendPostNotifications: an error ends the call here.
Notify(c) ==
    /\ call[c].st = "notify"
    /\ call' = [call EXCEPT ![c].st = "chain"] \/ Answered(c, "error")
    /\ UNCHANGED <<store, cluster, now, runs, waiter, task, cmd, active>>

\* The next dependent job: a missing one ends the call, one that may not run
\* is passed over, any other is run and waited for.
RunDependent(c, d) ==
    /\ call[c].st = "chain" /\ call[c].left[d] > 0
    /\ \/ /\ ~Stored(jobs, d)
          /\ Answered(c, "error")
          /\ UNCHANGED <<store, runs, waiter, task, now>>
       \/ /\ Stored(jobs, d) /\ ~(isRunnable(d) /\ CanRun(call[c].server, d))
          /\ call' = [call EXCEPT ![c].left[d] = @ - 1]
          /\ UNCHANGED <<store, runs, waiter, task, now>>
       \/ /\ Stored(jobs, d) /\ isRunnable(d)
          /\ Run(call[c].server, NewExecution(d), nodesUp, c)
          /\ call' = [call EXCEPT ![c].left[d] = @ - 1, ![c].st = "wait"]
    /\ UNCHANGED <<cluster, cmd, active>>

\* The end of the handler: an ephemeral job that succeeded is deleted.
EndDone(c) ==
    /\ call[c].st = "chain" /\ call[c].left = NoDeps
    /\ IF ~call[c].eph THEN Answered(c, "ok") /\ UNCHANGED store
       ELSE IF call[c].server # leader THEN Answered(c, "error") /\ UNCHANGED store
       ELSE applyDeleteJob(call[c].ex.job) /\ Answered(c, resp')
    /\ UNCHANGED <<cluster, now, runs, waiter, task, cmd, active>>

----------------------------------------------------------------------------
(***************************************************************************)
(* Failures                                                                *)
(***************************************************************************)

\* A stream breaks under a running command, or before the dispatcher has
\* received all that the node sent.
BreakStream(k) ==
    /\ Faulty("break", MaxBreaks)
    /\ cmd[k].open
    /\ \/ cmd[k].st = "running"
       \/ cmd[k].sent = 2 /\ task[<<k[1], k[2]>>].st = "recv" /\ task[<<k[1], k[2]>>].try = k[3]
    /\ cmd' = [cmd EXCEPT ![k].open = FALSE]
    /\ UNCHANGED <<store, leader, up, nodesUp, now, runs, waiter, task, call, active>>

\* Raft deposes the leader; its goroutines go on.
StepDown ==
    /\ Faulty("stepdown", MaxStepDowns)
    /\ leader # NoServer
    /\ leader' = NoServer
    /\ UNCHANGED <<store, up, nodesUp, now, runs, waiter, task, cmd, call, active>>

\* A server takes over.  establishLeadership reads the store and starts the
\* scheduler; young running executions stay as they are.
Elect(s) ==
    /\ leader = NoServer /\ s \in up
    /\ leader' = s
    /\ UNCHANGED <<store, up, nodesUp, faults, now, runs, waiter, task, cmd, call, active>>

\* A server crashes: its goroutines and its memory are gone, its streams
\* break and its callers get an error.
Crash(s) ==
    /\ Faulty("crash", MaxCrashes)
    /\ s \in up
    /\ up' = up \ {s}
    /\ leader' = IF leader = s THEN NoServer ELSE leader
    /\ task' = [i \in Tasks |-> IF task[i].server = s THEN [task[i] EXCEPT !.st = "closed"]
                                                     ELSE task[i]]
    /\ cmd' = [k \in Cmds |->
                 IF task[<<k[1], k[2]>>].server = s THEN [cmd[k] EXCEPT !.open = FALSE]
                                                    ELSE cmd[k]]
    /\ call' = [c \in CallIds |->
                  IF call[c].server = s /\ call[c].st \notin {"none", "answered"}
                    THEN [call[c] EXCEPT !.st = "answered",
                                         !.answer = Told(call[c], "unavailable", up')]
                    ELSE call[c]]
    /\ active' = {a \in active : a[1] # s}
    /\ UNCHANGED <<store, nodesUp, now, runs, waiter>>

NodeCrash(n) ==
    /\ Faulty("node", MaxNodeCrashes)
    /\ n \in nodesUp
    /\ nodesUp' = nodesUp \ {n}
    /\ cmd' = [k \in Cmds |->
                 IF k[2] = n /\ cmd[k].st \in {"running", "fallback"}
                   THEN [cmd[k] EXCEPT !.st = "over", !.open = FALSE] ELSE cmd[k]]
    /\ UNCHANGED <<store, leader, up, now, runs, waiter, task, call, active>>

----------------------------------------------------------------------------
\* One leader, all nodes up, and StoredJobs in the store.
RunsInit ==
    /\ jobs = StoredJobs /\ execs = {} /\ stats = [succ |-> 0, err |-> 0] /\ resp = "ok"
    /\ now = 1
    /\ leader = CHOOSE s \in Servers : TRUE
    /\ up = Servers
    /\ nodesUp = RunNodes
    /\ runs = 0
    /\ waiter = [r \in RunIds |-> NoCall]
    /\ task = [i \in Tasks |-> NoTask]
    /\ cmd = [k \in Cmds |-> NoCmd]
    /\ call = [c \in CallIds |-> IdleCall]
    /\ active = {}
    /\ faults = [k \in {"break", "stepdown", "crash", "node"} |-> 0]

TaskStep(i) ==
    \/ DialFails(i) \/ Dispatch(i) \/ RecvFirst(i) \/ CallSetExecution(i)
    \/ RecvFinal(i) \/ RecvEOF(i) \/ RecvError(i) \/ DoneReturns(i)

CmdStep(k) == (\E ok \in BOOLEAN : Finish(k, ok)) \/ Fallback(k)

CallStep(c) ==
    \/ ForwardDone(c) \/ AcceptDone(c) \/ ApplyDone(c) \/ FetchJob(c)
    \/ RetryRun(c) \/ RunReturns(c) \/ Notify(c) \/ EndDone(c)
    \/ \E d \in JobNames : RunDependent(c, d)

Fault ==
    \/ \E i \in Tasks : Refuse(i)
    \/ \E k \in Cmds : BreakStream(k)
    \/ StepDown
    \/ \E s \in Servers : Crash(s)
    \/ \E n \in RunNodes : NodeCrash(n)

RunsNext ==
    \/ \E n \in JobNames : Fire(n)
    \/ \E i \in Tasks : TaskStep(i)
    \/ \E k \in Cmds : CmdStep(k)
    \/ \E c \in CallIds : CallStep(c)
    \/ \E s \in Servers : Elect(s)
    \/ Fault

RunsSpec == RunsInit /\ [][RunsNext]_allVars

\* The goroutines of servers and nodes make progress, commands end, and Raft
\* elects a leader: as long as one of them can go on, some one does.  No more
\* is needed, as runs are bounded and every step leads on.  The scheduler need
\* not fire and nothing need fail.
Fairness ==
    WF_allVars(\/ \E i \in Tasks : TaskStep(i)
               \/ \E k \in Cmds : CmdStep(k)
               \/ \E c \in CallIds : CallStep(c)
               \/ \E s \in Servers : Elect(s))

FairRunsSpec == RunsSpec /\ Fairness

----------------------------------------------------------------------------
(***************************************************************************)
(* Properties                                                              *)
(***************************************************************************)

\* The state is well formed: the leader is a running server, a dispatch is
\* tried at most AgentRunMaxRetries + 1 times and a stream carries at most the
\* messages that AgentServer.AgentRun sends.
RunsTypeOK ==
    /\ TypeOK
    /\ now \in Nat
    /\ leader \in up \cup {NoServer}
    /\ up \subseteq Servers /\ nodesUp \subseteq RunNodes
    /\ runs \in 0..MaxRuns
    /\ waiter \in [RunIds -> CallIds \cup {NoCall}]
    /\ task \in [Tasks -> Task]
    /\ cmd \in [Cmds -> Cmd]
    /\ call \in [CallIds -> Call]

Started(k) == cmd[k].sent > 0

\* The store knows that the command k has started.
StartStored(k) == \E e \in execs : Key(e) = Key(cmd[k].ex)

\* A server's activeExecutions holds nothing that no goroutine will delete:
\* a leaked entry would keep a job with concurrency "forbid" from ever
\* running again.
ActiveHasTask ==
    \A a \in active : \E i \in Tasks :
        /\ task[i].server = a[1]
        /\ task[i].st \in {"recv", "first", "report"}
        /\ Key(task[i].ex) = a[2]

\* While a command of a "forbid" job runs and its start is stored, the job may
\* not run again, whoever leads: the comment in isRunnable says that the store
\* catches executions that run on nodes after a leader change.
ForbidHolds ==
    \A k \in Cmds : cmd[k].st = "running" /\ StartStored(k) =>
        LET n == cmd[k].ex.job
        IN  Stored(jobs, n) /\ jobs[n].config.forbid => ~isRunnable(n)

\* A node runs a failing job again until the retries count reaches the limit
\* (the documentation of retries), and no more often.
CommandsBounded ==
    \A k \in Cmds : Started(k) =>
        LET same == {l \in Cmds : /\ Started(l)
                                  /\ cmd[l].ex.job = cmd[k].ex.job
                                  /\ cmd[l].ex.group = cmd[k].ex.group
                                  /\ l[2] = k[2]}
        IN  Stored(jobs, cmd[k].ex.job) =>
                Cardinality(same) <= jobs[cmd[k].ex.job].config.retries + 1

\* AgentRun's retry loop does not dispatch an execution again once the node
\* has started its command.
StartedOnce ==
    \A k, l \in Cmds : Started(k) /\ Started(l) /\ k[1] = l[1] /\ k[2] = l[2] => k = l

\* A result that a node hands to a server itself, and that is acknowledged, is
\* in the store, unless the dispatcher whose stream broke has recorded the
\* failure that it makes up later than that.
AckedResultStored ==
    \A k \in Cmds : call[k].st = "answered" /\ call[k].answer = "ok" =>
        \E e \in execs :
            /\ Key(e) = Key(call[k].ex)
            /\ \/ e.finishedAt = call[k].ex.finishedAt /\ e.success = call[k].ex.success
               \/ e.finishedAt > call[k].ex.finishedAt /\ ~e.success /\ ~cmd[k].open

\* "Parent jobs must complete successfully before dependent jobs run": while a
\* dependent job runs, no command of the group that triggered it does.
DependentsWait ==
    \A c \in CallIds : call[c].st = "wait" /\ ~call[c].retry =>
        \A k \in Cmds : cmd[k].ex.group = call[c].ex.group => cmd[k].st # "running"

\* A deleted job leaves no executions behind: the comment on DeleteJob.
NoOrphanExecutions ==
    \A n \in JobNames : ~Stored(jobs, n) => GetExecutions(execs, n) = {}

\* Every command whose start is stored gets a result there.
ResultsArrive ==
    \A k \in Cmds : Started(k) /\ StartStored(k) ~>
        \E e \in execs : Key(e) = Key(cmd[k].ex) /\ e.finishedAt # Never

\* A stored job that may not run because of an earlier run may run again later.
NotBlockedForever ==
    \A n \in JobNames : []<>(Stored(jobs, n) => isRunnable(n))
=============================================================================
