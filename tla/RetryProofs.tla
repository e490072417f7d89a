---------------------------- MODULE RetryProofs ----------------------------
(***************************************************************************)
(* More about the runs of jobs: how often a command is retried, and what   *)
(* becomes of a result that a server acknowledged.  RunsProofs has the     *)
(* types and the dispatch.                                                 *)
(***************************************************************************)
EXTENDS RunsProofs, FiniteSetTheorems

(***************************************************************************)
(* Chains of attempts.  A goroutine's attempts are those of one execution; *)
(* the goroutines of its retries have the same job, group and node, and    *)
(* the next attempts.                                                      *)
(***************************************************************************)

\* The goroutine that a report, or a command, is about.
TaskOf(c) == <<c[1], c[2]>>

Made(i) == task[i].st # "none"

Alike(e, f) == e.job = f.job /\ e.group = f.group /\ e.attempt = f.attempt

\* What travels is the execution that Agent.Run was called with, at the node
\* of the goroutine once it has one; groups are older than the clock.
Lineage ==
    /\ \A i \in Tasks : ~Made(i) => task[i].server = NoServer
    /\ \A i \in Tasks : Made(i) =>
          /\ task[i].req.group < now /\ task[i].req.attempt > 0
          /\ Alike(task[i].ex, task[i].req)
          /\ task[i].req.node \in {i[2], NoNode} /\ task[i].ex.node \in {i[2], NoNode}
    /\ \A k \in Cmds : Started(k) =>
          Made(TaskOf(k)) /\ Alike(cmd[k].ex, task[TaskOf(k)].req) /\ cmd[k].ex.node = k[2]
    /\ \A c \in CallIds : call[c].st # "none" =>
          /\ Made(TaskOf(c)) /\ Alike(call[c].ex, task[TaskOf(c)].req)
          /\ call[c].ex.node \in {c[2], NoNode}

\* A command that runs is watched by its goroutine, or will report itself when
\* the server of the goroutine has crashed: never both.
WatchedTask(i) ==
    /\ call[i].st \notin {"none", "answered"} => task[i].st = "report"
    /\ task[i].st \in {"recv", "first"} /\ task[i].got = 2 => cmd[CmdOf(i)].sent = 2

WatchedCmd(k) ==
    /\ cmd[k].st \in {"running", "fallback"} =>
          call[k].st = "none" /\ task[TaskOf(k)].st \in {"recv", "first", "closed"}
    /\ cmd[k].st = "fallback" \/ (cmd[k].st = "running" /\ ~cmd[k].open) =>
          task[TaskOf(k)].st = "closed"
    /\ cmd[k].sent = 2 => cmd[k].st = "over"
    /\ call[k].st # "none" => Started(k) /\ task[TaskOf(k)].st = "closed"

Watched == (\A i \in Tasks : WatchedTask(i)) /\ (\A k \in Cmds : WatchedCmd(k))

\* No report of i yet.
Awaiting(i) ==
    \/ task[i].st \in {"dial", "recv", "first"}
    \/ \E k \in Cmds : TaskOf(k) = i /\ cmd[k].st \in {"running", "fallback"}

\* A report that has made no retry.
Fresh(c) ==
    \/ call[c].st \in {"sent", "apply", "fetch", "retry", "notify", "chain"}
    \/ call[c].st = "wait" /\ ~call[c].retry

\* i may still be retried, or is the last attempt.
Front(i) == Awaiting(i) \/ \E c \in CallIds : TaskOf(c) = i /\ Fresh(c)

Kin(i, j) ==
    /\ Made(i) /\ Made(j) /\ i[2] = j[2]
    /\ task[i].req.job = task[j].req.job /\ task[i].req.group = task[j].req.group

\* A group belongs to one job, each attempt of a chain has one goroutine, and
\* only the newest may be retried.
Chains ==
    /\ \A i, j \in Tasks : Made(i) /\ Made(j) /\ task[i].req.group = task[j].req.group =>
          task[i].req.job = task[j].req.job
    /\ \A i, j \in Tasks : Kin(i, j) /\ task[i].req.attempt = task[j].req.attempt => i = j
    /\ \A i, j \in Tasks : Kin(i, j) /\ Front(i) => task[j].req.attempt <= task[i].req.attempt

\* Attempts are within the limit of the job.
Limited ==
    /\ \A i \in Tasks : Made(i) /\ Stored(jobs, task[i].req.job) =>
          task[i].req.attempt <= jobs[task[i].req.job].config.retries + 1
    /\ \A c \in CallIds : call[c].st = "retry" /\ Stored(jobs, call[c].ex.job) =>
          call[c].ex.attempt < jobs[call[c].ex.job].config.retries + 1

----------------------------------------------------------------------------
(***************************************************************************)
(* Lineage, for all failures                                               *)
(***************************************************************************)

AtNode(e, n) == e.node \in {n, NoNode}

\* What a step may do to a goroutine, a command and a report.
TaskTo(i) ==
    \/ task'[i] = task[i]
    \/ /\ Made(i) /\ task'[i].st # "none"
       /\ Alike(task'[i].req, task[i].req) /\ Alike(task'[i].ex, task[i].req)
       /\ AtNode(task'[i].req, i[2]) /\ AtNode(task'[i].ex, i[2])
    \/ /\ ~Made(i) /\ task'[i].st = "dial" /\ task'[i].req = task'[i].ex
       /\ task'[i].req.group < now' /\ task'[i].req.attempt > 0 /\ AtNode(task'[i].req, i[2])

CmdTo(k) ==
    cmd'[k].sent > 0 =>
        \/ Started(k) /\ Alike(cmd'[k].ex, cmd[k].ex) /\ cmd'[k].ex.node = cmd[k].ex.node
        \/ /\ Made(TaskOf(k)) /\ Alike(cmd'[k].ex, task[TaskOf(k)].req)
           /\ cmd'[k].ex.node = k[2]

CallTo(c) ==
    call'[c].st # "none" =>
        \/ call[c].st # "none" /\ call'[c].ex = call[c].ex
        \/ /\ Made(TaskOf(c)) /\ Alike(call'[c].ex, task[TaskOf(c)].req)
           /\ AtNode(call'[c].ex, c[2])

Inherits ==
    /\ now' \in {now, now + 1}
    /\ \A i \in Tasks : TaskTo(i)
    /\ \A k \in Cmds : CmdTo(k)
    /\ \A c \in CallIds : CallTo(c)

\* The goroutine of a goroutine is itself.
LEMMA TaskOfType ==
    /\ \A i \in Tasks : TaskOf(i) = i /\ i[2] \in RunNodes
    /\ \A k \in Cmds : TaskOf(k) \in Tasks /\ k[2] \in RunNodes /\ TaskOf(k)[2] = k[2]
    /\ \A c \in CallIds : TaskOf(c) \in Tasks /\ c[2] \in RunNodes /\ TaskOf(c)[2] = c[2]
BY DEF TaskOf, Tasks, Cmds, CallIds

\* Steps that hand on what they were given keep the lineage.
LEMMA LineageKept ==
    ASSUME RunInv, Lineage, Inherits
    PROVE  Lineage'
<1>1. /\ now \in Nat /\ now' \in Nat /\ now' >= now
      /\ \A e \in Execution : e.group \in Nat
  BY RunFacts DEF Inherits, Execution
<1>2. \A i \in Tasks : task[i].req \in Execution
  BY RunFacts
<1>3. ASSUME NEW i \in Tasks
      PROVE  /\ Made(i) => task'[i].st # "none" /\ Alike(task'[i].req, task[i].req)
             /\ task'[i].st # "none" =>
                  /\ task'[i].req.group < now' /\ task'[i].req.attempt > 0
                  /\ Alike(task'[i].ex, task'[i].req)
                  /\ AtNode(task'[i].req, i[2]) /\ AtNode(task'[i].ex, i[2])
  <2>1. Made(i) => /\ task[i].req.group < now' /\ task[i].req.attempt > 0
                   /\ Alike(task[i].ex, task[i].req)
                   /\ AtNode(task[i].req, i[2]) /\ AtNode(task[i].ex, i[2])
    BY <1>1, <1>2 DEF Lineage, AtNode
  <2>2. CASE task'[i] = task[i]
    BY <2>1, <2>2 DEF Made, Alike
  <2>3. CASE /\ Made(i) /\ task'[i].st # "none"
             /\ Alike(task'[i].req, task[i].req) /\ Alike(task'[i].ex, task[i].req)
             /\ AtNode(task'[i].req, i[2]) /\ AtNode(task'[i].ex, i[2])
    BY <2>1, <2>3 DEF Alike
  <2>4. CASE /\ ~Made(i) /\ task'[i].st = "dial" /\ task'[i].req = task'[i].ex
             /\ task'[i].req.group < now' /\ task'[i].req.attempt > 0 /\ AtNode(task'[i].req, i[2])
    BY <2>4 DEF Alike
  <2>5. TaskTo(i)
    BY DEF Inherits
  <2>. QED BY <2>2, <2>3, <2>4, <2>5 DEF TaskTo
<1>4. ASSUME NEW k \in Cmds, cmd'[k].sent > 0
      PROVE  /\ task'[TaskOf(k)].st # "none" /\ Alike(cmd'[k].ex, task'[TaskOf(k)].req)
             /\ cmd'[k].ex.node = k[2]
  <2>1. /\ Made(TaskOf(k)) /\ Alike(cmd'[k].ex, task[TaskOf(k)].req) /\ cmd'[k].ex.node = k[2]
    BY <1>4 DEF Inherits, CmdTo, Lineage, Alike
  <2>. QED BY <1>3, <2>1, TaskOfType DEF Alike
<1>5. ASSUME NEW c \in CallIds, call'[c].st # "none"
      PROVE  /\ task'[TaskOf(c)].st # "none" /\ Alike(call'[c].ex, task'[TaskOf(c)].req)
             /\ AtNode(call'[c].ex, c[2])
  <2>1. /\ Made(TaskOf(c)) /\ Alike(call'[c].ex, task[TaskOf(c)].req) /\ AtNode(call'[c].ex, c[2])
    BY <1>5 DEF Inherits, CallTo, Lineage, AtNode
  <2>. QED BY <1>3, <2>1, TaskOfType DEF Alike
<1>6. ASSUME NEW i \in Tasks, task'[i].st = "none"
      PROVE  task'[i].server = NoServer
  BY <1>6 DEF Inherits, TaskTo, Lineage, Made
<1>. QED BY <1>3, <1>4, <1>5, <1>6 DEF Lineage, Made, Started, AtNode, TaskOf, Alike

\* Steps that leave them alone.
LEMMA InheritSame ==
    ASSUME RunInv
    PROVE  /\ UNCHANGED task => \A i \in Tasks : TaskTo(i)
           /\ UNCHANGED cmd => \A k \in Cmds : CmdTo(k)
           /\ UNCHANGED call => \A c \in CallIds : CallTo(c)
<1>1. UNCHANGED task => \A i \in Tasks : TaskTo(i)
  BY DEF TaskTo
<1>2. UNCHANGED cmd => \A k \in Cmds : CmdTo(k)
  BY DEF CmdTo, Alike, Started
<1>3. UNCHANGED call => \A c \in CallIds : CallTo(c)
  BY DEF CallTo
<1>. QED BY <1>1, <1>2, <1>3

\* One goroutine moves on.
LEMMA InheritTask ==
    ASSUME RunInv, Lineage, NEW i \in Tasks, Made(i), NEW t, task' = [task EXCEPT ![i] = t],
           t.st # "none", Alike(t.req, task[i].req), Alike(t.ex, task[i].req),
           AtNode(t.req, i[2]), AtNode(t.ex, i[2])
    PROVE  \A j \in Tasks : TaskTo(j)
<1>1. task'[i] = t /\ \A j \in Tasks \ {i} : task'[j] = task[j]
  BY DEF RunInv, RunsTypeOK
<1>2. TaskTo(i)
  BY <1>1 DEF TaskTo
<1>. QED BY <1>1, <1>2 DEF TaskTo

\* A return of agentRunAttempt.
LEMMA InheritAttempt ==
    ASSUME RunInv, Lineage, NEW i \in Tasks, Made(i), NEW retryable, AttemptFails(i, retryable)
    PROVE  \A j \in Tasks : TaskTo(j)
<1>1. PICK t \in Task :
         /\ task' = [task EXCEPT ![i] = t]
         /\ \/ t = [task[i] EXCEPT !.st = "closed"]
            \/ t = [task[i] EXCEPT !.st = "dial", !.try = task[i].try + 1, !.got = 0,
                                   !.ex = task[i].req]
  BY AttemptTypes
<1>2. task[i] \in Task
  BY RunFacts
<1>3. t.st # "none" /\ t.req = task[i].req /\ t.ex \in {task[i].ex, task[i].req}
  BY <1>1, <1>2 DEF Task
<1>4. /\ Alike(task[i].ex, task[i].req) /\ Alike(task[i].req, task[i].req)
      /\ AtNode(task[i].req, i[2]) /\ AtNode(task[i].ex, i[2])
  BY DEF Lineage, AtNode, Alike
<1>. QED BY <1>1, <1>3, <1>4, InheritTask

\* A report begins, or one that exists moves on.
LEMMA InheritCall ==
    ASSUME RunInv, NEW c \in CallIds, \A d \in CallIds \ {c} : call'[d] = call[d],
           \/ call'[c].st = "none"
           \/ call[c].st # "none" /\ call'[c].ex = call[c].ex
           \/ /\ Made(TaskOf(c)) /\ Alike(call'[c].ex, task[TaskOf(c)].req)
              /\ AtNode(call'[c].ex, c[2])
    PROVE  \A d \in CallIds : CallTo(d)
BY DEF CallTo

\* The steps of a goroutine hand on what it has.
LEMMA InheritTaskStep ==
    ASSUME RunInv, Lineage, NEW i \in Tasks, TaskStep(i) \/ Refuse(i)
    PROVE  Inherits
<1>1. /\ task \in [Tasks -> Task] /\ cmd \in [Cmds -> Cmd] /\ call \in [CallIds -> Call]
      /\ task[i] \in Task /\ CmdOf(i) \in Cmds /\ i \in CallIds /\ cmd[CmdOf(i)] \in Cmd
      /\ task[i].ex \in Execution /\ task[i].req \in Execution /\ cmd[CmdOf(i)].ex \in Execution
      /\ now \in Nat /\ i[2] \in Nodes /\ TaskOf(i) = i /\ TaskOf(CmdOf(i)) = i
      /\ CmdOf(i)[2] = i[2]
  BY RunFacts, CmdOfType DEF RunInv, RunsTypeOK, TaskOf
<1>2. Made(i)
  BY DEF TaskStep, DialFails, Dispatch, RecvFirst, CallSetExecution, RecvFinal, RecvEOF,
         RecvError, DoneReturns, Refuse, Made
<1>3. /\ Alike(task[i].ex, task[i].req) /\ Alike(task[i].req, task[i].req)
      /\ AtNode(task[i].req, i[2]) /\ AtNode(task[i].ex, i[2])
  BY <1>2 DEF Lineage, AtNode, Alike
<1>4. Started(CmdOf(i)) => /\ Alike(cmd[CmdOf(i)].ex, task[i].req)
                           /\ cmd[CmdOf(i)].ex.node = i[2]
  BY <1>1 DEF Lineage
<1>5. now' \in {now, now + 1}
  BY DEF TaskStep, DialFails, Dispatch, RecvFirst, CallSetExecution, RecvFinal, RecvEOF,
         RecvError, DoneReturns, Refuse
<1>6. CASE DialFails(i)
  BY <1>2, <1>5, <1>6, InheritAttempt, InheritSame DEF DialFails, Inherits
<1>7. ASSUME task' = [task EXCEPT ![i].st = "recv"] \/ task' = [task EXCEPT ![i].st = "report"]
      PROVE  \A j \in Tasks : TaskTo(j)
  <2>1. PICK t : /\ t = [task[i] EXCEPT !.st = "recv"] \/ t = [task[i] EXCEPT !.st = "report"]
                 /\ task' = [task EXCEPT ![i] = t]
    BY <1>7
  <2>2. t.st # "none" /\ t.req = task[i].req /\ t.ex = task[i].ex
    BY <1>1, <2>1 DEF Task
  <2>. QED BY <1>2, <1>3, <2>1, <2>2, InheritTask
<1>8. ASSUME NEW m, cmd' = [cmd EXCEPT ![CmdOf(i)] = m],
             \/ m.sent = 0
             \/ m.sent = cmd[CmdOf(i)].sent /\ m.ex = cmd[CmdOf(i)].ex
             \/ Alike(m.ex, task[i].req) /\ m.ex.node = i[2]
      PROVE  \A k \in Cmds : CmdTo(k)
  <2>1. cmd'[CmdOf(i)] = m /\ \A k \in Cmds \ {CmdOf(i)} : cmd'[k] = cmd[k]
    BY <1>1, <1>8
  <2>2. CmdTo(CmdOf(i))
    BY <1>1, <1>2, <1>8, <2>1 DEF CmdTo, Started, Alike
  <2>. QED BY <2>1, <2>2 DEF CmdTo, Started, Alike
<1>9. CASE Dispatch(i)
  <2>1. PICK e : e = [task[i].req EXCEPT !.startedAt = now, !.node = i[2]]
    OBVIOUS
  <2>2. Alike(e, task[i].req) /\ e.node = i[2]
    BY <1>1, <2>1 DEF Alike, Execution
  <2>3. PICK m : m = [st |-> "running", open |-> TRUE, sent |-> 1, ex |-> e]
    OBVIOUS
  <2>4. cmd' = [cmd EXCEPT ![CmdOf(i)] = m] /\ m.ex = e
    BY <1>9, <2>1, <2>3 DEF Dispatch
  <2>5. \A k \in Cmds : CmdTo(k)
    BY <1>8, <2>2, <2>4
  <2>. QED BY <1>5, <1>7, <1>9, <2>5, InheritSame DEF Dispatch, Inherits
<1>10. CASE Refuse(i)
  <2>1. PICK m : m = [NoCmd EXCEPT !.st = "over", !.open = FALSE]
    OBVIOUS
  <2>2. m.sent = 0
    BY <2>1 DEF NoCmd
  <2>3. cmd' = [cmd EXCEPT ![CmdOf(i)] = m]
    BY <1>10, <2>1 DEF Refuse
  <2>4. \A k \in Cmds : CmdTo(k)
    BY <1>8, <2>2, <2>3
  <2>. QED BY <1>5, <1>7, <1>10, <2>4, InheritSame DEF Refuse, Inherits
<1>11. CASE RecvFirst(i)
  <2>1. PICK e : e = [cmd[CmdOf(i)].ex EXCEPT !.finishedAt = task[i].req.finishedAt,
                                              !.success = FALSE]
    OBVIOUS
  <2>2. Alike(e, task[i].req) /\ AtNode(e, i[2])
    <3>1. Started(CmdOf(i))
      BY <1>11 DEF RecvFirst, Started
    <3>. QED BY <1>1, <1>4, <2>1, <3>1 DEF Alike, AtNode, Execution
  <2>3. task' = [task EXCEPT ![i].st = "first", ![i].got = 1, ![i].ex = e]
    BY <1>11, <2>1 DEF RecvFirst
  <2>4. PICK t : t = [task[i] EXCEPT !.st = "first", !.got = 1, !.ex = e]
    OBVIOUS
  <2>5. t.st # "none" /\ t.req = task[i].req /\ t.ex = e /\ task' = [task EXCEPT ![i] = t]
    BY <1>1, <2>3, <2>4 DEF Task
  <2>6. \A j \in Tasks : TaskTo(j)
    BY <1>2, <1>3, <2>2, <2>5, InheritTask
  <2>. QED BY <1>5, <1>11, <2>6, InheritSame DEF RecvFirst, Inherits
<1>12. CASE CallSetExecution(i)
  <2>1. CASE leader # NoServer
    BY <1>5, <1>7, <1>12, <2>1, InheritSame DEF CallSetExecution, Inherits
  <2>2. CASE leader = NoServer
    <3>1. AttemptFails(i, TRUE) /\ cmd' = [cmd EXCEPT ![CmdOf(i)].open = FALSE]
      BY <1>12, <2>2 DEF CallSetExecution
    <3>2. PICK m : m = [cmd[CmdOf(i)] EXCEPT !.open = FALSE]
      OBVIOUS
    <3>3. m.sent = cmd[CmdOf(i)].sent /\ m.ex = cmd[CmdOf(i)].ex /\ cmd' = [cmd EXCEPT ![CmdOf(i)] = m]
      BY <1>1, <3>1, <3>2 DEF Cmd
    <3>. QED BY <1>2, <1>5, <1>8, <1>12, <3>1, <3>3, InheritAttempt, InheritSame
             DEF CallSetExecution, Inherits
  <2>. QED BY <2>1, <2>2
<1>13. CASE RecvFinal(i)
  <2>1. /\ task' = [task EXCEPT ![i].got = 2, ![i].ex = cmd[CmdOf(i)].ex]
        /\ task[i].st = "recv" /\ Started(CmdOf(i))
    BY <1>13 DEF RecvFinal, Started
  <2>2. PICK t : t = [task[i] EXCEPT !.got = 2, !.ex = cmd[CmdOf(i)].ex]
    OBVIOUS
  <2>3. /\ t.st # "none" /\ t.req = task[i].req /\ t.ex = cmd[CmdOf(i)].ex
        /\ task' = [task EXCEPT ![i] = t]
    BY <1>1, <2>1, <2>2 DEF Task
  <2>4. Alike(t.ex, task[i].req) /\ AtNode(t.ex, i[2])
    BY <1>4, <2>1, <2>3 DEF AtNode
  <2>5. Alike(t.req, task[i].req) /\ AtNode(t.req, i[2])
    BY <1>3, <2>3
  <2>6. \A j \in Tasks : TaskTo(j)
    BY <1>2, <2>3, <2>4, <2>5, InheritTask
  <2>. QED BY <1>5, <1>13, <2>6, InheritSame DEF RecvFinal, Inherits
<1>14. ASSUME NEW e, SendDone(i, e), Alike(e, task[i].req), AtNode(e, i[2])
       PROVE  \A c \in CallIds : CallTo(c)
  <2>1. call'[i].ex = e /\ \A c \in CallIds \ {i} : call'[c] = call[c]
    BY <1>1, <1>14 DEF SendDone, IdleCall
  <2>. QED BY <1>1, <1>2, <1>14, <2>1, InheritCall
<1>15. CASE RecvEOF(i)
  BY <1>3, <1>5, <1>7, <1>14, <1>15, InheritSame DEF RecvEOF, Inherits
<1>16. CASE RecvError(i)
  <2>1. PICK e : e = [task[i].ex EXCEPT !.finishedAt = now, !.success = FALSE]
    OBVIOUS
  <2>2. Alike(e, task[i].req) /\ AtNode(e, i[2])
    BY <1>1, <1>3, <2>1 DEF Alike, AtNode, Execution
  <2>3. PICK r : r = IF task[i].got = 0 THEN e ELSE task[i].req
    OBVIOUS
  <2>4. SendDone(i, e) /\ task' = [task EXCEPT ![i].st = "report", ![i].ex = e, ![i].req = r]
    BY <1>1, <1>16, <2>1, <2>3 DEF RecvError, Task
  <2>5. PICK t : t = [task[i] EXCEPT !.st = "report", !.ex = e, !.req = r]
    OBVIOUS
  <2>6. t.st # "none" /\ t.req = r /\ t.ex = e /\ task' = [task EXCEPT ![i] = t]
    BY <1>1, <2>4, <2>5 DEF Task
  <2>7. Alike(r, task[i].req) /\ AtNode(r, i[2])
    BY <1>3, <2>2, <2>3
  <2>8. \A j \in Tasks : TaskTo(j)
    BY <1>2, <2>2, <2>6, <2>7, InheritTask
  <2>. QED BY <1>5, <1>14, <1>16, <2>2, <2>4, <2>8, InheritSame DEF RecvError, Inherits
<1>17. CASE DoneReturns(i)
  <2>1. call'[i].st = "none" /\ \A c \in CallIds \ {i} : call'[c] = call[c]
    BY <1>1, <1>17 DEF DoneReturns, IdleCall
  <2>2. \A c \in CallIds : CallTo(c)
    BY <1>1, <2>1, InheritCall
  <2>. QED BY <1>2, <1>5, <1>17, <2>2, InheritAttempt, InheritSame DEF DoneReturns, Inherits
<1>. QED BY <1>6, <1>9, <1>10, <1>11, <1>12, <1>13, <1>15, <1>16, <1>17 DEF TaskStep

\* Agent.Run starts goroutines that were not made yet, with the execution that
\* it is called with.
LEMMA InheritRun ==
    ASSUME RunInv, ActiveInv, NEW s, NEW ex, NEW targets, NEW by, Run(s, ex, targets, by),
           ex.group < now + 1, ex.attempt > 0, \A n \in targets : AtNode(ex, n)
    PROVE  now' = now + 1 /\ \A i \in Tasks : TaskTo(i)
<1>1. now' = now + 1
  BY DEF Run
<1>2. ASSUME NEW i \in Tasks
      PROVE  TaskTo(i)
  <2>1. i[1] \in Nat /\ runs \in Nat
    BY CmdOfType DEF RunInv, RunsTypeOK, RunIds
  <2>2. CASE i[1] = runs' /\ i[2] \in targets
    <3>1. i[1] > runs
      BY <2>1, <2>2 DEF Run
    <3>2. ~Made(i)
      BY <3>1 DEF ActiveInv, Unmade, Made
    <3>3. task'[i].st = "dial" /\ task'[i].req = ex /\ task'[i].ex = ex
      BY <2>2 DEF Run, NoTask
    <3>. QED BY <1>1, <2>2, <3>2, <3>3 DEF TaskTo
  <2>3. CASE ~(i[1] = runs' /\ i[2] \in targets)
    BY <2>3 DEF Run, TaskTo
  <2>. QED BY <2>2, <2>3
<1>. QED BY <1>1, <1>2

\* What the scheduler and the dependent jobs run with.
LEMMA NewRun ==
    ASSUME RunInv, NEW d \in JobNames
    PROVE  /\ NewExecution(d).group = now /\ NewExecution(d).attempt = 1
           /\ NewExecution(d).job = d /\ NewExecution(d).node = NoNode
           /\ NewExecution(d).group < now + 1 /\ NewExecution(d).attempt > 0
           /\ \A n \in nodesUp : AtNode(NewExecution(d), n)
<1>1. now \in Nat
  BY RunFacts
<1>2. /\ NewExecution(d).group = now /\ NewExecution(d).attempt = 1
      /\ NewExecution(d).job = d /\ NewExecution(d).node = NoNode
  BY DEF NewExecution, NoExec
<1>. QED BY <1>1, <1>2 DEF AtNode

\* What a retry runs with: the next attempt of what was reported.
LEMMA RetryOf ==
    ASSUME RunInv, Lineage, NEW c \in CallIds, call[c].st # "none"
    PROVE  /\ NextAttempt(call[c].ex).group = task[TaskOf(c)].req.group
           /\ NextAttempt(call[c].ex).job = task[TaskOf(c)].req.job
           /\ NextAttempt(call[c].ex).attempt = task[TaskOf(c)].req.attempt + 1
           /\ NextAttempt(call[c].ex).attempt > 0
           /\ NextAttempt(call[c].ex).group < now + 1
           /\ Made(TaskOf(c)) /\ TaskOf(c) \in Tasks
           /\ \A n \in nodesUp \cap {call[c].ex.node} :
                 AtNode(NextAttempt(call[c].ex), n) /\ n = c[2]
<1>1. call[c].ex \in Execution /\ now \in Nat /\ TaskOf(c) \in Tasks /\ nodesUp \subseteq RunNodes
  BY RunFacts, TaskOfType DEF RunInv, RunsTypeOK
<1>2. PICK e : e = NextAttempt(call[c].ex)
  OBVIOUS
<1>3. /\ e.group = call[c].ex.group /\ e.job = call[c].ex.job /\ e.node = call[c].ex.node
      /\ e.attempt = call[c].ex.attempt + 1
  BY <1>1, <1>2 DEF NextAttempt, Execution
<1>4. Made(TaskOf(c)) /\ Alike(call[c].ex, task[TaskOf(c)].req) /\ call[c].ex.node \in {c[2], NoNode}
  BY DEF Lineage
<1>5. /\ task[TaskOf(c)].req.group < now /\ task[TaskOf(c)].req.attempt > 0
      /\ task[TaskOf(c)].req \in Execution
  BY <1>1, <1>4, RunFacts DEF Lineage
<1>6. task[TaskOf(c)].req.group \in Nat /\ task[TaskOf(c)].req.attempt \in Nat
  BY <1>5 DEF Execution
<1>7. ASSUME NEW n \in nodesUp \cap {call[c].ex.node}
      PROVE  AtNode(e, n) /\ n = c[2]
  <2>1. n # NoNode
    BY <1>1 DEF RunNodes
  <2>. QED BY <1>3, <1>4, <2>1 DEF AtNode
<1>8. e.attempt > 0 /\ e.group < now + 1
  BY <1>1, <1>3, <1>4, <1>5, <1>6 DEF Alike
<1>. QED BY <1>1, <1>2, <1>3, <1>4, <1>7, <1>8 DEF Alike

\* Reports keep their execution.
LEMMA CallKeepsEx ==
    ASSUME RunInv, NEW c \in CallIds, CallStep(c)
    PROVE  /\ call[c].st \notin {"none", "answered"} /\ call'[c].st # "none"
           /\ call'[c].ex = call[c].ex
           /\ \A b \in CallIds \ {c} : call'[b] = call[b]
<1>1. call \in [CallIds -> Call] /\ call[c] \in Call
  BY RunFacts DEF RunInv, RunsTypeOK
<1>2. call[c].st \notin {"none", "answered"}
  BY DEF CallStep, ForwardDone, AcceptDone, ApplyDone, FetchJob, RetryRun, RunReturns,
         Notify, EndDone, RunDependent
<1>3. \A b \in CallIds \ {c} : call'[b] = call[b]
  BY <1>1 DEF CallStep, ForwardDone, AcceptDone, ApplyDone, FetchJob, RetryRun, RunReturns,
              Notify, EndDone, RunDependent, Answered
<1>4. ASSUME NEW answer, Answered(c, answer)
      PROVE  call'[c].ex = call[c].ex /\ call'[c].st # "none"
  BY <1>1, <1>4 DEF Answered, Call
<1>5. ASSUME call' = [call EXCEPT ![c].st = "apply"] \/ call' = [call EXCEPT ![c].st = "fetch"]
             \/ call' = [call EXCEPT ![c].st = "retry"] \/ call' = [call EXCEPT ![c].st = "chain"]
             \/ call' = [call EXCEPT ![c].st = "wait", ![c].retry = TRUE]
      PROVE  call'[c].ex = call[c].ex /\ call'[c].st # "none"
  BY <1>1, <1>5 DEF Call
<1>6. ASSUME NEW v, call' = [call EXCEPT ![c].server = leader, ![c].via = v]
      PROVE  call'[c].ex = call[c].ex /\ call'[c].st # "none"
  BY <1>1, <1>2, <1>6 DEF Call
<1>7. ASSUME NEW deps, NEW eph,
             call' = [call EXCEPT ![c].st = "notify", ![c].left = deps, ![c].eph = eph]
      PROVE  call'[c].ex = call[c].ex /\ call'[c].st # "none"
  BY <1>1, <1>7 DEF Call
<1>8. ASSUME NEW d \in JobNames,
             \/ call' = [call EXCEPT ![c].left[d] = @ - 1]
             \/ call' = [call EXCEPT ![c].left[d] = @ - 1, ![c].st = "wait"]
      PROVE  call'[c].ex = call[c].ex /\ call'[c].st # "none"
  BY <1>1, <1>2, <1>8 DEF Call
<1>9. CASE ForwardDone(c) \/ AcceptDone(c) \/ ApplyDone(c) \/ RunReturns(c) \/ Notify(c)
  BY <1>2, <1>3, <1>4, <1>5, <1>6, <1>9 DEF ForwardDone, AcceptDone, ApplyDone, RunReturns, Notify
<1>10. CASE FetchJob(c)
  <2>1. \/ Answered(c, "error")
        \/ call' = [call EXCEPT ![c].st = "retry"]
        \/ \E deps, eph : call' = [call EXCEPT ![c].st = "notify", ![c].left = deps, ![c].eph = eph]
    BY <1>10, Zenon DEF FetchJob
  <2>2. call'[c].ex = call[c].ex /\ call'[c].st # "none"
    BY <1>4, <1>5, <1>7, <2>1, Zenon
  <2>. QED BY <1>2, <1>3, <2>2
<1>11. CASE RetryRun(c) \/ EndDone(c)
  <2>1. \/ \E answer : Answered(c, answer)
        \/ call' = [call EXCEPT ![c].st = "wait", ![c].retry = TRUE]
    BY <1>11 DEF RetryRun, EndDone
  <2>. QED BY <1>2, <1>3, <1>4, <1>5, <2>1
<1>12. ASSUME NEW d \in JobNames, RunDependent(c, d)
       PROVE  call'[c].ex = call[c].ex /\ call'[c].st # "none"
  BY <1>4, <1>8, <1>12 DEF RunDependent
<1>. QED BY <1>2, <1>3, <1>9, <1>10, <1>11, <1>12 DEF CallStep

\* What a step of a report does to the goroutines.
LEMMA CallRuns ==
    ASSUME NEW c \in CallIds, CallStep(c)
    PROVE  /\ UNCHANGED cmd
           /\ \/ UNCHANGED <<task, now, runs>>
              \/ /\ call[c].st = "retry" /\ RetryRun(c)
                 /\ Run(call[c].server, NextAttempt(call[c].ex), nodesUp \cap {call[c].ex.node}, c)
              \/ /\ call[c].st = "chain"
                 /\ \E d \in JobNames : /\ RunDependent(c, d)
                                        /\ Run(call[c].server, NewExecution(d), nodesUp, c)
BY DEF CallStep, ForwardDone, AcceptDone, ApplyDone, FetchJob, RetryRun, RunReturns,
       Notify, EndDone, RunDependent

\* Every step hands on what it was given.
LEMMA InheritStep ==
    ASSUME RunInv, ActiveInv, Begun, Lineage, [RunsNext]_allVars
    PROVE  Inherits
<1>1. /\ task \in [Tasks -> Task] /\ cmd \in [Cmds -> Cmd] /\ call \in [CallIds -> Call]
      /\ \A i \in Tasks : task[i] \in Task
      /\ \A k \in Cmds : cmd[k] \in Cmd /\ cmd[k].ex \in Execution /\ k \in CallIds
      /\ \A c \in CallIds : call[c] \in Call
  BY RunFacts DEF RunInv, RunsTypeOK
<1>2. ASSUME NEW n \in JobNames, Fire(n)
      PROVE  Inherits
  <2>1. now' = now + 1 /\ \A i \in Tasks : TaskTo(i)
    <3>1. Run(leader, NewExecution(n), nodesUp, NoCall)
      BY <1>2 DEF Fire
    <3>. QED BY <3>1, NewRun, InheritRun
  <2>. QED BY <1>2, <2>1, InheritSame DEF Fire, Inherits
<1>3. ASSUME NEW c \in CallIds, CallStep(c)
      PROVE  Inherits
  <2>1. \A b \in CallIds : CallTo(b)
    BY <1>3, CallKeepsEx, InheritCall
  <2>2. now' \in {now, now + 1} /\ \A i \in Tasks : TaskTo(i)
    <3>1. CASE UNCHANGED <<task, now>>
      BY <3>1, InheritSame
    <3>2. CASE Run(call[c].server, NextAttempt(call[c].ex), nodesUp \cap {call[c].ex.node}, c)
      <4>1. call[c].st # "none"
        BY <1>3, CallKeepsEx
      <4>2. PICK ex : ex = NextAttempt(call[c].ex)
        OBVIOUS
      <4>3. /\ ex.attempt > 0 /\ ex.group < now + 1
            /\ \A n \in nodesUp \cap {call[c].ex.node} : AtNode(ex, n)
        BY <4>1, <4>2, RetryOf
      <4>. QED BY <3>2, <4>2, <4>3, InheritRun
    <3>3. ASSUME NEW d \in JobNames, Run(call[c].server, NewExecution(d), nodesUp, c)
          PROVE  now' = now + 1 /\ \A i \in Tasks : TaskTo(i)
      BY <3>3, NewRun, InheritRun
    <3>. QED BY <1>3, <3>1, <3>2, <3>3, CallRuns
  <2>3. UNCHANGED cmd
    BY <1>3, CallRuns
  <2>. QED BY <2>1, <2>2, <2>3, InheritSame DEF Inherits
<1>4. ASSUME \A k \in Cmds : cmd'[k].ex = cmd[k].ex /\ cmd'[k].sent = cmd[k].sent
      PROVE  \A k \in Cmds : CmdTo(k)
  BY <1>4 DEF CmdTo, Started, Alike
<1>5. ASSUME NEW k \in Cmds, CmdStep(k)
      PROVE  Inherits
  <2>1. ASSUME NEW ok \in BOOLEAN, Finish(k, ok)
        PROVE  Inherits
    <3>1. PICK e : e = [cmd[k].ex EXCEPT !.finishedAt = now, !.success = ok]
      OBVIOUS
    <3>2. Alike(e, cmd[k].ex) /\ e.node = cmd[k].ex.node
      BY <1>1, <3>1 DEF Alike, Execution
    <3>3. cmd'[k].ex = e /\ \A l \in Cmds \ {k} : cmd'[l] = cmd[l]
      BY <1>1, <2>1, <3>1 DEF Finish, Cmd
    <3>4. Started(k)
      BY <2>1 DEF Finish, Begun, Started
    <3>5. \A l \in Cmds : CmdTo(l)
      BY <3>2, <3>3, <3>4 DEF CmdTo, Started, Alike
    <3>. QED BY <2>1, <3>5, InheritSame DEF Finish, Inherits
  <2>2. CASE Fallback(k)
    <3>1. \A l \in Cmds : cmd'[l].ex = cmd[l].ex /\ cmd'[l].sent = cmd[l].sent
      BY <1>1, <2>2 DEF Fallback, Cmd
    <3>2. \A c \in CallIds : CallTo(c)
      <4>1. \A c \in CallIds \ {k} : call'[c] = call[c]
        BY <1>1, <2>2 DEF Fallback
      <4>2. call'[k] = call[k] \/ call'[k].ex = cmd[k].ex
        BY <1>1, <2>2 DEF Fallback, IdleCall
      <4>3. Started(k)
        BY <2>2 DEF Fallback, Begun, Started
      <4>4. Made(TaskOf(k)) /\ Alike(cmd[k].ex, task[TaskOf(k)].req) /\ AtNode(cmd[k].ex, k[2])
        BY <4>3 DEF Lineage, AtNode
      <4>. QED BY <1>1, <4>1, <4>2, <4>4, InheritCall DEF CallTo
    <3>. QED BY <1>4, <2>2, <3>1, <3>2, InheritSame DEF Fallback, Inherits
  <2>. QED BY <1>5, <2>1, <2>2 DEF CmdStep
<1>6. ASSUME NEW k \in Cmds, BreakStream(k)
      PROVE  Inherits
  <2>1. \A l \in Cmds : cmd'[l].ex = cmd[l].ex /\ cmd'[l].sent = cmd[l].sent
    BY <1>1, <1>6 DEF BreakStream, Cmd
  <2>. QED BY <1>4, <1>6, <2>1, InheritSame DEF BreakStream, Inherits
<1>7. ASSUME NEW n \in RunNodes, NodeCrash(n)
      PROVE  Inherits
  <2>1. \A l \in Cmds : cmd'[l].ex = cmd[l].ex /\ cmd'[l].sent = cmd[l].sent
    BY <1>1, <1>7 DEF NodeCrash, Cmd
  <2>. QED BY <1>4, <1>7, <2>1, InheritSame DEF NodeCrash, Inherits
<1>8. ASSUME NEW s \in Servers, Crash(s)
      PROVE  Inherits
  <2>1. \A l \in Cmds : cmd'[l].ex = cmd[l].ex /\ cmd'[l].sent = cmd[l].sent
    BY <1>1, <1>8 DEF Crash, Cmd
  <2>2. \A c \in CallIds : CallTo(c)
    <3>1. \A c \in CallIds : call'[c].st # "none" => call[c].st # "none" /\ call'[c].ex = call[c].ex
      BY <1>1, <1>8 DEF Crash, Call
    <3>. QED BY <3>1 DEF CallTo
  <2>3. ASSUME NEW i \in Tasks
        PROVE  TaskTo(i)
    <3>1. CASE task[i].server # s
      BY <1>8, <3>1 DEF Crash, TaskTo
    <3>2. CASE task[i].server = s
      <4>1. task'[i].st = "closed" /\ task'[i].req = task[i].req /\ task'[i].ex = task[i].ex
        BY <1>1, <1>8, <3>2 DEF Crash, Task
      <4>2. Made(i)
        BY <1>8, <3>2, RunsAssumption DEF Lineage
      <4>. QED BY <4>1, <4>2 DEF TaskTo, Lineage, Alike, AtNode
    <3>. QED BY <3>1, <3>2
  <2>. QED BY <1>4, <1>8, <2>1, <2>2, <2>3 DEF Crash, Inherits
<1>9. CASE (\E s \in Servers : Elect(s)) \/ StepDown \/ UNCHANGED allVars
  BY <1>9, InheritSame DEF Elect, StepDown, allVars, runVars, Inherits
<1>10. CASE Fault
  BY <1>6, <1>7, <1>8, <1>9, <1>10, InheritTaskStep DEF Fault
<1>. QED BY <1>2, <1>3, <1>5, <1>9, <1>10, InheritTaskStep DEF RunsNext

\* What a goroutine, its commands and its reports are about is the execution
\* that Agent.Run was called with, whatever fails (GRPCClient.AgentRun in
\* src/dkron/grpc_client.go, AgentServer.AgentRun in src/dkron/grpc_agent.go).
THEOREM LineageInvariant == RunsSpec => []Lineage
<1>1. RunsInit => Lineage
  BY DEF RunsInit, Lineage, Made, Started, NoTask, NoCmd, IdleCall
<1>2. RunInv /\ ActiveInv /\ Begun /\ Lineage /\ [RunsNext]_allVars => Lineage'
  BY InheritStep, LineageKept
<1>. QED BY <1>1, <1>2, RunsInvariant, ActiveInvariant, BegunInvariant, PTL DEF RunsSpec

----------------------------------------------------------------------------
(***************************************************************************)
(* Who watches a command, while streams break only with a crash            *)
(***************************************************************************)

\* What the steps below start from.
WatchSteps == RunInv /\ ActiveInv /\ Begun /\ OnceInv /\ Lineage /\ Watched

\* No attempt but the last started anything.
LEMMA OtherTries ==
    ASSUME RunInv, Begun, OnceInv, Watched, NEW k \in Cmds, k # CmdOf(TaskOf(k))
    PROVE  /\ ~Started(k) /\ cmd[k].sent = 0 /\ cmd[k].st \notin {"running", "fallback"}
           /\ call[k].st = "none"
<1>1. TaskOf(k) \in Tasks /\ cmd[k] \in Cmd /\ k = <<k[1], k[2], k[3]>>
  BY TaskOfType, RunFacts DEF Cmds
<1>2. cmd[k].sent \in 0..2
  BY <1>1 DEF Cmd
<1>3. ~Started(k)
  <2>1. Started(k) => task[TaskOf(k)].try = k[3]
    BY DEF OnceInv, LastTry, TaskOf
  <2>. QED BY <1>1, <2>1 DEF CmdOf, TaskOf
<1>. QED BY <1>2, <1>3 DEF Begun, Started, Watched, WatchedCmd

\* One goroutine moves, with its command and its report.
LEMMA WatchOne ==
    ASSUME RunInv, Begun, OnceInv, Watched, NEW i \in Tasks, NEW t, task' = [task EXCEPT ![i] = t],
           \A k \in Cmds \ {CmdOf(i)} : cmd'[k] = cmd[k],
           \A c \in CallIds \ {i} : call'[c] = call[c],
           call'[i].st \notin {"none", "answered"} => t.st = "report",
           t.st \in {"recv", "first"} /\ t.got = 2 =>
              t.try = task[i].try /\ cmd'[CmdOf(i)].sent = 2,
           cmd'[CmdOf(i)].st \in {"running", "fallback"} =>
              call[CmdOf(i)].st = "none" /\ t.st \in {"recv", "first", "closed"},
           cmd'[CmdOf(i)].st = "fallback" \/ (cmd'[CmdOf(i)].st = "running" /\ ~cmd'[CmdOf(i)].open) =>
              t.st = "closed",
           cmd'[CmdOf(i)].sent = 2 => cmd'[CmdOf(i)].st = "over",
           call[CmdOf(i)].st # "none" => cmd'[CmdOf(i)].sent > 0 /\ t.st = "closed"
    PROVE  Watched'
<1>1. /\ task \in [Tasks -> Task] /\ task'[i] = t /\ \A j \in Tasks \ {i} : task'[j] = task[j]
      /\ CmdOf(i) \in Cmds /\ CmdOf(i) \in CallIds /\ TaskOf(CmdOf(i)) = i
      /\ \A j \in Tasks : CmdOf(j) \in Cmds /\ j \in CallIds
      /\ \A k \in Cmds : k \in CallIds /\ k # i
  BY RunFacts, CmdOfType, TasksAreNotCmds DEF RunInv, RunsTypeOK, TaskOf
<1>2. ASSUME NEW j \in Tasks
      PROVE  WatchedTask(j)'
  <2>1. CASE j = i
    <3>1. t.try = task[i].try => CmdOf(i)' = CmdOf(i)
      BY <1>1 DEF CmdOf
    <3>. QED BY <1>1, <2>1, <3>1 DEF WatchedTask
  <2>2. CASE j # i
    <3>1. CmdOf(j)' = CmdOf(j) /\ task'[j] = task[j] /\ call'[j] = call[j]
      BY <1>1, <2>2 DEF CmdOf
    <3>2. CmdOf(j) # CmdOf(i)
      BY <1>1, <2>2, OtherCmd, CmdOfType
    <3>3. cmd'[CmdOf(j)] = cmd[CmdOf(j)] /\ WatchedTask(j)
      BY <1>1, <3>2 DEF Watched
    <3>. QED BY <3>1, <3>3 DEF WatchedTask
  <2>. QED BY <2>1, <2>2
<1>3. ASSUME NEW k \in Cmds
      PROVE  WatchedCmd(k)'
  <2>1. call'[k] = call[k] /\ TaskOf(k) \in Tasks
    BY <1>1, TaskOfType
  <2>2. CASE k = CmdOf(i)
    <3>1. /\ cmd'[k].st \in {"running", "fallback"} =>
                call'[k].st = "none" /\ task'[i].st \in {"recv", "first", "closed"}
          /\ cmd'[k].st = "fallback" \/ (cmd'[k].st = "running" /\ ~cmd'[k].open) =>
                task'[i].st = "closed"
          /\ cmd'[k].sent = 2 => cmd'[k].st = "over"
          /\ call'[k].st # "none" => cmd'[k].sent > 0 /\ task'[i].st = "closed"
      BY <1>1, <2>1, <2>2
    <3>2. TaskOf(k) = i
      BY <1>1, <2>2
    <3>. QED BY <3>1, <3>2 DEF WatchedCmd, Started, TaskOf
  <2>3. CASE k # CmdOf(i) /\ TaskOf(k) = i
    <3>1. /\ cmd[k].sent = 0 /\ cmd[k].st \notin {"running", "fallback"}
          /\ call[k].st = "none" /\ cmd'[k] = cmd[k]
      BY <2>3, OtherTries
    <3>. QED BY <2>1, <3>1 DEF WatchedCmd
  <2>4. CASE TaskOf(k) # i
    <3>1. cmd'[k] = cmd[k] /\ task'[TaskOf(k)] = task[TaskOf(k)]
      BY <1>1, <2>1, <2>4
    <3>. QED BY <2>1, <3>1 DEF Watched, WatchedCmd, Started, TaskOf
  <2>. QED BY <2>2, <2>3, <2>4
<1>. QED BY <1>2, <1>3 DEF Watched

\* The steps of a goroutine.
LEMMA WatchTask ==
    ASSUME WatchSteps, NEW i \in Tasks, TaskStep(i)
    PROVE  Watched'
<1>1. /\ task \in [Tasks -> Task] /\ cmd \in [Cmds -> Cmd] /\ call \in [CallIds -> Call]
      /\ task[i] \in Task /\ CmdOf(i) \in Cmds /\ i \in CallIds /\ cmd[CmdOf(i)] \in Cmd
      /\ TaskOf(CmdOf(i)) = i /\ RunInv /\ Begun /\ OnceInv /\ Watched
      /\ task[i].got \in 0..2 /\ cmd[CmdOf(i)].sent \in 0..2
  BY RunFacts, CmdOfType DEF WatchSteps, RunInv, RunsTypeOK, TaskOf, Task, Cmd
<1>2. WatchedTask(i) /\ WatchedCmd(CmdOf(i))
  BY <1>1 DEF Watched
<1>3. PICK l \in Cmds : l = CmdOf(i)
  BY <1>1
<1>4. /\ cmd[l].st \in {"running", "fallback"} =>
            call[l].st = "none" /\ task[i].st \in {"recv", "first", "closed"}
      /\ cmd[l].st = "fallback" \/ (cmd[l].st = "running" /\ ~cmd[l].open) => task[i].st = "closed"
      /\ cmd[l].sent = 2 => cmd[l].st = "over"
      /\ call[l].st # "none" => cmd[l].sent > 0 /\ task[i].st = "closed"
  BY <1>1, <1>2, <1>3 DEF WatchedCmd, Started
<1>5. task[i].st # "report" => call[i].st \in {"none", "answered"}
  BY <1>2 DEF WatchedTask
<1>6. task[i].st = "dial" => /\ cmd[l].sent = 0 /\ cmd[l].st \notin {"running", "fallback"}
                             /\ call[l].st = "none" /\ task[i].got = 0
  <2> SUFFICES ASSUME task[i].st = "dial"
               PROVE  /\ cmd[l].sent = 0 /\ cmd[l].st \notin {"running", "fallback"}
                      /\ call[l].st = "none" /\ task[i].got = 0
    OBVIOUS
  <2>1. ~Started(l)
    BY <1>1, <1>3 DEF OnceInv, LastTry, TaskOf
  <2>2. cmd[l].sent = 0
    BY <1>1, <1>3, <2>1 DEF Started
  <2>. QED BY <1>1, <1>4, <2>2 DEF Begun, WatchSteps, ActiveInv, Linked
<1>7. leader # NoServer
  BY <1>1 DEF TaskStep, DialFails, Dispatch, RecvFirst, CallSetExecution, RecvFinal, RecvEOF,
              RecvError, DoneReturns, OnceInv, Loyal
<1>8. ASSUME NEW t, task' = [task EXCEPT ![i] = t], UNCHANGED cmd,
             \A c \in CallIds \ {i} : call'[c] = call[c],
             call'[i].st \notin {"none", "answered"} => t.st = "report",
             t.st \in {"recv", "first"} /\ t.got = 2 => t.try = task[i].try /\ cmd[l].sent = 2,
             \/ t.st \in {"recv", "first"} /\ task[i].st # "closed"
             \/ t.st = "closed"
             \/ /\ cmd[l].st \notin {"running", "fallback"} /\ call[l].st = "none"
      PROVE  Watched'
  BY <1>1, <1>3, <1>4, <1>8, WatchOne
<1>9. CASE DialFails(i)
  <2>1. PICK t \in Task : task' = [task EXCEPT ![i] = t] /\ t.st \in {"dial", "closed"}
    <3>1. PICK t \in Task :
             /\ task' = [task EXCEPT ![i] = t]
             /\ \/ t = [task[i] EXCEPT !.st = "closed"]
                \/ t = [task[i] EXCEPT !.st = "dial", !.try = task[i].try + 1, !.got = 0,
                                       !.ex = task[i].req]
      BY <1>1, <1>9, AttemptTypes DEF DialFails
    <3>. QED BY <1>1, <3>1 DEF Task
  <2>2. task[i].st = "dial" /\ UNCHANGED <<cmd, call>>
    BY <1>9 DEF DialFails
  <2>. QED BY <1>5, <1>6, <1>8, <2>1, <2>2
<1>10. CASE Dispatch(i)
  <2>1. PICK t : t = [task[i] EXCEPT !.st = "recv"]
    OBVIOUS
  <2>2. t.st = "recv" /\ t.got = task[i].got /\ task' = [task EXCEPT ![i] = t]
    BY <1>1, <1>10, <2>1 DEF Task, Dispatch
  <2>3. cmd'[l].st = "running" /\ cmd'[l].open /\ cmd'[l].sent = 1
        /\ \A k \in Cmds \ {l} : cmd'[k] = cmd[k]
    BY <1>1, <1>3, <1>10 DEF Dispatch
  <2>4. task[i].st = "dial" /\ UNCHANGED call
    BY <1>10 DEF Dispatch
  <2>5. /\ t.got = 0 /\ call[l].st = "none" /\ t.st = "recv" /\ call[i].st \in {"none", "answered"}
        /\ \A c \in CallIds : call'[c] = call[c]
    BY <1>5, <1>6, <2>2, <2>4
  <2>6. t.got # 2 /\ cmd'[l].sent # 2 /\ cmd'[l].sent > 0
    BY <2>3, <2>5
  <2>7. /\ cmd'[l].st \in {"running", "fallback"} =>
             call[l].st = "none" /\ t.st \in {"recv", "first", "closed"}
        /\ ~(cmd'[l].st = "fallback" \/ (cmd'[l].st = "running" /\ ~cmd'[l].open))
        /\ call'[i].st \in {"none", "answered"}
    BY <1>1, <2>3, <2>5
  <2>. QED BY <1>1, <1>3, <2>2, <2>3, <2>5, <2>6, <2>7, WatchOne
<1>11. CASE RecvFirst(i)
  <2>1. PICK e : task' = [task EXCEPT ![i].st = "first", ![i].got = 1, ![i].ex = e]
    BY <1>11 DEF RecvFirst
  <2>2. PICK t : t = [task[i] EXCEPT !.st = "first", !.got = 1, !.ex = e]
    OBVIOUS
  <2>3. t.st = "first" /\ t.got = 1 /\ task' = [task EXCEPT ![i] = t]
    BY <1>1, <2>1, <2>2 DEF Task
  <2>4. task[i].st = "recv" /\ UNCHANGED <<cmd, call>>
    BY <1>11 DEF RecvFirst
  <2>5. call'[i].st \in {"none", "answered"} /\ \A c \in CallIds : call'[c] = call[c]
    BY <1>5, <2>4
  <2>6. t.got # 2 /\ task[i].st # "closed" /\ t.st \in {"recv", "first"}
    BY <2>3, <2>4
  <2>. QED BY <1>8, <2>3, <2>4, <2>5, <2>6
<1>12. CASE CallSetExecution(i)
  <2>1. task' = [task EXCEPT ![i].st = "recv"] /\ UNCHANGED <<cmd, call>> /\ task[i].st = "first"
    BY <1>7, <1>12 DEF CallSetExecution
  <2>2. PICK t : t = [task[i] EXCEPT !.st = "recv"]
    OBVIOUS
  <2>3. /\ t.st = "recv" /\ t.got = task[i].got /\ t.try = task[i].try
        /\ task' = [task EXCEPT ![i] = t]
    BY <1>1, <2>1, <2>2 DEF Task
  <2>4. task[i].got = 2 => cmd[l].sent = 2
    BY <1>2, <1>3, <2>1 DEF WatchedTask
  <2>. QED BY <1>5, <1>8, <2>1, <2>3, <2>4
<1>13. CASE RecvFinal(i)
  <2>1. /\ task' = [task EXCEPT ![i].got = 2, ![i].ex = cmd[CmdOf(i)].ex]
        /\ task[i].st = "recv" /\ cmd[l].sent = 2 /\ UNCHANGED <<cmd, call>>
    BY <1>3, <1>13 DEF RecvFinal
  <2>2. PICK t : t = [task[i] EXCEPT !.got = 2, !.ex = cmd[CmdOf(i)].ex]
    OBVIOUS
  <2>3. t.st = "recv" /\ t.try = task[i].try /\ task' = [task EXCEPT ![i] = t]
    BY <1>1, <2>1, <2>2 DEF Task
  <2>. QED BY <1>5, <1>8, <2>1, <2>3
<1>14. CASE RecvEOF(i) \/ RecvError(i)
  <2>1. PICK t : task' = [task EXCEPT ![i] = t] /\ t.st = "report"
    <3>1. CASE RecvEOF(i)
      <4>1. PICK t : t = [task[i] EXCEPT !.st = "report"]
        OBVIOUS
      <4>2. t.st = "report"
        BY <1>1, <4>1 DEF Task
      <4>. QED BY <3>1, <4>1, <4>2 DEF RecvEOF
    <3>2. CASE RecvError(i)
      <4>1. PICK e : e = [task[i].ex EXCEPT !.finishedAt = now, !.success = FALSE]
        OBVIOUS
      <4>2. PICK r : r = IF task[i].got = 0 THEN e ELSE task[i].req
        OBVIOUS
      <4>3. PICK t : t = [task[i] EXCEPT !.st = "report", !.ex = e, !.req = r]
        OBVIOUS
      <4>4. task' = [task EXCEPT ![i].st = "report", ![i].ex = e, ![i].req = r]
        BY <1>1, <3>2, <4>1, <4>2 DEF RecvError, Task
      <4>5. t.st = "report" /\ task' = [task EXCEPT ![i] = t]
        BY <1>1, <4>3, <4>4 DEF Task
      <4>. QED BY <4>5
    <3>. QED BY <1>14, <3>1, <3>2
  <2>2. /\ task[i].st = "recv" /\ UNCHANGED cmd /\ \A c \in CallIds \ {i} : call'[c] = call[c]
    BY <1>1, <1>14 DEF RecvEOF, RecvError, SendDone
  <2>3. cmd[l].st \notin {"running", "fallback"}
    <3>1. CASE RecvEOF(i)
      BY <1>2, <1>3, <1>4, <3>1 DEF RecvEOF, WatchedTask
    <3>2. CASE RecvError(i)
      BY <1>3, <1>4, <3>2 DEF RecvError
    <3>. QED BY <1>14, <3>1, <3>2
  <2>4. call[l].st = "none"
    BY <1>4, <2>2
  <2>. QED BY <1>8, <2>1, <2>2, <2>3, <2>4
<1>15. CASE DoneReturns(i)
  <2>1. call[i].answer # "unavailable" /\ task[i].st = "report"
    BY <1>1, <1>15 DEF DoneReturns, OnceInv, Loyal
  <2>2. task' = [task EXCEPT ![i] = [task[i] EXCEPT !.st = "closed"]]
    BY <1>15, <2>1 DEF DoneReturns, AttemptFails
  <2>3. PICK t : t = [task[i] EXCEPT !.st = "closed"]
    OBVIOUS
  <2>4. t.st = "closed" /\ task' = [task EXCEPT ![i] = t]
    BY <1>1, <2>2, <2>3 DEF Task
  <2>5. call'[i].st = "none" /\ UNCHANGED cmd /\ \A c \in CallIds \ {i} : call'[c] = call[c]
    BY <1>1, <1>15 DEF DoneReturns, IdleCall
  <2>. QED BY <1>8, <2>4, <2>5
<1>. QED BY <1>9, <1>10, <1>11, <1>12, <1>13, <1>14, <1>15 DEF TaskStep

\* What Agent.Run does to the goroutines.
LEMMA RunMakes ==
    ASSUME RunInv, ActiveInv, NEW s, NEW ex, NEW targets, NEW by, Run(s, ex, targets, by)
    PROVE  \A i \in Tasks :
              \/ task'[i] = task[i] /\ CmdOf(i)' = CmdOf(i)
              \/ /\ ~Made(i) /\ i[1] = runs + 1 /\ i[2] \in targets
                 /\ task'[i].st = "dial" /\ task'[i].got = 0
                 /\ task'[i].req = ex /\ task'[i].ex = ex
<1> SUFFICES ASSUME NEW i \in Tasks
             PROVE  \/ task'[i] = task[i] /\ CmdOf(i)' = CmdOf(i)
                    \/ /\ ~Made(i) /\ i[1] = runs + 1 /\ i[2] \in targets
                       /\ task'[i].st = "dial" /\ task'[i].got = 0
                       /\ task'[i].req = ex /\ task'[i].ex = ex
  OBVIOUS
<1>1. i[1] \in Nat /\ runs \in Nat
  BY CmdOfType DEF RunInv, RunsTypeOK, RunIds
<1>2. CASE i[1] = runs' /\ i[2] \in targets
  <2>1. i[1] > runs /\ i[1] = runs + 1
    BY <1>1, <1>2 DEF Run
  <2>2. ~Made(i)
    BY <2>1 DEF ActiveInv, Unmade, Made
  <2>3. /\ task'[i].st = "dial" /\ task'[i].got = 0
        /\ task'[i].req = ex /\ task'[i].ex = ex
    BY <1>2 DEF Run, NoTask
  <2>. QED BY <1>2, <2>1, <2>2, <2>3
<1>3. CASE ~(i[1] = runs' /\ i[2] \in targets)
  BY <1>3 DEF Run, CmdOf
<1>. QED BY <1>2, <1>3

\* The steps of the commands.
LEMMA WatchCmd ==
    ASSUME WatchSteps, NEW k \in Cmds, CmdStep(k)
    PROVE  Watched'
<1>1. /\ cmd \in [Cmds -> Cmd] /\ call \in [CallIds -> Call] /\ cmd[k] \in Cmd
      /\ RunInv /\ Begun /\ Watched /\ k \in CallIds /\ TaskOf(k) \in Tasks
      /\ \A j \in Tasks : CmdOf(j) \in Cmds /\ j \in CallIds /\ j # k
      /\ \A l \in Cmds : l \in CallIds
  BY RunFacts, TaskOfType, TasksAreNotCmds DEF WatchSteps, RunInv, RunsTypeOK
<1>2. WatchedCmd(k)
  BY <1>1 DEF Watched
<1>3. ASSUME UNCHANGED task,
             \A l \in Cmds \ {k} : cmd'[l] = cmd[l], \A c \in CallIds \ {k} : call'[c] = call[c],
             cmd[k].sent = 2 => cmd'[k].sent = 2, WatchedCmd(k)'
      PROVE  Watched'
  <2>1. ASSUME NEW j \in Tasks
        PROVE  WatchedTask(j)'
    <3>1. CmdOf(j)' = CmdOf(j) /\ call'[j] = call[j] /\ WatchedTask(j)
      BY <1>1, <1>3 DEF CmdOf, Watched
    <3>2. cmd[CmdOf(j)].sent = 2 => cmd'[CmdOf(j)].sent = 2
      BY <1>1, <1>3
    <3>. QED BY <1>3, <3>1, <3>2 DEF WatchedTask
  <2>2. ASSUME NEW l \in Cmds, l # k
        PROVE  WatchedCmd(l)'
    <3>1. cmd'[l] = cmd[l] /\ call'[l] = call[l] /\ WatchedCmd(l)
      BY <1>1, <1>3, <2>2 DEF Watched
    <3>. QED BY <1>3, <3>1 DEF WatchedCmd, Started, TaskOf
  <2>. QED BY <1>3, <2>1, <2>2 DEF Watched
<1>4. ASSUME NEW ok \in BOOLEAN, Finish(k, ok)
      PROVE  Watched'
  <2>1. /\ cmd[k].st = "running" /\ cmd[k].sent = 1 /\ UNCHANGED <<task, call>>
    BY <1>1, <1>4 DEF Finish, Begun
  <2>2. /\ \A l \in Cmds \ {k} : cmd'[l] = cmd[l]
        /\ \/ cmd[k].open /\ cmd'[k].st = "over" /\ cmd'[k].sent = 2
           \/ ~cmd[k].open /\ cmd'[k].st = "fallback" /\ cmd'[k].sent = 1
    BY <1>1, <1>4, <2>1 DEF Finish, Cmd
  <2>3. /\ call[k].st = "none" /\ task[TaskOf(k)].st \in {"recv", "first", "closed"}
        /\ ~cmd[k].open => task[TaskOf(k)].st = "closed"
    BY <1>2, <2>1 DEF WatchedCmd
  <2>4. /\ cmd'[k].st \in {"running", "fallback"} =>
              call'[k].st = "none" /\ task'[TaskOf(k)].st \in {"recv", "first", "closed"}
        /\ cmd'[k].st = "fallback" \/ (cmd'[k].st = "running" /\ ~cmd'[k].open) =>
              task'[TaskOf(k)].st = "closed"
        /\ cmd'[k].sent = 2 => cmd'[k].st = "over"
        /\ call'[k].st = "none"
    BY <2>1, <2>2, <2>3
  <2>5. WatchedCmd(k)'
    BY <2>4 DEF WatchedCmd, TaskOf
  <2>. QED BY <1>3, <2>1, <2>2, <2>5
<1>5. CASE Fallback(k)
  <2>1. /\ cmd[k].st = "fallback" /\ cmd'[k].st = "over" /\ cmd'[k].sent = cmd[k].sent
        /\ cmd[k].sent > 0 /\ UNCHANGED task /\ \A l \in Cmds \ {k} : cmd'[l] = cmd[l]
    BY <1>1, <1>5 DEF Fallback, Begun, Cmd
  <2>2. \A c \in CallIds \ {k} : call'[c] = call[c]
    BY <1>1, <1>5 DEF Fallback
  <2>3. task[TaskOf(k)].st = "closed"
    BY <1>2, <2>1 DEF WatchedCmd
  <2>4. WatchedCmd(k)'
    BY <2>1, <2>3 DEF WatchedCmd, Started, TaskOf
  <2>. QED BY <1>3, <2>1, <2>2, <2>4
<1>. QED BY <1>4, <1>5 DEF CmdStep

\* Reports move on and runs begin.
LEMMA WatchRun ==
    ASSUME WatchSteps, UNCHANGED cmd,
           \A c \in CallIds : \/ call'[c] = call[c]
                              \/ call[c].st \notin {"none", "answered"} /\ call'[c].st # "none",
           \A i \in Tasks : \/ task'[i] = task[i] /\ CmdOf(i)' = CmdOf(i)
                            \/ ~Made(i) /\ task'[i].st = "dial"
    PROVE  Watched'
<1>1. /\ \A j \in Tasks : j \in CallIds
      /\ \A k \in Cmds : k \in CallIds /\ TaskOf(k) \in Tasks
      /\ Watched
  BY RunFacts, TaskOfType DEF WatchSteps
<1>2. ASSUME NEW j \in Tasks
      PROVE  WatchedTask(j)'
  <2>1. WatchedTask(j)
    BY <1>1 DEF Watched
  <2>2. call'[j].st \notin {"none", "answered"} => task'[j].st = "report"
    BY <1>1, <2>1 DEF WatchedTask, Made
  <2>3. task'[j].st \in {"recv", "first"} => task'[j] = task[j] /\ CmdOf(j)' = CmdOf(j)
    OBVIOUS
  <2>. QED BY <2>1, <2>2, <2>3 DEF WatchedTask
<1>3. ASSUME NEW k \in Cmds
      PROVE  WatchedCmd(k)'
  <2>1. WatchedCmd(k)
    BY <1>1 DEF Watched
  <2>2. call'[k].st = "none" <=> call[k].st = "none"
    BY <1>1
  <2>3. CASE task'[TaskOf(k)] = task[TaskOf(k)]
    BY <2>1, <2>2, <2>3 DEF WatchedCmd, Started, TaskOf
  <2>4. CASE ~Made(TaskOf(k))
    <3>1. cmd[k].st \notin {"running", "fallback"} /\ call[k].st = "none"
      BY <2>1, <2>4 DEF WatchedCmd, Made
    <3>. QED BY <2>1, <2>2, <3>1 DEF WatchedCmd
  <2>. QED BY <1>1, <2>3, <2>4
<1>. QED BY <1>2, <1>3 DEF Watched

\* A server crashes, with its goroutines and its reports.
LEMMA WatchCrash ==
    ASSUME WatchSteps, NEW s \in Servers, Crash(s)
    PROVE  Watched'
<1>1. /\ task \in [Tasks -> Task] /\ cmd \in [Cmds -> Cmd] /\ call \in [CallIds -> Call]
      /\ \A i \in Tasks : task[i] \in Task /\ CmdOf(i) \in Cmds /\ i \in CallIds
      /\ \A k \in Cmds : cmd[k] \in Cmd /\ k \in CallIds /\ TaskOf(k) \in Tasks
      /\ \A c \in CallIds : call[c] \in Call
      /\ Watched /\ Loyal
  BY RunFacts, TaskOfType DEF WatchSteps, RunInv, RunsTypeOK, OnceInv
<1>2. ASSUME NEW i \in Tasks
      PROVE  \/ task[i].server # s /\ task'[i] = task[i] /\ CmdOf(i)' = CmdOf(i)
             \/ task[i].server = s /\ task'[i].st = "closed"
  BY <1>1 DEF Crash, Task, CmdOf
<1>3. ASSUME NEW k \in Cmds
      PROVE  /\ cmd'[k].st = cmd[k].st /\ cmd'[k].sent = cmd[k].sent
             /\ task[TaskOf(k)].server # s => cmd'[k] = cmd[k]
  BY <1>1 DEF Crash, Cmd, TaskOf
<1>4. ASSUME NEW c \in CallIds
      PROVE  \/ call'[c] = call[c] /\ (call[c].server # s \/ call[c].st \in {"none", "answered"})
             \/ call'[c].st = "answered" /\ call[c].st # "none"
  BY <1>1 DEF Crash, Call
<1>5. ASSUME NEW j \in Tasks
      PROVE  WatchedTask(j)'
  <2>1. WatchedTask(j)
    BY <1>1 DEF Watched
  <2>2. ASSUME call'[j].st \notin {"none", "answered"}
        PROVE  task'[j].st = "report"
    <3>1. call[j].st \notin {"none", "answered"} /\ call[j].server # s
      BY <1>1, <1>4, <2>2
    <3>2. task[j].st = "report"
      BY <2>1, <3>1 DEF WatchedTask
    <3>3. task[j].server # s
      BY <1>1, <3>1, <3>2 DEF Loyal
    <3>. QED BY <1>2, <3>2, <3>3
  <2>3. ASSUME task'[j].st \in {"recv", "first"}, task'[j].got = 2
        PROVE  cmd'[CmdOf(j)'].sent = 2
    <3>1. task'[j] = task[j] /\ CmdOf(j)' = CmdOf(j)
      BY <1>2, <2>3
    <3>. QED BY <1>1, <1>3, <2>1, <2>3, <3>1 DEF WatchedTask
  <2>. QED BY <2>2, <2>3 DEF WatchedTask
<1>6. ASSUME NEW k \in Cmds
      PROVE  WatchedCmd(k)'
  <2>1. WatchedCmd(k) /\ k \in CallIds /\ TaskOf(k) \in Tasks
    BY <1>1 DEF Watched
  <2>2. call'[k].st = "none" <=> call[k].st = "none"
    BY <1>4, <2>1
  <2>3. CASE task[TaskOf(k)].server # s
    <3>1. cmd'[k] = cmd[k] /\ task'[TaskOf(k)] = task[TaskOf(k)]
      BY <1>2, <1>3, <2>1, <2>3
    <3>. QED BY <2>1, <2>2, <3>1 DEF WatchedCmd, Started, TaskOf
  <2>4. CASE task[TaskOf(k)].server = s
    <3>1. task'[TaskOf(k)].st = "closed"
      BY <1>2, <2>1, <2>4
    <3>2. cmd'[k].st = cmd[k].st /\ cmd'[k].sent = cmd[k].sent
      BY <1>3
    <3>. QED BY <2>1, <2>2, <3>1, <3>2 DEF WatchedCmd, Started, TaskOf
  <2>. QED BY <2>3, <2>4
<1>. QED BY <1>5, <1>6 DEF Watched

\* A node crashes, with its commands.
LEMMA WatchNodeCrash ==
    ASSUME WatchSteps, NEW n \in RunNodes, NodeCrash(n)
    PROVE  Watched'
<1>1. /\ cmd \in [Cmds -> Cmd] /\ Watched
      /\ \A i \in Tasks : CmdOf(i) \in Cmds /\ CmdOf(i)' = CmdOf(i)
      /\ \A k \in Cmds : cmd[k] \in Cmd
  BY RunFacts DEF WatchSteps, RunInv, RunsTypeOK, NodeCrash, CmdOf
<1>2. ASSUME NEW k \in Cmds
      PROVE  cmd'[k] = cmd[k] \/ (cmd'[k].st = "over" /\ cmd'[k].sent = cmd[k].sent)
  BY <1>1 DEF NodeCrash, Cmd
<1>3. UNCHANGED <<task, call>>
  BY DEF NodeCrash
<1>4. ASSUME NEW j \in Tasks
      PROVE  WatchedTask(j)'
  BY <1>1, <1>2, <1>3 DEF Watched, WatchedTask
<1>5. ASSUME NEW k \in Cmds
      PROVE  WatchedCmd(k)'
  <2>1. WatchedCmd(k)
    BY <1>1 DEF Watched
  <2>. QED BY <1>2, <1>3, <2>1 DEF WatchedCmd, Started, TaskOf
<1>. QED BY <1>4, <1>5 DEF Watched

\* Every step, if streams break and the leadership is lost by crashes only.
LEMMA WatchStep ==
    ASSUME MaxBreaks = 0, MaxStepDowns = 0, WatchSteps, [RunsNext]_allVars
    PROVE  Watched'
<1>1. RunInv /\ ActiveInv
  BY DEF WatchSteps
<1>2. (\A i \in Tasks : ~Refuse(i)) /\ (\A k \in Cmds : ~BreakStream(k)) /\ ~StepDown
  BY <1>1 DEF Refuse, BreakStream, StepDown, Faulty, RunInv
<1>3. ASSUME UNCHANGED task
      PROVE  \A i \in Tasks : task'[i] = task[i] /\ CmdOf(i)' = CmdOf(i)
  BY <1>3 DEF CmdOf
<1>4. ASSUME NEW n \in JobNames, Fire(n)
      PROVE  Watched'
  <2>1. Run(leader, NewExecution(n), nodesUp, NoCall) /\ UNCHANGED <<cmd, call>>
    BY <1>4 DEF Fire
  <2>2. \A i \in Tasks : \/ task'[i] = task[i] /\ CmdOf(i)' = CmdOf(i)
                         \/ ~Made(i) /\ task'[i].st = "dial"
    BY <1>1, <2>1, RunMakes
  <2>. QED BY <2>1, <2>2, WatchRun
<1>5. ASSUME NEW c \in CallIds, CallStep(c)
      PROVE  Watched'
  <2>1. /\ UNCHANGED cmd
        /\ UNCHANGED task \/ \E ex, targets : Run(call[c].server, ex, targets, c)
    BY <1>5, CallRuns
  <2>2. \A i \in Tasks : \/ task'[i] = task[i] /\ CmdOf(i)' = CmdOf(i)
                         \/ ~Made(i) /\ task'[i].st = "dial"
    BY <1>1, <1>3, <2>1, RunMakes
  <2>3. \A b \in CallIds : \/ call'[b] = call[b]
                           \/ call[b].st \notin {"none", "answered"} /\ call'[b].st # "none"
    BY <1>1, <1>5, CallKeepsEx
  <2>. QED BY <2>1, <2>2, <2>3, WatchRun
<1>6. CASE (\E s \in Servers : Elect(s)) \/ UNCHANGED allVars
  <2>1. UNCHANGED <<task, cmd, call>>
    BY <1>6 DEF Elect, allVars, runVars
  <2>. QED BY <1>3, <2>1, WatchRun
<1>7. CASE Fault
  BY <1>2, <1>7, WatchCrash, WatchNodeCrash DEF Fault
<1>. QED BY <1>4, <1>5, <1>6, <1>7, WatchTask, WatchCmd DEF RunsNext

----------------------------------------------------------------------------
(***************************************************************************)
(* Chains of attempts                                                      *)
(***************************************************************************)

\* While something of a goroutine is reported, nothing of it runs and nothing
\* else of it is reported.
LEMMA Exclusive ==
    ASSUME RunInv, Begun, OnceInv, Watched, NEW c \in CallIds, call[c].st \notin {"none", "answered"}
    PROVE  /\ ~Awaiting(TaskOf(c))
           /\ \A b \in CallIds : TaskOf(b) = TaskOf(c) /\ call[b].st \notin {"none", "answered"} =>
                 b = c
<1>1. /\ \A i \in Tasks : TaskOf(i) = i
      /\ \A k \in Cmds : TaskOf(k) \in Tasks
      /\ \A i \in Tasks : WatchedTask(i)
      /\ \A k \in Cmds : WatchedCmd(k)
  BY TaskOfType DEF Watched
<1>2. ASSUME NEW k \in Cmds, NEW l \in Cmds, Started(k), Started(l), TaskOf(k) = TaskOf(l)
      PROVE  k = l
  <2>1. task[TaskOf(k)].try = k[3] /\ task[TaskOf(l)].try = l[3]
    BY <1>2 DEF OnceInv, LastTry, TaskOf
  <2>. QED BY <1>2, <2>1 DEF Cmds, TaskOf
<1>3. \A k \in Cmds : cmd[k].st \in {"running", "fallback"} => Started(k)
  BY DEF Begun, Started
<1>4. CASE c \in Tasks
  <2>1. task[c].st = "report" /\ TaskOf(c) = c
    BY <1>1, <1>4 DEF WatchedTask
  <2>2. \A k \in Cmds : TaskOf(k) = c =>
            cmd[k].st \notin {"running", "fallback"} /\ call[k].st = "none"
    BY <1>1, <2>1 DEF WatchedCmd
  <2>. QED BY <1>1, <2>1, <2>2 DEF Awaiting, CallIds
<1>5. CASE c \in Cmds
  <2>1. Started(c) /\ task[TaskOf(c)].st = "closed"
    BY <1>1, <1>5 DEF WatchedCmd
  <2>2. \A k \in Cmds : TaskOf(k) = TaskOf(c) => cmd[k].st \notin {"running", "fallback"}
    <3> SUFFICES ASSUME NEW k \in Cmds, TaskOf(k) = TaskOf(c), cmd[k].st \in {"running", "fallback"}
                 PROVE  FALSE
      OBVIOUS
    <3>1. k = c
      BY <1>2, <1>3, <1>5, <2>1
    <3>. QED BY <1>1, <3>1 DEF WatchedCmd
  <2>3. ASSUME NEW b \in CallIds, TaskOf(b) = TaskOf(c), call[b].st \notin {"none", "answered"}
        PROVE  b = c
    <3>1. CASE b \in Tasks
      BY <1>1, <2>1, <2>3, <3>1 DEF WatchedTask
    <3>2. CASE b \in Cmds
      BY <1>1, <1>2, <1>5, <2>1, <2>3, <3>2 DEF WatchedCmd
    <3>. QED BY <3>1, <3>2 DEF CallIds
  <2>. QED BY <2>1, <2>2, <2>3 DEF Awaiting
<1>. QED BY <1>4, <1>5 DEF CallIds

\* Reports do not become fresh again.
LEMMA FreshCall ==
    ASSUME RunInv, NEW c \in CallIds, CallStep(c)
    PROVE  Fresh(c) \/ call'[c].st = "answered"
<1>1. call \in [CallIds -> Call] /\ call[c] \in Call
  BY RunFacts DEF RunInv, RunsTypeOK
<1>2. call[c].st \notin {"none", "answered"}
  BY CallKeepsEx
<1>3. CASE call[c].st # "wait" \/ ~call[c].retry
  BY <1>1, <1>2, <1>3 DEF Fresh, Call
<1>4. CASE call[c].st = "wait" /\ call[c].retry
  <2>1. RunReturns(c)
    BY <1>4 DEF CallStep, ForwardDone, AcceptDone, ApplyDone, FetchJob, RetryRun,
                Notify, EndDone, RunDependent
  <2>2. Answered(c, "ok")
    BY <1>4, <2>1 DEF RunReturns
  <2>. QED BY <1>1, <2>2 DEF Answered, Call
<1>. QED BY <1>3, <1>4

FrontKept == \A i \in Tasks : Made(i) /\ Front(i)' => Front(i)

\* What is no longer at the front of its chain does not come back.
LEMMA FrontStays ==
    ASSUME MaxBreaks = 0, MaxStepDowns = 0, WatchSteps, [RunsNext]_allVars
    PROVE  FrontKept
<1>1. /\ task \in [Tasks -> Task] /\ cmd \in [Cmds -> Cmd] /\ call \in [CallIds -> Call]
      /\ \A i \in Tasks : task[i] \in Task /\ CmdOf(i) \in Cmds /\ TaskOf(CmdOf(i)) = i
      /\ \A k \in Cmds : cmd[k] \in Cmd /\ k \in CallIds /\ TaskOf(k) \in Tasks
      /\ \A c \in CallIds : call[c] \in Call
      /\ \A i \in Tasks : TaskOf(i) = i /\ i \in CallIds
      /\ RunInv /\ ActiveInv
  BY RunFacts, TaskOfType, CmdOfType DEF WatchSteps, RunInv, RunsTypeOK, TaskOf
<1>2. (\A i \in Tasks : ~Refuse(i)) /\ (\A k \in Cmds : ~BreakStream(k)) /\ ~StepDown
  BY <1>1 DEF Refuse, BreakStream, StepDown, Faulty, RunInv
<1>3. ASSUME NEW i \in Tasks,
             task'[i].st \in {"dial", "recv", "first"} => task[i].st \in {"dial", "recv", "first"},
             \A k \in Cmds : TaskOf(k) = i /\ cmd'[k].st \in {"running", "fallback"} =>
                cmd[k].st \in {"running", "fallback"},
             \A c \in CallIds : TaskOf(c) = i => call'[c] = call[c] \/ Fresh(c) \/ ~Fresh(c)'
      PROVE  Front(i)' => Front(i)
  <2>1. Awaiting(i)' => Awaiting(i)
    BY <1>3 DEF Awaiting, TaskOf
  <2>2. \A c \in CallIds : TaskOf(c) = i /\ Fresh(c)' => Fresh(c)
    BY <1>3 DEF Fresh, TaskOf
  <2>3. Front(i)' => Awaiting(i)' \/ \E c \in CallIds : TaskOf(c) = i /\ Fresh(c)'
    BY DEF Front, TaskOf
  <2>. QED BY <2>1, <2>2, <2>3 DEF Front
<1>4. ASSUME NEW i \in Tasks, TaskStep(i)
      PROVE  FrontKept
  <2>1. /\ \A j \in Tasks \ {i} : task'[j] = task[j]
        /\ \A c \in CallIds \ {i} : call'[c] = call[c]
        /\ \A k \in Cmds \ {CmdOf(i)} : cmd'[k] = cmd[k]
    BY <1>1, <1>4 DEF TaskStep, DialFails, Dispatch, RecvFirst, CallSetExecution, RecvFinal,
                      RecvEOF, RecvError, DoneReturns, AttemptFails, SendDone
  <2>2. ASSUME NEW j \in Tasks, j # i
        PROVE  Front(j)' => Front(j)
    BY <1>1, <1>3, <2>1, <2>2
  <2>3. CASE task[i].st \in {"dial", "recv", "first"}
    BY <2>2, <2>3 DEF FrontKept, Front, Awaiting
  <2>4. CASE DoneReturns(i)
    <3>1. call'[i].st = "none" /\ UNCHANGED cmd
      BY <1>1, <2>4 DEF DoneReturns, IdleCall
    <3>2. task'[i].st = "closed"
      <4>1. call[i].answer # "unavailable"
        BY <2>4 DEF DoneReturns, WatchSteps, OnceInv, Loyal
      <4>. QED BY <1>1, <2>4, <4>1 DEF DoneReturns, AttemptFails, Task
    <3>3. ~Fresh(i)'
      BY <3>1 DEF Fresh
    <3>4. \A c \in CallIds : TaskOf(c) = i => call'[c] = call[c] \/ Fresh(c) \/ ~Fresh(c)'
      BY <2>1, <3>3
    <3>5. Front(i)' => Front(i)
      BY <1>3, <3>1, <3>2, <3>4
    <3>. QED BY <2>2, <3>5 DEF FrontKept
  <2>. QED BY <1>4, <2>3, <2>4 DEF TaskStep, DialFails, Dispatch, RecvFirst, CallSetExecution,
                                   RecvFinal, RecvEOF, RecvError
<1>5. ASSUME NEW k \in Cmds, CmdStep(k)
      PROVE  FrontKept
  <2>1. /\ UNCHANGED task /\ cmd[k].st \in {"running", "fallback"}
        /\ \A l \in Cmds \ {k} : cmd'[l] = cmd[l]
        /\ \A c \in CallIds \ {k} : call'[c] = call[c]
    BY <1>1, <1>5 DEF CmdStep, Finish, Fallback
  <2>2. Front(TaskOf(k))
    BY <2>1 DEF Front, Awaiting
  <2>3. ASSUME NEW j \in Tasks, j # TaskOf(k)
        PROVE  Front(j)' => Front(j)
    BY <1>3, <2>1, <2>3
  <2>. QED BY <2>2, <2>3 DEF FrontKept
<1>6. ASSUME UNCHANGED cmd,
             \A i \in Tasks : task'[i] = task[i] \/ ~Made(i),
             \A c \in CallIds : call'[c] = call[c] \/ Fresh(c) \/ ~Fresh(c)'
      PROVE  FrontKept
  BY <1>3, <1>6 DEF FrontKept
<1>7. ASSUME NEW n \in JobNames, Fire(n)
      PROVE  FrontKept
  <2>1. Run(leader, NewExecution(n), nodesUp, NoCall) /\ UNCHANGED <<cmd, call>>
    BY <1>7 DEF Fire
  <2>2. \A i \in Tasks : task'[i] = task[i] \/ ~Made(i)
    BY <1>1, <2>1, RunMakes
  <2>. QED BY <1>6, <2>1, <2>2
<1>8. ASSUME NEW c \in CallIds, CallStep(c)
      PROVE  FrontKept
  <2>1. /\ UNCHANGED cmd
        /\ UNCHANGED task \/ \E ex, targets : Run(call[c].server, ex, targets, c)
    BY <1>8, CallRuns
  <2>2. \A i \in Tasks : task'[i] = task[i] \/ ~Made(i)
    BY <1>1, <2>1, RunMakes
  <2>3. ~Fresh(c)' \/ Fresh(c)
    BY <1>1, <1>8, FreshCall DEF Fresh
  <2>4. \A b \in CallIds : call'[b] = call[b] \/ Fresh(b) \/ ~Fresh(b)'
    BY <1>1, <1>8, <2>3, CallKeepsEx
  <2>. QED BY <1>6, <2>1, <2>2, <2>4
<1>9. CASE (\E s \in Servers : Elect(s)) \/ UNCHANGED allVars
  BY <1>6, <1>9 DEF Elect, allVars, runVars
<1>10. ASSUME NEW s \in Servers, Crash(s)
       PROVE  FrontKept
  <2>1. \A i \in Tasks : task'[i] = task[i] \/ task'[i].st = "closed"
    BY <1>1, <1>10 DEF Crash, Task
  <2>2. \A k \in Cmds : cmd'[k].st = cmd[k].st
    BY <1>1, <1>10 DEF Crash, Cmd
  <2>3. ASSUME NEW c \in CallIds
        PROVE  call'[c] = call[c] \/ call'[c].st = "answered"
    BY <1>1, <1>10 DEF Crash, Call
  <2>4. \A c \in CallIds : call'[c] = call[c] \/ ~Fresh(c)'
    BY <2>3 DEF Fresh
  <2>. QED BY <1>3, <2>1, <2>2, <2>4 DEF FrontKept
<1>11. ASSUME NEW n \in RunNodes, NodeCrash(n)
       PROVE  FrontKept
  <2>1. \A k \in Cmds : cmd'[k].st = cmd[k].st \/ cmd'[k].st = "over"
    BY <1>1, <1>11 DEF NodeCrash, Cmd
  <2>2. UNCHANGED <<task, call>>
    BY <1>11 DEF NodeCrash
  <2>. QED BY <1>3, <2>1, <2>2 DEF FrontKept
<1>12. CASE Fault
  BY <1>2, <1>10, <1>11, <1>12 DEF Fault
<1>. QED BY <1>4, <1>5, <1>7, <1>8, <1>9, <1>12 DEF RunsNext

\* A step keeps the chains if the goroutines that it makes are those of a new
\* group, or the next attempt of one that was at the front and no longer is.
LEMMA ChainGrows ==
    ASSUME RunInv, RunInv', Lineage, Chains, FrontKept, NEW ex,
           \A i \in Tasks :
              \/ Made(i) /\ task'[i].st # "none" /\ Alike(task'[i].req, task[i].req)
              \/ ~Made(i) /\ task'[i].st = "none"
              \/ ~Made(i) /\ i[1] = runs + 1 /\ task'[i].req = ex,
           \/ \A i \in Tasks : task'[i].st # "none" => Made(i)
           \/ ex.group = now
           \/ \E p \in Tasks :
                 /\ Made(p) /\ Front(p) /\ ~Front(p)'
                 /\ ex.job = task[p].req.job /\ ex.group = task[p].req.group
                 /\ ex.attempt = task[p].req.attempt + 1
                 /\ \A i \in Tasks : ~Made(i) /\ task'[i].st # "none" => i[2] = p[2]
    PROVE  Chains'
<1>1. /\ now \in Nat
      /\ \A i \in Tasks : task[i].req.group \in Nat /\ task[i].req.attempt \in Nat
      /\ \A i \in Tasks : i = <<i[1], i[2]>>
  BY RunFacts, CmdOfType DEF Execution, RunInv, RunsTypeOK
<1>2. ASSUME NEW i \in Tasks, NEW j \in Tasks, Made(i), Made(j)
      PROVE  /\ task'[i].req.group = task'[j].req.group => task'[i].req.job = task'[j].req.job
             /\ Kin(i, j)' => Kin(i, j)
             /\ Kin(i, j)' /\ task'[i].req.attempt = task'[j].req.attempt => i = j
             /\ Kin(i, j)' /\ Front(i)' => task'[j].req.attempt <= task'[i].req.attempt
  <2>1. Alike(task'[i].req, task[i].req) /\ Alike(task'[j].req, task[j].req)
    BY <1>2
  <2>2. Kin(i, j)' => Kin(i, j)
    BY <1>2, <2>1 DEF Kin, Alike
  <2>. QED BY <1>2, <2>1, <2>2 DEF Chains, Alike, FrontKept
<1>3. ASSUME NEW i \in Tasks, NEW j \in Tasks, ~Made(i), ~Made(j),
             task'[i].st # "none", task'[j].st # "none"
      PROVE  /\ task'[i].req = ex /\ task'[j].req = ex
             /\ i[2] = j[2] => i = j
  BY <1>1, <1>3
<1>4. ASSUME NEW i \in Tasks, NEW j \in Tasks, ~Made(i), task'[i].st # "none", Made(j)
      PROVE  /\ task'[i].req.group = task'[j].req.group => task'[i].req.job = task'[j].req.job
             /\ Kin(i, j)' => /\ ~Front(j)' /\ task'[j].req.attempt < task'[i].req.attempt
                              /\ task'[j].req.attempt \in Nat /\ task'[i].req.attempt \in Nat
             /\ Kin(j, i)' => Kin(i, j)'
  <2>1. /\ task'[i].req = ex /\ Alike(task'[j].req, task[j].req)
        /\ Kin(i, j)' => /\ i[2] = j[2] /\ task'[i].req.job = task'[j].req.job
                         /\ task'[i].req.group = task'[j].req.group
        /\ Kin(j, i)' => Kin(i, j)'
    BY <1>4 DEF Kin
  <2>2. CASE ex.group = now
    <3>1. task[j].req.group < now
      BY <1>4 DEF Lineage
    <3>. QED BY <1>1, <2>1, <2>2, <3>1 DEF Alike
  <2>3. CASE \E p \in Tasks :
                 /\ Made(p) /\ Front(p) /\ ~Front(p)'
                 /\ ex.job = task[p].req.job /\ ex.group = task[p].req.group
                 /\ ex.attempt = task[p].req.attempt + 1
                 /\ \A k \in Tasks : ~Made(k) /\ task'[k].st # "none" => k[2] = p[2]
    <3>1. PICK p \in Tasks :
                 /\ Made(p) /\ Front(p) /\ ~Front(p)'
                 /\ ex.job = task[p].req.job /\ ex.group = task[p].req.group
                 /\ ex.attempt = task[p].req.attempt + 1 /\ i[2] = p[2]
      BY <1>4, <2>3
    <3>2. task'[i].req.group = task'[j].req.group => task'[i].req.job = task'[j].req.job
      BY <1>4, <2>1, <3>1 DEF Chains, Alike
    <3>3. ASSUME Kin(i, j)'
          PROVE  /\ ~Front(j)' /\ task'[j].req.attempt < task'[i].req.attempt
                 /\ task'[j].req.attempt \in Nat /\ task'[i].req.attempt \in Nat
      <4>1. Kin(p, j) /\ Kin(j, p)
        BY <1>4, <2>1, <3>1, <3>3 DEF Kin, Alike
      <4>2. task[j].req.attempt <= task[p].req.attempt
        BY <3>1, <4>1 DEF Chains
      <4>3. ~Front(j)'
        <5> SUFFICES ASSUME Front(j)'
                     PROVE  FALSE
          OBVIOUS
        <5>1. Front(j)
          BY <1>4 DEF FrontKept
        <5>2. task[p].req.attempt <= task[j].req.attempt
          BY <3>1, <4>1, <5>1 DEF Chains
        <5>3. task[p].req.attempt = task[j].req.attempt
          BY <1>1, <3>1, <4>2, <5>2
        <5>4. p = j
          BY <3>1, <4>1, <5>3 DEF Chains
        <5>. QED BY <3>1, <5>4
      <4>. QED BY <1>1, <2>1, <3>1, <4>2, <4>3 DEF Alike
    <3>. QED BY <2>1, <3>2, <3>3
  <2>. QED BY <1>4, <2>2, <2>3
<1>5. ASSUME NEW i \in Tasks, NEW j \in Tasks, task'[i].st # "none", task'[j].st # "none",
             task'[i].req.group = task'[j].req.group
      PROVE  task'[i].req.job = task'[j].req.job
  BY <1>2, <1>3, <1>4, <1>5
<1>6. ASSUME NEW i \in Tasks, NEW j \in Tasks, Kin(i, j)'
      PROVE  /\ task'[i].req.attempt = task'[j].req.attempt => i = j
             /\ Front(i)' => task'[j].req.attempt <= task'[i].req.attempt
  <2>1. task'[i].st # "none" /\ task'[j].st # "none" /\ i[2] = j[2]
    BY <1>6 DEF Kin, Made
  <2>2. CASE Made(i) /\ Made(j)
    BY <1>2, <1>6, <2>2
  <2>3. CASE ~Made(i) /\ ~Made(j)
    <3>1. i = j
      BY <1>3, <2>1, <2>3
    <3>2. task'[i] \in Task
      BY DEF RunInv, RunsTypeOK
    <3>3. task'[i].req.attempt \in Nat
      BY <3>2 DEF Task, Execution
    <3>. QED BY <3>1, <3>3
  <2>4. CASE ~Made(i) /\ Made(j)
    <3>1. /\ task'[j].req.attempt < task'[i].req.attempt
          /\ task'[j].req.attempt \in Nat /\ task'[i].req.attempt \in Nat
      BY <1>4, <1>6, <2>1, <2>4
    <3>. QED BY <3>1
  <2>5. CASE Made(i) /\ ~Made(j)
    <3>1. Kin(j, i)'
      BY <1>6 DEF Kin
    <3>2. /\ ~Front(i)' /\ task'[i].req.attempt < task'[j].req.attempt
          /\ task'[j].req.attempt \in Nat /\ task'[i].req.attempt \in Nat
      BY <1>4, <2>1, <2>5, <3>1
    <3>. QED BY <3>2
  <2>. QED BY <2>2, <2>3, <2>4, <2>5
<1>. QED BY <1>5, <1>6 DEF Chains, Made

\* A retry is made by the report of what is at the front, which it leaves.
LEMMA RetryFront ==
    ASSUME WatchSteps, NEW c \in CallIds, RetryRun(c), UNCHANGED cmd,
           call'[c].st = "answered" \/ (call'[c].st = "wait" /\ call'[c].retry),
           \A b \in CallIds \ {c} : call'[b] = call[b],
           \A i \in Tasks : Made(i) => task'[i] = task[i]
    PROVE  Front(TaskOf(c)) /\ ~Front(TaskOf(c))'
<1>1. TaskOf(c) \in Tasks /\ call[c].st = "retry" /\ RunInv /\ Begun /\ OnceInv /\ Watched /\ Lineage
  BY TaskOfType DEF RetryRun, WatchSteps
<1>2. Made(TaskOf(c)) /\ Fresh(c)
  BY <1>1 DEF Lineage, Fresh
<1>3. /\ ~Awaiting(TaskOf(c))
      /\ \A b \in CallIds : TaskOf(b) = TaskOf(c) /\ call[b].st \notin {"none", "answered"} => b = c
  BY <1>1, Exclusive
<1>4. ~Awaiting(TaskOf(c))'
  BY <1>1, <1>2, <1>3 DEF Awaiting, TaskOf
<1>5. ~Fresh(c)'
  BY DEF Fresh
<1>6. \A b \in CallIds : TaskOf(b) = TaskOf(c) => ~Fresh(b)'
  BY <1>3, <1>5 DEF Fresh, TaskOf
<1>7. ~Front(TaskOf(c))'
  BY <1>4, <1>6 DEF Front, TaskOf
<1>. QED BY <1>2, <1>7 DEF Front

\* A report that decides to retry.
LEMMA RetryDecided ==
    ASSUME RunInv, [RunsNext]_allVars, NEW c \in CallIds, call'[c].st = "retry"
    PROVE  \/ call[c].st = "retry" /\ call'[c].ex = call[c].ex
           \/ /\ Stored(jobs, call[c].ex.job) /\ UNCHANGED jobs /\ call'[c].ex = call[c].ex
              /\ call[c].ex.attempt < jobs[call[c].ex.job].config.retries + 1
              /\ ~call[c].ex.success
<1>1. /\ call \in [CallIds -> Call] /\ call[c] \in Call
      /\ \A i \in Tasks : i \in CallIds
      /\ \A k \in Cmds : k \in CallIds
  BY RunFacts DEF RunInv, RunsTypeOK
<1>2. CASE call'[c] = call[c]
  BY <1>2
<1>3. ASSUME NEW i \in Tasks, TaskStep(i) \/ Refuse(i)
      PROVE  call'[c] = call[c]
  <2>1. CASE UNCHANGED call
    BY <2>1
  <2>2. ASSUME NEW e, SendDone(i, e)
        PROVE  call'[c] = call[c]
    <3>1. call'[i].st # "retry" /\ \A b \in CallIds \ {i} : call'[b] = call[b]
      BY <1>1, <2>2 DEF SendDone, IdleCall
    <3>. QED BY <3>1
  <2>3. CASE call' = [call EXCEPT ![i] = IdleCall]
    <3>1. call'[i].st # "retry" /\ \A b \in CallIds \ {i} : call'[b] = call[b]
      BY <1>1, <2>3 DEF IdleCall
    <3>. QED BY <3>1
  <2>. QED BY <1>3, <2>1, <2>2, <2>3
           DEF TaskStep, DialFails, Dispatch, RecvFirst, CallSetExecution, RecvFinal, RecvEOF,
               RecvError, DoneReturns, Refuse
<1>4. ASSUME NEW k \in Cmds, CmdStep(k)
      PROVE  call'[c] = call[c]
  <2>1. UNCHANGED call \/ (call'[k].st = "sent" /\ \A b \in CallIds \ {k} : call'[b] = call[b])
    BY <1>1, <1>4 DEF CmdStep, Finish, Fallback, IdleCall
  <2>. QED BY <2>1
<1>5. ASSUME NEW b \in CallIds, CallStep(b), b # c
      PROVE  call'[c] = call[c]
  BY <1>5, CallKeepsEx
<1>6. CASE CallStep(c)
  <2>1. call'[c].ex = call[c].ex
    BY <1>6, CallKeepsEx
  <2>2. CASE FetchJob(c)
    <3>1. call'[c].st # "answered" /\ call'[c].st # "notify"
      OBVIOUS
    <3>2. ~Answered(c, "error")
      BY <1>1, <3>1 DEF Answered, Call
    <3>3. ASSUME NEW deps, NEW eph
          PROVE  ~(call' = [call EXCEPT ![c].st = "notify", ![c].left = deps, ![c].eph = eph])
      BY <1>1, <3>1 DEF Call
    <3>4. /\ Stored(jobs, call[c].ex.job) /\ ~call[c].ex.success
          /\ call[c].ex.attempt < jobs[call[c].ex.job].config.retries + 1
      <4>1. Stored(jobs, call[c].ex.job)
        BY <2>2, <3>2, Zenon DEF FetchJob
      <4>2. ASSUME ~(~call[c].ex.success
                       /\ call[c].ex.attempt < jobs[call[c].ex.job].config.retries + 1)
            PROVE  FALSE
        <5>1. PICK job : job = jobs[call[c].ex.job]
          OBVIOUS
        <5>2. call' = [call EXCEPT ![c].st = "notify",
                         ![c].left = IF job.status = "success" THEN job.deps ELSE NoDeps,
                         ![c].eph  = job.config.ephemeral /\ job.status = "success"]
          BY <2>2, <4>1, <4>2, <5>1 DEF FetchJob
        <5>. QED BY <3>3, <5>2
      <4>. QED BY <4>1, <4>2
    <3>5. UNCHANGED jobs
      BY <2>2 DEF FetchJob, store
    <3>. QED BY <2>1, <3>4, <3>5
  <2>3. CASE ~FetchJob(c)
    <3>1. ASSUME NEW answer, Answered(c, answer)
          PROVE  FALSE
      BY <1>1, <3>1 DEF Answered, Call
    <3>2. ASSUME call' = [call EXCEPT ![c].st = "apply"] \/ call' = [call EXCEPT ![c].st = "fetch"]
                 \/ call' = [call EXCEPT ![c].st = "chain"]
                 \/ call' = [call EXCEPT ![c].st = "wait", ![c].retry = TRUE]
          PROVE  FALSE
      BY <1>1, <3>2 DEF Call
    <3>3. ASSUME NEW v, call[c].st = "sent",
                 call' = [call EXCEPT ![c].server = leader, ![c].via = v]
          PROVE  FALSE
      BY <1>1, <3>3 DEF Call
    <3>4. ASSUME NEW d \in JobNames, call[c].st = "chain",
                 \/ call' = [call EXCEPT ![c].left[d] = @ - 1]
                 \/ call' = [call EXCEPT ![c].left[d] = @ - 1, ![c].st = "wait"]
          PROVE  FALSE
      BY <1>1, <3>4 DEF Call
    <3>5. ~(ForwardDone(c) \/ AcceptDone(c) \/ ApplyDone(c) \/ RunReturns(c) \/ Notify(c))
      BY <3>1, <3>2, <3>3 DEF ForwardDone, AcceptDone, ApplyDone, RunReturns, Notify
    <3>6. ~(RetryRun(c) \/ EndDone(c))
      <4>1. RetryRun(c) \/ EndDone(c) =>
               \/ \E answer : Answered(c, answer)
               \/ call' = [call EXCEPT ![c].st = "wait", ![c].retry = TRUE]
        BY DEF RetryRun, EndDone
      <4>. QED BY <3>1, <3>2, <4>1
    <3>7. \A d \in JobNames : ~RunDependent(c, d)
      BY <3>1, <3>4 DEF RunDependent
    <3>. QED BY <1>6, <2>3, <3>5, <3>6, <3>7 DEF CallStep
  <2>. QED BY <2>2, <2>3
<1>7. ASSUME NEW s \in Servers, Crash(s)
      PROVE  call'[c] = call[c]
  BY <1>1, <1>7 DEF Crash, Call
<1>8. ASSUME \/ \E n \in JobNames : Fire(n)
             \/ \E k \in Cmds : BreakStream(k)
             \/ \E n \in RunNodes : NodeCrash(n)
             \/ (\E s \in Servers : Elect(s)) \/ StepDown \/ UNCHANGED allVars
      PROVE  call'[c] = call[c]
  BY <1>8 DEF Fire, BreakStream, NodeCrash, Elect, StepDown, allVars, runVars
<1>. QED BY <1>2, <1>3, <1>4, <1>5, <1>6, <1>7, <1>8 DEF RunsNext, Fault

\* What a step may make goroutines for: a new group, or a retry.
LEMMA NewTasks ==
    ASSUME RunInv, Lineage, [RunsNext]_allVars
    PROVE  \/ \A i \in Tasks : task'[i].st # "none" => Made(i)
           \/ \E d \in JobNames : \E s, by : Run(s, NewExecution(d), nodesUp, by)
           \/ \E c \in CallIds :
                 /\ CallStep(c) /\ RetryRun(c) /\ call[c].st = "retry"
                 /\ Run(call[c].server, NextAttempt(call[c].ex), nodesUp \cap {call[c].ex.node}, c)
<1>1. task \in [Tasks -> Task]
  BY DEF RunInv, RunsTypeOK
<1>2. ASSUME UNCHANGED task
      PROVE  \A i \in Tasks : task'[i].st # "none" => Made(i)
  BY <1>2 DEF Made
<1>3. ASSUME NEW i \in Tasks, TaskStep(i) \/ Refuse(i)
      PROVE  \A j \in Tasks : task'[j].st # "none" => Made(j)
  <2>1. task[i].st # "none" /\ \A j \in Tasks \ {i} : task'[j] = task[j]
    BY <1>1, <1>3 DEF TaskStep, DialFails, Dispatch, RecvFirst, CallSetExecution, RecvFinal,
                      RecvEOF, RecvError, DoneReturns, Refuse, AttemptFails
  <2>. QED BY <2>1 DEF Made
<1>4. ASSUME NEW s \in Servers, Crash(s)
      PROVE  \A j \in Tasks : task'[j].st # "none" => Made(j)
  <2>1. \A j \in Tasks : task'[j] = task[j] \/ task[j].server = s
    BY <1>4 DEF Crash
  <2>. QED BY <2>1, RunsAssumption DEF Lineage, Made
<1>5. CASE Fault
  BY <1>2, <1>3, <1>4, <1>5 DEF Fault, BreakStream, StepDown, NodeCrash
<1>6. ASSUME NEW k \in Cmds, CmdStep(k)
      PROVE  UNCHANGED task
  BY <1>6 DEF CmdStep, Finish, Fallback
<1>7. CASE (\E s \in Servers : Elect(s)) \/ UNCHANGED allVars
  BY <1>2, <1>7 DEF Elect, allVars, runVars
<1>8. ASSUME NEW n \in JobNames, Fire(n)
      PROVE  \E d \in JobNames : \E s, by : Run(s, NewExecution(d), nodesUp, by)
  BY <1>8 DEF Fire
<1>. QED BY <1>2, <1>3, <1>5, <1>6, <1>7, <1>8, CallRuns DEF RunsNext

\* What a step keeps of the goroutines that exist.
LEMMA KeptTasks ==
    ASSUME Inherits, NEW i \in Tasks
    PROVE  \/ Made(i) /\ task'[i].st # "none" /\ Alike(task'[i].req, task[i].req)
           \/ ~Made(i) /\ task'[i].st \in {"none", "dial"}
<1>1. TaskTo(i)
  BY DEF Inherits
<1>2. CASE task'[i] = task[i]
  BY <1>2 DEF Made, Alike
<1>3. CASE task'[i] # task[i]
  BY <1>1, <1>3 DEF TaskTo
<1>. QED BY <1>2, <1>3

\* Every step keeps the chains.
LEMMA ChainStep ==
    ASSUME MaxBreaks = 0, MaxStepDowns = 0, WatchSteps, Chains, [RunsNext]_allVars, RunInv'
    PROVE  Chains'
<1>1. RunInv /\ ActiveInv /\ Begun /\ Lineage
  BY DEF WatchSteps
<1>2. Inherits /\ FrontKept
  BY <1>1, InheritStep, FrontStays
<1>3. \A i \in Tasks : \/ Made(i) /\ task'[i].st # "none" /\ Alike(task'[i].req, task[i].req)
                       \/ ~Made(i) /\ task'[i].st \in {"none", "dial"}
  BY <1>2, KeptTasks
<1>4. CASE \A i \in Tasks : task'[i].st # "none" => Made(i)
  <2>1. PICK ex : ex = NoExec
    OBVIOUS
  <2>. QED BY <1>1, <1>2, <1>3, <1>4, ChainGrows
<1>5. ASSUME NEW s, NEW ex, NEW targets, NEW by, Run(s, ex, targets, by)
      PROVE  \A i \in Tasks :
                \/ Made(i) /\ task'[i].st # "none" /\ Alike(task'[i].req, task[i].req)
                \/ ~Made(i) /\ task'[i].st = "none"
                \/ ~Made(i) /\ i[1] = runs + 1 /\ task'[i].req = ex /\ i[2] \in targets
  BY <1>1, <1>3, <1>5, RunMakes DEF Made
<1>6. ASSUME NEW d \in JobNames, NEW s, NEW by, Run(s, NewExecution(d), nodesUp, by)
      PROVE  Chains'
  <2>1. PICK ex : ex = NewExecution(d)
    OBVIOUS
  <2>2. ex.group = now
    BY <1>1, <2>1, NewRun
  <2>. QED BY <1>1, <1>2, <1>5, <1>6, <2>1, <2>2, ChainGrows
<1>7. ASSUME NEW c \in CallIds, CallStep(c), RetryRun(c), call[c].st = "retry",
             Run(call[c].server, NextAttempt(call[c].ex), nodesUp \cap {call[c].ex.node}, c)
      PROVE  Chains'
  <2>1. PICK ex : ex = NextAttempt(call[c].ex)
    OBVIOUS
  <2>2. /\ ex.group = task[TaskOf(c)].req.group /\ ex.job = task[TaskOf(c)].req.job
        /\ ex.attempt = task[TaskOf(c)].req.attempt + 1
        /\ Made(TaskOf(c)) /\ TaskOf(c) \in Tasks /\ TaskOf(c)[2] = c[2]
        /\ \A n \in nodesUp \cap {call[c].ex.node} : n = c[2]
    BY <1>1, <1>7, <2>1, RetryOf, TaskOfType
  <2>3. Front(TaskOf(c)) /\ ~Front(TaskOf(c))'
    <3>1. call \in [CallIds -> Call] /\ call[c] \in Call
      BY <1>1, RunFacts DEF RunInv, RunsTypeOK
    <3>2. call'[c].st = "answered" \/ (call'[c].st = "wait" /\ call'[c].retry)
      <4>1. CASE Answered(c, "error")
        BY <3>1, <4>1 DEF Answered, Call
      <4>2. CASE call' = [call EXCEPT ![c].st = "wait", ![c].retry = TRUE]
        BY <3>1, <4>2 DEF Call
      <4>. QED BY <1>7, <4>1, <4>2 DEF RetryRun
    <3>3. UNCHANGED cmd /\ \A b \in CallIds \ {c} : call'[b] = call[b]
      BY <1>1, <1>7, CallRuns, CallKeepsEx
    <3>4. \A i \in Tasks : Made(i) => task'[i] = task[i]
      BY <1>1, <1>7, RunMakes
    <3>. QED BY <1>7, <3>2, <3>3, <3>4, RetryFront
  <2>4. \A i \in Tasks :
           \/ Made(i) /\ task'[i].st # "none" /\ Alike(task'[i].req, task[i].req)
           \/ ~Made(i) /\ task'[i].st = "none"
           \/ ~Made(i) /\ i[1] = runs + 1 /\ task'[i].req = ex /\ i[2] = TaskOf(c)[2]
    BY <1>5, <1>7, <2>1, <2>2
  <2>5. \A i \in Tasks : ~Made(i) /\ task'[i].st # "none" => i[2] = TaskOf(c)[2]
    BY <2>4
  <2>. QED BY <1>1, <1>2, <2>2, <2>3, <2>4, <2>5, ChainGrows
<1>. QED BY <1>4, <1>6, <1>7, NewTasks DEF WatchSteps

\* Attempts stay within the limit of the job.
LEMMA LimitStep ==
    ASSUME WatchSteps, Limited, StoreValid(jobs), [RunsNext]_allVars, RunInv'
    PROVE  Limited' /\ StoreValid(jobs)'
<1>1. RunInv /\ ActiveInv /\ Begun /\ Lineage
  BY DEF WatchSteps
<1>2. Inherits
  BY <1>1, InheritStep
<1>3. /\ StoreValid(jobs')
      /\ \A n \in JobNames : Stored(jobs', n) =>
            Stored(jobs, n) /\ jobs'[n].config = jobs[n].config
  BY <1>1, ConfigsKept
<1>4. /\ \A i \in Tasks : task'[i].req.job \in JobNames /\ task[i].req.job \in JobNames
      /\ \A c \in CallIds : call'[c].ex.job \in JobNames
      /\ \A i \in Tasks : task[i].req.attempt \in Nat
      /\ \A c \in CallIds : call[c].ex.attempt \in Nat
  <2>1. (\A i \in Tasks : task'[i] \in Task) /\ (\A c \in CallIds : call'[c] \in Call)
    BY DEF RunInv, RunsTypeOK
  <2>. QED BY <1>1, <2>1, RunFacts DEF Task, Call, Execution
<1>5. \A n \in JobNames : Stored(jobs, n) => jobs[n].config.retries \in Nat
  <2>1. \A n \in JobNames : Stored(jobs, n) => jobs[n] \in Job
    BY <1>1, IInvFacts, StoredIsJob DEF RunInv
  <2>2. \A n \in JobNames : Stored(jobs, n) => jobs[n].config \in Configs
    BY <2>1 DEF Job
  <2>. QED BY <2>2, RunsAssumption
<1>6. ASSUME NEW c \in CallIds, call'[c].st = "retry", Stored(jobs', call'[c].ex.job)
      PROVE  call'[c].ex.attempt < jobs'[call'[c].ex.job].config.retries + 1
  <2>1. /\ Stored(jobs, call'[c].ex.job) /\ call'[c].ex.job \in JobNames
        /\ jobs'[call'[c].ex.job].config = jobs[call'[c].ex.job].config
    BY <1>3, <1>4, <1>6
  <2>2. CASE call[c].st = "retry" /\ call'[c].ex = call[c].ex
    BY <2>1, <2>2 DEF Limited
  <2>3. CASE /\ call'[c].ex = call[c].ex /\ UNCHANGED jobs
             /\ call[c].ex.attempt < jobs[call[c].ex.job].config.retries + 1
    BY <2>3
  <2>. QED BY <1>1, <1>6, <2>2, <2>3, RetryDecided
<1>7. ASSUME NEW i \in Tasks, task'[i].st # "none", Stored(jobs', task'[i].req.job)
      PROVE  task'[i].req.attempt <= jobs'[task'[i].req.job].config.retries + 1
  <2>1. /\ Stored(jobs, task'[i].req.job) /\ task'[i].req.job \in JobNames
        /\ jobs'[task'[i].req.job].config = jobs[task'[i].req.job].config
    BY <1>3, <1>4, <1>7
  <2>2. CASE Made(i)
    <3>1. Alike(task'[i].req, task[i].req)
      BY <1>2, <2>2, KeptTasks
    <3>. QED BY <2>1, <2>2, <3>1 DEF Limited, Alike
  <2>3. CASE ~Made(i)
    <3>1. ASSUME NEW d \in JobNames, NEW s, NEW by, Run(s, NewExecution(d), nodesUp, by)
          PROVE  task'[i].req.attempt <= jobs'[task'[i].req.job].config.retries + 1
      <4>1. task'[i].req = NewExecution(d)
        BY <1>1, <1>7, <2>3, <3>1, RunMakes DEF Made
      <4>2. task'[i].req.attempt = 1
        BY <1>1, <4>1, NewRun
      <4>. QED BY <1>5, <2>1, <4>2
    <3>2. ASSUME NEW c \in CallIds, call[c].st = "retry",
                 Run(call[c].server, NextAttempt(call[c].ex), nodesUp \cap {call[c].ex.node}, c)
          PROVE  task'[i].req.attempt <= jobs'[task'[i].req.job].config.retries + 1
      <4>1. task'[i].req = NextAttempt(call[c].ex)
        BY <1>1, <1>7, <2>3, <3>2, RunMakes DEF Made
      <4>2. task'[i].req.attempt = call[c].ex.attempt + 1 /\ task'[i].req.job = call[c].ex.job
        <5>1. call[c].ex \in Execution
          BY <1>1, RunFacts
        <5>. QED BY <4>1, <5>1 DEF NextAttempt, Execution
      <4>3. call[c].ex.attempt < jobs[call[c].ex.job].config.retries + 1
        BY <2>1, <3>2, <4>2 DEF Limited
      <4>. QED BY <1>4, <1>5, <2>1, <4>2, <4>3
    <3>. QED BY <1>7, <2>3, <3>1, <3>2, NewTasks DEF WatchSteps
  <2>. QED BY <2>2, <2>3
<1>8. StoreValid(jobs)'
  BY <1>3
<1>. QED BY <1>6, <1>7, <1>8 DEF Limited, Made

\* What the theorems below rest on.
ChainInv == OnceInv /\ Lineage /\ Watched /\ Chains /\ Limited /\ StoreValid(jobs)

\* Every step keeps it.
LEMMA ChainInvStep ==
    ASSUME MaxBreaks = 0, MaxStepDowns = 0, RunInv, RunInv', ActiveInv, Begun, ChainInv,
           [RunsNext]_allVars
    PROVE  ChainInv'
<1>1. WatchSteps
  BY DEF WatchSteps, ChainInv
<1>2. OnceInv'
  BY OnceStep DEF ChainInv
<1>3. Lineage'
  BY InheritStep, LineageKept DEF ChainInv
<1>4. Watched' /\ Chains'
  BY <1>1, WatchStep, ChainStep DEF ChainInv
<1>5. Limited' /\ StoreValid(jobs)'
  BY <1>1, LimitStep DEF ChainInv
<1>. QED BY <1>2, <1>3, <1>4, <1>5 DEF ChainInv

\* At the start there are no goroutines.
LEMMA ChainInit == RunsInit => ChainInv
<1> SUFFICES ASSUME RunsInit
             PROVE  ChainInv
  OBVIOUS
<1>1. OnceInv
  BY OnceInit
<1>2. Lineage
  BY DEF RunsInit, Lineage, Made, Started, NoTask, NoCmd, IdleCall
<1>3. Watched
  <2>1. /\ \A i \in Tasks : task[i].st = "none" /\ i \in CallIds
        /\ \A k \in Cmds : cmd[k].st = "none" /\ cmd[k].sent = 0 /\ k \in CallIds
        /\ \A c \in CallIds : call[c].st = "none"
    BY DEF RunsInit, NoTask, NoCmd, IdleCall, CallIds
  <2>. QED BY <2>1 DEF Watched, WatchedTask, WatchedCmd
<1>4. Chains /\ Limited
  BY DEF RunsInit, Chains, Limited, Kin, Made, NoTask, IdleCall
<1>5. StoreValid(jobs)
  BY RunsAssumption DEF RunsInit, Whole, StoreValid
<1>. QED BY <1>1, <1>2, <1>3, <1>4, <1>5 DEF ChainInv

\* Without breaking streams, each attempt of a chain has one goroutine, only
\* the newest may be retried, and attempts stay within the limit of the job,
\* whichever servers and nodes crash.
THEOREM ChainInvariant == MaxBreaks = 0 /\ MaxStepDowns = 0 /\ RunsSpec => []ChainInv
<1> DEFINE Given == MaxBreaks = 0 /\ MaxStepDowns = 0
<1>1. Given /\ RunInv /\ RunInv' /\ ActiveInv /\ Begun /\ ChainInv /\ [RunsNext]_allVars => ChainInv'
  BY ChainInvStep
<1>2. Given /\ [RunsNext]_allVars => Given'
  OBVIOUS
<1> HIDE DEF Given
<1>3. Given /\ RunsSpec => []ChainInv
  BY <1>1, <1>2, ChainInit, RunsInvariant, ActiveInvariant, BegunInvariant, PTL DEF RunsSpec
<1>. QED BY <1>3 DEF Given

\* Commands that started on one node for one job and group are told apart by
\* their attempts.
LEMMA AttemptsApart ==
    ASSUME RunInv, ChainInv, NEW k \in Cmds, NEW l \in Cmds, Started(k), Started(l), k[2] = l[2],
           cmd[k].ex.job = cmd[l].ex.job, cmd[k].ex.group = cmd[l].ex.group,
           cmd[k].ex.attempt = cmd[l].ex.attempt
    PROVE  k = l
<1>1. /\ TaskOf(k) \in Tasks /\ TaskOf(l) \in Tasks /\ TaskOf(k)[2] = k[2] /\ TaskOf(l)[2] = l[2]
      /\ Made(TaskOf(k)) /\ Alike(cmd[k].ex, task[TaskOf(k)].req)
      /\ Made(TaskOf(l)) /\ Alike(cmd[l].ex, task[TaskOf(l)].req)
  BY TaskOfType DEF ChainInv, Lineage
<1>2. Kin(TaskOf(k), TaskOf(l)) /\ task[TaskOf(k)].req.attempt = task[TaskOf(l)].req.attempt
  BY <1>1 DEF Kin, Alike
<1>3. TaskOf(k) = TaskOf(l)
  BY <1>1, <1>2 DEF ChainInv, Chains
<1>4. k[3] = l[3]
  BY <1>3 DEF ChainInv, OnceInv, LastTry, TaskOf
<1>. QED BY <1>3, <1>4 DEF Cmds, TaskOf

\* A node never runs a failing job more often than once and its retries: the
\* commands of one group are told apart by their attempts, which stop at the
\* limit.  The hypotheses exclude a stream that breaks under a command that
\* goes on, and a leader that is deposed but goes on: either has the failure of
\* one command reported twice (GRPCServer.ExecutionDone in src/dkron/grpc.go,
\* GRPCClient.AgentRun in src/dkron/grpc_client.go).
THEOREM RetriesBounded == MaxBreaks = 0 /\ MaxStepDowns = 0 /\ RunsSpec => []CommandsBounded
<1>1. RunInv /\ ChainInv => CommandsBounded
  <2> SUFFICES ASSUME RunInv, ChainInv, NEW k \in Cmds, Started(k), Stored(jobs, cmd[k].ex.job)
               PROVE  Cardinality({l \in Cmds : /\ Started(l)
                                                /\ cmd[l].ex.job = cmd[k].ex.job
                                                /\ cmd[l].ex.group = cmd[k].ex.group
                                                /\ l[2] = k[2]})
                        <= jobs[cmd[k].ex.job].config.retries + 1
    BY DEF CommandsBounded
  <2>1. PICK S : S = {l \in Cmds : /\ Started(l)
                                   /\ cmd[l].ex.job = cmd[k].ex.job
                                   /\ cmd[l].ex.group = cmd[k].ex.group
                                   /\ l[2] = k[2]}
    OBVIOUS
  <2>2. PICK n : n = jobs[cmd[k].ex.job].config.retries
    OBVIOUS
  <2>3. n \in Nat
    <3>1. cmd[k].ex.job \in JobNames
      BY RunFacts DEF Execution
    <3>2. jobs[cmd[k].ex.job] \in Job
      BY <3>1, IInvFacts, StoredIsJob DEF RunInv
    <3>3. jobs[cmd[k].ex.job].config \in Configs
      BY <3>2 DEF Job
    <3>. QED BY <2>2, <3>3, RunsAssumption
  <2>4. ASSUME NEW l \in S
        PROVE  cmd[l].ex.attempt \in 1..(n + 1)
    <3>1. /\ l \in Cmds /\ Started(l) /\ cmd[l].ex.job = cmd[k].ex.job
      BY <2>1
    <3>2. /\ TaskOf(l) \in Tasks /\ Made(TaskOf(l)) /\ Alike(cmd[l].ex, task[TaskOf(l)].req)
      BY <3>1, TaskOfType DEF ChainInv, Lineage
    <3>3. /\ task[TaskOf(l)].req.attempt \in Nat /\ task[TaskOf(l)].req.attempt > 0
      BY <3>2, RunFacts DEF ChainInv, Lineage, Execution
    <3>4. task[TaskOf(l)].req.attempt <= n + 1
      BY <2>2, <3>1, <3>2 DEF ChainInv, Limited, Alike
    <3>. QED BY <2>3, <3>2, <3>3, <3>4 DEF Alike
  <2>5. PICK f : f = [l \in S |-> cmd[l].ex.attempt]
    OBVIOUS
  <2>6. f \in [S -> 1..(n + 1)]
    BY <2>4, <2>5
  <2>7. \A l, m \in S : f[l] = f[m] => l = m
    <3> SUFFICES ASSUME NEW l \in S, NEW m \in S, f[l] = f[m]
                 PROVE  l = m
      OBVIOUS
    <3>1. /\ l \in Cmds /\ m \in Cmds /\ Started(l) /\ Started(m) /\ l[2] = m[2]
          /\ cmd[l].ex.job = cmd[m].ex.job /\ cmd[l].ex.group = cmd[m].ex.group
          /\ cmd[l].ex.attempt = cmd[m].ex.attempt
      BY <2>1, <2>5
    <3>. QED BY <3>1, AttemptsApart
  <2>8. f \in Injection(S, 1..(n + 1))
    BY <2>6, <2>7 DEF Injection, IsInjective
  <2>9. IsFiniteSet(1..(n + 1)) /\ Cardinality(1..(n + 1)) = n + 1
    BY <2>3, FS_Interval
  <2>10. Cardinality(S) <= n + 1
    BY <2>8, <2>9, FS_Injection
  <2>. QED BY <2>1, <2>2, <2>10
<1>. QED BY <1>1, ChainInvariant, RunsInvariant, PTL

----------------------------------------------------------------------------
(***************************************************************************)
(* Results that a server acknowledged                                      *)
(***************************************************************************)

\* The key of e is that of a command that started, or that of a request which
\* no node has started.
Traced(e) ==
    \/ e.startedAt = Never /\ e.node = NoNode
    \/ \E k \in Cmds : Started(k) /\ Key(e) = Key(cmd[k].ex)

\* So are all that the store holds and all that travels.
AllTraced ==
    /\ \A e \in execs : Traced(e)
    /\ \A i \in Tasks : Made(i) => Traced(task[i].ex) /\ Traced(task[i].req)
    /\ \A c \in CallIds : call[c].st # "none" => Traced(call[c].ex)

\* The store has e, or a later version of it.
Safe(e) == \E x \in execs : Key(x) = Key(e) /\ x.finishedAt >= e.finishedAt

\* The leader stays and nobody deletes a job.
Staying ==
    /\ leader # NoServer
    /\ \A n \in JobNames : Stored(jobs, n) => ~jobs[n].config.ephemeral
    /\ \A c \in CallIds : ~call[c].eph

\* A report has an effect before it gets an answer.
Secured ==
    \A c \in CallIds :
        /\ call[c].st = "apply" => Stored(jobs, call[c].ex.job)
        /\ call[c].st \in {"fetch", "retry", "notify", "chain", "wait"} => Safe(call[c].ex)
        /\ call[c].st = "answered" /\ call[c].answer = "ok" => Safe(call[c].ex)

\* What the steps below start from.
TraceSteps == RunInv /\ ActiveInv /\ Begun /\ OnceInv /\ Lineage /\ AllTraced

\* Equal keys have equal traces.
LEMMA SameTrace ==
    ASSUME NEW e, NEW f, Key(e) = Key(f), Traced(f)
    PROVE  Traced(e)
<1>1. e.startedAt = f.startedAt /\ e.node = f.node
  BY DEF Key
<1>. QED BY <1>1 DEF Traced

\* A command that started has a trace.
LEMMA StartedTraced ==
    ASSUME NEW k \in Cmds, Started(k)
    PROVE  Traced(cmd[k].ex)
BY DEF Traced

\* A command that started keeps its key: it is not dispatched a second time.
LEMMA StartedKept ==
    ASSUME RunInv, Begun, OnceInv, [RunsNext]_allVars, NEW k \in Cmds, Started(k)
    PROVE  Started(k)' /\ Key(cmd'[k].ex) = Key(cmd[k].ex)
<1>1. /\ cmd \in [Cmds -> Cmd] /\ cmd[k] \in Cmd /\ cmd[k].ex \in Execution /\ now \in Nat
      /\ \A i \in Tasks : CmdOf(i) \in Cmds
  BY RunFacts DEF RunInv, RunsTypeOK
<1>2. ASSUME cmd'[k].ex = cmd[k].ex, cmd'[k].sent = cmd[k].sent
      PROVE  Started(k)' /\ Key(cmd'[k].ex) = Key(cmd[k].ex)
  BY <1>2 DEF Started
<1>3. ASSUME NEW i \in Tasks, Dispatch(i) \/ Refuse(i)
      PROVE  Started(k)' /\ Key(cmd'[k].ex) = Key(cmd[k].ex)
  <2>1. k # CmdOf(i)
    <3>1. ASSUME k = CmdOf(i)
          PROVE  <<k[1], k[2]>> = i
      BY <3>1 DEF CmdOf, Tasks
    <3>2. task[i].st = "dial"
      BY <1>3 DEF Dispatch, Refuse
    <3>. QED BY <3>1, <3>2 DEF OnceInv, LastTry
  <2>2. cmd'[k] = cmd[k]
    BY <1>1, <1>3, <2>1 DEF Dispatch, Refuse
  <2>. QED BY <1>2, <2>2
<1>4. ASSUME NEW i \in Tasks, TaskStep(i), ~Dispatch(i)
      PROVE  Started(k)' /\ Key(cmd'[k].ex) = Key(cmd[k].ex)
  <2>1. UNCHANGED cmd \/ cmd' = [cmd EXCEPT ![CmdOf(i)].open = FALSE]
    BY <1>4 DEF TaskStep, DialFails, RecvFirst, CallSetExecution, RecvFinal, RecvEOF, RecvError,
                DoneReturns
  <2>2. cmd'[k].ex = cmd[k].ex /\ cmd'[k].sent = cmd[k].sent
    BY <1>1, <2>1 DEF Cmd
  <2>. QED BY <1>2, <2>2
<1>5. ASSUME NEW l \in Cmds, NEW ok \in BOOLEAN, Finish(l, ok)
      PROVE  Started(k)' /\ Key(cmd'[k].ex) = Key(cmd[k].ex)
  <2>1. CASE l = k
    <3>1. PICK e : e = [cmd[k].ex EXCEPT !.finishedAt = now, !.success = ok]
      OBVIOUS
    <3>2. Key(e) = Key(cmd[k].ex)
      BY <1>1, <3>1 DEF Key, Execution
    <3>3. cmd'[k].ex = e /\ cmd'[k].sent \in {2, cmd[k].sent}
      BY <1>1, <1>5, <2>1, <3>1 DEF Finish, Cmd
    <3>. QED BY <3>2, <3>3 DEF Started
  <2>2. CASE l # k
    <3>1. cmd'[k] = cmd[k]
      BY <1>1, <1>5, <2>2 DEF Finish
    <3>. QED BY <1>2, <3>1
  <2>. QED BY <2>1, <2>2
<1>6. ASSUME NEW l \in Cmds, Fallback(l) \/ BreakStream(l)
      PROVE  Started(k)' /\ Key(cmd'[k].ex) = Key(cmd[k].ex)
  <2>1. cmd' = [cmd EXCEPT ![l].st = "over"] \/ cmd' = [cmd EXCEPT ![l].open = FALSE]
    BY <1>6 DEF Fallback, BreakStream
  <2>2. cmd'[k].ex = cmd[k].ex /\ cmd'[k].sent = cmd[k].sent
    BY <1>1, <2>1 DEF Cmd
  <2>. QED BY <1>2, <2>2
<1>7. CASE (\E s \in Servers : Crash(s)) \/ (\E n \in RunNodes : NodeCrash(n))
  <2>1. \/ cmd'[k] = cmd[k] \/ cmd'[k] = [cmd[k] EXCEPT !.open = FALSE]
        \/ cmd'[k] = [cmd[k] EXCEPT !.st = "over", !.open = FALSE]
    BY <1>7 DEF Crash, NodeCrash
  <2>2. cmd'[k].ex = cmd[k].ex /\ cmd'[k].sent = cmd[k].sent
    BY <1>1, <2>1 DEF Cmd
  <2>. QED BY <1>2, <2>2
<1>8. CASE UNCHANGED cmd
  BY <1>2, <1>8
<1>9. ASSUME NEW c \in CallIds, CallStep(c)
      PROVE  UNCHANGED cmd
  BY <1>9, CallRuns
<1>10. CASE (\E n \in JobNames : Fire(n)) \/ (\E s \in Servers : Elect(s)) \/ StepDown
            \/ UNCHANGED allVars
  BY <1>8, <1>10 DEF Fire, Elect, StepDown, allVars, runVars
<1>. QED BY <1>3, <1>4, <1>5, <1>6, <1>7, <1>8, <1>9, <1>10 DEF RunsNext, CmdStep, Fault

\* So traces stay.
LEMMA TracedKept ==
    ASSUME RunInv, Begun, OnceInv, [RunsNext]_allVars, NEW e, Traced(e)
    PROVE  \/ e.startedAt = Never /\ e.node = NoNode
           \/ \E k \in Cmds : Started(k)' /\ Key(e) = Key(cmd'[k].ex)
BY StartedKept DEF Traced

\* The failure that a dispatcher makes up for i when the stream breaks.
MadeUp(i) == [task[i].ex EXCEPT !.finishedAt = now, !.success = FALSE]

\* What the first message of the command of i says.
FirstOf(i) == [cmd[CmdOf(i)].ex EXCEPT !.finishedAt = task[i].req.finishedAt, !.success = FALSE]

\* Where the versions of executions that a step passes on come from.
Source(e) ==
    \/ \E i \in Tasks : Made(i) /\ e \in {task[i].ex, task[i].req}
    \/ \E c \in CallIds : call[c].st # "none" /\ e = call[c].ex
    \/ \E k \in Cmds : Started(k) /\ e = cmd[k].ex
    \/ \E d \in JobNames : e = NewExecution(d)
    \/ \E c \in CallIds : call[c].st = "retry" /\ e = NextAttempt(call[c].ex)
    \/ \E i \in Tasks :
          /\ task[i].st = "recv" /\ task[i].got = 0 /\ Started(CmdOf(i)) /\ e = FirstOf(i)
    \/ \E i \in Tasks : Made(i) /\ UNCHANGED cmd /\ now' = now + 1 /\ e = MadeUp(i)

\* A goroutine has its versions from there, and its request is no success.
Supplied(i) ==
    task'[i].st # "none" =>
        /\ Source(task'[i].ex) /\ Source(task'[i].req)
        /\ (Made(i) /\ task'[i].req = task[i].req) \/ ~task'[i].req.success

FlowSteps ==
    /\ RunInv /\ ActiveInv /\ Begun /\ Lineage
    /\ \A c \in CallIds : call[c].st = "retry" => ~call[c].ex.success

\* What is there is a source.
LEMMA Sources ==
    /\ \A i \in Tasks : Made(i) => Source(task[i].ex) /\ Source(task[i].req)
    /\ \A c \in CallIds : call[c].st # "none" => Source(call[c].ex)
    /\ \A k \in Cmds : Started(k) => Source(cmd[k].ex)
    /\ \A d \in JobNames : Source(NewExecution(d))
    /\ \A c \in CallIds : call[c].st = "retry" => Source(NextAttempt(call[c].ex))
    /\ \A i \in Tasks : task[i].st = "recv" /\ task[i].got = 0 /\ Started(CmdOf(i)) => Source(FirstOf(i))
    /\ \A i \in Tasks : Made(i) /\ UNCHANGED cmd /\ now' = now + 1 => Source(MadeUp(i))
BY Zenon DEF Source

\* A goroutine that stays as it is.
LEMMA SuppliedSame ==
    ASSUME NEW i \in Tasks, task'[i] = task[i]
    PROVE  Supplied(i)
BY Sources DEF Supplied, Made

\* What Agent.Run starts goroutines with.
LEMMA FlowRun ==
    ASSUME FlowSteps, NEW s, NEW ex, NEW targets, NEW by, Run(s, ex, targets, by), Source(ex),
           ~ex.success
    PROVE  \A i \in Tasks : Supplied(i)
<1> SUFFICES ASSUME NEW i \in Tasks
             PROVE  Supplied(i)
  OBVIOUS
<1>1. CASE task'[i] = task[i]
  BY <1>1, SuppliedSame
<1>2. CASE task'[i].req = ex /\ task'[i].ex = ex
  BY <1>2 DEF Supplied
<1>. QED BY <1>1, <1>2, RunMakes DEF FlowSteps

\* The steps of a goroutine.
LEMMA FlowTask ==
    ASSUME FlowSteps, NEW i \in Tasks, TaskStep(i) \/ Refuse(i)
    PROVE  /\ \A j \in Tasks : Supplied(j)
           /\ \A c \in CallIds : call'[c].st # "none" => Source(call'[c].ex)
<1>1. /\ task \in [Tasks -> Task] /\ call \in [CallIds -> Call] /\ RunInv
      /\ task[i] \in Task /\ CmdOf(i) \in Cmds /\ i \in CallIds
      /\ task[i].ex \in Execution /\ cmd[CmdOf(i)].ex \in Execution
  BY RunFacts DEF FlowSteps, RunInv, RunsTypeOK
<1>2. Made(i)
  BY DEF TaskStep, DialFails, Dispatch, RecvFirst, CallSetExecution, RecvFinal, RecvEOF,
         RecvError, DoneReturns, Refuse, Made
<1>3. Source(task[i].ex) /\ Source(task[i].req)
  BY <1>2, Sources
<1>4. /\ UNCHANGED call => \A c \in CallIds : call'[c].st # "none" => Source(call'[c].ex)
      /\ UNCHANGED task => \A j \in Tasks : Supplied(j)
  BY Sources, SuppliedSame
<1>5. ASSUME NEW t, task' = [task EXCEPT ![i] = t], Source(t.ex), Source(t.req),
             t.req = task[i].req \/ ~t.req.success
      PROVE  \A j \in Tasks : Supplied(j)
  <2>1. task'[i] = t /\ \A j \in Tasks \ {i} : task'[j] = task[j]
    BY <1>1, <1>5
  <2>2. Supplied(i)
    BY <1>2, <1>5, <2>1 DEF Supplied
  <2>. QED BY <2>1, <2>2, SuppliedSame
<1>6. ASSUME NEW retryable, AttemptFails(i, retryable)
      PROVE  \A j \in Tasks : Supplied(j)
  <2>1. PICK t \in Task :
           /\ task' = [task EXCEPT ![i] = t]
           /\ \/ t = [task[i] EXCEPT !.st = "closed"]
              \/ t = [task[i] EXCEPT !.st = "dial", !.try = task[i].try + 1, !.got = 0,
                                     !.ex = task[i].req]
    BY <1>1, <1>6, AttemptTypes
  <2>2. t.req = task[i].req /\ t.ex \in {task[i].ex, task[i].req}
    BY <1>1, <2>1 DEF Task
  <2>. QED BY <1>3, <1>5, <2>1, <2>2
<1>7. ASSUME task' = [task EXCEPT ![i].st = "recv"] \/ task' = [task EXCEPT ![i].st = "report"]
      PROVE  \A j \in Tasks : Supplied(j)
  <2>1. PICK t : /\ t = [task[i] EXCEPT !.st = "recv"] \/ t = [task[i] EXCEPT !.st = "report"]
                 /\ task' = [task EXCEPT ![i] = t]
    BY <1>7
  <2>2. t.req = task[i].req /\ t.ex = task[i].ex
    BY <1>1, <2>1 DEF Task
  <2>. QED BY <1>3, <1>5, <2>1, <2>2
<1>8. ASSUME NEW e, SendDone(i, e), Source(e)
      PROVE  \A c \in CallIds : call'[c].st # "none" => Source(call'[c].ex)
  <2>1. call'[i].ex = e /\ \A c \in CallIds \ {i} : call'[c] = call[c]
    BY <1>1, <1>8 DEF SendDone, IdleCall
  <2>. QED BY <1>8, <2>1, Sources
<1>9. CASE DialFails(i) \/ Dispatch(i) \/ Refuse(i) \/ CallSetExecution(i) \/ RecvEOF(i)
  BY <1>3, <1>4, <1>6, <1>7, <1>8, <1>9
     DEF DialFails, Dispatch, Refuse, CallSetExecution, RecvEOF
<1>10. CASE RecvFirst(i)
  <2>1. PICK e : e = FirstOf(i)
    OBVIOUS
  <2>2. Source(e)
    <3>1. Started(CmdOf(i)) /\ task[i].st = "recv" /\ task[i].got = 0
      BY <1>10 DEF RecvFirst, Started
    <3>. QED BY <2>1, <3>1, Sources
  <2>3. task' = [task EXCEPT ![i].st = "first", ![i].got = 1, ![i].ex = e]
    BY <1>10, <2>1 DEF RecvFirst, FirstOf
  <2>4. PICK t : t = [task[i] EXCEPT !.st = "first", !.got = 1, !.ex = e]
    OBVIOUS
  <2>5. t.req = task[i].req /\ t.ex = e /\ task' = [task EXCEPT ![i] = t]
    BY <1>1, <2>3, <2>4 DEF Task
  <2>. QED BY <1>3, <1>4, <1>5, <1>10, <2>2, <2>5 DEF RecvFirst
<1>11. CASE RecvFinal(i)
  <2>1. /\ task' = [task EXCEPT ![i].got = 2, ![i].ex = cmd[CmdOf(i)].ex]
        /\ Started(CmdOf(i))
    BY <1>11 DEF RecvFinal, Started
  <2>2. PICK t : t = [task[i] EXCEPT !.got = 2, !.ex = cmd[CmdOf(i)].ex]
    OBVIOUS
  <2>3. t.req = task[i].req /\ t.ex = cmd[CmdOf(i)].ex /\ task' = [task EXCEPT ![i] = t]
    BY <1>1, <2>1, <2>2 DEF Task
  <2>4. Source(t.ex)
    BY <1>1, <2>1, <2>3, Sources
  <2>. QED BY <1>3, <1>4, <1>5, <1>11, <2>3, <2>4 DEF RecvFinal
<1>12. CASE RecvError(i)
  <2>1. PICK e : e = MadeUp(i)
    OBVIOUS
  <2>2. Source(e) /\ ~e.success
    <3>1. UNCHANGED cmd /\ now' = now + 1
      BY <1>12 DEF RecvError
    <3>2. ~e.success
      BY <1>1, <2>1 DEF MadeUp, Execution
    <3>. QED BY <1>2, <2>1, <3>1, <3>2, Sources
  <2>3. PICK r : r = IF task[i].got = 0 THEN e ELSE task[i].req
    OBVIOUS
  <2>4. SendDone(i, e) /\ task' = [task EXCEPT ![i].st = "report", ![i].ex = e, ![i].req = r]
    BY <1>1, <1>12, <2>1, <2>3 DEF RecvError, MadeUp, Task
  <2>5. PICK t : t = [task[i] EXCEPT !.st = "report", !.ex = e, !.req = r]
    OBVIOUS
  <2>6. t.req = r /\ t.ex = e /\ task' = [task EXCEPT ![i] = t]
    BY <1>1, <2>4, <2>5 DEF Task
  <2>7. Source(r) /\ (r = task[i].req \/ ~r.success)
    BY <1>3, <2>2, <2>3
  <2>. QED BY <1>5, <1>8, <2>2, <2>4, <2>6, <2>7
<1>13. CASE DoneReturns(i)
  <2>1. call'[i].st = "none" /\ \A c \in CallIds \ {i} : call'[c] = call[c]
    BY <1>1, <1>13 DEF DoneReturns, IdleCall
  <2>2. \A c \in CallIds : call'[c].st # "none" => Source(call'[c].ex)
    BY <2>1, Sources
  <2>. QED BY <1>6, <1>13, <2>2 DEF DoneReturns
<1>. QED BY <1>9, <1>10, <1>11, <1>12, <1>13 DEF TaskStep

\* Every step.
LEMMA FlowStep ==
    ASSUME FlowSteps, [RunsNext]_allVars
    PROVE  /\ \A i \in Tasks : Supplied(i)
           /\ \A c \in CallIds : call'[c].st # "none" => Source(call'[c].ex)
<1> DEFINE Tasked == \A i \in Tasks : Supplied(i)
           Called == \A c \in CallIds : call'[c].st # "none" => Source(call'[c].ex)
<1>1. /\ RunInv /\ ActiveInv /\ Begun
      /\ call \in [CallIds -> Call] /\ task \in [Tasks -> Task]
      /\ \A i \in Tasks : task[i] \in Task
      /\ \A k \in Cmds : k \in CallIds
      /\ \A c \in CallIds : call[c] \in Call /\ call[c].ex \in Execution
  BY RunFacts DEF FlowSteps, RunInv, RunsTypeOK
<1>2. (UNCHANGED task => Tasked) /\ (UNCHANGED call => Called)
  BY Sources, SuppliedSame
<1>3. \A d \in JobNames : ~NewExecution(d).success
  BY DEF NewExecution, NoExec
<1>4. ASSUME NEW n \in JobNames, Fire(n)
      PROVE  Tasked /\ Called
  BY <1>2, <1>3, <1>4, FlowRun, Sources DEF Fire
<1>5. ASSUME NEW c \in CallIds, CallStep(c)
      PROVE  Tasked /\ Called
  <2>1. Called
    BY <1>1, <1>5, CallKeepsEx, Sources
  <2>2. CASE /\ call[c].st = "retry"
             /\ Run(call[c].server, NextAttempt(call[c].ex), nodesUp \cap {call[c].ex.node}, c)
    <3>1. ~NextAttempt(call[c].ex).success
      BY <1>1, <2>2 DEF NextAttempt, Execution, FlowSteps
    <3>. QED BY <2>1, <2>2, <3>1, FlowRun, Sources
  <2>. QED BY <1>2, <1>3, <1>5, <2>1, <2>2, FlowRun, CallRuns, Sources
<1>6. ASSUME NEW k \in Cmds, CmdStep(k)
      PROVE  Tasked /\ Called
  <2>1. UNCHANGED task
    BY <1>6 DEF CmdStep, Finish, Fallback
  <2>2. CASE UNCHANGED call
    BY <1>2, <2>1, <2>2
  <2>3. CASE Fallback(k)
    <3>1. Source(cmd[k].ex)
      BY <1>1, <2>3, Sources DEF Fallback, Begun, Started
    <3>2. \A c \in CallIds \ {k} : call'[c] = call[c]
      BY <1>1, <2>3 DEF Fallback
    <3>3. call'[k] = call[k] \/ call'[k].ex = cmd[k].ex
      BY <1>1, <2>3 DEF Fallback, IdleCall
    <3>. QED BY <1>1, <1>2, <2>1, <3>1, <3>2, <3>3, Sources
  <2>. QED BY <1>6, <2>2, <2>3 DEF CmdStep, Finish
<1>7. ASSUME NEW s \in Servers, Crash(s)
      PROVE  Tasked /\ Called
  <2>1. \A c \in CallIds : call'[c].st # "none" => call[c].st # "none" /\ call'[c].ex = call[c].ex
    BY <1>1, <1>7 DEF Crash, Call
  <2>2. ASSUME NEW i \in Tasks
        PROVE  Supplied(i)
    <3>1. CASE task[i].server # s
      BY <1>1, <1>7, <3>1, SuppliedSame DEF Crash
    <3>2. CASE task[i].server = s
      <4>1. task'[i].req = task[i].req /\ task'[i].ex = task[i].ex
        BY <1>1, <1>7, <3>2 DEF Crash, Task
      <4>2. Made(i)
        BY <1>7, <3>2, RunsAssumption DEF FlowSteps, Lineage
      <4>. QED BY <4>1, <4>2, Sources DEF Supplied
    <3>. QED BY <3>1, <3>2
  <2>. QED BY <2>1, <2>2, Sources
<1>8. ASSUME (\E s \in Servers : Elect(s)) \/ UNCHANGED allVars
      PROVE  Tasked /\ Called
  BY <1>2, <1>8 DEF Elect, allVars, runVars
<1>9. ASSUME Fault
      PROVE  Tasked /\ Called
  BY <1>2, <1>7, <1>9, FlowTask DEF Fault, BreakStream, StepDown, NodeCrash
<1>. QED BY <1>4, <1>5, <1>6, <1>8, <1>9, FlowTask DEF RunsNext

\* So every step passes on keys that have a trace.
LEMMA TraceStep ==
    ASSUME TraceSteps, FlowSteps, [RunsNext]_allVars
    PROVE  AllTraced'
<1>1. /\ RunInv /\ Begun /\ OnceInv /\ AllTraced
      /\ \A i \in Tasks : CmdOf(i) \in Cmds /\ task[i].ex \in Execution /\ cmd[CmdOf(i)].ex \in Execution
      /\ \A c \in CallIds : call[c].ex \in Execution
  BY RunFacts DEF TraceSteps
<1>2. \A e \in execs' : Traced(e)
  BY <1>1, ExecsFrom DEF AllTraced, Made
<1>3. ASSUME NEW e, Source(e)
      PROVE  Traced(e)
  <2>1. CASE \E d \in JobNames : e = NewExecution(d)
    BY <2>1 DEF Traced, NewExecution, NoExec
  <2>2. ASSUME NEW c \in CallIds, call[c].st = "retry", e = NextAttempt(call[c].ex)
        PROVE  Traced(e)
    <3>1. Key(e) = Key(call[c].ex)
      BY <1>1, <2>2 DEF NextAttempt, Key, Execution
    <3>. QED BY <1>1, <2>2, <3>1, SameTrace DEF AllTraced
  <2>3. ASSUME NEW i \in Tasks, Started(CmdOf(i)), e = FirstOf(i)
        PROVE  Traced(e)
    <3>1. Key(e) = Key(cmd[CmdOf(i)].ex)
      BY <1>1, <2>3 DEF FirstOf, Key, Execution
    <3>. QED BY <1>1, <2>3, <3>1, StartedTraced, SameTrace
  <2>4. ASSUME NEW i \in Tasks, Made(i), e = MadeUp(i)
        PROVE  Traced(e)
    <3>1. Key(e) = Key(task[i].ex)
      BY <1>1, <2>4 DEF MadeUp, Key, Execution
    <3>. QED BY <1>1, <2>4, <3>1, SameTrace DEF AllTraced
  <2>5. CASE \/ \E i \in Tasks : Made(i) /\ e \in {task[i].ex, task[i].req}
             \/ \E c \in CallIds : call[c].st # "none" /\ e = call[c].ex
    BY <1>1, <2>5 DEF AllTraced
  <2>6. CASE \E k \in Cmds : Started(k) /\ e = cmd[k].ex
    BY <2>6, StartedTraced
  <2>. QED BY <1>3, <2>1, <2>2, <2>3, <2>4, <2>5, <2>6, Zenon DEF Source
<1>4. /\ \A i \in Tasks : task'[i].st # "none" => Traced(task'[i].ex) /\ Traced(task'[i].req)
      /\ \A c \in CallIds : call'[c].st # "none" => Traced(call'[c].ex)
  BY <1>3, FlowStep DEF Supplied
<1>. QED BY <1>1, <1>2, <1>4, TracedKept DEF AllTraced, Traced, Made

\* While there are fewer commands than a job may have executions, no job has
\* too many: each has the key of a command, or the one of a request.
LEMMA RoomForAll ==
    ASSUME IsFiniteSet(Cmds), Cardinality(Cmds) < MaxExecutions, NEW es \in SUBSET Execution,
           KeysUnique(es), \A e \in es : Traced(e), NEW n \in JobNames
    PROVE  Trimmed(es, n) = {es}
<1>1. PICK own : own = GetExecutions(es, n)
  OBVIOUS
<1>2. PICK f : f = [e \in own |-> IF \E k \in Cmds : Key(e) = Key(cmd[k].ex)
                                   THEN CHOOSE k \in Cmds : Key(e) = Key(cmd[k].ex)
                                   ELSE NoCall]
  OBVIOUS
<1>3. ASSUME NEW e \in own
      PROVE  /\ e \in es /\ e.job = n /\ Traced(e)
             /\ f[e] \in Cmds => Key(e) = Key(cmd[f[e]].ex)
             /\ f[e] \notin Cmds => f[e] = NoCall /\ e.startedAt = Never /\ e.node = NoNode
  <2>1. e \in es /\ e.job = n /\ Traced(e)
    BY <1>1 DEF GetExecutions
  <2>2. CASE \E k \in Cmds : Key(e) = Key(cmd[k].ex)
    <3>1. f[e] \in Cmds /\ Key(e) = Key(cmd[f[e]].ex)
      BY <1>2, <2>2
    <3>. QED BY <2>1, <3>1
  <2>3. CASE ~\E k \in Cmds : Key(e) = Key(cmd[k].ex)
    <3>1. f[e] = NoCall /\ NoCall \notin Cmds
      BY <1>2, <2>3, RunsAssumption DEF CallIds
    <3>2. e.startedAt = Never /\ e.node = NoNode
      BY <2>1, <2>3 DEF Traced
    <3>. QED BY <2>1, <3>1, <3>2
  <2>. QED BY <2>2, <2>3
<1>4. f \in [own -> Cmds \cup {NoCall}]
  <2>1. \A e \in own : f[e] \in Cmds \cup {NoCall}
    BY <1>3
  <2>. QED BY <1>2, <2>1
<1>5. \A d, e \in own : f[d] = f[e] => d = e
  <2> SUFFICES ASSUME NEW d \in own, NEW e \in own, f[d] = f[e]
               PROVE  d = e
    OBVIOUS
  <2>1. Key(d) = Key(e)
    <3>1. CASE f[d] \in Cmds
      BY <1>3, <3>1
    <3>2. CASE f[d] \notin Cmds
      <4>1. /\ d.startedAt = Never /\ d.node = NoNode /\ d.job = n
            /\ e.startedAt = Never /\ e.node = NoNode /\ e.job = n
        BY <1>3, <3>2
      <4>. QED BY <4>1 DEF Key
    <3>. QED BY <3>1, <3>2
  <2>. QED BY <1>3, <2>1 DEF KeysUnique
<1>6. f \in Injection(own, Cmds \cup {NoCall})
  BY <1>4, <1>5 DEF Injection, IsInjective
<1>7. /\ IsFiniteSet(Cmds \cup {NoCall})
      /\ Cardinality(Cmds \cup {NoCall}) = Cardinality(Cmds) + 1
  BY FS_AddElement, RunsAssumption DEF CallIds
<1>8. IsFiniteSet(own) /\ Cardinality(own) <= Cardinality(Cmds) + 1
  BY <1>6, <1>7, FS_Injection
<1>9. Cardinality(own) \in Nat /\ Cardinality(Cmds) \in Nat /\ MaxExecutions \in Nat
  BY <1>8, FS_CardinalityType, StorageAssumption
<1>10. Cardinality(own) - MaxExecutions <= 0
  BY <1>8, <1>9
<1>. QED BY <1>1, <1>10 DEF Trimmed

\* So SetExecution drops nothing.
LEMMA StartDropsNothing ==
    ASSUME IsFiniteSet(Cmds), Cardinality(Cmds) < MaxExecutions, TraceSteps, NEW i \in Tasks,
           task[i].st = "first", applySetExecution(task[i].ex)
    PROVE  execs' = setExecutionTx(execs, task[i].ex)
<1>1. /\ execs \in SUBSET Execution /\ KeysUnique(execs) /\ task[i].ex \in Execution
      /\ task[i].ex.job \in JobNames
  BY RunFacts, IInvFacts DEF TraceSteps, RunInv, IInv, Execution
<1>2. PICK es : es = setExecutionTx(execs, task[i].ex)
  OBVIOUS
<1>3. es \in SUBSET Execution /\ KeysUnique(es)
  BY <1>1, <1>2, SetExecutionTxKeys
<1>4. \A e \in es : e \in execs \/ e = task[i].ex
  BY <1>2 DEF setExecutionTx, Put
<1>5. \A e \in es : Traced(e)
  BY <1>4 DEF TraceSteps, AllTraced, Made
<1>6. Trimmed(es, task[i].ex.job) = {es}
  BY <1>1, <1>3, <1>5, RoomForAll
<1>. QED BY <1>2, <1>6 DEF applySetExecution, SetExecution

\* What is stored stays, or is replaced by a later version.
LEMMA SafeKept ==
    ASSUME RunInv, NEW x \in Execution, execs' = execs \/ execs' = setExecutionTx(execs, x),
           NEW e \in Execution, Safe(e)
    PROVE  \E y \in execs' : Key(y) = Key(e) /\ y.finishedAt >= e.finishedAt
<1>1. /\ execs \in SUBSET Execution
      /\ \A d \in Execution : d.finishedAt \in Nat
  BY IInvFacts DEF RunInv, Execution, Time
<1>2. PICK y \in execs : Key(y) = Key(e) /\ y.finishedAt >= e.finishedAt
  BY DEF Safe
<1>3. CASE execs' = execs \/ Superseded(execs, x)
  BY <1>2, <1>3 DEF setExecutionTx
<1>4. CASE execs' = (execs \ Same(execs, x)) \cup {x} /\ ~Superseded(execs, x)
  <2>1. CASE Key(y) = Key(x)
    <3>1. ~(y.finishedAt > x.finishedAt)
      BY <1>2, <1>4, <2>1 DEF Superseded, Same
    <3>2. x.finishedAt >= e.finishedAt
      BY <1>1, <1>2, <3>1
    <3>. QED BY <1>2, <1>4, <2>1, <3>2
  <2>2. CASE Key(y) # Key(x)
    BY <1>2, <1>4, <2>2 DEF Same
  <2>. QED BY <2>1, <2>2
<1>. QED BY <1>3, <1>4 DEF setExecutionTx, Put

\* ExecutionDone secures the result of a job that is stored.
LEMMA DoneSecures ==
    ASSUME RunInv, NEW e \in Execution, applyExecutionDone(e), Stored(jobs, e.job)
    PROVE  /\ execs' = execs \/ execs' = setExecutionTx(execs, e)
           /\ \E y \in execs' : Key(y) = Key(e) /\ y.finishedAt >= e.finishedAt
<1>1. /\ execs \in SUBSET Execution
      /\ \A d \in Execution : d.finishedAt \in Nat
  BY IInvFacts DEF RunInv, Execution, Time
<1>2. CASE Superseded(execs, e) /\ execs' = execs
  <2>1. PICK y \in execs : Key(y) = Key(e) /\ y.finishedAt > e.finishedAt
    BY <1>2 DEF Superseded, Same
  <2>. QED BY <1>1, <1>2, <2>1
<1>3. CASE ~Superseded(execs, e) /\ execs' = setExecutionTx(execs, e)
  <2>1. e \in execs'
    BY <1>3 DEF setExecutionTx, Put
  <2>. QED BY <1>1, <1>3, <2>1
<1>. QED BY <1>2, <1>3 DEF applyExecutionDone

\* The instants of the commands that started: each started at an instant of
\* its own.
Timed ==
    /\ now > 0
    /\ \A k \in Cmds : Started(k) =>
          /\ cmd[k].ex.startedAt \in 1..(now - 1) /\ cmd[k].ex.finishedAt < now
          /\ cmd[k].st = "running" => ~cmd[k].ex.success
    /\ \A k, l \in Cmds :
          Started(k) /\ Started(l) /\ cmd[k].ex.startedAt = cmd[l].ex.startedAt => k = l

\* A version of an execution says success only if it is what the command ended
\* with.
Genuine(e) ==
    /\ e.startedAt < now /\ e.finishedAt < now
    /\ \A k \in Cmds : Started(k) /\ Key(e) = Key(cmd[k].ex) =>
          (e.success <=> cmd[k].ex.success /\ e.finishedAt = cmd[k].ex.finishedAt)

GenuineNext(e) ==
    /\ e.startedAt < now' /\ e.finishedAt < now'
    /\ \A k \in Cmds : cmd'[k].sent > 0 /\ Key(e) = Key(cmd'[k].ex) =>
          (e.success <=> cmd'[k].ex.success /\ e.finishedAt = cmd'[k].ex.finishedAt)

\* So are all versions that are stored or travel; a request is no success.
AllGenuine ==
    /\ \A e \in execs : Genuine(e)
    /\ \A i \in Tasks : Made(i) =>
          Genuine(task[i].ex) /\ Genuine(task[i].req) /\ ~task[i].req.success
    /\ \A c \in CallIds : call[c].st # "none" => Genuine(call[c].ex)
    /\ \A c \in CallIds : call[c].st = "retry" => ~call[c].ex.success

\* Before the first message arrives, the command is younger than the request.
Unheard ==
    \A i \in Tasks :
        /\ task[i].st = "first" => task[i].got # 0
        /\ task[i].st = "recv" /\ task[i].got = 0 /\ Started(CmdOf(i))
              /\ cmd[CmdOf(i)].ex.success =>
                 cmd[CmdOf(i)].ex.finishedAt # task[i].req.finishedAt

\* A node reports what its command ended with, over a stream that broke.
Reporting ==
    \A k \in Cmds :
        /\ cmd[k].st = "fallback" => ~cmd[k].open
        /\ call[k].st # "none" =>
              /\ Started(k) /\ cmd[k].st = "over" /\ ~cmd[k].open
              /\ call[k].ex = cmd[k].ex

\* What a step may do to a command: leave it, start it or end it.
CmdStays(k) == cmd'[k].sent > 0 => /\ Started(k) /\ cmd'[k].ex = cmd[k].ex
                                   /\ cmd'[k].st = "running" => cmd[k].st = "running"

CmdStarts(k) ==
    /\ ~Started(k) /\ now' = now + 1
    /\ cmd'[k].ex.startedAt = now /\ ~cmd'[k].ex.success /\ cmd'[k].ex.finishedAt < now

CmdEnds(k) ==
    /\ cmd[k].st = "running" /\ cmd'[k].st # "running" /\ now' = now + 1
    /\ Key(cmd'[k].ex) = Key(cmd[k].ex) /\ cmd'[k].ex.finishedAt = now

CmdsGo ==
    /\ now' \in {now, now + 1}
    /\ \/ \A k \in Cmds : CmdStays(k)
       \/ \E k \in Cmds : /\ CmdStarts(k) \/ CmdEnds(k)
                          /\ \A l \in Cmds \ {k} : CmdStays(l)

\* What the steps below start from.
GenuineSteps ==
    RunInv /\ ActiveInv /\ Begun /\ OnceInv /\ Lineage /\ Timed /\ AllGenuine /\ Unheard /\ Reporting

\* Every step.
LEMMA CmdsGone ==
    ASSUME GenuineSteps, [RunsNext]_allVars
    PROVE  CmdsGo
<1>1. /\ task \in [Tasks -> Task] /\ cmd \in [Cmds -> Cmd] /\ now \in Nat /\ RunInv /\ Begun /\ OnceInv
      /\ \A i \in Tasks : task[i] \in Task /\ CmdOf(i) \in Cmds /\ task[i].req \in Execution
      /\ \A i \in Tasks : <<CmdOf(i)[1], CmdOf(i)[2]>> = i
      /\ \A k \in Cmds : cmd[k] \in Cmd /\ cmd[k].ex \in Execution
  BY RunFacts, CmdOfType DEF GenuineSteps, RunInv, RunsTypeOK
<1>2. ASSUME \A k \in Cmds : /\ cmd'[k].ex = cmd[k].ex /\ cmd'[k].sent = cmd[k].sent
                             /\ cmd'[k].st = "running" => cmd[k].st = "running"
      PROVE  \A k \in Cmds : CmdStays(k)
  BY <1>2 DEF CmdStays, Started
<1>3. ASSUME UNCHANGED cmd, now' \in {now, now + 1}
      PROVE  CmdsGo
  BY <1>2, <1>3 DEF CmdsGo
<1>4. ASSUME NEW n \in JobNames, Fire(n)
      PROVE  CmdsGo
  BY <1>3, <1>4 DEF Fire, Run
<1>5. ASSUME NEW c \in CallIds, CallStep(c)
      PROVE  CmdsGo
  BY <1>3, <1>5, CallRuns DEF Run
<1>6. ASSUME NEW i \in Tasks, DialFails(i) \/ RecvFirst(i) \/ RecvFinal(i) \/ RecvEOF(i)
                                 \/ RecvError(i) \/ DoneReturns(i)
      PROVE  CmdsGo
  BY <1>3, <1>6 DEF DialFails, RecvFirst, RecvFinal, RecvEOF, RecvError, DoneReturns
<1>7. ASSUME NEW i \in Tasks, task[i].st = "dial"
      PROVE  ~Started(CmdOf(i))
  BY <1>1, <1>7 DEF OnceInv, LastTry
<1>8. ASSUME NEW i \in Tasks, Dispatch(i)
      PROVE  CmdsGo
  <2>1. PICK e : e = [task[i].req EXCEPT !.startedAt = now, !.node = i[2]]
    OBVIOUS
  <2>2. e.startedAt = now /\ e.success = task[i].req.success /\ e.finishedAt = task[i].req.finishedAt
    BY <1>1, <2>1 DEF Execution
  <2>3. ~task[i].req.success /\ task[i].req.finishedAt < now
    BY <1>8 DEF Dispatch, Made, GenuineSteps, AllGenuine, Genuine
  <2>4. cmd'[CmdOf(i)].ex = e /\ now' = now + 1 /\ \A k \in Cmds \ {CmdOf(i)} : cmd'[k] = cmd[k]
    BY <1>1, <1>8, <2>1 DEF Dispatch
  <2>5. CmdStarts(CmdOf(i))
    BY <1>7, <1>8, <2>2, <2>3, <2>4 DEF CmdStarts, Dispatch
  <2>6. \A k \in Cmds \ {CmdOf(i)} : CmdStays(k)
    BY <2>4 DEF CmdStays, Started
  <2>. QED BY <1>1, <2>4, <2>5, <2>6 DEF CmdsGo
<1>9. ASSUME NEW i \in Tasks, Refuse(i)
      PROVE  CmdsGo
  <2>1. cmd'[CmdOf(i)].sent = 0 /\ now' = now /\ \A k \in Cmds \ {CmdOf(i)} : cmd'[k] = cmd[k]
    BY <1>1, <1>9 DEF Refuse, NoCmd
  <2>2. \A k \in Cmds : CmdStays(k)
    BY <2>1 DEF CmdStays, Started
  <2>. QED BY <2>1, <2>2 DEF CmdsGo
<1>10. ASSUME NEW i \in Tasks, CallSetExecution(i)
       PROVE  CmdsGo
  <2>1. now' = now
    BY <1>10 DEF CallSetExecution
  <2>2. CASE UNCHANGED cmd
    BY <1>3, <2>1, <2>2
  <2>3. CASE cmd' = [cmd EXCEPT ![CmdOf(i)].open = FALSE]
    <3>1. \A k \in Cmds : /\ cmd'[k].ex = cmd[k].ex /\ cmd'[k].sent = cmd[k].sent
                          /\ cmd'[k].st = cmd[k].st
      BY <1>1, <2>3 DEF Cmd
    <3>. QED BY <1>2, <2>1, <3>1 DEF CmdsGo
  <2>. QED BY <1>10, <2>2, <2>3 DEF CallSetExecution
<1>11. ASSUME NEW k \in Cmds, NEW ok \in BOOLEAN, Finish(k, ok)
       PROVE  CmdsGo
  <2>1. PICK e : e = [cmd[k].ex EXCEPT !.finishedAt = now, !.success = ok]
    OBVIOUS
  <2>2. Key(e) = Key(cmd[k].ex) /\ e.finishedAt = now
    BY <1>1, <2>1 DEF Key, Execution
  <2>3. /\ cmd'[k].ex = e /\ cmd'[k].st # "running" /\ now' = now + 1 /\ cmd[k].st = "running"
        /\ \A l \in Cmds \ {k} : cmd'[l] = cmd[l]
    BY <1>1, <1>11, <2>1 DEF Finish, Cmd
  <2>4. CmdEnds(k)
    BY <2>2, <2>3 DEF CmdEnds
  <2>5. \A l \in Cmds \ {k} : CmdStays(l)
    BY <2>3 DEF CmdStays, Started
  <2>. QED BY <2>3, <2>4, <2>5 DEF CmdsGo
<1>12. ASSUME NEW k \in Cmds, Fallback(k) \/ BreakStream(k)
       PROVE  CmdsGo
  <2>1. /\ now' = now
        /\ cmd' = [cmd EXCEPT ![k].st = "over"] \/ cmd' = [cmd EXCEPT ![k].open = FALSE]
    BY <1>12 DEF Fallback, BreakStream
  <2>2. \A l \in Cmds : /\ cmd'[l].ex = cmd[l].ex /\ cmd'[l].sent = cmd[l].sent
                        /\ cmd'[l].st = "running" => cmd[l].st = "running"
    BY <1>1, <2>1 DEF Cmd
  <2>. QED BY <1>2, <2>1, <2>2 DEF CmdsGo
<1>13. CASE (\E s \in Servers : Crash(s)) \/ (\E n \in RunNodes : NodeCrash(n))
  <2>1. \A k \in Cmds : \/ cmd'[k] = cmd[k] \/ cmd'[k] = [cmd[k] EXCEPT !.open = FALSE]
                        \/ cmd'[k] = [cmd[k] EXCEPT !.st = "over", !.open = FALSE]
    BY <1>13 DEF Crash, NodeCrash
  <2>2. \A l \in Cmds : /\ cmd'[l].ex = cmd[l].ex /\ cmd'[l].sent = cmd[l].sent
                        /\ cmd'[l].st = "running" => cmd[l].st = "running"
    BY <1>1, <2>1 DEF Cmd
  <2>3. now' = now
    BY <1>13 DEF Crash, NodeCrash
  <2>. QED BY <1>2, <2>2, <2>3 DEF CmdsGo
<1>14. CASE (\E s \in Servers : Elect(s)) \/ StepDown \/ UNCHANGED allVars
  BY <1>3, <1>14 DEF Elect, StepDown, allVars, runVars
<1>. QED BY <1>4, <1>5, <1>6, <1>8, <1>9, <1>10, <1>11, <1>12, <1>13, <1>14
         DEF RunsNext, TaskStep, CmdStep, Fault

\* Starts stay apart.
LEMMA TimedStep ==
    ASSUME GenuineSteps, CmdsGo, RunInv'
    PROVE  Timed'
<1>1. /\ now \in Nat /\ now > 0 /\ now' \in Nat /\ now' >= now
      /\ \A k \in Cmds : cmd[k].ex \in Execution /\ cmd[k].ex.startedAt \in Nat
                          /\ cmd[k].ex.finishedAt \in Nat
  BY RunFacts DEF GenuineSteps, Timed, CmdsGo, Execution, Time
<1>2. ASSUME NEW k \in Cmds, cmd'[k].sent > 0
      PROVE  \/ Started(k) /\ cmd'[k].ex.startedAt = cmd[k].ex.startedAt
             \/ ~Started(k) /\ cmd'[k].ex.startedAt = now /\ now' = now + 1
  <2>1. CASE CmdStays(k)
    BY <1>2, <2>1 DEF CmdStays
  <2>2. CASE CmdStarts(k)
    BY <2>2 DEF CmdStarts
  <2>3. CASE CmdEnds(k)
    BY <2>3, KeyStart DEF CmdEnds, GenuineSteps, Begun, Started
  <2>. QED BY <2>1, <2>2, <2>3 DEF CmdsGo
<1>3. ASSUME NEW k \in Cmds, cmd'[k].sent > 0
      PROVE  /\ cmd'[k].ex.startedAt \in 1..(now' - 1) /\ cmd'[k].ex.finishedAt < now'
             /\ cmd'[k].st = "running" => ~cmd'[k].ex.success
  <2>1. Started(k) => cmd[k].ex.startedAt \in 1..(now - 1) /\ cmd[k].ex.finishedAt < now
                      /\ (cmd[k].st = "running" => ~cmd[k].ex.success)
    BY DEF GenuineSteps, Timed
  <2>2. cmd'[k].ex.startedAt \in 1..(now' - 1)
    BY <1>1, <1>2, <1>3, <2>1
  <2>3. CASE CmdStays(k)
    BY <1>1, <1>3, <2>1, <2>2, <2>3 DEF CmdStays
  <2>4. CASE CmdStarts(k)
    <3>1. cmd'[k].ex.finishedAt \in Nat
      BY DEF RunInv, RunsTypeOK, Cmd, Execution, Time
    <3>. QED BY <1>1, <2>2, <2>4, <3>1 DEF CmdStarts
  <2>5. CASE CmdEnds(k)
    BY <1>1, <2>2, <2>5 DEF CmdEnds
  <2>. QED BY <2>3, <2>4, <2>5 DEF CmdsGo
<1>4. ASSUME NEW k \in Cmds, NEW l \in Cmds, cmd'[k].sent > 0, cmd'[l].sent > 0,
             cmd'[k].ex.startedAt = cmd'[l].ex.startedAt
      PROVE  k = l
  <2>1. \A j \in Cmds : Started(j) => cmd[j].ex.startedAt < now
    BY <1>1 DEF GenuineSteps, Timed
  <2>2. CASE Started(k) /\ Started(l)
    BY <1>2, <1>4, <2>2 DEF GenuineSteps, Timed
  <2>3. CASE ~Started(k) /\ ~Started(l)
    <3>1. ~CmdStays(k) /\ ~CmdStays(l)
      BY <1>4, <2>3 DEF CmdStays
    <3>. QED BY <3>1 DEF CmdsGo
  <2>. QED BY <1>1, <1>2, <1>4, <2>1, <2>2, <2>3
<1>. QED BY <1>1, <1>3, <1>4 DEF Timed, Started

\* A version stays genuine: what starts is younger, and what ends was no success
\* before.
LEMMA GenuineKept ==
    ASSUME GenuineSteps, CmdsGo, NEW e \in Execution, Genuine(e)
    PROVE  GenuineNext(e)
<1>1. /\ now \in Nat /\ now' \in Nat /\ now' >= now
      /\ e.startedAt \in Nat /\ e.finishedAt \in Nat /\ e.startedAt < now /\ e.finishedAt < now
  BY RunFacts DEF GenuineSteps, CmdsGo, Execution, Time, Genuine
<1>2. ASSUME NEW k \in Cmds, cmd'[k].sent > 0, Key(e) = Key(cmd'[k].ex)
      PROVE  e.success <=> cmd'[k].ex.success /\ e.finishedAt = cmd'[k].ex.finishedAt
  <2>1. CASE CmdStays(k)
    BY <1>2, <2>1 DEF CmdStays, Genuine
  <2>2. CASE CmdStarts(k)
    <3>1. e.startedAt = now
      BY <1>2, <2>2, KeyStart DEF CmdStarts
    <3>. QED BY <1>1, <3>1
  <2>3. CASE CmdEnds(k)
    <3>1. Started(k) /\ Key(e) = Key(cmd[k].ex)
      BY <1>2, <2>3 DEF CmdEnds, GenuineSteps, Begun, Started
    <3>2. ~cmd[k].ex.success
      BY <2>3, <3>1 DEF CmdEnds, GenuineSteps, Timed
    <3>3. ~e.success
      BY <3>1, <3>2 DEF Genuine
    <3>4. cmd'[k].ex.finishedAt = now
      BY <2>3 DEF CmdEnds
    <3>. QED BY <1>1, <3>3, <3>4
  <2>. QED BY <2>1, <2>2, <2>3 DEF CmdsGo
<1>. QED BY <1>1, <1>2 DEF GenuineNext

\* What a step passes on is genuine.
LEMMA SourcesGenuine ==
    ASSUME GenuineSteps, CmdsGo, NEW e \in Execution, Source(e)
    PROVE  GenuineNext(e)
<1>1. /\ RunInv /\ now \in Nat /\ now > 0 /\ Timed /\ AllGenuine
      /\ \A i \in Tasks : /\ CmdOf(i) \in Cmds /\ task[i].ex \in Execution /\ task[i].req \in Execution
                          /\ cmd[CmdOf(i)].ex \in Execution
      /\ \A k \in Cmds : cmd[k].ex \in Execution
      /\ \A c \in CallIds : call[c].ex \in Execution
  BY RunFacts DEF GenuineSteps, Timed
<1>2. ASSUME NEW k \in Cmds, NEW l \in Cmds, Started(k), Started(l),
             Key(cmd[k].ex) = Key(cmd[l].ex)
      PROVE  k = l
  BY <1>1, <1>2, KeyStart DEF Timed
<1>3. ASSUME NEW d \in JobNames, e = NewExecution(d)
      PROVE  Genuine(e)
  <2>1. e.startedAt = Never /\ e.finishedAt = Never /\ Never = 0
    BY <1>3 DEF NewExecution, NoExec, Never
  <2>2. \A k \in Cmds : Started(k) => Key(e) # Key(cmd[k].ex)
    BY <1>1, <2>1, KeyStart DEF Timed
  <2>. QED BY <1>1, <2>1, <2>2 DEF Genuine
<1>4. ASSUME NEW c \in CallIds, call[c].st = "retry", e = NextAttempt(call[c].ex)
      PROVE  Genuine(e)
  <2>1. /\ Key(e) = Key(call[c].ex) /\ e.success = call[c].ex.success
        /\ e.startedAt = call[c].ex.startedAt /\ e.finishedAt = call[c].ex.finishedAt
    BY <1>1, <1>4 DEF NextAttempt, Key, Execution
  <2>2. Genuine(call[c].ex)
    BY <1>1, <1>4 DEF AllGenuine
  <2>. QED BY <2>1, <2>2 DEF Genuine
<1>5. ASSUME NEW i \in Tasks, task[i].st = "recv", task[i].got = 0, Started(CmdOf(i)), e = FirstOf(i)
      PROVE  Genuine(e)
  <2>1. /\ Key(e) = Key(cmd[CmdOf(i)].ex) /\ ~e.success /\ e.finishedAt = task[i].req.finishedAt
        /\ e.startedAt = cmd[CmdOf(i)].ex.startedAt
    BY <1>1, <1>5 DEF FirstOf, Key, Execution
  <2>2. Genuine(task[i].req) /\ cmd[CmdOf(i)].ex.startedAt \in 1..(now - 1)
    BY <1>1, <1>5 DEF AllGenuine, Made, Timed
  <2>3. cmd[CmdOf(i)].ex.success => cmd[CmdOf(i)].ex.finishedAt # e.finishedAt
    BY <1>5, <2>1 DEF GenuineSteps, Unheard
  <2>4. \A k \in Cmds : Started(k) /\ Key(e) = Key(cmd[k].ex) => k = CmdOf(i)
    BY <1>1, <1>2, <1>5, <2>1
  <2>5. e.startedAt < now /\ e.finishedAt < now
    BY <1>1, <2>1, <2>2 DEF Genuine
  <2>. QED BY <2>1, <2>3, <2>4, <2>5 DEF Genuine
<1>6. ASSUME NEW i \in Tasks, Made(i), UNCHANGED cmd, now' = now + 1, e = MadeUp(i)
      PROVE  GenuineNext(e)
  <2>1. /\ Key(e) = Key(task[i].ex) /\ ~e.success /\ e.finishedAt = now
        /\ e.startedAt = task[i].ex.startedAt /\ e.startedAt \in Nat
    BY <1>1, <1>6 DEF MadeUp, Key, Execution, Time
  <2>2. e.startedAt < now
    BY <1>1, <1>6, <2>1 DEF AllGenuine, Genuine
  <2>3. \A k \in Cmds : Started(k) => cmd[k].ex.finishedAt < now
    BY <1>1 DEF Timed
  <2>4. \A k \in Cmds : cmd[k].ex.finishedAt \in Nat
    BY <1>1 DEF Execution, Time
  <2>5. \A k \in Cmds : Started(k) => cmd[k].ex.finishedAt # e.finishedAt
    BY <1>1, <2>1, <2>3, <2>4
  <2>6. e.startedAt < now' /\ e.finishedAt < now'
    BY <1>1, <1>6, <2>1, <2>2
  <2>. QED BY <1>6, <2>1, <2>5, <2>6 DEF GenuineNext, Started
<1>7. ASSUME NEW k \in Cmds, Started(k), e = cmd[k].ex
      PROVE  Genuine(e)
  <2>1. e.startedAt < now /\ e.finishedAt < now
    BY <1>1, <1>7 DEF Timed, Execution, Time
  <2>. QED BY <1>2, <1>7, <2>1 DEF Genuine
<1>8. CASE \/ \E i \in Tasks : Made(i) /\ e \in {task[i].ex, task[i].req}
           \/ \E c \in CallIds : call[c].st # "none" /\ e = call[c].ex
  BY <1>1, <1>8, GenuineKept DEF AllGenuine
<1>. QED BY <1>3, <1>4, <1>5, <1>6, <1>7, <1>8, GenuineKept, Zenon DEF Source

\* Every step.
LEMMA GenuineStep ==
    ASSUME GenuineSteps, RunInv', CmdsGo, [RunsNext]_allVars
    PROVE  AllGenuine'
<1>1. /\ RunInv /\ AllGenuine /\ FlowSteps
  BY DEF GenuineSteps, AllGenuine, FlowSteps
<1>2. /\ execs' \subseteq Execution
      /\ \A i \in Tasks : task'[i].ex \in Execution /\ task'[i].req \in Execution
      /\ \A c \in CallIds : call'[c].ex \in Execution
  BY DEF RunInv, RunsTypeOK, IInv, TypeOK, Task, Call
<1>3. /\ \A i \in Tasks : Supplied(i)
      /\ \A c \in CallIds : call'[c].st # "none" => Source(call'[c].ex)
  BY <1>1, FlowStep
<1>4. \A e \in execs' : GenuineNext(e)
  <2> SUFFICES ASSUME NEW e \in execs'
               PROVE  GenuineNext(e)
    OBVIOUS
  <2>1. Genuine(e)
    BY <1>1, ExecsFrom DEF AllGenuine, Made
  <2>. QED BY <1>2, <2>1, GenuineKept
<1>5. \A i \in Tasks : task'[i].st # "none" =>
          GenuineNext(task'[i].ex) /\ GenuineNext(task'[i].req) /\ ~task'[i].req.success
  BY <1>1, <1>2, <1>3, SourcesGenuine DEF Supplied, AllGenuine
<1>6. \A c \in CallIds : call'[c].st # "none" => GenuineNext(call'[c].ex)
  BY <1>2, <1>3, SourcesGenuine
<1>7. \A c \in CallIds : call'[c].st = "retry" => ~call'[c].ex.success
  BY <1>1, RetryDecided DEF AllGenuine
<1>. QED BY <1>4, <1>5, <1>6, <1>7 DEF AllGenuine, Genuine, GenuineNext, Made, Started

\* Only a dispatch makes a goroutine wait for its first message.
AwaitsFirst(i) ==
    \/ task'[i] = task[i]
    \/ task'[i].st \notin {"recv", "first"} \/ task'[i].got # 0
    \/ task'[i].st = "recv" /\ (Dispatch(i) \/ Refuse(i))

LEMMA AwaitStep ==
    ASSUME GenuineSteps, [RunsNext]_allVars
    PROVE  \A i \in Tasks : AwaitsFirst(i)
<1>1. /\ task \in [Tasks -> Task] /\ RunInv /\ ActiveInv /\ Unheard
      /\ \A i \in Tasks : task[i] \in Task
  BY RunFacts DEF GenuineSteps, RunInv, RunsTypeOK
<1>2. ASSUME UNCHANGED task
      PROVE  \A i \in Tasks : AwaitsFirst(i)
  BY <1>2 DEF AwaitsFirst
<1>3. ASSUME NEW s, NEW ex, NEW targets, NEW by, Run(s, ex, targets, by)
      PROVE  \A i \in Tasks : AwaitsFirst(i)
  BY <1>1, <1>3, RunMakes DEF AwaitsFirst
<1>4. ASSUME NEW i \in Tasks, TaskStep(i) \/ Refuse(i)
      PROVE  \A j \in Tasks : AwaitsFirst(j)
  <2>1. \A j \in Tasks \ {i} : task'[j] = task[j]
    BY <1>1, <1>4 DEF TaskStep, DialFails, Dispatch, RecvFirst, CallSetExecution, RecvFinal,
                      RecvEOF, RecvError, DoneReturns, Refuse, AttemptFails
  <2>2. ASSUME NEW retryable, AttemptFails(i, retryable)
        PROVE  AwaitsFirst(i)
    <3>1. PICK t \in Task :
             /\ task' = [task EXCEPT ![i] = t]
             /\ \/ t = [task[i] EXCEPT !.st = "closed"]
                \/ t = [task[i] EXCEPT !.st = "dial", !.try = task[i].try + 1, !.got = 0,
                                       !.ex = task[i].req]
      BY <1>1, <2>2, AttemptTypes
    <3>2. t.st \notin {"recv", "first"} /\ task'[i] = t
      BY <1>1, <3>1 DEF Task
    <3>. QED BY <3>2 DEF AwaitsFirst
  <2>3. CASE Dispatch(i) \/ Refuse(i)
    BY <1>1, <2>3 DEF Dispatch, Refuse, AwaitsFirst, Task
  <2>4. CASE RecvFirst(i)
    BY <1>1, <2>4 DEF RecvFirst, AwaitsFirst, Task
  <2>5. CASE RecvFinal(i)
    BY <1>1, <2>5 DEF RecvFinal, AwaitsFirst, Task
  <2>6. CASE RecvEOF(i) \/ RecvError(i)
    BY <1>1, <2>6 DEF RecvEOF, RecvError, AwaitsFirst, Task
  <2>7. CASE CallSetExecution(i)
    <3>1. CASE task' = [task EXCEPT ![i].st = "recv"]
      <4>1. task[i].got # 0
        BY <1>1, <2>7 DEF CallSetExecution, Unheard
      <4>. QED BY <1>1, <3>1, <4>1 DEF AwaitsFirst, Task
    <3>2. CASE AttemptFails(i, TRUE)
      BY <2>1, <2>2, <3>2 DEF AwaitsFirst
    <3>. QED BY <2>7, <3>1, <3>2, Zenon DEF CallSetExecution
  <2>8. AwaitsFirst(i)
    BY <1>4, <2>2, <2>3, <2>4, <2>5, <2>6, <2>7 DEF TaskStep, DialFails, DoneReturns
  <2>. QED BY <2>1, <2>8 DEF AwaitsFirst
<1>5. ASSUME NEW s \in Servers, Crash(s)
      PROVE  \A i \in Tasks : AwaitsFirst(i)
  <2>1. \A i \in Tasks : task'[i] = task[i] \/ task'[i].st = "closed"
    BY <1>1, <1>5 DEF Crash, Task
  <2>. QED BY <2>1 DEF AwaitsFirst
<1>6. ASSUME NEW k \in Cmds, CmdStep(k)
      PROVE  UNCHANGED task
  BY <1>6 DEF CmdStep, Finish, Fallback
<1>7. ASSUME NEW c \in CallIds, CallStep(c)
      PROVE  \A i \in Tasks : AwaitsFirst(i)
  BY <1>2, <1>3, <1>7, CallRuns
<1>8. ASSUME NEW n \in JobNames, Fire(n)
      PROVE  \A i \in Tasks : AwaitsFirst(i)
  BY <1>3, <1>8 DEF Fire
<1>9. CASE (\E s \in Servers : Elect(s)) \/ UNCHANGED allVars
  BY <1>2, <1>9 DEF Elect, allVars, runVars
<1>10. CASE Fault
  BY <1>2, <1>4, <1>5, <1>10 DEF Fault, BreakStream, StepDown, NodeCrash
<1>. QED BY <1>2, <1>4, <1>6, <1>7, <1>8, <1>9, <1>10 DEF RunsNext

\* So the first message stays ahead of the result.
LEMMA UnheardStep ==
    ASSUME GenuineSteps, CmdsGo, [RunsNext]_allVars
    PROVE  Unheard'
<1> SUFFICES ASSUME NEW i \in Tasks
             PROVE  /\ task'[i].st = "first" => task'[i].got # 0
                    /\ task'[i].st = "recv" /\ task'[i].got = 0 /\ cmd'[CmdOf(i)'].sent > 0
                          /\ cmd'[CmdOf(i)'].ex.success =>
                             cmd'[CmdOf(i)'].ex.finishedAt # task'[i].req.finishedAt
  BY DEF Unheard, Started
<1>1. /\ task \in [Tasks -> Task] /\ cmd \in [Cmds -> Cmd] /\ now \in Nat /\ CmdOf(i) \in Cmds
      /\ task[i] \in Task /\ task[i].req \in Execution /\ AllGenuine /\ Unheard
  BY RunFacts DEF GenuineSteps, RunInv, RunsTypeOK
<1>2. AwaitsFirst(i)
  BY AwaitStep
<1>3. CASE task'[i] = task[i]
  <2>1. CmdOf(i)' = CmdOf(i)
    BY <1>3 DEF CmdOf
  <2>2. ASSUME task[i].st = "recv", task[i].got = 0, cmd'[CmdOf(i)].sent > 0,
               cmd'[CmdOf(i)].ex.success
        PROVE  cmd'[CmdOf(i)].ex.finishedAt # task[i].req.finishedAt
    <3>1. CASE CmdStays(CmdOf(i))
      BY <1>1, <2>2, <3>1 DEF CmdStays, Unheard
    <3>2. CASE CmdStarts(CmdOf(i))
      BY <2>2, <3>2 DEF CmdStarts
    <3>3. CASE CmdEnds(CmdOf(i))
      <4>1. Genuine(task[i].req) /\ task[i].req.finishedAt \in Nat
        BY <1>1, <2>2 DEF AllGenuine, Made, Execution, Time
      <4>2. task[i].req.finishedAt < now /\ cmd'[CmdOf(i)].ex.finishedAt = now
        BY <3>3, <4>1 DEF Genuine, CmdEnds
      <4>. QED BY <1>1, <4>1, <4>2
    <3>. QED BY <1>1, <3>1, <3>2, <3>3 DEF CmdsGo
  <2>. QED BY <1>1, <1>3, <2>1, <2>2 DEF Unheard
<1>4. CASE task'[i].st = "recv" /\ Refuse(i)
  <2>1. CmdOf(i)' = CmdOf(i)
    BY <1>1, <1>4 DEF Refuse, CmdOf, Task
  <2>2. cmd'[CmdOf(i)].sent = 0
    BY <1>1, <1>4 DEF Refuse, NoCmd
  <2>. QED BY <1>4, <2>1, <2>2
<1>5. CASE task'[i].st = "recv" /\ Dispatch(i)
  <2>1. CmdOf(i)' = CmdOf(i)
    BY <1>1, <1>5 DEF Dispatch, CmdOf, Task
  <2>2. ~task[i].req.success
    BY <1>1, <1>5 DEF Dispatch, AllGenuine, Made
  <2>3. PICK e : e = [task[i].req EXCEPT !.startedAt = now, !.node = i[2]]
    OBVIOUS
  <2>4. cmd'[CmdOf(i)].ex = e
    BY <1>1, <1>5, <2>3 DEF Dispatch
  <2>5. ~e.success
    BY <1>1, <2>2, <2>3 DEF Execution
  <2>. QED BY <1>5, <2>1, <2>4, <2>5
<1>. QED BY <1>2, <1>3, <1>4, <1>5 DEF AwaitsFirst

\* A command that is over, with its stream, stays so; one that falls back has
\* lost its stream.
LEMMA OverStays ==
    ASSUME GenuineSteps, [RunsNext]_allVars, NEW k \in Cmds
    PROVE  /\ Started(k) /\ cmd[k].st = "over" /\ ~cmd[k].open =>
                 /\ cmd'[k].sent > 0 /\ cmd'[k].st = "over" /\ ~cmd'[k].open
                 /\ cmd'[k].ex = cmd[k].ex
           /\ cmd'[k].st = "fallback" => ~cmd'[k].open
<1> DEFINE Good == /\ Started(k) /\ cmd[k].st = "over" /\ ~cmd[k].open =>
                        /\ cmd'[k].sent > 0 /\ cmd'[k].st = "over" /\ ~cmd'[k].open
                        /\ cmd'[k].ex = cmd[k].ex
                   /\ cmd'[k].st = "fallback" => ~cmd'[k].open
<1>1. /\ cmd \in [Cmds -> Cmd] /\ cmd[k] \in Cmd /\ OnceInv /\ Reporting
      /\ \A i \in Tasks : CmdOf(i) \in Cmds /\ <<CmdOf(i)[1], CmdOf(i)[2]>> = i
  BY RunFacts, CmdOfType DEF GenuineSteps, RunInv, RunsTypeOK
<1>2. ASSUME \/ cmd'[k] = cmd[k] \/ cmd'[k] = [cmd[k] EXCEPT !.open = FALSE]
             \/ cmd'[k] = [cmd[k] EXCEPT !.st = "over"]
             \/ cmd'[k] = [cmd[k] EXCEPT !.st = "over", !.open = FALSE]
      PROVE  Good
  BY <1>1, <1>2 DEF Reporting, Started, Cmd
<1>3. ASSUME NEW i \in Tasks, Dispatch(i) \/ Refuse(i)
      PROVE  Good
  <2>1. CASE k = CmdOf(i)
    <3>1. ~Started(k)
      BY <1>1, <1>3, <2>1 DEF OnceInv, LastTry, Dispatch, Refuse
    <3>2. CASE Dispatch(i)
      <4>1. cmd'[k].st = "running"
        BY <1>1, <2>1, <3>2 DEF Dispatch
      <4>. QED BY <3>1, <4>1
    <3>3. CASE Refuse(i)
      <4>1. cmd'[k] = [NoCmd EXCEPT !.st = "over", !.open = FALSE]
        BY <1>1, <2>1, <3>3 DEF Refuse
      <4>2. cmd'[k].st = "over"
        BY <4>1 DEF NoCmd
      <4>. QED BY <3>1, <4>2
    <3>. QED BY <1>3, <3>2, <3>3
  <2>2. CASE k # CmdOf(i)
    <3>1. cmd'[k] = cmd[k]
      BY <1>1, <1>3, <2>2 DEF Dispatch, Refuse
    <3>. QED BY <1>2, <3>1
  <2>. QED BY <2>1, <2>2
<1>4. ASSUME NEW i \in Tasks, TaskStep(i), ~Dispatch(i)
      PROVE  Good
  <2>1. UNCHANGED cmd \/ cmd' = [cmd EXCEPT ![CmdOf(i)].open = FALSE]
    BY <1>4 DEF TaskStep, DialFails, RecvFirst, CallSetExecution, RecvFinal, RecvEOF, RecvError,
                DoneReturns
  <2>2. cmd'[k] = cmd[k] \/ cmd'[k] = [cmd[k] EXCEPT !.open = FALSE]
    BY <1>1, <2>1
  <2>. QED BY <1>2, <2>2
<1>5. ASSUME NEW l \in Cmds, NEW ok \in BOOLEAN, Finish(l, ok)
      PROVE  Good
  <2>1. CASE l = k
    <3>1. cmd[k].st = "running"
      BY <1>5, <2>1 DEF Finish
    <3>2. PICK e : e = [cmd[k].ex EXCEPT !.finishedAt = now, !.success = ok]
      OBVIOUS
    <3>3. cmd'[k] = [cmd[k] EXCEPT !.ex = e, !.st = IF cmd[k].open THEN "over" ELSE "fallback",
                                   !.sent = IF cmd[k].open THEN 2 ELSE cmd[k].sent]
      BY <1>1, <1>5, <2>1, <3>2 DEF Finish
    <3>4. cmd'[k].st = "fallback" => ~cmd'[k].open
      BY <1>1, <3>3 DEF Cmd
    <3>. QED BY <3>1, <3>4
  <2>2. CASE l # k
    <3>1. cmd'[k] = cmd[k]
      BY <1>1, <1>5, <2>2 DEF Finish
    <3>. QED BY <1>2, <3>1
  <2>. QED BY <2>1, <2>2
<1>6. ASSUME NEW l \in Cmds, Fallback(l) \/ BreakStream(l)
      PROVE  Good
  <2>1. cmd' = [cmd EXCEPT ![l].st = "over"] \/ cmd' = [cmd EXCEPT ![l].open = FALSE]
    BY <1>6 DEF Fallback, BreakStream
  <2>2. \/ cmd'[k] = cmd[k] \/ cmd'[k] = [cmd[k] EXCEPT !.open = FALSE]
        \/ cmd'[k] = [cmd[k] EXCEPT !.st = "over"]
    BY <1>1, <2>1
  <2>. QED BY <1>2, <2>2
<1>7. CASE (\E s \in Servers : Crash(s)) \/ (\E n \in RunNodes : NodeCrash(n))
  <2>1. \/ cmd'[k] = cmd[k] \/ cmd'[k] = [cmd[k] EXCEPT !.open = FALSE]
        \/ cmd'[k] = [cmd[k] EXCEPT !.st = "over", !.open = FALSE]
    BY <1>7 DEF Crash, NodeCrash
  <2>. QED BY <1>2, <2>1
<1>8. ASSUME NEW c \in CallIds, CallStep(c)
      PROVE  UNCHANGED cmd
  BY <1>8, CallRuns
<1>9. CASE (\E n \in JobNames : Fire(n)) \/ (\E s \in Servers : Elect(s)) \/ StepDown
           \/ UNCHANGED allVars
  BY <1>2, <1>9 DEF Fire, Elect, StepDown, allVars, runVars
<1>10. Good
  BY <1>2, <1>3, <1>4, <1>5, <1>6, <1>7, <1>8, <1>9 DEF RunsNext, CmdStep, Fault
<1>. QED BY <1>10

\* A node reports only by the fallback of its command.
LEMMA ReportsFrom ==
    ASSUME RunInv, [RunsNext]_allVars, NEW k \in Cmds, call'[k].st # "none"
    PROVE  (call[k].st # "none" /\ call'[k].ex = call[k].ex) \/ Fallback(k)
<1>1. call \in [CallIds -> Call] /\ k \in CallIds /\ call[k] \in Call /\ \A i \in Tasks : i # k
  BY RunFacts, TasksAreNotCmds DEF RunInv, RunsTypeOK
<1>2. CASE call'[k] = call[k]
  BY <1>2
<1>3. ASSUME NEW i \in Tasks, TaskStep(i)
      PROVE  call'[k] = call[k]
  BY <1>1, <1>3 DEF TaskStep, DialFails, Dispatch, RecvFirst, CallSetExecution, RecvFinal, RecvEOF,
                    RecvError, DoneReturns, SendDone
<1>4. ASSUME NEW l \in Cmds, CmdStep(l)
      PROVE  call'[k] = call[k] \/ Fallback(k)
  BY <1>1, <1>4 DEF CmdStep, Finish, Fallback
<1>5. ASSUME NEW c \in CallIds, CallStep(c)
      PROVE  call'[k] = call[k] \/ (call[k].st # "none" /\ call'[k].ex = call[k].ex)
  BY <1>1, <1>5, CallKeepsEx
<1>6. ASSUME NEW s \in Servers, Crash(s)
      PROVE  call'[k] = call[k] \/ (call[k].st # "none" /\ call'[k].ex = call[k].ex)
  BY <1>1, <1>6 DEF Crash, Call
<1>7. CASE \/ \E n \in JobNames : Fire(n)
           \/ \E s \in Servers : Elect(s)
           \/ \E i \in Tasks : Refuse(i)
           \/ \E l \in Cmds : BreakStream(l)
           \/ StepDown
           \/ \E n \in RunNodes : NodeCrash(n)
           \/ UNCHANGED allVars
  <2>1. UNCHANGED call
    BY <1>7 DEF Fire, Elect, Refuse, BreakStream, StepDown, NodeCrash, allVars, runVars
  <2>. QED BY <1>2, <2>1
<1>. QED BY <1>2, <1>3, <1>4, <1>5, <1>6, <1>7 DEF RunsNext, Fault

\* So a report carries what its command ended with.
LEMMA ReportingStep ==
    ASSUME GenuineSteps, [RunsNext]_allVars
    PROVE  Reporting'
<1> SUFFICES ASSUME NEW k \in Cmds
             PROVE  /\ cmd'[k].st = "fallback" => ~cmd'[k].open
                    /\ call'[k].st # "none" =>
                          /\ cmd'[k].sent > 0 /\ cmd'[k].st = "over" /\ ~cmd'[k].open
                          /\ call'[k].ex = cmd'[k].ex
  BY DEF Reporting, Started
<1>1. /\ cmd \in [Cmds -> Cmd] /\ cmd[k] \in Cmd /\ call \in [CallIds -> Call] /\ k \in CallIds
      /\ RunInv /\ Begun /\ Reporting
  BY RunFacts DEF GenuineSteps, RunInv, RunsTypeOK
<1>2. ASSUME call[k].st # "none", call'[k].ex = call[k].ex
      PROVE  /\ cmd'[k].sent > 0 /\ cmd'[k].st = "over" /\ ~cmd'[k].open
             /\ call'[k].ex = cmd'[k].ex
  <2>1. Started(k) /\ cmd[k].st = "over" /\ ~cmd[k].open /\ call[k].ex = cmd[k].ex
    BY <1>1, <1>2 DEF Reporting
  <2>. QED BY <1>2, <2>1, OverStays
<1>3. ASSUME Fallback(k), call[k].st = "none", call'[k].st # "none"
      PROVE  /\ cmd'[k].sent > 0 /\ cmd'[k].st = "over" /\ ~cmd'[k].open
             /\ call'[k].ex = cmd'[k].ex
  <2>1. PICK d : d = [cmd[k] EXCEPT !.st = "over"]
    OBVIOUS
  <2>2. d.sent = cmd[k].sent /\ d.st = "over" /\ d.open = cmd[k].open /\ d.ex = cmd[k].ex
    BY <1>1, <2>1 DEF Cmd
  <2>3. cmd'[k] = d
    BY <1>1, <1>3, <2>1 DEF Fallback
  <2>4. cmd[k].sent > 0 /\ ~cmd[k].open
    BY <1>1, <1>3 DEF Fallback, Begun, Reporting
  <2>5. call'[k].ex = cmd[k].ex
    BY <1>1, <1>3 DEF Fallback, IdleCall
  <2>. QED BY <2>2, <2>3, <2>4, <2>5
<1>4. cmd'[k].st = "fallback" => ~cmd'[k].open
  BY OverStays
<1>5. call'[k].st # "none" => (call[k].st # "none" /\ call'[k].ex = call[k].ex) \/ Fallback(k)
  BY <1>1, ReportsFrom
<1>6. Fallback(k) /\ call[k].st # "none" => FALSE
  BY <1>1 DEF Fallback, Reporting
<1>. QED BY <1>2, <1>3, <1>4, <1>5, <1>6

\* What the theorem asks of the constants: the leader stays, no job deletes
\* itself, and the store has room for the executions of all commands.
Calm ==
    /\ MaxStepDowns = 0 /\ MaxCrashes = 0
    /\ \A n \in JobNames : Stored(StoredJobs, n) => ~StoredJobs[n].config.ephemeral
    /\ IsFiniteSet(Cmds) /\ Cardinality(Cmds) < MaxExecutions

\* Then the store only grows.
StoreGrows ==
    /\ execs' = execs \/ \E x \in Execution : execs' = setExecutionTx(execs, x)
    /\ \A n \in JobNames : Stored(jobs, n) => Stored(jobs', n)

\* Every step.
LEMMA GrowStep ==
    ASSUME Calm, TraceSteps, StoreValid(jobs), Staying, [RunsNext]_allVars
    PROVE  StoreGrows
<1>1. /\ RunInv /\ IInv /\ now \in Nat
      /\ jobs \in JobMap
      /\ \A c \in CallIds : call[c].ex \in Execution /\ call[c].ex.job \in JobNames
      /\ \A i \in Tasks : task[i].ex \in Execution
  BY RunFacts, IInvFacts DEF TraceSteps, RunInv, Execution
<1>2. ASSUME UNCHANGED <<jobs, execs>>
      PROVE  StoreGrows
  BY <1>2 DEF StoreGrows
<1>3. ASSUME NEW s, NEW ex, ex.job \in JobNames, NEW targets, NEW by, Run(s, ex, targets, by)
      PROVE  StoreGrows
  <2>1. CASE UNCHANGED store
    BY <1>2, <2>1 DEF store
  <2>2. CASE applySetJob(ex.job, [jobs[ex.job] EXCEPT !.next = now + 1])
    <3>1. jobs[ex.job] \in Job /\ Stored(jobs, ex.job)
      BY <1>1, <1>3, StoredIsJob DEF Run, CanRun
    <3>2. PICK j : j = [jobs[ex.job] EXCEPT !.next = now + 1]
      OBVIOUS
    <3>3. j \in Job
      BY <1>1, <3>1, <3>2 DEF Job, Time
    <3>4. applySetJob(ex.job, j)
      BY <2>2, <3>2
    <3>5. /\ \A n \in JobNames \ {ex.job} : OwnKept(n)
          /\ jobs' = jobs \/ Stored(jobs', ex.job)
      BY <1>1, <1>3, <3>3, <3>4, SetJobWrites
    <3>6. execs' = execs
      BY <3>4 DEF applySetJob
    <3>. QED BY <3>1, <3>5, <3>6 DEF OwnKept, StoreGrows
  <2>. QED BY <1>3, <2>1, <2>2 DEF Run
<1>4. \A d \in JobNames : NewExecution(d).job = d
  BY <1>1, NewRun
<1>5. ASSUME NEW n \in JobNames, Fire(n)
      PROVE  StoreGrows
  BY <1>3, <1>4, <1>5 DEF Fire
<1>6. ASSUME NEW c \in CallIds, CallStep(c)
      PROVE  StoreGrows
  <2>1. CASE UNCHANGED store
    BY <1>2, <2>1 DEF store
  <2>2. CASE ApplyDone(c) /\ applyExecutionDone(call[c].ex)
    <3>1. \A n \in JobNames : OwnKept(n)
      BY <1>1, <2>2, CountKeepsOwn
    <3>2. execs' = execs \/ execs' = setExecutionTx(execs, call[c].ex)
      BY <2>2 DEF applyExecutionDone
    <3>. QED BY <1>1, <3>1, <3>2 DEF StoreGrows, OwnKept
  <2>3. CASE EndDone(c)
    BY <2>1, <2>3 DEF EndDone, Staying
  <2>4. CASE RetryRun(c) /\ Run(call[c].server, NextAttempt(call[c].ex),
                                nodesUp \cap {call[c].ex.node}, c)
    <3>1. NextAttempt(call[c].ex).job = call[c].ex.job
      BY <1>1 DEF NextAttempt, Execution
    <3>. QED BY <1>1, <1>3, <2>4, <3>1
  <2>5. ASSUME NEW d \in JobNames, Run(call[c].server, NewExecution(d), nodesUp, c)
        PROVE  StoreGrows
    BY <1>3, <1>4, <2>5
  <2>. QED BY <1>6, <2>1, <2>2, <2>3, <2>4, <2>5
           DEF CallStep, ForwardDone, AcceptDone, ApplyDone, FetchJob, RetryRun, RunReturns,
               Notify, RunDependent
<1>7. ASSUME NEW i \in Tasks, TaskStep(i)
      PROVE  StoreGrows
  <2>1. CASE UNCHANGED store
    BY <1>2, <2>1 DEF store
  <2>2. CASE task[i].st = "first" /\ applySetExecution(task[i].ex)
    <3>1. execs' = setExecutionTx(execs, task[i].ex) /\ UNCHANGED jobs
      BY <2>2, StartDropsNothing DEF Calm, applySetExecution
    <3>. QED BY <1>1, <3>1 DEF StoreGrows
  <2>. QED BY <1>7, <2>1, <2>2
           DEF TaskStep, DialFails, Dispatch, RecvFirst, CallSetExecution, RecvFinal, RecvEOF,
               RecvError, DoneReturns
<1>8. ASSUME NEW k \in Cmds, CmdStep(k)
      PROVE  StoreGrows
  BY <1>2, <1>8 DEF CmdStep, Finish, Fallback, store
<1>9. CASE Fault \/ (\E s \in Servers : Elect(s)) \/ UNCHANGED allVars
  BY <1>2, <1>9 DEF Fault, Refuse, BreakStream, StepDown, Crash, NodeCrash, Elect, store, allVars,
                    vars
<1>. QED BY <1>5, <1>6, <1>7, <1>8, <1>9 DEF RunsNext

\* The job of a run stays stored.
Housed == \A i \in Tasks : Made(i) => Stored(jobs, task[i].req.job)

LEMMA HousedStep ==
    ASSUME RunInv, ActiveInv, Begun, Lineage, Housed, StoreGrows, [RunsNext]_allVars
    PROVE  Housed'
<1> SUFFICES ASSUME NEW i \in Tasks, task'[i].st # "none"
             PROVE  Stored(jobs', task'[i].req.job)
  BY DEF Housed, Made, Stored
<1>1. /\ task[i].req \in Execution /\ task[i].req.job \in JobNames
      /\ \A c \in CallIds : call[c].ex \in Execution /\ call[c].ex.job \in JobNames
      /\ \A n \in JobNames : Stored(jobs, n) => Stored(jobs', n)
  BY RunFacts DEF Execution, StoreGrows
<1>2. CASE Made(i)
  <2>1. task'[i].req.job = task[i].req.job
    BY <1>2, InheritStep, KeptTasks DEF Alike
  <2>. QED BY <1>1, <1>2, <2>1 DEF Housed
<1>3. ASSUME NEW s, NEW ex, ex.job \in JobNames, NEW targets, NEW by, Run(s, ex, targets, by), ~Made(i)
      PROVE  Stored(jobs', task'[i].req.job)
  <2>1. Stored(jobs, ex.job)
    BY <1>3 DEF Run, CanRun
  <2>2. task'[i].req = ex
    BY <1>3, RunMakes DEF Made
  <2>. QED BY <1>1, <1>3, <2>1, <2>2
<1>4. \A d \in JobNames : NewExecution(d).job = d
  BY NewRun
<1>5. \A c \in CallIds : NextAttempt(call[c].ex).job = call[c].ex.job
  BY <1>1 DEF NextAttempt, Execution
<1>. QED BY <1>1, <1>2, <1>3, <1>4, <1>5, NewTasks

\* So the leader never turns a report down.
LEMMA ReportsHoused ==
    ASSUME RunInv, Lineage, Housed, NEW c \in CallIds, call[c].st # "none"
    PROVE  Stored(jobs, call[c].ex.job)
<1>1. TaskOf(c) \in Tasks
  BY TaskOfType
<1>. QED BY <1>1 DEF Lineage, Housed, Alike

\* The states of a report that has had its effect on the store.
Settling == {"fetch", "retry", "notify", "chain", "wait"}

Settled(h) == h.st \in Settling \/ (h.st = "answered" /\ h.answer = "ok")

\* How a report gets to the state that Secured asks for.
Earned(c) ==
    /\ ~call'[c].eph
    /\ call'[c].st = "apply" =>
          call'[c].ex = call[c].ex /\ (call[c].st = "apply" \/ Stored(jobs, call[c].ex.job))
    /\ Settled(call'[c]) =>
          /\ call'[c].ex = call[c].ex
          /\ Settled(call[c]) \/ (call[c].st = "apply" /\ applyExecutionDone(call[c].ex))

\* The steps of a report.
LEMMA EarnedCall ==
    ASSUME RunInv, OnceInv, Lineage, Housed, Staying, NEW c \in CallIds, CallStep(c)
    PROVE  Earned(c)
<1>1. call \in [CallIds -> Call] /\ call[c] \in Call /\ ~call[c].eph /\ leader # NoServer
  BY RunFacts DEF RunInv, RunsTypeOK, Staying
<1>2. call'[c].ex = call[c].ex
  BY CallKeepsEx
<1>3. ASSUME NEW answer, Answered(c, answer)
      PROVE  call'[c].st = "answered" /\ ~call'[c].eph
  BY <1>1, <1>3 DEF Answered, Call
<1>4. ASSUME NEW answer, Answered(c, answer), call[c].st \in Settling
      PROVE  Earned(c)
  BY <1>2, <1>3, <1>4 DEF Earned, Settled
<1>5. ASSUME NEW st, call' = [call EXCEPT ![c].st = st]
      PROVE  call'[c].st = st /\ ~call'[c].eph
  BY <1>1, <1>5 DEF Call
<1>6. CASE ForwardDone(c)
  <2>1. /\ \E by : call' = [call EXCEPT ![c].server = leader, ![c].via = by]
        /\ call[c].st = "sent"
    BY <1>1, <1>6 DEF ForwardDone
  <2>2. call'[c].st = "sent" /\ ~call'[c].eph
    BY <1>1, <2>1 DEF Call
  <2>. QED BY <2>2 DEF Earned, Settled, Settling
<1>7. CASE AcceptDone(c)
  <2>1. CASE Stored(jobs, call[c].ex.job) /\ call' = [call EXCEPT ![c].st = "apply"]
    BY <1>2, <1>5, <2>1 DEF Earned, Settled, Settling
  <2>2. Stored(jobs, call[c].ex.job)
    BY <1>7, ReportsHoused DEF AcceptDone
  <2>. QED BY <1>7, <2>1, <2>2 DEF AcceptDone
<1>8. CASE ApplyDone(c)
  <2>1. CASE applyExecutionDone(call[c].ex) /\ call' = [call EXCEPT ![c].st = "fetch"]
    <3>1. call'[c].st = "fetch" /\ ~call'[c].eph /\ call[c].st = "apply"
      BY <1>5, <1>8, <2>1 DEF ApplyDone
    <3>. QED BY <1>2, <2>1, <3>1 DEF Earned
  <2>2. call[c].server = leader
    BY <1>8 DEF ApplyDone, OnceInv, Loyal, Handling
  <2>. QED BY <1>8, <2>1, <2>2 DEF ApplyDone
<1>9. ASSUME call[c].st \in Settling, call'[c].st # "apply", ~call'[c].eph
      PROVE  Earned(c)
  BY <1>2, <1>9 DEF Earned, Settled
<1>10. CASE FetchJob(c)
  <2>1. call[c].st \in Settling
    BY <1>10 DEF FetchJob, Settling
  <2>2. CASE call' = [call EXCEPT ![c].st = "retry"]
    BY <1>5, <1>9, <2>1, <2>2
  <2>3. ASSUME NEW deps, Stored(jobs, call[c].ex.job),
               call' = [call EXCEPT ![c].st = "notify", ![c].left = deps,
                          ![c].eph = jobs[call[c].ex.job].config.ephemeral
                                       /\ jobs[call[c].ex.job].status = "success"]
        PROVE  Earned(c)
    <3>1. ~jobs[call[c].ex.job].config.ephemeral
      BY <2>3, RunFacts DEF Staying, Execution
    <3>2. call'[c].st = "notify" /\ ~call'[c].eph
      BY <1>1, <2>3, <3>1 DEF Call
    <3>. QED BY <1>9, <2>1, <3>2
  <2>. QED BY <1>4, <1>10, <2>1, <2>2, <2>3, Zenon DEF FetchJob
<1>11. CASE RetryRun(c)
  <2>1. call[c].st \in Settling
    BY <1>11 DEF RetryRun, Settling
  <2>2. CASE call' = [call EXCEPT ![c].st = "wait", ![c].retry = TRUE]
    <3>1. call'[c].st = "wait" /\ ~call'[c].eph
      BY <1>1, <2>2 DEF Call
    <3>. QED BY <1>9, <2>1, <3>1
  <2>. QED BY <1>4, <1>11, <2>1, <2>2 DEF RetryRun
<1>12. CASE RunReturns(c) \/ Notify(c)
  <2>1. call[c].st \in Settling
    BY <1>12 DEF RunReturns, Notify, Settling
  <2>2. \/ Answered(c, "ok") \/ Answered(c, "error") \/ call' = [call EXCEPT ![c].st = "chain"]
    BY <1>12 DEF RunReturns, Notify
  <2>. QED BY <1>4, <1>5, <1>9, <2>1, <2>2
<1>13. CASE EndDone(c)
  <2>1. call[c].st \in Settling /\ Answered(c, "ok")
    BY <1>1, <1>13 DEF EndDone, Settling
  <2>. QED BY <1>4, <2>1
<1>14. ASSUME NEW d \in JobNames, RunDependent(c, d)
       PROVE  Earned(c)
  <2>1. call[c].st \in Settling /\ call[c].st = "chain"
    BY <1>14 DEF RunDependent, Settling
  <2>2. CASE \/ call' = [call EXCEPT ![c].left[d] = @ - 1]
             \/ call' = [call EXCEPT ![c].left[d] = @ - 1, ![c].st = "wait"]
    <3>1. call'[c].st # "apply" /\ ~call'[c].eph
      BY <1>1, <2>1, <2>2 DEF Call
    <3>. QED BY <1>9, <2>1, <3>1
  <2>. QED BY <1>4, <1>14, <2>1, <2>2 DEF RunDependent
<1>. QED BY <1>6, <1>7, <1>8, <1>10, <1>11, <1>12, <1>13, <1>14 DEF CallStep

\* Every step.
LEMMA EarnedStep ==
    ASSUME Calm, RunInv, OnceInv, Lineage, Housed, Staying, [RunsNext]_allVars
    PROVE  (\A c \in CallIds : Earned(c)) /\ leader' # NoServer
<1>1. /\ call \in [CallIds -> Call] /\ leader # NoServer
      /\ \A c \in CallIds : call[c] \in Call /\ ~call[c].eph
      /\ (\A i \in Tasks : i \in CallIds) /\ (\A k \in Cmds : k \in CallIds)
  BY RunFacts DEF RunInv, RunsTypeOK, Staying
<1>2. ~StepDown /\ \A s \in Servers : ~Crash(s)
  <2>1. MaxStepDowns = 0 /\ MaxCrashes = 0 /\ faults["stepdown"] \in Nat /\ faults["crash"] \in Nat
    BY DEF Calm, RunInv
  <2>2. ~(faults["stepdown"] < MaxStepDowns) /\ ~(faults["crash"] < MaxCrashes)
    BY <2>1
  <2>. QED BY <2>2, Zenon DEF StepDown, Crash, Faulty
<1>3. ASSUME NEW c \in CallIds, call'[c] = call[c]
      PROVE  Earned(c)
  BY <1>1, <1>3 DEF Earned
<1>4. ASSUME NEW c \in CallIds, ~call'[c].eph, call'[c].st # "apply", ~Settled(call'[c])
      PROVE  Earned(c)
  BY <1>4 DEF Earned
<1>5. ASSUME NEW i \in Tasks, TaskStep(i)
      PROVE  \A c \in CallIds : Earned(c)
  <2>1. CASE UNCHANGED call
    BY <1>3, <2>1
  <2>2. ASSUME NEW ex, SendDone(i, ex)
        PROVE  \A c \in CallIds : Earned(c)
    <3>1. \A c \in CallIds \ {i} : call'[c] = call[c]
      BY <1>1, <2>2 DEF SendDone
    <3>2. call'[i].st = "sent" /\ ~call'[i].eph
      BY <1>1, <2>2 DEF SendDone, IdleCall
    <3>. QED BY <1>1, <1>3, <1>4, <3>1, <3>2 DEF Settled, Settling
  <2>3. CASE DoneReturns(i)
    <3>1. /\ \A c \in CallIds \ {i} : call'[c] = call[c]
          /\ call'[i].st = "none" /\ ~call'[i].eph
      BY <1>1, <2>3 DEF DoneReturns, IdleCall
    <3>. QED BY <1>1, <1>3, <1>4, <3>1 DEF Settled, Settling
  <2>. QED BY <1>5, <2>1, <2>2, <2>3
           DEF TaskStep, DialFails, Dispatch, RecvFirst, CallSetExecution, RecvFinal, RecvEOF,
               RecvError
<1>6. ASSUME NEW k \in Cmds, CmdStep(k)
      PROVE  \A c \in CallIds : Earned(c)
  <2>1. CASE UNCHANGED call
    BY <1>3, <2>1
  <2>2. ASSUME NEW s \in up, call' = [call EXCEPT ![k] =
                                        [IdleCall EXCEPT !.st = "sent", !.server = s, !.ex = cmd[k].ex]]
        PROVE  \A c \in CallIds : Earned(c)
    <3>1. /\ \A c \in CallIds \ {k} : call'[c] = call[c]
          /\ call'[k].st = "sent" /\ ~call'[k].eph
      BY <1>1, <2>2 DEF IdleCall
    <3>. QED BY <1>1, <1>3, <1>4, <3>1 DEF Settled, Settling
  <2>. QED BY <1>6, <2>1, <2>2 DEF CmdStep, Finish, Fallback
<1>7. ASSUME NEW c \in CallIds, CallStep(c)
      PROVE  \A b \in CallIds : Earned(b)
  BY <1>3, <1>7, CallKeepsEx, EarnedCall
<1>8. ASSUME (\E n \in JobNames : Fire(n)) \/ Fault \/ (\E s \in Servers : Elect(s))
             \/ UNCHANGED allVars
      PROVE  UNCHANGED <<leader, call>>
  BY <1>1, <1>2, <1>8 DEF Fire, Fault, Refuse, BreakStream, NodeCrash, Elect, allVars, runVars,
                          cluster
<1>9. ASSUME \/ \E i \in Tasks : TaskStep(i)
             \/ \E k \in Cmds : CmdStep(k)
             \/ \E c \in CallIds : CallStep(c)
      PROVE  UNCHANGED leader
  BY <1>9 DEF TaskStep, DialFails, Dispatch, RecvFirst, CallSetExecution, RecvFinal, RecvEOF,
              RecvError, DoneReturns, CmdStep, Finish, Fallback, CallStep, ForwardDone, AcceptDone,
              ApplyDone, FetchJob, RetryRun, RunReturns, Notify, EndDone, RunDependent, cluster
<1>. QED BY <1>1, <1>3, <1>5, <1>6, <1>7, <1>8, <1>9 DEF RunsNext

\* What the theorem rests on.
AckInv ==
    /\ OnceInv /\ Lineage /\ AllTraced /\ StoreValid(jobs) /\ Staying /\ Secured
    /\ Timed /\ AllGenuine /\ Unheard /\ Reporting /\ Housed

\* Every step keeps it.
LEMMA AckStep ==
    ASSUME Calm, RunInv, RunInv', ActiveInv, Begun, AckInv, [RunsNext]_allVars
    PROVE  AckInv'
<1>1. /\ TraceSteps /\ StoreValid(jobs) /\ Staying /\ Secured /\ GenuineSteps /\ Housed
      /\ OnceInv /\ Lineage /\ FlowSteps
  BY DEF TraceSteps, GenuineSteps, FlowSteps, AckInv, AllGenuine
<1>2. OnceInv'
  BY OnceStep DEF AckInv, Calm
<1>3. Lineage'
  BY InheritStep, LineageKept DEF AckInv
<1>4. AllTraced'
  BY <1>1, TraceStep
<1>5. /\ StoreValid(jobs')
      /\ \A n \in JobNames : Stored(jobs', n) =>
            Stored(jobs, n) /\ jobs'[n].config = jobs[n].config
  BY <1>1, ConfigsKept
<1>6. (\A c \in CallIds : Earned(c)) /\ leader' # NoServer
  BY <1>1, EarnedStep
<1>7. Staying'
  BY <1>1, <1>5, <1>6 DEF Staying, Earned
<1>8. StoreGrows
  BY <1>1, GrowStep
<1>9. ASSUME NEW e \in Execution, Safe(e)
      PROVE  \E y \in execs' : Key(y) = Key(e) /\ y.finishedAt >= e.finishedAt
  <2>1. CASE execs' = execs
    BY <1>9, <2>1 DEF Safe
  <2>2. ASSUME NEW x \in Execution, execs' = setExecutionTx(execs, x)
        PROVE  \E y \in execs' : Key(y) = Key(e) /\ y.finishedAt >= e.finishedAt
    BY <1>9, <2>2, SafeKept
  <2>. QED BY <1>8, <2>1, <2>2 DEF StoreGrows
<1>10. ASSUME NEW c \in CallIds
       PROVE  /\ call'[c].st = "apply" => Stored(jobs', call'[c].ex.job)
              /\ Settled(call'[c]) =>
                    \E y \in execs' : Key(y) = Key(call'[c].ex) /\ y.finishedAt >= call'[c].ex.finishedAt
  <2>1. /\ call[c].ex \in Execution /\ call[c].ex.job \in JobNames
        /\ call[c].st = "apply" => Stored(jobs, call[c].ex.job)
        /\ Settled(call[c]) => Safe(call[c].ex)
    BY <1>1, RunFacts DEF Secured, Settled, Settling, Execution
  <2>2. Earned(c)
    BY <1>6
  <2>3. ASSUME call'[c].st = "apply"
        PROVE  Stored(jobs', call'[c].ex.job)
    BY <1>8, <2>1, <2>2, <2>3 DEF Earned, StoreGrows
  <2>4. ASSUME Settled(call'[c])
        PROVE  \E y \in execs' : Key(y) = Key(call'[c].ex) /\ y.finishedAt >= call'[c].ex.finishedAt
    <3>1. call'[c].ex = call[c].ex
      BY <2>2, <2>4 DEF Earned
    <3>2. CASE Settled(call[c])
      <4>1. \E y \in execs' : Key(y) = Key(call[c].ex) /\ y.finishedAt >= call[c].ex.finishedAt
        BY <1>9, <2>1, <3>2
      <4>. QED BY <3>1, <4>1
    <3>3. CASE call[c].st = "apply" /\ applyExecutionDone(call[c].ex)
      <4>1. \E y \in execs' : Key(y) = Key(call[c].ex) /\ y.finishedAt >= call[c].ex.finishedAt
        BY <2>1, <3>3, DoneSecures
      <4>. QED BY <3>1, <4>1
    <3>. QED BY <2>2, <2>4, <3>2, <3>3 DEF Earned
  <2>. QED BY <2>3, <2>4
<1>11. Secured'
  BY <1>10 DEF Secured, Settled, Settling, Safe
<1>12. CmdsGo
  BY <1>1, CmdsGone
<1>13. Timed' /\ AllGenuine' /\ Unheard' /\ Reporting'
  BY <1>1, <1>12, TimedStep, GenuineStep, UnheardStep, ReportingStep
<1>14. Housed'
  BY <1>1, <1>8, HousedStep
<1>. QED BY <1>2, <1>3, <1>4, <1>5, <1>7, <1>11, <1>13, <1>14 DEF AckInv, StoreValid

\* At the start nothing was reported.
LEMMA AckInit == Calm /\ RunsInit => AckInv
<1> SUFFICES ASSUME Calm, RunsInit
             PROVE  AckInv
  OBVIOUS
<1>1. OnceInv /\ Lineage /\ StoreValid(jobs)
  BY ChainInit DEF ChainInv
<1>2. /\ AllTraced /\ Secured
      /\ Timed /\ AllGenuine /\ Unheard /\ Reporting /\ Housed
  <2>1. /\ execs = {} /\ now = 1 /\ \A i \in Tasks : task[i].st = "none"
        /\ \A c \in CallIds : call[c].st = "none"
        /\ \A k \in Cmds : cmd[k].st = "none" /\ cmd[k].sent = 0
    BY DEF RunsInit, NoTask, NoCmd, IdleCall
  <2>2. \A k \in Cmds : k \in CallIds
    BY DEF CallIds
  <2>3. AllTraced /\ Secured /\ AllGenuine /\ Unheard /\ Housed
    BY <2>1 DEF AllTraced, Secured, AllGenuine, Unheard, Housed, Made
  <2>4. Timed /\ Reporting
    BY <2>1, <2>2 DEF Timed, Reporting, Started
  <2>. QED BY <2>3, <2>4
<1>3. Staying
  <2>1. leader \in Servers
    BY RunsAssumption DEF RunsInit
  <2>2. \A c \in CallIds : ~call[c].eph
    BY DEF RunsInit, IdleCall
  <2>. QED BY <2>1, <2>2, RunsAssumption DEF Staying, Calm, RunsInit
<1>. QED BY <1>1, <1>2, <1>3 DEF AckInv

\* A result that a node hands to a server, and that is acknowledged, is in the
\* store as the node reported it, and stays there until the dispatcher whose
\* stream broke records the failure that it makes up: no success but the one
\* the command ended with is ever stored under its key.  While the leader keeps
\* the leadership, ExecutionDone answers only after the entry was applied, a
\* later report of the same key replaces it only by a later version, and neither
\* trimming nor the deletion of an ephemeral job drops it.  Streams and nodes
\* may fail in any number.  Each hypothesis is needed: without a leader a
\* follower acknowledges a result that it drops, an ephemeral job takes its
\* executions with it, and SetExecution trims those of a job that has too many
\* (GRPCServer.ExecutionDone in src/dkron/grpc.go, Store.SetExecution in
\* src/dkron/store.go).
THEOREM AcknowledgedStays == Calm /\ RunsSpec => []AckedResultStored
<1>1. Calm /\ RunInv /\ RunInv' /\ ActiveInv /\ Begun /\ AckInv /\ [RunsNext]_allVars => AckInv'
  BY AckStep
<1>2. Calm /\ [RunsNext]_allVars => Calm'
  BY DEF Calm, Stored
<1>3. RunInv /\ AckInv => AckedResultStored
  <2> SUFFICES ASSUME RunInv, AckInv, NEW k \in Cmds, call[k].st = "answered", call[k].answer = "ok"
               PROVE  \E e \in execs :
                         /\ Key(e) = Key(call[k].ex)
                         /\ \/ e.finishedAt = call[k].ex.finishedAt /\ e.success = call[k].ex.success
                            \/ e.finishedAt > call[k].ex.finishedAt /\ ~e.success /\ ~cmd[k].open
    BY DEF AckedResultStored
  <2>1. k \in CallIds /\ execs \in SUBSET Execution /\ call[k].ex \in Execution
    BY RunFacts, IInvFacts DEF RunInv, IInv
  <2>2. PICK e \in execs : Key(e) = Key(call[k].ex) /\ e.finishedAt >= call[k].ex.finishedAt
    BY <2>1 DEF AckInv, Secured, Safe
  <2>3. Started(k) /\ ~cmd[k].open /\ call[k].ex = cmd[k].ex
    BY DEF AckInv, Reporting
  <2>4. e.success <=> cmd[k].ex.success /\ e.finishedAt = cmd[k].ex.finishedAt
    BY <2>2, <2>3 DEF AckInv, AllGenuine, Genuine
  <2>5. /\ e.finishedAt \in Nat /\ call[k].ex.finishedAt \in Nat
        /\ e.success \in BOOLEAN /\ call[k].ex.success \in BOOLEAN
    BY <2>1 DEF Execution, Time
  <2>6. CASE e.finishedAt = call[k].ex.finishedAt
    <3>1. e.success = call[k].ex.success
      BY <2>3, <2>4, <2>5, <2>6, Zenon
    <3>. QED BY <2>2, <2>6, <3>1
  <2>7. CASE e.finishedAt # call[k].ex.finishedAt
    <3>1. ~e.success
      BY <2>3, <2>4, <2>7
    <3>2. e.finishedAt > call[k].ex.finishedAt
      BY <2>2, <2>5, <2>7
    <3>. QED BY <2>2, <2>3, <3>1, <3>2
  <2>. QED BY <2>6, <2>7
<1>. QED BY <1>1, <1>2, <1>3, AckInit, RunsInvariant, ActiveInvariant, BegunInvariant, PTL
         DEF RunsSpec

============================================================================
