-------------------------------- MODULE API --------------------------------
(***************************************************************************)
(* The handlers of the HTTP API that change jobs, src/dkron/api.go, with   *)
(* the RPCs behind them.  Any number of requests overlap: a handler reads  *)
(* the store or the pause flag of its node, and its Raft entry is applied  *)
(* by the leader in a later step, after whatever other requests did in     *)
(* between.                                                                *)
(*                                                                         *)
(* One node serves all requests.  It applies the leader's entries in their *)
(* order and in its own time: at once where it is the leader, with a delay *)
(* where it follows.  jobs is the store of the leader.                     *)
(*                                                                         *)
(* The module has no behaviour of its own.  Its actions take a request     *)
(* from "sent" to "answered"; module Console has the clients.              *)
(***************************************************************************)
EXTENDS FSM, Sequences

CONSTANTS
    Calls,        \* places for requests under way
    JobsAtStart,  \* stores that earlier entries may have left
    Threshold     \* errors for which the auto-disable check asks: 5 unless given

VARIABLES
    calls,   \* the request in each place, or Free
    paused,  \* pauseNewJobs of the agent
    rev,     \* entries of the log that the leader applied
    trail    \* the store of the node, and those that its next entries lead to

apiVars == <<calls, paused, rev, trail>>

\* Disabled is one of the fields that the owner of a job writes.
ASSUME APIAssumption ==
    /\ JobsAtStart \subseteq [JobNames -> Job \cup {NoJob}]
    /\ \A js \in JobsAtStart : Whole(js)
    /\ \A c \in Configs : \A d \in BOOLEAN : [c EXCEPT !.disabled = d] \in Configs
    /\ \A c \in Configs : c.disabled \in BOOLEAN

\* A request has a kind, the name and record of a job, and the place at where
\* it is.  status is what the answer says; applied is what Apply answered to
\* the request's entry, rev the place of that entry in the log.
Free == [kind |-> "free"]

Is(c, kinds, at) == calls[c].kind \in kinds /\ calls[c].at = at

Writes == {"save", "toggle", "check", "run", "delete", "deleteExecutions"}

\* 2xx, 404 and so on, by name.
HTTPStatuses == {"none", "ok", "notFound", "badRequest", "unavailable",
                    "unprocessable", "serverError", "unauthorized", "lost"}

Respond(c, status) ==
    [calls EXCEPT ![c].at = "answered", ![c].status = status, ![c].job = NoJob]
Proceed(c, job)    == [calls EXCEPT ![c].at = "store", ![c].job = job]
AwaitRun(c)        == [calls EXCEPT ![c].at = "running", ![c].job = NoJob]

Handled == UNCHANGED <<vars, paused, rev, trail>>

\* What the node has in its store, and the newest entry in there.
Local == trail[1]
Seen  == rev + 1 - Len(trail)

\* The node applies its next entry.
Replicate ==
    /\ Len(trail) > 1
    /\ trail' = Tail(trail)
    /\ UNCHANGED <<vars, calls, paused, rev>>

----------------------------------------------------------------------------
(***************************************************************************)
(* From the request to the call of SetJob, or to an answer                 *)
(***************************************************************************)

\* A defective handler that leaves the validation to the store.
saveUnchecked(c) ==
    /\ Is(c, {"save"}, "sent")
    /\ calls' = IF paused THEN Respond(c, "unavailable") ELSE Proceed(c, calls[c].job)
    /\ Handled

\* The name in the path plays no part: the job is stored under the name in
\* its body.  The RunJob that a goroutine calls for runoncreate is a request
\* "run" of another client here: nobody waits for its answer.
jobCreateOrUpdateHandler(c) ==
    /\ Is(c, {"save"}, "sent")
    /\ calls' = IF paused THEN Respond(c, "unavailable")
                ELSE IF ~Validate(calls[c].name, calls[c].job) THEN Respond(c, "badRequest")
                ELSE Proceed(c, calls[c].job)
    /\ Handled

jobToggleHandler(c) ==
    /\ Is(c, {"toggle"}, "sent")
    /\ LET job == Local[calls[c].name]
       IN  calls' = IF job = NoJob THEN Respond(c, "notFound")
                    ELSE Proceed(c, [job EXCEPT !.config.disabled = ~@])
    /\ Handled

jobAutoDisableCheckHandler(c) ==
    /\ Is(c, {"check"}, "sent")
    /\ LET job == Local[calls[c].name]
       IN  calls' = IF job = NoJob THEN Respond(c, "notFound")
                    ELSE IF job.err >= Threshold /\ ~job.config.disabled
                      THEN Proceed(c, [job EXCEPT !.config.disabled = TRUE])
                      ELSE [Respond(c, "ok") EXCEPT ![c].applied = TRUE]
    /\ Handled

\* RunJob at the leader and the start of Agent.Run: a job without parent needs
\* its cron entry, which enabled jobs have, and is stored with its next time.
jobRunHandler(c) ==
    /\ Is(c, {"run"}, "sent")
    /\ LET job == jobs[calls[c].name]
       IN  \E next \in NextTimes :
             calls' = IF job = NoJob THEN Respond(c, "notFound")
                      ELSE IF job.parent # NoParent
                        THEN [AwaitRun(c) EXCEPT ![c].applied = TRUE]
                      ELSE IF job.config.disabled THEN Respond(c, "notFound")
                      ELSE Proceed(c, [job EXCEPT !.next = next])
    /\ Handled

----------------------------------------------------------------------------
(***************************************************************************)
(* The Raft entry and the answer                                           *)
(***************************************************************************)

\* The leader has applied the entry: cs are the requests from then on.
Applied(c, cs) ==
    /\ rev' = rev + 1
    /\ trail' = Append(trail, jobs')
    /\ calls' = [cs EXCEPT ![c].applied = (resp' = "ok"), ![c].rev = rev + 1]
    /\ UNCHANGED paused

\* The errors of the state machine that Agent.applySetJob passes on; any other
\* one it takes for success.
ParentError(name, job) ==
    job.parent # NoParent /\ (job.parent = name \/ ~Stored(jobs, job.parent))

\* What each caller of GRPCClient.SetJob makes of an error.
OnError(kind) ==
    CASE kind = "toggle"                                -> "unprocessable"
      [] kind \in {"save", "check", "deleteExecutions"} -> "serverError"
      [] kind \in {"run", "delete"}                     -> "notFound"

SetJobRPC(c) ==
    /\ Is(c, {"save", "toggle", "check", "run"}, "store")
    /\ applySetJob(calls[c].name, calls[c].job)
    /\ Applied(c, IF ~ParentError(calls[c].name, calls[c].job)
                    THEN IF calls[c].kind = "run" THEN AwaitRun(c) ELSE Respond(c, "ok")
                    ELSE Respond(c, IF calls[c].kind = "save" THEN "notFound"
                                                              ELSE OnError(calls[c].kind)))

\* Agent.Run returns when the run is over on all nodes, however long that
\* takes, or without any when no node is a target; the RPC has no time limit.
\* What a run does is module Runs.
RunJobReturns(c) ==
    /\ Is(c, {"run"}, "running")
    /\ calls' \in {Respond(c, "ok"), Respond(c, "notFound")}
    /\ Handled

jobDeleteHandler(c) ==
    /\ Is(c, {"delete"}, "sent")
    /\ applyDeleteJob(calls[c].name)
    /\ Applied(c, Respond(c, IF resp' = "ok" THEN "ok" ELSE OnError("delete")))

\* The status is 404 only for one wording of the error, which is not the one
\* of the RPC.
executionsDeleteHandler(c) ==
    /\ Is(c, {"deleteExecutions"}, "sent")
    /\ applyDeleteExecutions(calls[c].name)
    /\ Applied(c, Respond(c, IF resp' = "ok" THEN "ok" ELSE OnError("deleteExecutions")))

\* No leader takes the call.
RPCFails(c) ==
    /\ Is(c, {"save", "toggle", "check", "run"}, "store") \/ Is(c, {"delete", "deleteExecutions"}, "sent")
    /\ calls' = Respond(c, OnError(calls[c].kind))
    /\ Handled

pauseHandler ==
    /\ paused' = TRUE
    /\ UNCHANGED <<vars, calls, rev, trail>>

unpauseHandler ==
    /\ paused' = FALSE
    /\ UNCHANGED <<vars, calls, rev, trail>>

\* One step of the server for a request, but for the end of a run.
Handler(c) ==
    \/ jobCreateOrUpdateHandler(c)
    \/ jobToggleHandler(c)
    \/ jobAutoDisableCheckHandler(c)
    \/ jobRunHandler(c)
    \/ SetJobRPC(c)
    \/ jobDeleteHandler(c)
    \/ executionsDeleteHandler(c)
    \/ RPCFails(c)

APIInit ==
    /\ jobs \in JobsAtStart
    /\ execs = {} /\ stats = [succ |-> 0, err |-> 0] /\ resp = "ok"
    /\ calls = [c \in Calls |-> Free]
    /\ paused = FALSE
    /\ rev = 1
    /\ trail = <<jobs>>

----------------------------------------------------------------------------
\* A change that the API reports as done was accepted by the state machine,
\* although Agent.applySetJob takes unknown errors for success: what the
\* handlers validate or read from the store gives it none of those.
AckedIsApplied ==
    \A c \in Calls : calls[c].kind \in Writes /\ calls[c].status = "ok" => calls[c].applied
============================================================================
