------------------------------- MODULE MCRuns -------------------------------
(***************************************************************************)
(* Small instances of Runs for TLC.                                        *)
(***************************************************************************)
EXTENDS Runs

CONSTANTS main, child, ghost, s1, s2, n1

Plain(config, parent, deps) ==
    [parent |-> parent, deps |-> deps, schedule |-> "s", config |-> config,
     status |-> "none", succ |-> 0, err |-> 0, lastSucc |-> Never, lastErr |-> Never,
     next |-> Never]

Config(retries, forbid, ephemeral) ==
    [retries |-> retries, forbid |-> forbid, ephemeral |-> ephemeral]

AllConfigs == {Config(r, f, e) : r \in {0, 1}, f \in BOOLEAN, e \in BOOLEAN}

MCSchedules == {"s", ""}
NoInputs == {}

\* One job alone.
ForbidJob      == [n \in JobNames |-> Plain(Config(0, TRUE, FALSE), NoParent, NoDeps)]
ForbidRetryJob == [n \in JobNames |-> Plain(Config(1, TRUE, FALSE), NoParent, NoDeps)]

\* A main job and the dependent job that it triggers.
ParentJobs ==
    [n \in JobNames |->
        IF n = main
          THEN Plain(Config(0, FALSE, FALSE), NoParent, [NoDeps EXCEPT ![child] = 1])
          ELSE Plain(Config(0, FALSE, FALSE), main, NoDeps)]

\* The same with a retry and without overlapping runs.  The dependent job is
\* deleted when it succeeds.  A client added to the DependentJobs a name that is not stored and
\* the job itself, which may not run while its own report is handled.
GhostJobs ==
    [n \in JobNames |->
        CASE n = main  -> Plain(Config(1, TRUE, FALSE), NoParent, [d \in JobNames |-> 1])
          [] n = child -> Plain(Config(1, TRUE, TRUE), main, NoDeps)
          [] n = ghost -> NoJob]
=============================================================================
