----------------------------- MODULE MCConsole -----------------------------
(***************************************************************************)
(* A small instance of Console for TLC.                                    *)
(***************************************************************************)
EXTENDS Console

CONSTANT n1

Sent(parent, schedule, disabled, err) ==
    [parent |-> parent, deps |-> NoDeps, schedule |-> schedule,
     config |-> [disabled |-> disabled], status |-> "none", succ |-> 0, err |-> err,
     lastSucc |-> Never, lastErr |-> Never, next |-> Never]

None == {}
TwoSchedules == {"s1", ""}
OnOff == [disabled : BOOLEAN]

\* A job that has failed once, a child of it, and one record of each kind that
\* is refused: a job that is its own parent, and one without schedule.
Inputs == {[name |-> 1, job |-> Sent(NoParent, "s1", FALSE, 1)],
           [name |-> 2, job |-> Sent(1, "s1", FALSE, 0)],
           [name |-> 1, job |-> Sent(1, "s1", FALSE, 0)],
           [name |-> 1, job |-> Sent(NoParent, "", FALSE, 0)]}

Empty == [n \in JobNames |-> NoJob]
ParentAndChild ==
    LET one == SetJob(Empty, 1, Sent(NoParent, "s1", FALSE, 1), 1).jobs
    IN  {SetJob(one, 2, Sent(1, "s1", FALSE, 0), 1).jobs}

ValidInputs == {i \in Inputs : i.job.schedule # NoSchedule /\ i.job.parent # i.name}
Plan == [acl |-> FALSE, visits |-> {}, rows |-> {}, forms |-> {}, kinds |-> {}, others |-> {},
         requests |-> 2]

OfButtons == [Plan EXCEPT !.visits = {<<"show", 1>>, <<"list", 0>>}, !.kinds = {"toggle", "delete"},
                          !.others = ValidInputs]
OfBulk    == [Plan EXCEPT !.rows = JobNames]
OfForms   == [Plan EXCEPT !.visits = {<<"edit", 1>>, <<"create", 0>>}, !.forms = Inputs,
                          !.kinds = {"pause"}]
OfOutput  == [Plan EXCEPT !.visits = {<<"executions", 1>>, <<"members", 0>>, <<"busy", 0>>}, !.kinds = {"run"},
                          !.others = ValidInputs]
OfToken   == [Plan EXCEPT !.acl = TRUE, !.visits = {<<"show", 1>>, <<"edit", 1>>, <<"executions", 1>>},
                          !.forms = {i \in ValidInputs : i.name = 1}, !.requests = 1]
OfClients == [Plan EXCEPT !.kinds = Writes \cup {"pause"}, !.others = Inputs]

AllSessions == {OfButtons, OfBulk, OfForms, OfOutput, OfToken, OfClients}
============================================================================
