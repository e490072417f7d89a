------------------------------ MODULE Console ------------------------------
(***************************************************************************)
(* The web console as a client of the HTTP API (src/ui/src): signing in    *)
(* and out, the buttons that run, toggle, edit and delete jobs, and the    *)
(* pages that are fetched again after a change.  What the pages draw is    *)
(* module Views.                                                           *)
(*                                                                         *)
(* One browser window and other clients of the API share the server of     *)
(* module API.  A page is fetched in two steps, the read of the node's     *)
(* store and the arrival of the answer, so that changes come between them. *)
(* The number of log entries that the node has applied stands for the data *)
(* of a snapshot.                                                          *)
(***************************************************************************)
EXTENDS API, FiniteSetsExt

CONSTANTS
    ClientCalls,   \* the places of Calls that other clients use
    Sessions,      \* what a session of the console is about: see Session
    OutputLimit,   \* output_size_limit: 200 in the code
    MaxOutput      \* bound: length of the output of the execution in sight

VARIABLES
    session,  \* the member of Sessions that goes on
    token,    \* localStorage
    page,     \* the mounted page
    pending,  \* the change that can still be undone, or NoChange
    acked,    \* the newest entry that an answer told this window of, and that
              \* the node had applied by then
    output,   \* length of the output of the execution in sight, in the node's store
    budget    \* bound: requests that anyone may still send

window      == <<token, page, pending, acked>>
consoleVars == <<vars, apiVars, window, output, budget, session>>

Tokens == {"good", "bad"}

NoChange == [kind |-> "none"]
Unread   == [status |-> "none"]
NoPanel  == [of |-> 0, truncated |-> FALSE]

OfOneJob == {"show", "executions", "edit"}
Fetching == OfOneJob \cup {"list", "busy", "members"}

(***************************************************************************)
(* acl is DKRON_ACL_ENABLED, with a middleware that checks tokens.  The    *)
(* rest bounds the session: the pages <<at, name>> that the user goes to,  *)
(* the rows that may be selected, the records that are typed into the      *)
(* forms, the kinds and records of the requests of other clients, and the  *)
(* number of requests.                                                     *)
(***************************************************************************)
Session ==
    [acl      : BOOLEAN,
     visits   : SUBSET ((OfOneJob \X JobNames) \cup
                        ({"list", "busy", "members", "create"} \X {0})),
     rows     : SUBSET JobNames,
     forms    : SUBSET JobInputs,
     kinds    : SUBSET (Writes \cup {"pause"}),
     others   : SUBSET JobInputs,
     requests : Nat]

ASSUME ConsoleAssumption ==
    /\ ClientCalls \subseteq Calls
    /\ Sessions \subseteq Session
    /\ OutputLimit \in Nat /\ MaxOutput \in Nat
    /\ Threshold \in Nat \ {0}

\* The middleware is no part of the repository's server: it knows one token.
Accepted(tok) == ~session.acl \/ tok = "good"

----------------------------------------------------------------------------
(***************************************************************************)
(* Pages and tokens                                                        *)
(***************************************************************************)

\* The resources and pages of App.  name is 0 where a page has no record.
Page(at, name) ==
    [at |-> at, name |-> name, st |-> IF at \in Fetching THEN "loading" ELSE "ok",
     read |-> Unread, rev |-> 0, rows |-> {}, selected |-> {}, busy |-> {},
     listed |-> 0, panel |-> NoPanel]

\* A request that outlives the page its button was on.
Orphaned(cs) == [c \in Calls |-> IF cs[c] = Free THEN Free ELSE [cs[c] EXCEPT !.here = FALSE]]

Goto(at, name, cs) ==
    /\ page' = Page(at, name)
    /\ calls' = Orphaned(cs)

\* react-query drops the answer that is under way and asks again.
Refreshed(p) ==
    IF p.at \in Fetching THEN [p EXCEPT !.st = "loading", !.read = Unread] ELSE p

Navigate(at, name) ==
    /\ page.at # "login" /\ <<at, name>> # <<page.at, page.name>>
    /\ Goto(at, name, calls)
    /\ UNCHANGED <<vars, paused, rev, trail, token, pending, acked, output, budget, session>>

\* The refresh button of the application bar.
AppBarRefresh ==
    /\ page.at \in Fetching /\ page.st # "loading"
    /\ page' = Refreshed(page)
    /\ UNCHANGED <<vars, apiVars, token, pending, acked, output, budget, session>>

\* authProvider.login takes any text, so LoginPage never says that a token is
\* invalid; checkAuth sends an empty one back to this page.
LoginPage(tok) ==
    /\ page.at = "login"
    /\ token' = tok
    /\ Goto("list", 0, calls)
    /\ UNCHANGED <<vars, paused, rev, trail, pending, acked, output, budget, session>>

\* authProvider.logout, and where react-admin goes when its promise is settled,
\* as one step: the browser does not take another event in between.
SignOut(cs) ==
    /\ token' = "none"
    /\ Goto("login", 0, cs)

\* The Logout entry of CustomUserMenu.
Logout ==
    /\ session.acl /\ page.at # "login"
    /\ SignOut(calls)
    /\ UNCHANGED <<vars, paused, rev, trail, pending, acked, output, budget, session>>

\* A defective checkError that stays on the page.
forgetToken(status, p, cs) ==
    IF status = "unauthorized" /\ session.acl
      THEN token' = "none" /\ page' = p /\ calls' = cs
      ELSE page' = p /\ calls' = cs /\ UNCHANGED token

\* authProvider.checkError for the answers of the data provider: p and cs are
\* the page and the requests if the status is not 401 or 403.
checkError(status, p, cs) ==
    IF status = "unauthorized" /\ session.acl
      THEN SignOut(cs)
      ELSE page' = p /\ calls' = cs /\ UNCHANGED token

----------------------------------------------------------------------------
(***************************************************************************)
(* Fetching a page                                                         *)
(***************************************************************************)

\* What the executions page gets of an output: the end of it, of a length that
\* is as good as its text, and whether it was cut.
executionsHandler(size) == [of |-> size, truncated |-> size > OutputLimit]

\* httpClient's request at the server: the pages of one job need the job.
FetchRead ==
    /\ page.at \in Fetching /\ page.st = "loading" /\ page.read = Unread
    /\ LET status == IF ~Accepted(token) THEN "unauthorized"
                     ELSE IF page.at \in OfOneJob /\ ~Stored(Local, page.name)
                       THEN "notFound" ELSE "ok"
       IN  page' = [page EXCEPT !.read =
                      [status |-> status, rev |-> Seen,
                       size |-> IF page.at = "executions" THEN output ELSE 0,
                       rows |-> {n \in JobNames : Stored(Local, n)}]]
    /\ UNCHANGED <<vars, apiVars, token, pending, acked, output, budget, session>>

\* The records of the executions are new objects after a fetch that found them
\* changed, or loaded in full: an answer to FullButton then writes into one that
\* is no longer shown.
Renewed(cs) ==
    [c \in Calls |-> IF cs[c].kind = "full" THEN [cs[c] EXCEPT !.shown = FALSE] ELSE cs[c]]

FetchAnswer ==
    /\ page.st = "loading" /\ page.read # Unread
    /\ LET r == page.read
           same == page.panel.truncated /\ page.panel = executionsHandler(r.size)
       IN  IF r.status = "notFound"
             THEN Goto("list", 0, calls) /\ UNCHANGED token
             ELSE checkError(r.status,
                    IF r.status = "ok"
                      THEN [page EXCEPT !.st = "ok", !.read = Unread, !.rev = r.rev,
                                        !.rows = r.rows, !.listed = r.size,
                                        !.panel = executionsHandler(r.size)]
                      ELSE [page EXCEPT !.st = "error", !.read = Unread],
                    IF r.status = "ok" /\ ~same THEN Renewed(calls) ELSE calls)
    /\ UNCHANGED <<vars, paused, rev, trail, pending, acked, output, budget, session>>

\* A fetch that fails on the way.
FetchFails ==
    /\ page.st = "loading"
    /\ page' = [page EXCEPT !.st = "error", !.read = Unread]
    /\ UNCHANGED <<vars, apiVars, token, pending, acked, output, budget, session>>

----------------------------------------------------------------------------
(***************************************************************************)
(* Sending requests                                                        *)
(***************************************************************************)

\* Places for one request about each of the names, if there are enough.
Room(names) ==
    LET free == {c \in Calls \ ClientCalls : calls[c] = Free}
    IN  {f \in [names -> free] : \A n, m \in names : f[n] = f[m] => n = m}

\* httpClient adds the token of the moment.  by is the component that waits.
Ask(kind, name, job, by) ==
    [kind |-> kind, name |-> name, job |-> job, at |-> "sent", status |-> "none",
     applied |-> FALSE, rev |-> 0, tok |-> token, by |-> by, here |-> TRUE,
     shown |-> TRUE, size |-> 0]

Send(kind, names, job, by) ==
    /\ Room(names) # {} /\ Cardinality(names) <= budget
    /\ LET f == CHOOSE g \in Room(names) : TRUE
       IN  calls' = [c \in Calls |->
                       IF \E n \in names : f[n] = c
                         THEN Ask(kind, CHOOSE n \in names : f[n] = c, job, by)
                         ELSE calls[c]]
    /\ budget' = budget - Cardinality(names)

Press(button, kind, names) ==
    /\ page.rev > 0 /\ button \notin page.busy
    /\ Send(kind, names, NoJob, button)
    /\ page' = [page EXCEPT !.busy = @ \cup {button}]
    /\ UNCHANGED <<vars, paused, rev, trail, token, pending, acked, output, session>>

RunButton    == page.at = "show" /\ Press("run", "run", {page.name})
ToggleButton == page.at = "show" /\ Press("toggle", "toggle", {page.name})
FullButton   == page.at = "executions" /\ page.panel.truncated /\ Press("full", "full", {page.name})

\* One request for each selected row.  The call of unselectAll, a hook outside
\* of rendering, throws: the rows stay selected.
BulkRunButton    == page.selected # {} /\ Press("bulkRun", "run", page.selected)
BulkToggleButton == page.selected # {} /\ Press("bulkToggle", "toggle", page.selected)

\* A row's checkbox, while a request may follow.
Select(n) ==
    /\ page.at = "list" /\ budget > 0 /\ n \in page.rows \cap session.rows
    /\ page' = [page EXCEPT !.selected = (@ \ {n}) \cup ({n} \ @)]
    /\ UNCHANGED <<vars, apiVars, token, pending, acked, output, budget, session>>

\* The fields that the form requires, of those that the model has: also a job
\* with a parent, which needs no schedule, is saved only with one.
EditForm(i) == i.name \in JobNames /\ i.job.schedule # NoSchedule

\* Edit and the bulk delete of one row can be undone for a while: the form
\* closes, or the row goes, before anything is sent.
JobEdit(i) ==
    /\ page.at = "edit" /\ page.rev > 0 /\ pending = NoChange /\ budget > 0
    /\ EditForm(i)
    /\ pending' = [kind |-> "save", name |-> i.name, job |-> i.job]
    /\ Goto("list", 0, calls)
    /\ UNCHANGED <<vars, paused, rev, trail, token, acked, output, budget, session>>

BulkDelete(n) ==
    /\ page.at = "list" /\ page.selected = {n} /\ pending = NoChange /\ budget > 0
    /\ pending' = [kind |-> "delete", name |-> n, job |-> NoJob]
    /\ page' = [page EXCEPT !.selected = {}]
    /\ UNCHANGED <<vars, apiVars, token, acked, output, budget, session>>

Undo ==
    /\ page.at # "login" /\ pending # NoChange
    /\ pending' = NoChange
    /\ page' = Refreshed(page)
    /\ UNCHANGED <<vars, apiVars, token, acked, output, budget, session>>

UndoExpires ==
    /\ page.at # "login" /\ pending # NoChange
    /\ Send(pending.kind, {pending.name}, pending.job, "form")
    /\ pending' = NoChange
    /\ UNCHANGED <<vars, paused, rev, trail, token, page, acked, output, session>>

JobCreate(i) ==
    /\ page.at = "create" /\ "create" \notin page.busy
    /\ EditForm(i)
    /\ Send("save", {i.name}, i.job, "create")
    /\ page' = [page EXCEPT !.busy = @ \cup {"create"}]
    /\ UNCHANGED <<vars, paused, rev, trail, token, pending, acked, output, session>>

\* Any other client of the API.
Client(c, kind, i) ==
    /\ calls[c] = Free /\ budget > 0
    /\ calls' = [calls EXCEPT ![c] =
                   [Ask(kind, i.name, IF kind = "save" THEN i.job ELSE NoJob, "client")
                       EXCEPT !.tok = "good"]]
    /\ budget' = budget - 1
    /\ UNCHANGED <<vars, paused, rev, trail, window, output, session>>

ClientPauses ==
    /\ "pause" \in session.kinds /\ budget > 0
    /\ pauseHandler \/ unpauseHandler
    /\ budget' = budget - 1
    /\ UNCHANGED <<window, output, session>>

----------------------------------------------------------------------------
(***************************************************************************)
(* The server and the way back                                             *)
(***************************************************************************)

\* The job or the execution may be gone, and the store may fail.
executionHandler(c) ==
    /\ Is(c, {"full"}, "sent")
    /\ \/ /\ Stored(Local, calls[c].name)
          /\ calls' = [Respond(c, "ok") EXCEPT ![c].size = output]
       \/ calls' \in {Respond(c, "notFound"), Respond(c, "serverError")}
    /\ UNCHANGED <<vars, paused, rev, trail>>

Refuse(c) ==
    /\ calls[c] # Free /\ calls[c].at = "sent" /\ ~Accepted(calls[c].tok)
    /\ calls' = Respond(c, "unauthorized")
    /\ UNCHANGED <<vars, paused, rev, trail>>

Serve(c) ==
    /\ \/ Refuse(c)
       \/ calls[c] # Free /\ Accepted(calls[c].tok) /\ (Handler(c) \/ executionHandler(c))
    /\ UNCHANGED <<window, output, budget, session>>

RunEnds(c) == RunJobReturns(c) /\ UNCHANGED <<window, output, budget, session>>

\* The request or its answer is lost; the browser gets a network error.
Lose(c) ==
    /\ calls[c] # Free /\ calls[c].at \in {"sent", "running", "answered"} /\ calls[c].status # "lost"
    /\ calls' = Respond(c, "lost")
    /\ UNCHANGED <<vars, paused, rev, trail, window, output, budget, session>>

Ok(c)      == calls[c].status = "ok"
Settled(c) == [calls EXCEPT ![c] = Free]

\* The page of the component that waits, with its spinner off.
Ready(c) == [page EXCEPT !.busy = IF calls[c].here THEN @ \ {calls[c].by} ELSE @]

\* On the leader, whose store has the entry before RaftApply answers, Seen is
\* never behind.
Acknowledge(c) ==
    acked' = IF Ok(c) /\ calls[c].rev <= Seen THEN Max({acked, calls[c].rev}) ELSE acked

\* A defective pair of buttons that wait for ever after an error.
ButtonStuck(c) ==
    /\ calls[c].by \in {"run", "toggle"}
    /\ page' = IF Ok(c) THEN Refreshed(Ready(c)) ELSE page
    /\ calls' = Settled(c) /\ UNCHANGED token

\* RunButton and ToggleButton: a refresh after success only.
ButtonAnswer(c) ==
    /\ calls[c].by \in {"run", "toggle"}
    /\ page' = IF Ok(c) THEN Refreshed(Ready(c)) ELSE Ready(c)
    /\ calls' = Settled(c) /\ UNCHANGED token

\* A defective pair of bulk buttons that show the rows as they were.
BulkSilent(c) ==
    /\ calls[c].by \in {"bulkRun", "bulkToggle"}
    /\ page' = Ready(c)
    /\ calls' = Settled(c) /\ UNCHANGED token

\* The bulk buttons: the first of several answers enables the button again.
BulkAnswer(c) ==
    /\ calls[c].by \in {"bulkRun", "bulkToggle"}
    /\ page' = Refreshed(Ready(c))
    /\ calls' = Settled(c) /\ UNCHANGED token

FullOutput(c) == [Ready(c) EXCEPT !.panel = [of |-> calls[c].size, truncated |-> FALSE]]

\* A defective button that writes into the record on the screen.
FullOnScreen(c) ==
    /\ calls[c].by = "full"
    /\ page' = IF Ok(c) /\ calls[c].here THEN FullOutput(c) ELSE Ready(c)
    /\ calls' = Settled(c) /\ UNCHANGED token

\* FullButton writes into the record that it was rendered with.
FullAnswer(c) ==
    /\ calls[c].by = "full"
    /\ page' = IF Ok(c) /\ calls[c].here /\ calls[c].shown THEN FullOutput(c) ELSE Ready(c)
    /\ calls' = Settled(c) /\ UNCHANGED token

\* The data provider: a stored job leads from the creation to its form.
FormAnswer(c) ==
    /\ calls[c].by \in {"form", "create"}
    /\ IF Ok(c) /\ calls[c].by = "create" /\ calls[c].here
         THEN Goto("edit", calls[c].name, Settled(c)) /\ UNCHANGED token
         ELSE checkError(calls[c].status,
                         IF Ok(c) \/ calls[c].by = "form" THEN Refreshed(Ready(c)) ELSE Ready(c),
                         Settled(c))

ClientAnswer(c) ==
    /\ calls[c].by = "client"
    /\ calls' = Settled(c) /\ UNCHANGED <<page, token>>

Deliver(c) ==
    /\ calls[c] # Free /\ calls[c].at = "answered"
    /\ ButtonAnswer(c) \/ BulkAnswer(c) \/ FullAnswer(c) \/ FormAnswer(c) \/ ClientAnswer(c)
    /\ IF calls[c].by = "client" THEN UNCHANGED acked ELSE Acknowledge(c)
    /\ UNCHANGED <<vars, paused, rev, trail, pending, output, budget, session>>

\* The node reports more output of the execution; it matters on one page only.
OutputGrows ==
    /\ page.at = "executions" /\ output < MaxOutput
    /\ output' = output + 1
    /\ UNCHANGED <<vars, apiVars, window, budget, session>>

Catchup == Replicate /\ UNCHANGED <<window, output, budget, session>>

----------------------------------------------------------------------------
\* App: without ACL there is no login page.
ConsoleInit ==
    /\ APIInit
    /\ session \in Sessions
    /\ token = "none"
    /\ page = Page(IF session.acl THEN "login" ELSE "list", 0)
    /\ pending = NoChange
    /\ acked = 0
    /\ output = 0
    /\ budget = session.requests

User ==
    \/ \E v \in session.visits : Navigate(v[1], v[2])
    \/ \E tok \in Tokens : LoginPage(tok)
    \/ AppBarRefresh
    \/ Logout
    \/ RunButton
    \/ ToggleButton
    \/ FullButton
    \/ BulkRunButton
    \/ BulkToggleButton
    \/ \E n \in JobNames : Select(n) \/ BulkDelete(n)
    \/ \E i \in session.forms : JobEdit(i) \/ JobCreate(i)
    \/ Undo

ConsoleNext ==
    \/ User
    \/ FetchRead
    \/ FetchAnswer
    \/ FetchFails
    \/ UndoExpires
    \/ \E c \in ClientCalls, kind \in session.kinds \ {"pause"}, i \in session.others : Client(c, kind, i)
    \/ ClientPauses
    \/ \E c \in Calls : Serve(c) \/ RunEnds(c) \/ Lose(c) \/ Deliver(c)
    \/ Catchup
    \/ OutputGrows

ConsoleSpec == ConsoleInit /\ [][ConsoleNext]_consoleVars

\* The server handles every request, and the browser settles every promise.
\* A run may go on for ever, and the node need not catch up with the leader.
ConsoleFairness ==
    \A c \in Calls : WF_consoleVars(Serve(c)) /\ WF_consoleVars(Deliver(c))

ConsoleFairSpec == ConsoleSpec /\ ConsoleFairness

----------------------------------------------------------------------------
(***************************************************************************)
(* Properties                                                              *)
(***************************************************************************)

\* A settled page shows every change that the window was told of and that the
\* node it talks to had applied by then: the answer to a button, a form or a
\* bulk action makes the page that is mounted by then ask again, and an answer
\* read before the change is dropped (useRefresh).  On the leader these are all
\* changes; a follower that is behind may show the job as it was.
AcknowledgedIsShown ==
    page.at \in Fetching /\ page.st = "ok" => page.rev >= acked

\* The output on the screen is never older than the list that it belongs to,
\* although FullButton writes what it is told into a record that a refresh may
\* have replaced meanwhile (FullButton and SpecialOutputPanel in JobShow.tsx).
OutputNotOlder ==
    page.at = "executions" => page.panel.of >= page.listed

\* With ACL, a window without a token shows the login page and nothing else,
\* whatever requests are still under way (authProvider).
LoggedOutSeesNothing ==
    session.acl /\ token = "none" => page.at = "login"

\* Buttons that wait for an answer are ready again some day, whether their
\* requests succeed, fail or get lost (the finally of each button).  Those that
\* start runs wait as long as a run of theirs goes on.
ButtonsRecover ==
    LET starters == {"run", "bulkRun"}
    IN  /\ (page.busy \ starters # {}) ~> (page.busy \subseteq starters)
        /\ (page.busy \cap starters # {}) ~>
              \/ page.busy \cap starters = {}
              \/ \E c \in Calls : Is(c, {"run"}, "running") /\ calls[c].here
============================================================================
