------------------------------- MODULE Views -------------------------------
(***************************************************************************)
(* What the web console shows of the jobs: the dashboard's cards and       *)
(* chart, the job list with its filters and groups, and the page of one    *)
(* job with the dependency diagram (src/ui/src), over the read-only HTTP   *)
(* handlers that feed them (src/dkron/ui.go, src/dkron/api.go).            *)
(*                                                                         *)
(* One browser window reads from one server, whose store is module FSM:    *)
(* log entries keep arriving while pages are open.  Only the mounted page  *)
(* has state; html is what the server wrote into index.html when the       *)
(* console was loaded, and no navigation inside the console renews it.     *)
(* Names and groups are numbers, in the order of localeCompare.            *)
(***************************************************************************)
EXTENDS FSM, Diagram

CONSTANTS
    Groups,          \* values of metadata.group; NoGroup when it is missing
    Searches,        \* each the set of names that contain a search text
    Picked,          \* the filters and
    Clicked,         \* the cards that the user tries
    ListPerPage,     \* rows of a page of the job list
    DiagramPerPage,  \* jobs that the diagram asks for: 1000 in the code
    MaxChanges       \* bound: log entries applied while one load of the console lives

VARIABLES
    html,    \* the numbers of the cards
    params,  \* the list parameters react-admin remembers
    page,    \* the mounted page
    changes  \* log entries since html was written

browser  == <<html, params, page, changes>>
viewVars == <<vars, html, params, page, changes>>

NoGroup == 0

----------------------------------------------------------------------------
(***************************************************************************)
(* The handlers                                                            *)
(***************************************************************************)

\* The choices of JobFilter: "" leaves a filter out.
StatusChoices   == {"", "success", "failed", "untriggered"}
DisabledChoices == {"", "true", "false"}

Filters  == [status : StatusChoices, disabled : DisabledChoices, q : Searches]
NoFilter == [status |-> "", disabled |-> "", q |-> JobNames]

FormatBool(b) == IF b THEN "true" ELSE "false"

\* "none" is the empty status of the code.
StatusMatches(choice, status) ==
    \/ choice \in {"", status}
    \/ choice = "untriggered" /\ status = "none"

\* Names in the order of the store's index.
AllNames  == SetToSortSeq(JobNames, <)
InOrder(S) == SelectSeq(AllNames, LAMBDA n : n \in S)

\* The fields of a job that the console looks at.
Row(n) ==
    [name     |-> n,
     parent   |-> jobs[n].parent,
     deps     |-> InOrder({d \in JobNames : jobs[n].deps[d] > 0}),
     status   |-> jobs[n].status,
     disabled |-> jobs[n].config.disabled,
     group    |-> jobs[n].config.group]

GetJobs(f) ==
    LET kept == {n \in JobNames : /\ Stored(jobs, n)
                                  /\ n \in f.q
                                  /\ f.disabled \in {"", FormatBool(jobs[n].config.disabled)}
                                  /\ StatusMatches(f.status, jobs[n].status)}
        names == InOrder(kept)
    IN  [i \in 1..Len(names) |-> Row(names[i])]

\* jobs[s:e] panics when the page starts behind the last job.
jobsHandler(f, num, perPage) ==
    LET all == GetJobs(f)
        s   == (num - 1) * perPage
        e   == Min({num * perPage, Len(all)})
    IN  IF s > e THEN [ok |-> FALSE, rows |-> <<>>, total |-> 0]
        ELSE [ok |-> TRUE, rows |-> SubSeq(all, s + 1, e), total |-> Len(all)]

\* A defective page that counts every job without a result as untriggered.
countOthersUntriggered(status) ==
    Cardinality({n \in JobNames : Stored(jobs, n) /\
        IF status = "none" THEN jobs[n].status \notin {"success", "failed"}
                           ELSE jobs[n].status = status})

countJobs(status) ==
    Cardinality({n \in JobNames : Stored(jobs, n) /\ jobs[n].status = status})

\* The numbers that the handler of index.html writes into the page.
UI == [total       |-> Cardinality({n \in JobNames : Stored(jobs, n)}),
       success     |-> countJobs("success"),
       failed      |-> countJobs("failed"),
       untriggered |-> countJobs("none")]

----------------------------------------------------------------------------
(***************************************************************************)
(* What the components render                                              *)
(***************************************************************************)

\* The links of the cards.  The Leader card has the link of Total Jobs.
TotalJobs       == NoFilter
SuccessfulJobs  == [NoFilter EXCEPT !.status = "success"]
FailedJobs      == [NoFilter EXCEPT !.status = "failed"]
UntriggeredJobs == [NoFilter EXCEPT !.status = "untriggered"]

CardLink(card) ==
    CASE card = "total"       -> TotalJobs
      [] card = "success"     -> SuccessfulJobs
      [] card = "failed"      -> FailedJobs
      [] card = "untriggered" -> UntriggeredJobs

Cards == {"total", "success", "failed", "untriggered"}

\* A defective label for which only failures are no success.
StatusFieldOptimistic(row) == IF row.status = "failed" THEN "Failed" ELSE "Success"

StatusField(row) ==
    IF row.status = "success" THEN "Success"
    ELSE IF row.status = "failed" THEN "Failed" ELSE "Pending"

EnabledField(row) == IF row.disabled THEN "Disabled" ELSE "Enabled"

\* The groups the menu offers besides "All groups".
JobGroupFilter(rows, selected) ==
    ({r.group : r \in ToSet(rows)} \cup {selected}) \ {NoGroup}

\* A defective grid that sorts by name alone.
JobDatagridByName(rows, selected) ==
    SelectSeq(rows, LAMBDA r : selected \in {NoGroup, r.group})

\* The rows on the screen: of the selected group, sorted by group and name.
JobDatagrid(rows, selected) ==
    SortSeq(SelectSeq(rows, LAMBDA r : selected \in {NoGroup, r.group}),
            LAMBDA r, s : r.group < s.group \/ (r.group = s.group /\ r.name < s.name))

\* The jobs that the diagram fetched, as its jobMap.
JobMapOf(rows) ==
    [n \in {r.name : r \in ToSet(rows)} |->
        CHOOSE r \in ToSet(rows) : r.name = n]

\* The memo of the diagram: nothing is drawn before the first answer.
Graph(record, rows) ==
    IF rows = <<>> THEN [nodes |-> {}, edges |-> {}]
    ELSE buildDependencyGraph(record.name, JobMapOf(rows))

\* A defective test that looks at the arrows instead of the nodes.
hasNoArrows(record, rows) == Cardinality(Graph(record, rows).edges) <= 1

hasNoDependencies(record, rows) == Cardinality(Graph(record, rows).nodes) <= 1

ASSUME ViewsAssumption ==
    /\ JobNames \subseteq Nat \ {0}
    /\ Groups \subseteq Nat /\ NoGroup \in Groups
    /\ Configs \subseteq [disabled : BOOLEAN, group : Groups]
    /\ Searches \subseteq SUBSET JobNames /\ JobNames \in Searches
    /\ Picked \subseteq Filters /\ Clicked \subseteq Cards
    /\ ListPerPage \in Nat \ {0} /\ DiagramPerPage \in Nat \ {0}
    /\ MaxChanges \in Nat

----------------------------------------------------------------------------
(***************************************************************************)
(* Pages.  st is "loading", then "ok" or "error".                          *)
(***************************************************************************)

\* The record before its first answer.
NoRecord == [name |-> 0]

Dashboard == [at |-> "dashboard", st |-> "loading"]

\* The list shows the rows of the last answer until the next one comes.
JobList(f, num, card) ==
    [at |-> "jobs", st |-> "loading", filter |-> f, num |-> num, card |-> card,
     rows |-> <<>>, total |-> 0, group |-> NoGroup]

JobShow(name) ==
    [at |-> "show", st |-> "loading", name |-> name, record |-> NoRecord,
     tab |-> "summary", diagram |-> "closed", rows |-> <<>>]

\* The console is loaded or reloaded: the server writes index.html, and the
\* dashboard mounts.
LoadConsole ==
    /\ html' = UI
    /\ page' = Dashboard
    /\ changes' = 0
    /\ UNCHANGED <<vars, params>>

\* ExecutionStatsChart's request: the totals, or the error text; either way
\* the spinner goes.
StatsAnswer ==
    /\ page.at = "dashboard" /\ page.st = "loading"
    /\ \E st \in {"ok", "error"} : page' = [page EXCEPT !.st = st]
    /\ UNCHANGED <<vars, html, params, changes>>

\* A list mounts with the filter of the link, else with the remembered one.
ClickCard(card) ==
    /\ page.at = "dashboard"
    /\ LET f == IF card = "total" THEN params ELSE CardLink(card)
       IN  /\ page' = JobList(f, 1, card)
           /\ params' = f
    /\ UNCHANGED <<vars, html, changes>>

\* The entry for the jobs in the menu.
OpenList ==
    /\ page.at = "show"
    /\ page' = JobList(params, 1, "none")
    /\ UNCHANGED <<vars, html, params, changes>>

\* The logo, and the menu's entry for the dashboard.
OpenDashboard ==
    /\ page.at \in {"jobs", "show"}
    /\ page' = Dashboard
    /\ UNCHANGED <<vars, html, params, changes>>

\* JobFilter: another filter starts again from the first page.
SetFilter(f) ==
    /\ page.at = "jobs" /\ f # page.filter
    /\ page' = [page EXCEPT !.filter = f, !.num = 1, !.st = "loading", !.card = "none"]
    /\ params' = f
    /\ UNCHANGED <<vars, html, changes>>

\* JobPagination, within the total of the last answer.
TurnPage(num) ==
    /\ page.at = "jobs" /\ page.st = "ok"
    /\ num # page.num /\ (num - 1) * ListPerPage < page.total
    /\ page' = [page EXCEPT !.num = num, !.st = "loading"]
    /\ UNCHANGED <<vars, html, params, changes>>

ChooseGroup(g) ==
    /\ page.at = "jobs" /\ g # page.group
    /\ g \in JobGroupFilter(page.rows, page.group) \cup {NoGroup}
    /\ page' = [page EXCEPT !.group = g]
    /\ UNCHANGED <<vars, html, params, changes>>

\* useRefresh, from a button of the page: the list or the record is fetched
\* again, the diagram's jobs are not.
Refresh ==
    /\ page.at \in {"jobs", "show"} /\ page.st # "loading"
    /\ page' = [page EXCEPT !.st = "loading"]
    /\ UNCHANGED <<vars, html, params, changes>>

\* The answer to getList, or a request that failed.
ListAnswer ==
    /\ page.at = "jobs" /\ page.st = "loading"
    /\ LET r == jobsHandler(page.filter, page.num, ListPerPage)
       IN  page' = IF r.ok THEN [page EXCEPT !.st = "ok", !.rows = r.rows, !.total = r.total]
                   ELSE [page EXCEPT !.st = "error"]
    /\ UNCHANGED <<vars, html, params, changes>>

ListFailure ==
    /\ page.at = "jobs" /\ page.st = "loading"
    /\ page' = [page EXCEPT !.st = "error"]
    /\ UNCHANGED <<vars, html, params, changes>>

\* rowClick="show".
ClickRow(name) ==
    /\ page.at = "jobs"
    /\ \E r \in ToSet(JobDatagrid(page.rows, page.group)) : r.name = name
    /\ page' = JobShow(name)
    /\ UNCHANGED <<vars, html, params, changes>>

\* jobGetHandler's answer; react-admin leaves the page of a record that is
\* missing, or whose request failed for another reason.
RecordAnswer ==
    /\ page.at = "show" /\ page.st = "loading"
    /\ \/ /\ Stored(jobs, page.name)
          /\ page' = [page EXCEPT !.st = "ok", !.record = Row(page.name)]
       \/ page' = JobList(params, 1, "none")
    /\ UNCHANGED <<vars, html, params, changes>>

\* The tabs mount their content: the diagram fetches its jobs each time.
OpenTab(tab) ==
    /\ page.at = "show" /\ page.record # NoRecord /\ tab # page.tab
    /\ page' = [page EXCEPT
                  !.tab = tab,
                  !.diagram = IF tab = "dependencies" THEN "loading" ELSE "closed",
                  !.rows = <<>>]
    /\ UNCHANGED <<vars, html, params, changes>>

DiagramAnswer ==
    /\ page.at = "show" /\ page.diagram = "loading"
    /\ page' = [page EXCEPT !.diagram = "ok",
                            !.rows = jobsHandler(NoFilter, 1, DiagramPerPage).rows]
    /\ UNCHANGED <<vars, html, params, changes>>

DiagramFailure ==
    /\ page.at = "show" /\ page.diagram = "loading"
    /\ page' = [page EXCEPT !.diagram = "error"]
    /\ UNCHANGED <<vars, html, params, changes>>

\* handleNodeClick, for the nodes that are drawn and are not the current one.
ClickNode(name) ==
    /\ page.at = "show" /\ page.diagram = "ok"
    /\ ~hasNoDependencies(page.record, page.rows)
    /\ \E n \in Graph(page.record, page.rows).nodes : n.id = name /\ ~n.isCurrent
    /\ page' = JobShow(name)
    /\ UNCHANGED <<vars, html, params, changes>>

\* The server applies a log entry.
Entry ==
    /\ page.at = "closed" \/ changes < MaxChanges
    /\ Next
    /\ changes' = IF page.at = "closed" THEN 0 ELSE changes + 1
    /\ UNCHANGED <<html, params, page>>

ViewsInit ==
    /\ Init
    /\ html = [total |-> 0, success |-> 0, failed |-> 0, untriggered |-> 0]
    /\ params = NoFilter
    /\ page = [at |-> "closed"]
    /\ changes = 0

ViewsNext ==
    \/ Entry
    \/ LoadConsole
    \/ StatsAnswer
    \/ \E card \in Clicked : ClickCard(card)
    \/ OpenList
    \/ OpenDashboard
    \/ \E f \in Picked : SetFilter(f)
    \/ \E num \in 1..Cardinality(JobNames) : TurnPage(num)
    \/ \E g \in Groups : ChooseGroup(g)
    \/ Refresh
    \/ ListAnswer
    \/ ListFailure
    \/ \E n \in JobNames : ClickRow(n)
    \/ RecordAnswer
    \/ \E tab \in {"summary", "executions", "dependencies"} : OpenTab(tab)
    \/ DiagramAnswer
    \/ DiagramFailure
    \/ \E n \in JobNames : ClickNode(n)

ViewsSpec == ViewsInit /\ [][ViewsNext]_viewVars

----------------------------------------------------------------------------
(***************************************************************************)
(* Properties                                                              *)
(***************************************************************************)

DiagramShown == page.at = "show" /\ page.diagram = "ok"

\* The diagram draws every ancestor and every descendant of the current job
\* among the jobs it fetched, each once and nothing else, whatever the parent
\* links and the lists of dependents look like, cycles included
\* (findAncestors, findDescendants).
DiagramComplete ==
    DiagramShown =>
        LET nodes == Graph(page.record, page.rows).nodes
        IN  /\ {n.id : n \in nodes} = Related(page.record.name, JobMapOf(page.rows))
            /\ \A n, m \in nodes : n.id = m.id => n = m

\* No box covers another one or the caption of the current job, and the
\* drawing holds them all (the layout of buildDependencyGraph, svgWidth and
\* svgHeight).
BoxesApart ==
    DiagramShown =>
        LET nodes == Graph(page.record, page.rows).nodes
        IN  \A n \in nodes :
              /\ \A m \in nodes \ {n} : Apart(DiagramNode(n), DiagramNode(m))
              /\ DiagramNode(n).left >= 0
              /\ DiagramNode(n).right + svgPadding <= svgSize(nodes).width
              /\ DiagramNode(n).bottom <= svgSize(nodes).height

\* "Arrows indicate execution order": when the fetched jobs form a forest,
\* every arrow runs from a parent's box down to its child's on the next level,
\* and all boxes but the topmost have theirs.
ArrowsDown ==
    DiagramShown /\ IsForest(JobMapOf(page.rows)) =>
        LET g == Graph(page.record, page.rows)
        IN  /\ \A e \in g.edges :
                  /\ DiagramEdge(e).endY - DiagramEdge(e).startY = LEVEL_HEIGHT - NODE_HEIGHT
                  /\ \E n, m \in g.nodes : n.id = e.from /\ m.id = e.to
                                           /\ e.fromY = n.y /\ e.toY = m.y
            /\ g.nodes # {} =>
                  {e.to : e \in g.edges} = {n.id : n \in {m \in g.nodes : m.y > 30}}

\* "This job has no parent or dependent jobs." is true of the jobs that the
\* diagram fetched, if its one page of them held all: no job hangs under the
\* shown one, and the shown one hangs under none.  A job that was deleted
\* before the jobs were fetched has left no children behind.
EmptyIsTrue ==
    DiagramShown /\ Len(page.rows) < DiagramPerPage
                 /\ hasNoDependencies(page.record, page.rows) =>
        LET jobMap == JobMapOf(page.rows)
            shown  == page.record.name
        IN  /\ \A n \in DOMAIN jobMap \ {shown} : jobMap[n].parent # shown
            /\ shown \in DOMAIN jobMap => jobMap[shown].parent \notin DOMAIN jobMap

\* A card and the list behind it agree while no log entry came in between: the
\* page that ui.go fills and the filters of GetJobs count the same jobs.  The
\* Total Jobs card only does when no filter is remembered.
CardsMatchLists ==
    page.at = "jobs" /\ page.st = "ok" /\ changes = 0 /\ page.card # "none"
        /\ page.filter = CardLink(page.card)
    => page.total = html[page.card]

\* The grid shows exactly the fetched jobs of the selected group, with the
\* jobs of each group side by side, and its menu offers every group in sight
\* and the selected one, also after the jobs of that group are gone.
GroupsTogether ==
    page.at = "jobs" =>
        LET shown == JobDatagrid(page.rows, page.group)
            menu  == JobGroupFilter(page.rows, page.group)
        IN  /\ ToSet(shown) = {r \in ToSet(page.rows) : page.group \in {NoGroup, r.group}}
            /\ \A i, j, k \in DOMAIN shown :
                  i < j /\ j < k /\ shown[i].group = shown[k].group
                      => shown[j].group = shown[i].group
            /\ ({r.group : r \in ToSet(shown)} \cup {page.group}) \ {NoGroup} \subseteq menu

\* What the rows of a filtered list say fits the filter: the labels of
\* StatusField and EnabledField against the choices of JobFilter, through the
\* query and GetJobs.
FilterMeansLabel ==
    page.at = "jobs" /\ page.st = "ok" =>
        \A r \in ToSet(page.rows) :
            /\ page.filter.status = "success" => StatusField(r) = "Success"
            /\ page.filter.status = "failed" => StatusField(r) = "Failed"
            /\ page.filter.status = "untriggered" =>
                  StatusField(r) = "Pending" /\ r.status = "none"
            /\ page.filter.disabled = "true" => EnabledField(r) = "Disabled"
            /\ page.filter.disabled = "false" => EnabledField(r) = "Enabled"
============================================================================
