--------------------------- MODULE ConsoleProofs ---------------------------
(***************************************************************************)
(* Proofs about the HTTP API and the web console, for every session, every *)
(* number of overlapping requests and every store they start with.         *)
(***************************************************************************)
EXTENDS Console, FSMProofs, SequenceTheorems

Buttons == {"run", "toggle", "full", "bulkRun", "bulkToggle", "form", "create", "client"}

CallRec ==
    [kind : Writes \cup {"full"}, name : JobNames, job : Job \cup {NoJob},
     at : {"sent", "store", "running", "answered"}, status : HTTPStatuses, applied : BOOLEAN,
     rev : Nat,
     tok : Tokens \cup {"none"}, by : Buttons, here : BOOLEAN, shown : BOOLEAN, size : Nat]

\* Requests that end in SetJob.
Setting == {"save", "toggle", "check", "run"}

\* What a request is in each place: a record about to be stored is valid, and
\* an answer "ok" is about an entry that was applied, the latest at place r.
Sound(h, r) ==
    /\ h.at \in {"sent", "store", "running"} => h.status = "none"
    /\ h.at = "sent" /\ h.kind = "save" => h.job \in Job
    /\ h.at = "store" => h.kind \in Setting /\ h.job \in Job /\ Validate(h.name, h.job)
    /\ h.at = "running" => h.kind = "run" /\ h.applied
    /\ h.kind \in Writes /\ h.status = "ok" => h.applied
    /\ h.rev <= r
    /\ h.kind = "full" => h.rev = 0
    /\ h.by = "full" => h.kind = "full"

Requests(cs, r) ==
    /\ cs \in [Calls -> CallRec \cup {Free}]
    /\ \A c \in Calls : cs[c] # Free => Sound(cs[c], r)

ReadRec ==
    [status : {"ok", "notFound", "unauthorized"}, rev : Nat, size : Nat, rows : SUBSET JobNames]

PageRec ==
    [at : Fetching \cup {"login", "create"}, name : JobNames \cup {0},
     st : {"loading", "ok", "error"}, read : ReadRec \cup {Unread}, rev : Nat,
     rows : SUBSET JobNames, selected : SUBSET JobNames, busy : SUBSET Buttons,
     listed : Nat, panel : [of : Nat, truncated : BOOLEAN]]

\* What a page is when the window knows of the first a entries: what it shows
\* and what is on its way to it is not older.
Sight(p, a) ==
    /\ p \in PageRec
    /\ p.at \in OfOneJob => p.name \in JobNames
    /\ p.at = "login" => p.st = "ok" /\ p.selected = {} /\ p.rev = 0
    /\ p.at \notin Fetching => p.read = Unread
    /\ p.read # Unread => p.read.rev >= a
    /\ p.at \in Fetching /\ p.st = "ok" => p.rev >= a

\* No component that waits for a request is mounted.
Hidden(cs) == \A c \in Calls : cs[c] # Free /\ cs[c].by # "client" => ~cs[c].here

\* The change that can be undone.
Change(x) ==
    \/ x = NoChange
    \/ /\ x \in [kind : {"save", "delete"}, name : JobNames, job : Job \cup {NoJob}]
       /\ x.kind = "save" => x.job \in Job

\* The stores that the node has and will have are made of valid records.
ValidStores == {js \in JobMap : StoreValid(js)}

Trail == trail \in Seq(ValidStores) /\ trail # <<>>

ServerInv ==
    /\ IInv /\ StoreValid(jobs)
    /\ rev \in Nat /\ Trail
    /\ Requests(calls, rev)

WindowInv ==
    /\ session \in Sessions /\ token \in Tokens \cup {"none"}
    /\ acked \in Nat /\ acked <= Seen /\ output \in Nat
    /\ Change(pending)
    /\ Sight(page, acked)
    /\ page.at = "login" => Hidden(calls)
    /\ LoggedOutSeesNothing

----------------------------------------------------------------------------
(***************************************************************************)
(* Requests at the server                                                  *)
(***************************************************************************)

\* A request is told from a free place by its kind.
LEMMA NotFree == Free.kind = "free" /\ \A h \in CallRec : h.kind # "free" /\ h # Free
BY DEF Free, CallRec, Writes

\* Replacing one request by a sound one.
LEMMA OneRequest ==
    ASSUME NEW cs, NEW r \in Nat, NEW s \in Nat, r <= s, Requests(cs, r), NEW c \in Calls,
           NEW h \in CallRec, Sound(h, s)
    PROVE  Requests([cs EXCEPT ![c] = h], s)
<1> DEFINE ds == [cs EXCEPT ![c] = h]
<1>1. ds \in [Calls -> CallRec \cup {Free}] /\ ds[c] = h /\ \A d \in Calls \ {c} : ds[d] = cs[d]
  BY DEF Requests
<1> HIDE DEF ds
<1>2. ASSUME NEW d \in Calls, ds[d] # Free
      PROVE  Sound(ds[d], s)
  <2>1. CASE d = c
    BY <1>1, <2>1
  <2>2. CASE d # c
    <3>1. Sound(cs[d], r) /\ ds[d] = cs[d] /\ cs[d] \in CallRec
      BY <1>1, <1>2, <2>2 DEF Requests
    <3>2. cs[d].rev \in Nat
      BY <3>1 DEF CallRec
    <3>. QED BY <3>1, <3>2 DEF Sound
  <2>. QED BY <2>1, <2>2
<1>3. Requests(ds, s)
  BY <1>1, <1>2 DEF Requests
<1>. QED BY <1>3 DEF ds

\* An answer with a status other than "ok", and one with it.
LEMMA RespondSound ==
    ASSUME Requests(calls, rev), NEW c \in Calls, calls[c] # Free, NEW status \in HTTPStatuses,
           NEW ap \in BOOLEAN, NEW n \in Nat, NEW s \in Nat, n <= s,
           calls[c].kind \in Writes /\ status = "ok" => ap,
           calls[c].kind = "full" => n = 0
    PROVE  LET h == [calls[c] EXCEPT !.at = "answered", !.status = status, !.job = NoJob,
                                     !.applied = ap, !.rev = n]
           IN  h \in CallRec /\ Sound(h, s)
<1>1. calls[c] \in CallRec /\ Sound(calls[c], rev)
  BY DEF Requests
<1>. QED BY <1>1 DEF CallRec, Sound

\* Proceeding to SetJob with a valid record.
LEMMA ProceedSound ==
    ASSUME Requests(calls, rev), NEW c \in Calls, calls[c].kind \in Setting,
           calls[c].at = "sent", NEW job \in Job, Validate(calls[c].name, job)
    PROVE  LET h == [calls[c] EXCEPT !.at = "store", !.job = job]
           IN  h \in CallRec /\ Sound(h, rev)
<1>1. calls[c] \in CallRec /\ Sound(calls[c], rev)
  BY NotFree DEF Requests, Setting
<1>. QED BY <1>1 DEF CallRec, Sound, Setting, Writes

\* The same request, further on.
Onward(c) ==
    \E h \in CallRec : /\ calls' = [calls EXCEPT ![c] = h] /\ Sound(h, rev')
                       /\ h.by = calls[c].by /\ h.here = calls[c].here
                       /\ h.kind = calls[c].kind

\* The answers of handlers that apply no entry.
LEMMA RespondOnward ==
    ASSUME ServerInv, UNCHANGED rev, NEW c \in Calls, calls[c] # Free,
           NEW status \in HTTPStatuses, NEW ap \in BOOLEAN,
           calls[c].kind \in Writes /\ status = "ok" => ap,
           \/ calls' = Respond(c, status) /\ ap = calls[c].applied
           \/ calls' = [Respond(c, status) EXCEPT ![c].applied = ap]
    PROVE  Onward(c)
<1>1. /\ Requests(calls, rev) /\ rev \in Nat /\ calls[c] \in CallRec /\ Sound(calls[c], rev)
      /\ calls \in [Calls -> CallRec \cup {Free}]
  BY DEF ServerInv, Requests
<1>2. PICK h : h = [calls[c] EXCEPT !.at = "answered", !.status = status, !.job = NoJob,
                                    !.applied = ap, !.rev = calls[c].rev]
  OBVIOUS
<1>3. calls[c].rev \in Nat /\ calls[c].rev <= rev /\ (calls[c].kind = "full" => calls[c].rev = 0)
  BY <1>1 DEF CallRec, Sound
<1>4. h \in CallRec /\ Sound(h, rev)
  BY <1>1, <1>2, <1>3, RespondSound
<1>5. h.by = calls[c].by /\ h.here = calls[c].here /\ h.kind = calls[c].kind
  BY <1>1, <1>2 DEF CallRec
<1>6. calls' = [calls EXCEPT ![c] = h]
  <2>1. CASE calls' = Respond(c, status) /\ ap = calls[c].applied
    <3>1. h = [calls[c] EXCEPT !.at = "answered", !.status = status, !.job = NoJob]
      BY <1>1, <1>2, <2>1 DEF CallRec
    <3>2. calls' = [calls EXCEPT ![c] = [calls[c] EXCEPT !.at = "answered", !.status = status,
                                                         !.job = NoJob]]
      BY <1>1, <2>1 DEF Respond
    <3>. QED BY <3>1, <3>2
  <2>2. CASE calls' = [Respond(c, status) EXCEPT ![c].applied = ap]
    <3>1. h = [calls[c] EXCEPT !.at = "answered", !.status = status, !.job = NoJob,
                               !.applied = ap]
      BY <1>1, <1>2 DEF CallRec
    <3>. QED BY <1>1, <2>2, <3>1 DEF Respond
  <2>. QED BY <2>1, <2>2
<1>. QED BY <1>4, <1>5, <1>6 DEF Onward

\* Going on to SetJob.
LEMMA ProceedOnward ==
    ASSUME ServerInv, UNCHANGED rev, NEW c \in Calls, Is(c, Setting, "sent"),
           NEW job \in Job, Validate(calls[c].name, job), calls' = Proceed(c, job)
    PROVE  Onward(c)
<1>1. /\ Requests(calls, rev) /\ rev \in Nat /\ calls[c] \in CallRec
      /\ calls \in [Calls -> CallRec \cup {Free}]
  BY NotFree DEF ServerInv, Requests, Is, Setting
<1>2. PICK h : h = [calls[c] EXCEPT !.at = "store", !.job = job]
  OBVIOUS
<1>3. h \in CallRec /\ Sound(h, rev)
  BY <1>1, <1>2, ProceedSound DEF Is
<1>4. h.by = calls[c].by /\ h.here = calls[c].here /\ h.kind = calls[c].kind
  BY <1>1, <1>2 DEF CallRec
<1>5. calls' = [calls EXCEPT ![c] = h]
  BY <1>1, <1>2 DEF Proceed, CallRec
<1>. QED BY <1>3, <1>4, <1>5 DEF Onward

\* The stores that the node will have, after one more entry.
LEMMA TrailGrows ==
    ASSUME ServerInv, jobs' \in JobMap, StoreValid(jobs'), trail' = Append(trail, jobs'),
           rev' = rev + 1
    PROVE  Trail' /\ Seen' = Seen
<1>1. trail \in Seq(ValidStores) /\ jobs' \in ValidStores /\ rev \in Nat
  BY DEF ServerInv, Trail, ValidStores
<1>2. /\ trail' \in Seq(ValidStores) /\ trail' # <<>> /\ Len(trail') = Len(trail) + 1
      /\ Len(trail) \in Nat
  BY <1>1, AppendProperties, LenProperties
<1>3. Trail'
  BY <1>2 DEF Trail, ValidStores, StoreValid, JobMap
<1>. QED BY <1>1, <1>2, <1>3 DEF Seen

\* The answers after an entry was applied, and the wait for the end of a run.
LEMMA AppliedOnward ==
    ASSUME ServerInv, NEW c \in Calls, calls[c].kind \in Writes, NEW cs, Applied(c, cs),
           \/ \E status \in HTTPStatuses : /\ cs = Respond(c, status)
                                           /\ status = "ok" => resp' = "ok"
           \/ cs = AwaitRun(c) /\ Is(c, {"run"}, "store") /\ resp' = "ok",
           IInv', StoreValid(jobs')
    PROVE  Onward(c) /\ rev' = rev + 1 /\ Trail' /\ Seen' = Seen
<1>1. /\ Requests(calls, rev) /\ rev \in Nat /\ calls[c] # Free /\ calls[c] \in CallRec
      /\ calls \in [Calls -> CallRec \cup {Free}] /\ Sound(calls[c], rev)
  BY NotFree DEF ServerInv, Requests, Writes
<1>2. PICK ap \in BOOLEAN : ap = (resp' = "ok")
  OBVIOUS
<1>3. rev' = rev + 1 /\ calls' = [cs EXCEPT ![c].applied = ap, ![c].rev = rev + 1]
  BY <1>2 DEF Applied
<1>4. calls[c].kind # "full" /\ rev + 1 \in Nat /\ rev + 1 <= rev + 1
  BY <1>1 DEF Writes
<1>5. Trail' /\ Seen' = Seen
  <2>1. jobs' \in JobMap
    BY DEF IInv, TypeOK, JobMap
  <2>2. trail' = Append(trail, jobs')
    BY DEF Applied
  <2>. QED BY <1>3, <2>1, <2>2, TrailGrows
<1>6. ASSUME NEW status \in HTTPStatuses, cs = Respond(c, status), status = "ok" => resp' = "ok"
      PROVE  Onward(c)
  <2>1. PICK h : h = [calls[c] EXCEPT !.at = "answered", !.status = status, !.job = NoJob,
                                      !.applied = ap, !.rev = rev + 1]
    OBVIOUS
  <2>2. h \in CallRec /\ Sound(h, rev + 1)
    BY <1>1, <1>2, <1>4, <1>6, <2>1, RespondSound
  <2>3. h.by = calls[c].by /\ h.here = calls[c].here /\ h.kind = calls[c].kind
    BY <1>1, <2>1 DEF CallRec
  <2>4. calls' = [calls EXCEPT ![c] = h]
    BY <1>1, <1>3, <1>6, <2>1 DEF Respond, CallRec
  <2>. QED BY <1>3, <2>2, <2>3, <2>4 DEF Onward
<1>7. CASE cs = AwaitRun(c) /\ Is(c, {"run"}, "store") /\ resp' = "ok"
  <2>1. PICK h : h = [calls[c] EXCEPT !.at = "running", !.job = NoJob, !.applied = ap,
                                      !.rev = rev + 1]
    OBVIOUS
  <2>2. /\ h \in CallRec /\ h.at = "running" /\ h.status = calls[c].status /\ h.applied = ap
        /\ h.rev = rev + 1
    BY <1>1, <1>4, <2>1 DEF CallRec
  <2>3. h.by = calls[c].by /\ h.here = calls[c].here /\ h.kind = calls[c].kind
    BY <1>1, <2>1 DEF CallRec
  <2>4. Sound(h, rev + 1)
    BY <1>1, <1>2, <1>4, <1>7, <2>2, <2>3 DEF Sound, Is, Writes
  <2>5. calls' = [calls EXCEPT ![c] = h]
    BY <1>1, <1>3, <1>7, <2>1 DEF AwaitRun, CallRec
  <2>. QED BY <1>3, <1>5, <2>2, <2>3, <2>4, <2>5 DEF Onward
<1>. QED BY <1>3, <1>5, <1>6, <1>7

\* Turning a stored job on or off yields a record that SetJob accepts.
LEMMA SwitchedJob ==
    ASSUME NEW name, NEW job \in Job, Validate(name, job), NEW d \in BOOLEAN
    PROVE  /\ [job EXCEPT !.config.disabled = d] \in Job
           /\ Validate(name, [job EXCEPT !.config.disabled = d])
<1>1. PICK k : k = [job.config EXCEPT !.disabled = d]
  OBVIOUS
<1>2. job.config \in Configs
  BY DEF Job
<1>3. k \in Configs
  BY <1>1, <1>2, APIAssumption
<1>4. [job EXCEPT !.config.disabled = d] = [job EXCEPT !.config = k]
  BY <1>1 DEF Job
<1>5. [job EXCEPT !.config = k] \in Job /\ Validate(name, [job EXCEPT !.config = k])
  BY <1>3 DEF Job, Validate
<1>. QED BY <1>4, <1>5

\* The state machine accepts a valid record whose parent is stored.
LEMMA SetJobAnswers ==
    ASSUME IInv, NEW name \in JobNames, NEW job \in Job, applySetJob(name, job),
           Validate(name, job), job.parent # NoParent => Stored(jobs, job.parent)
    PROVE  resp' = "ok"
<1>1. jobs \in JobMap /\ TreeOK(jobs)
  BY IInvFacts
<1>2. PICK next \in NextTimes : resp' = Answer(SetJob(jobs, name, job, next).ok)
  BY DEF applySetJob
<1>3. SetJob(jobs, name, job, next).ok
  BY <1>1, FSMAssumption, SetJobTree
<1>. QED BY <1>2, <1>3 DEF Answer

\* Every handler takes a sound request on and keeps the store whole.
LEMMA HandlerStep ==
    ASSUME ServerInv, NEW c \in Calls, Handler(c)
    PROVE  /\ IInv' /\ StoreValid(jobs)' /\ Trail' /\ Seen' = Seen /\ rev' \in {rev, rev + 1}
           /\ calls[c] # Free /\ calls[c].kind \in Writes /\ Onward(c)
<1>1. /\ IInv /\ StoreValid(jobs) /\ jobs \in JobMap /\ rev \in Nat /\ Requests(calls, rev)
      /\ calls[c] \in CallRec \cup {Free} /\ Trail
  BY IInvFacts DEF ServerInv, Requests
<1>2. Handled => IInv' /\ StoreValid(jobs)' /\ Trail' /\ Seen' = Seen /\ UNCHANGED rev
  BY <1>1, StutterIInv DEF Handled, vars, StoreValid, Trail, ValidStores, JobMap, Seen
<1>3. ASSUME NEW kinds, NEW at, kinds \in {Setting, {"save"}, {"toggle"}, {"check"}, {"run"},
                                          {"delete"}, {"deleteExecutions"},
                                          {"delete", "deleteExecutions"}}, Is(c, kinds, at)
      PROVE  /\ calls[c] # Free /\ calls[c] \in CallRec /\ calls[c].kind \in Writes
             /\ calls[c].name \in JobNames /\ Sound(calls[c], rev) /\ calls[c].at = at
             /\ calls[c].kind \in kinds
  <2>1. calls[c].kind \in Writes /\ calls[c].kind \in kinds /\ calls[c].at = at
    BY <1>3 DEF Is, Setting, Writes
  <2>2. calls[c] # Free
    BY <2>1, NotFree DEF Writes
  <2>. QED BY <1>1, <2>1, <2>2 DEF Requests, CallRec
<1>4. {"unavailable", "badRequest", "notFound", "ok", "serverError", "unprocessable"}
        \subseteq HTTPStatuses
  BY DEF HTTPStatuses
<1>5. ASSUME UNCHANGED rev, calls[c] # Free, NEW status \in HTTPStatuses, status # "ok",
             calls' = Respond(c, status)
      PROVE  Onward(c)
  <2>1. calls[c].applied \in BOOLEAN
    BY <1>1, <1>5 DEF CallRec
  <2>. QED BY <1>5, <2>1, RespondOnward
<1>6. CASE jobCreateOrUpdateHandler(c)
  <2>1. Is(c, {"save"}, "sent") /\ Is(c, Setting, "sent") /\ Handled
    BY <1>6 DEF jobCreateOrUpdateHandler, Is, Setting
  <2>2. calls[c] # Free /\ calls[c].job \in Job /\ calls[c].kind \in Writes
    BY <1>3, <2>1 DEF Sound
  <2>3. \/ calls' = Respond(c, "unavailable") \/ calls' = Respond(c, "badRequest")
        \/ Validate(calls[c].name, calls[c].job) /\ calls' = Proceed(c, calls[c].job)
    BY <1>6 DEF jobCreateOrUpdateHandler
  <2>4. Onward(c)
    BY <1>2, <1>4, <1>5, <2>1, <2>2, <2>3, ProceedOnward
  <2>. QED BY <1>2, <2>1, <2>2, <2>4
<1>7. ASSUME NEW js \in ValidStores, NEW n \in JobNames, js[n] # NoJob
      PROVE  js[n] \in Job /\ Validate(n, js[n]) /\ js[n].config.disabled \in BOOLEAN
  <2>1. js[n] \in Job /\ Validate(n, js[n])
    BY <1>7, StoredIsJob DEF Stored, StoreValid, ValidStores
  <2>2. js[n].config \in Configs
    BY <2>1 DEF Job
  <2>. QED BY <2>1, <2>2, APIAssumption
<1>8. Local \in ValidStores /\ jobs \in ValidStores
  <2>1. trail \in Seq(ValidStores) /\ Len(trail) >= 1
    BY <1>1, EmptySeq, LenProperties DEF Trail
  <2>2. trail[1] \in ValidStores
    BY <2>1, LenProperties, ElementOfSeq
  <2>. QED BY <1>1, <2>2 DEF Local, ValidStores
<1>9. CASE jobToggleHandler(c)
  <2>1. Is(c, {"toggle"}, "sent") /\ Is(c, Setting, "sent") /\ Handled
    BY <1>9 DEF jobToggleHandler, Is, Setting
  <2>2. calls[c] # Free /\ calls[c].name \in JobNames /\ calls[c].kind \in Writes
    BY <1>3, <2>1
  <2>3. CASE Local[calls[c].name] = NoJob
    <3>1. calls' = Respond(c, "notFound")
      BY <1>9, <2>3 DEF jobToggleHandler
    <3>. QED BY <1>2, <1>4, <1>5, <2>1, <2>2, <3>1
  <2>4. CASE Local[calls[c].name] # NoJob
    <3>1. PICK d \in BOOLEAN : d = ~Local[calls[c].name].config.disabled
      OBVIOUS
    <3>2. PICK job : job = [Local[calls[c].name] EXCEPT !.config.disabled = d]
      OBVIOUS
    <3>3. job \in Job /\ Validate(calls[c].name, job)
      BY <1>7, <1>8, <2>2, <2>4, <3>2, SwitchedJob
    <3>4. calls' = Proceed(c, [Local[calls[c].name] EXCEPT
                                 !.config.disabled = ~Local[calls[c].name].config.disabled])
      BY <1>9, <2>4 DEF jobToggleHandler
    <3>5. calls' = Proceed(c, job)
      BY <3>1, <3>2, <3>4
    <3>. QED BY <1>2, <2>1, <2>2, <3>3, <3>5, ProceedOnward
  <2>. QED BY <2>3, <2>4
<1>10. ASSUME UNCHANGED rev, calls[c] # Free,
             calls' = [Respond(c, "ok") EXCEPT ![c].applied = TRUE]
      PROVE  Onward(c)
  <2>1. TRUE \in BOOLEAN /\ "ok" \in HTTPStatuses
    BY <1>4
  <2>. QED BY <1>10, <2>1, RespondOnward
<1>11. CASE jobAutoDisableCheckHandler(c)
  <2>1. Is(c, {"check"}, "sent") /\ Is(c, Setting, "sent") /\ Handled
    BY <1>11 DEF jobAutoDisableCheckHandler, Is, Setting
  <2>2. calls[c] # Free /\ calls[c].name \in JobNames /\ calls[c].kind \in Writes
    BY <1>3, <2>1
  <2>3. \/ calls' = Respond(c, "notFound")
        \/ calls' = [Respond(c, "ok") EXCEPT ![c].applied = TRUE]
        \/ /\ Local[calls[c].name] # NoJob
           /\ calls' = Proceed(c, [Local[calls[c].name] EXCEPT !.config.disabled = TRUE])
    BY <1>11 DEF jobAutoDisableCheckHandler
  <2>4. CASE /\ Local[calls[c].name] # NoJob
             /\ calls' = Proceed(c, [Local[calls[c].name] EXCEPT !.config.disabled = TRUE])
    <3>1. PICK job : job = [Local[calls[c].name] EXCEPT !.config.disabled = TRUE]
      OBVIOUS
    <3>2. job \in Job /\ Validate(calls[c].name, job)
      BY <1>7, <1>8, <2>2, <2>4, <3>1, SwitchedJob
    <3>3. calls' = Proceed(c, job)
      BY <2>4, <3>1
    <3>. QED BY <1>2, <2>1, <2>2, <3>2, <3>3, ProceedOnward
  <2>. QED BY <1>2, <1>4, <1>5, <1>10, <2>1, <2>2, <2>3, <2>4
<1>12. CASE jobRunHandler(c)
  <2>1. Is(c, {"run"}, "sent") /\ Is(c, Setting, "sent") /\ Handled
    BY <1>12 DEF jobRunHandler, Is, Setting
  <2>2. calls[c] # Free /\ calls[c].name \in JobNames /\ calls[c].kind \in Writes
    BY <1>3, <2>1
  <2>3. PICK next \in NextTimes :
           \/ calls' = Respond(c, "notFound")
           \/ calls' = [AwaitRun(c) EXCEPT ![c].applied = TRUE]
           \/ /\ jobs[calls[c].name] # NoJob
              /\ calls' = Proceed(c, [jobs[calls[c].name] EXCEPT !.next = next])
    BY <1>12 DEF jobRunHandler
  <2>4. CASE /\ jobs[calls[c].name] # NoJob
             /\ calls' = Proceed(c, [jobs[calls[c].name] EXCEPT !.next = next])
    <3>1. PICK job : job = [jobs[calls[c].name] EXCEPT !.next = next]
      OBVIOUS
    <3>2. jobs[calls[c].name] \in Job /\ Validate(calls[c].name, jobs[calls[c].name])
      BY <1>7, <1>8, <2>2, <2>4
    <3>3. job \in Job /\ Validate(calls[c].name, job)
      BY <3>1, <3>2, FSMAssumption DEF Job, Validate
    <3>4. calls' = Proceed(c, job)
      BY <2>4, <3>1
    <3>. QED BY <1>2, <2>1, <2>2, <3>3, <3>4, ProceedOnward
  <2>5. CASE calls' = [AwaitRun(c) EXCEPT ![c].applied = TRUE]
    <3>1. PICK h : h = [calls[c] EXCEPT !.at = "running", !.job = NoJob, !.applied = TRUE]
      OBVIOUS
    <3>2. calls[c] \in CallRec /\ calls[c].kind = "run" /\ Sound(calls[c], rev)
          /\ calls[c].at = "sent" /\ calls \in [Calls -> CallRec \cup {Free}]
      BY <1>1, <1>3, <2>1 DEF Requests
    <3>3. h \in CallRec /\ h.by = calls[c].by /\ h.here = calls[c].here /\ h.kind = "run"
      BY <3>1, <3>2 DEF CallRec
    <3>4. Sound(h, rev)
      BY <3>1, <3>2 DEF Sound, CallRec
    <3>5. calls' = [calls EXCEPT ![c] = h]
      BY <2>5, <3>1, <3>2 DEF AwaitRun, CallRec
    <3>6. Onward(c)
      BY <1>2, <2>1, <3>2, <3>3, <3>4, <3>5 DEF Onward
    <3>. QED BY <1>2, <2>1, <2>2, <3>6
  <2>. QED BY <1>2, <1>4, <1>5, <2>1, <2>2, <2>3, <2>4, <2>5
<1>13. CASE SetJobRPC(c)
  <2>1. /\ Is(c, Setting, "store") /\ applySetJob(calls[c].name, calls[c].job)
        /\ \/ /\ ~ParentError(calls[c].name, calls[c].job)
              /\ calls[c].kind = "run" /\ Applied(c, AwaitRun(c))
           \/ ~ParentError(calls[c].name, calls[c].job) /\ Applied(c, Respond(c, "ok"))
           \/ Applied(c, Respond(c, "notFound"))
           \/ Applied(c, Respond(c, OnError(calls[c].kind)))
    BY <1>13 DEF SetJobRPC, Setting
  <2>2. /\ calls[c] # Free /\ calls[c].name \in JobNames /\ calls[c].job \in Job
        /\ Validate(calls[c].name, calls[c].job) /\ calls[c].kind \in Setting
        /\ calls[c].kind \in Writes
    BY <1>3, <2>1 DEF Sound
  <2>3. IInv' /\ StoreValid(jobs')
    BY <1>1, <2>1, <2>2, SetJobKeeps, SetJobWrites DEF SoundEntry
  <2>4. ~ParentError(calls[c].name, calls[c].job) => resp' = "ok"
    BY <1>1, <2>1, <2>2, SetJobAnswers DEF ParentError
  <2>5. OnError(calls[c].kind) \in HTTPStatuses \ {"ok"}
    BY <1>4, <2>2 DEF OnError, Setting
  <2>6. PICK cs : /\ Applied(c, cs)
                  /\ \/ \E status \in HTTPStatuses : /\ cs = Respond(c, status)
                                                     /\ status = "ok" => resp' = "ok"
                     \/ cs = AwaitRun(c) /\ Is(c, {"run"}, "store") /\ resp' = "ok"
    BY <1>4, <2>1, <2>4, <2>5 DEF Is
  <2>7. Onward(c) /\ rev' = rev + 1 /\ Trail' /\ Seen' = Seen
    BY <2>2, <2>3, <2>6, AppliedOnward
  <2>. QED BY <2>2, <2>3, <2>7 DEF StoreValid
<1>14. CASE jobDeleteHandler(c)
  <2>1. /\ Is(c, {"delete"}, "sent") /\ applyDeleteJob(calls[c].name)
        /\ Applied(c, Respond(c, IF resp' = "ok" THEN "ok" ELSE "notFound"))
    BY <1>14 DEF jobDeleteHandler, OnError
  <2>2. calls[c] # Free /\ calls[c].name \in JobNames /\ calls[c].kind \in Writes
    BY <1>3, <2>1
  <2>3. IInv' /\ StoreValid(jobs')
    BY <1>1, <2>1, <2>2, DeleteJobKeeps, DeleteJobRemoves DEF SoundEntry
  <2>4. PICK status \in HTTPStatuses : /\ Applied(c, Respond(c, status))
                                       /\ status = "ok" => resp' = "ok"
    BY <1>4, <2>1
  <2>5. Onward(c) /\ rev' = rev + 1 /\ Trail' /\ Seen' = Seen
    BY <2>2, <2>3, <2>4, AppliedOnward
  <2>. QED BY <2>2, <2>3, <2>5 DEF StoreValid
<1>15. CASE executionsDeleteHandler(c)
  <2>1. /\ Is(c, {"deleteExecutions"}, "sent") /\ applyDeleteExecutions(calls[c].name)
        /\ Applied(c, Respond(c, IF resp' = "ok" THEN "ok" ELSE "serverError"))
    BY <1>15 DEF executionsDeleteHandler, OnError
  <2>2. calls[c] # Free /\ calls[c].name \in JobNames /\ calls[c].kind \in Writes
    BY <1>3, <2>1
  <2>3. IInv' /\ StoreValid(jobs')
    BY <1>1, <2>1, <2>2, DeleteExecutionsKeeps, ResetKeepsOwn, OwnKeptValid DEF SoundEntry
  <2>4. PICK status \in HTTPStatuses : /\ Applied(c, Respond(c, status))
                                       /\ status = "ok" => resp' = "ok"
    BY <1>4, <2>1
  <2>5. Onward(c) /\ rev' = rev + 1 /\ Trail' /\ Seen' = Seen
    BY <2>2, <2>3, <2>4, AppliedOnward
  <2>. QED BY <2>2, <2>3, <2>5 DEF StoreValid
<1>16. CASE RPCFails(c)
  <2>1. /\ Is(c, Setting, "store") \/ Is(c, {"delete", "deleteExecutions"}, "sent")
        /\ calls' = Respond(c, OnError(calls[c].kind)) /\ Handled
    BY <1>16 DEF RPCFails, Setting
  <2>2. calls[c] # Free /\ calls[c].kind \in Setting \cup {"delete", "deleteExecutions"}
    BY <1>3, <2>1
  <2>4. calls[c].kind \in Writes
    BY <2>2 DEF Setting, Writes
  <2>3. PICK status \in HTTPStatuses : status = OnError(calls[c].kind) /\ status # "ok"
    BY <1>4, <2>2 DEF OnError, Setting
  <2>. QED BY <1>2, <1>5, <2>1, <2>2, <2>3, <2>4
<1>. QED
  BY <1>6, <1>9, <1>11, <1>12, <1>13, <1>14, <1>15, <1>16 DEF Handler

----------------------------------------------------------------------------
(***************************************************************************)
(* Requests at the window                                                  *)
(***************************************************************************)

\* Leaving a page detaches its requests.
LEMMA OrphanedRequests ==
    ASSUME NEW cs, NEW r, Requests(cs, r)
    PROVE  Requests(Orphaned(cs), r) /\ Hidden(Orphaned(cs))
<1>1. ASSUME NEW c \in Calls
      PROVE  \/ cs[c] = Free /\ Orphaned(cs)[c] = Free
             \/ /\ cs[c] \in CallRec /\ Sound(cs[c], r)
                /\ Orphaned(cs)[c] = [cs[c] EXCEPT !.here = FALSE]
  BY DEF Requests, Orphaned
<1>2. ASSUME NEW h \in CallRec, Sound(h, r)
      PROVE  /\ [h EXCEPT !.here = FALSE] \in CallRec /\ Sound([h EXCEPT !.here = FALSE], r)
             /\ ~[h EXCEPT !.here = FALSE].here
  BY <1>2 DEF CallRec, Sound
<1>3. DOMAIN Orphaned(cs) = Calls /\ Orphaned(cs) = [c \in Calls |-> Orphaned(cs)[c]]
  BY DEF Orphaned
<1>4. \A c \in Calls : Orphaned(cs)[c] \in CallRec \cup {Free}
  BY <1>1, <1>2
<1>5. Orphaned(cs) \in [Calls -> CallRec \cup {Free}]
  BY <1>3, <1>4
<1>. QED BY <1>1, <1>2, <1>5 DEF Requests, Hidden

\* A new answer detaches the records that FullButton was rendered with.
LEMMA RenewedRequests ==
    ASSUME NEW cs, NEW r, Requests(cs, r)
    PROVE  Requests(Renewed(cs), r) /\ (Hidden(cs) => Hidden(Renewed(cs)))
<1>1. ASSUME NEW c \in Calls
      PROVE  \/ Renewed(cs)[c] = cs[c]
             \/ /\ cs[c] \in CallRec /\ Sound(cs[c], r) /\ cs[c] # Free
                /\ Renewed(cs)[c] = [cs[c] EXCEPT !.shown = FALSE]
  BY NotFree DEF Requests, Renewed
<1>2. ASSUME NEW h \in CallRec, Sound(h, r)
      PROVE  /\ [h EXCEPT !.shown = FALSE] \in CallRec /\ Sound([h EXCEPT !.shown = FALSE], r)
             /\ [h EXCEPT !.shown = FALSE].here = h.here /\ [h EXCEPT !.shown = FALSE].by = h.by
  BY <1>2 DEF CallRec, Sound
<1>3. Renewed(cs) = [c \in Calls |-> Renewed(cs)[c]]
  BY DEF Renewed
<1>4. \A c \in Calls : Renewed(cs)[c] \in CallRec \cup {Free}
  BY <1>1, <1>2 DEF Requests
<1>5. Renewed(cs) \in [Calls -> CallRec \cup {Free}]
  BY <1>3, <1>4
<1>. QED BY <1>1, <1>2, <1>5 DEF Requests, Hidden

\* A request that was answered leaves its place.
LEMMA SettledRequests ==
    ASSUME NEW r, Requests(calls, r), NEW c \in Calls
    PROVE  Requests(Settled(c), r) /\ (Hidden(calls) => Hidden(Settled(c)))
BY DEF Requests, Settled, Hidden

\* A new request is sound.
LEMMA AskSound ==
    ASSUME token \in Tokens \cup {"none"}, NEW kind \in Writes \cup {"full"}, NEW name \in JobNames,
           NEW job \in Job \cup {NoJob}, kind = "save" => job \in Job, NEW by \in Buttons,
           by = "full" => kind = "full", NEW r \in Nat
    PROVE  Ask(kind, name, job, by) \in CallRec /\ Sound(Ask(kind, name, job, by), r)
BY DEF Ask, CallRec, Sound, HTTPStatuses

\* So are several.
LEMMA SendRequests ==
    ASSUME token \in Tokens \cup {"none"}, NEW kind \in Writes \cup {"full"},
           NEW names \in SUBSET JobNames, NEW job \in Job \cup {NoJob},
           kind = "save" => job \in Job, NEW by \in Buttons, by = "full" => kind = "full",
           rev \in Nat, Requests(calls, rev), Send(kind, names, job, by)
    PROVE  Requests(calls', rev)
<1>1. PICK f : calls' = [c \in Calls |->
                           IF \E n \in names : f[n] = c
                             THEN Ask(kind, CHOOSE n \in names : f[n] = c, job, by)
                             ELSE calls[c]]
  BY DEF Send
<1>2. ASSUME NEW c \in Calls
      PROVE  \/ calls'[c] = calls[c]
             \/ calls'[c] \in CallRec /\ Sound(calls'[c], rev)
  <2>1. CASE \E n \in names : f[n] = c
    <3>1. PICK m \in JobNames : m = CHOOSE n \in names : f[n] = c
      BY <2>1
    <3>. QED BY <1>1, <2>1, <3>1, AskSound
  <2>2. CASE ~\E n \in names : f[n] = c
    BY <1>1, <2>2
  <2>. QED BY <2>1, <2>2
<1>3. calls' = [c \in Calls |-> calls'[c]]
  BY <1>1
<1>4. \A c \in Calls : calls'[c] \in CallRec \cup {Free}
  BY <1>2 DEF Requests
<1>5. calls' \in [Calls -> CallRec \cup {Free}]
  BY <1>3, <1>4
<1>. QED BY <1>2, <1>5 DEF Requests

----------------------------------------------------------------------------
(***************************************************************************)
(* Pages                                                                   *)
(***************************************************************************)

\* A page that was just mounted.
LEMMA NewPage ==
    ASSUME NEW at \in Fetching \cup {"login", "create"}, NEW name \in JobNames \cup {0},
           at \in OfOneJob => name \in JobNames, NEW a
    PROVE  Sight(Page(at, name), a) /\ Page(at, name).at = at
<1>1. Fetching = {"show", "executions", "edit", "list", "busy", "members"}
  BY DEF Fetching, OfOneJob
<1>. QED BY <1>1 DEF Page, Sight, PageRec, NoPanel, Unread

\* A page that asks again is as good as new.
LEMMA RefreshedPage ==
    ASSUME NEW p, NEW a, Sight(p, a), NEW b
    PROVE  Sight(Refreshed(p), b) /\ Refreshed(p).at = p.at
<1>1. CASE p.at \in Fetching
  <2>1. Refreshed(p) = [p EXCEPT !.st = "loading", !.read = Unread]
    BY <1>1 DEF Refreshed
  <2>2. p.at # "login"
    BY <1>1 DEF Fetching, OfOneJob
  <2>. QED BY <1>1, <2>1, <2>2 DEF Sight, PageRec
<1>2. CASE p.at \notin Fetching
  <2>1. Refreshed(p) = p
    BY <1>2 DEF Refreshed
  <2>. QED BY <1>2, <2>1 DEF Sight
<1>. QED BY <1>1, <1>2

\* Spinners change nothing that a page shows.
LEMMA BusyPage ==
    ASSUME NEW p, NEW a, Sight(p, a), NEW B \in SUBSET Buttons
    PROVE  Sight([p EXCEPT !.busy = B], a) /\ [p EXCEPT !.busy = B].at = p.at
BY DEF Sight, PageRec

\* Nor do checkboxes.
LEMMA SelectedPage ==
    ASSUME NEW p, NEW a, Sight(p, a), NEW S \in SUBSET JobNames, p.at # "login" \/ S = {}
    PROVE  Sight([p EXCEPT !.selected = S], a) /\ [p EXCEPT !.selected = S].at = p.at
BY DEF Sight, PageRec

\* What the server sends of an output.
LEMMA PanelSent ==
    ASSUME NEW size \in Nat
    PROVE  /\ executionsHandler(size) \in [of : Nat, truncated : BOOLEAN]
           /\ executionsHandler(size).of = size
<1>1. (size > OutputLimit) \in BOOLEAN
  BY ConsoleAssumption, SMT
<1>2. PICK b \in BOOLEAN : b = (size > OutputLimit)
  BY <1>1, Zenon
<1>3. executionsHandler(size) = [of |-> size, truncated |-> b]
  BY <1>2, Zenon DEF executionsHandler
<1>. QED BY <1>3

\* The newest of two entries.
LEMMA MaxOfTwo ==
    ASSUME NEW a \in Nat, NEW b \in Nat
    PROVE  Max({a, b}) \in {a, b} /\ a <= Max({a, b}) /\ b <= Max({a, b})
<1>1. \E x \in {a, b} : \A y \in {a, b} : x >= y
  OBVIOUS
<1>2. PICK m : m = Max({a, b})
  OBVIOUS
<1>3. m \in {a, b} /\ \A y \in {a, b} : m >= y
  BY <1>1, <1>2 DEF Max
<1>. QED BY <1>2, <1>3

----------------------------------------------------------------------------
(***************************************************************************)
(* Steps of the window                                                     *)
(***************************************************************************)

\* What a step that applies no entry has to establish.
Keeps ==
    /\ Requests(calls', rev)
    /\ Sight(page', acked')
    /\ token' \in Tokens \cup {"none"}
    /\ page'.at = "login" => Hidden(calls')
    /\ session.acl /\ token' = "none" => page'.at = "login"

\* A step that establishes it keeps the invariant.
LEMMA StepStays ==
    ASSUME ServerInv, WindowInv, UNCHANGED <<vars, rev, trail, session>>, Keeps,
           acked' \in Nat, acked' <= Seen, output' \in Nat, Change(pending')
    PROVE  ServerInv' /\ WindowInv'
<1>1. IInv' /\ StoreValid(jobs)'
  BY StutterIInv DEF ServerInv, StoreValid, vars
<1>2. Trail' /\ Seen' = Seen
  BY DEF ServerInv, Trail, ValidStores, StoreValid, JobMap, Seen
<1>. QED BY <1>1, <1>2 DEF ServerInv, WindowInv, Keeps, LoggedOutSeesNothing

\* A window that is not at the login page has a token if it needs one.
LEMMA SignedIn ==
    ASSUME WindowInv, page.at # "login"
    PROVE  ~(session.acl /\ token = "none")
BY DEF WindowInv, LoggedOutSeesNothing

\* Going to another page than the login page.
LEMMA GotoKeeps ==
    ASSUME ServerInv, NEW at \in Fetching \cup {"create"}, NEW name \in JobNames \cup {0},
           at \in OfOneJob => name \in JobNames, NEW cs, Requests(cs, rev), Goto(at, name, cs),
           token' \in Tokens \cup {"none"}, ~(session.acl /\ token' = "none")
    PROVE  Keeps
<1>1. Sight(page', acked') /\ page'.at = at
  BY NewPage DEF Goto
<1>2. Requests(calls', rev)
  BY OrphanedRequests DEF Goto
<1>3. at # "login"
  BY DEF Fetching, OfOneJob
<1>. QED BY <1>1, <1>2, <1>3 DEF Keeps

\* Going to the login page.
LEMMA SignOutKeeps ==
    ASSUME NEW cs, Requests(cs, rev), SignOut(cs)
    PROVE  Keeps
<1>1. Sight(page', acked') /\ page'.at = "login"
  BY NewPage DEF SignOut, Goto, OfOneJob
<1>2. Requests(calls', rev) /\ Hidden(calls')
  BY OrphanedRequests DEF SignOut, Goto
<1>. QED BY <1>1, <1>2 DEF Keeps, SignOut

\* Staying on the page, whatever is drawn on it.
LEMMA SamePageKeeps ==
    ASSUME WindowInv, Requests(calls', rev), Sight(page', acked'), page'.at = page.at,
           page.at = "login" => Hidden(calls'), UNCHANGED token
    PROVE  Keeps
BY DEF WindowInv, Keeps, LoggedOutSeesNothing

\* The error handler of the data provider does one or the other.
LEMMA CheckErrorKeeps ==
    ASSUME WindowInv, NEW status, NEW p, NEW cs, Requests(cs, rev), Sight(p, acked'),
           p.at = page.at, page.at = "login" => Hidden(cs), checkError(status, p, cs)
    PROVE  Keeps
<1>1. CASE SignOut(cs)
  BY <1>1, SignOutKeeps
<1>2. CASE page' = p /\ calls' = cs /\ UNCHANGED token
  BY <1>2, SamePageKeeps
<1>. QED BY <1>1, <1>2 DEF checkError

\* The window in the terms of the lemmas.
LEMMA WindowFacts ==
    ASSUME ServerInv, WindowInv
    PROVE  /\ rev \in Nat /\ Seen \in Nat /\ acked \in Nat /\ acked <= Seen /\ output \in Nat
           /\ Requests(calls, rev) /\ Sight(page, acked) /\ Change(pending)
           /\ token \in Tokens \cup {"none"}
           /\ page.at = "login" => Hidden(calls)
           /\ session \in Session
           /\ page.selected \in SUBSET JobNames /\ page.busy \in SUBSET Buttons
           /\ page.rev > 0 => page.at # "login"
           /\ page.at \in OfOneJob => page.name \in JobNames
<1>1. rev \in Nat /\ Len(trail) \in Nat /\ acked \in Nat /\ acked <= Seen
  BY LenProperties DEF ServerInv, WindowInv, Trail
<1>2. Seen \in Nat
  BY <1>1 DEF Seen
<1>. QED BY <1>1, <1>2, ConsoleAssumption DEF ServerInv, WindowInv, Sight, PageRec

Kept == ServerInv' /\ WindowInv'

\* The user goes elsewhere, signs in or out.
LEMMA UserMoves ==
    ASSUME ServerInv, WindowInv,
           \/ \E v \in session.visits : Navigate(v[1], v[2])
           \/ \E tok \in Tokens : LoginPage(tok)
           \/ Logout
    PROVE  Kept
<1>1. /\ rev \in Nat /\ acked \in Nat /\ acked <= Seen /\ output \in Nat /\ Requests(calls, rev)
      /\ token \in Tokens \cup {"none"} /\ session \in Session /\ Change(pending)
  BY WindowFacts
<1>2. /\ UNCHANGED <<vars, rev, trail, session, acked, output, pending>>
  BY DEF Navigate, LoginPage, Logout
<1>3. ASSUME NEW v \in session.visits, Navigate(v[1], v[2])
      PROVE  Keeps
  <2>1. /\ v[1] \in Fetching \cup {"create"} /\ v[2] \in JobNames \cup {0}
        /\ v[1] \in OfOneJob => v[2] \in JobNames
    BY <1>1 DEF Session, Fetching, OfOneJob
  <2>2. Goto(v[1], v[2], calls) /\ UNCHANGED token /\ page.at # "login"
    BY <1>3 DEF Navigate
  <2>. QED BY <1>1, <2>1, <2>2, SignedIn, GotoKeeps
<1>4. ASSUME NEW tok \in Tokens, LoginPage(tok)
      PROVE  Keeps
  <2>1. Goto("list", 0, calls) /\ token' = tok /\ tok # "none"
    BY <1>4 DEF LoginPage, Tokens
  <2>2. "list" \in Fetching /\ "list" \notin OfOneJob
    BY DEF Fetching, OfOneJob
  <2>. QED BY <1>1, <2>1, <2>2, GotoKeeps
<1>5. ASSUME Logout
      PROVE  Keeps
  BY <1>1, <1>5, SignOutKeeps DEF Logout
<1>6. Keeps
  BY <1>3, <1>4, <1>5
<1>7. Change(pending')
  BY <1>1, <1>2
<1>. QED BY <1>1, <1>2, <1>6, <1>7, StepStays DEF Kept

\* The user presses a button of the page.
LEMMA PressKeeps ==
    ASSUME ServerInv, WindowInv, NEW button \in Buttons, NEW kind \in {"run", "toggle", "full"},
           button = "full" => kind = "full", NEW names \in SUBSET JobNames,
           Press(button, kind, names)
    PROVE  Kept
<1>1. /\ rev \in Nat /\ acked \in Nat /\ acked <= Seen /\ output \in Nat /\ Requests(calls, rev)
      /\ token \in Tokens \cup {"none"} /\ Change(pending) /\ Sight(page, acked)
      /\ page.busy \in SUBSET Buttons /\ (page.rev > 0 => page.at # "login")
  BY WindowFacts
<1>2. /\ UNCHANGED <<vars, rev, trail, session, acked, output, pending, token>>
      /\ page' = [page EXCEPT !.busy = @ \cup {button}] /\ page.rev > 0
      /\ Send(kind, names, NoJob, button)
  BY DEF Press
<1>3. Requests(calls', rev)
  <2>1. kind \in Writes \cup {"full"} /\ kind # "save" /\ NoJob \in Job \cup {NoJob}
    BY DEF Writes
  <2>. QED BY <1>1, <1>2, <2>1, SendRequests
<1>4. Sight(page', acked') /\ page'.at = page.at
  <2>1. PICK B \in SUBSET Buttons : B = page.busy \cup {button}
    BY <1>1
  <2>2. page' = [page EXCEPT !.busy = B]
    BY <1>2, <2>1
  <2>3. Sight(page', acked) /\ page'.at = page.at
    BY <1>1, <2>2, BusyPage
  <2>. QED BY <1>2, <2>3
<1>5. Keeps
  BY <1>1, <1>2, <1>3, <1>4, SamePageKeeps
<1>6. Change(pending')
  BY <1>1, <1>2
<1>. QED BY <1>1, <1>2, <1>5, <1>6, StepStays DEF Kept

\* Each of the buttons.
LEMMA UserPresses ==
    ASSUME ServerInv, WindowInv,
           RunButton \/ ToggleButton \/ FullButton \/ BulkRunButton \/ BulkToggleButton
    PROVE  Kept
<1>1. /\ page.at \in OfOneJob => page.name \in JobNames
      /\ page.selected \in SUBSET JobNames
  BY WindowFacts
<1>2. {"show", "executions"} \subseteq OfOneJob
  BY DEF OfOneJob
<1>3. {"run", "toggle", "full", "bulkRun", "bulkToggle"} \subseteq Buttons
  BY DEF Buttons
<1>4. CASE RunButton
  <2>1. Press("run", "run", {page.name}) /\ {page.name} \in SUBSET JobNames
    BY <1>1, <1>2, <1>4 DEF RunButton
  <2>. QED BY <1>3, <2>1, PressKeeps
<1>5. CASE ToggleButton
  <2>1. Press("toggle", "toggle", {page.name}) /\ {page.name} \in SUBSET JobNames
    BY <1>1, <1>2, <1>5 DEF ToggleButton
  <2>. QED BY <1>3, <2>1, PressKeeps
<1>6. CASE FullButton
  <2>1. Press("full", "full", {page.name}) /\ {page.name} \in SUBSET JobNames
    BY <1>1, <1>2, <1>6 DEF FullButton
  <2>. QED BY <1>3, <2>1, PressKeeps
<1>7. CASE BulkRunButton
  BY <1>1, <1>3, <1>7, PressKeeps DEF BulkRunButton
<1>8. CASE BulkToggleButton
  BY <1>1, <1>3, <1>8, PressKeeps DEF BulkToggleButton
<1>. QED BY <1>4, <1>5, <1>6, <1>7, <1>8

\* The user works on a page without leaving it.
LEMMA UserStays ==
    ASSUME ServerInv, WindowInv,
           AppBarRefresh \/ Undo \/ \E n \in JobNames : Select(n) \/ BulkDelete(n)
    PROVE  Kept
<1>1. /\ rev \in Nat /\ acked \in Nat /\ acked <= Seen /\ output \in Nat /\ Requests(calls, rev)
      /\ Change(pending) /\ Sight(page, acked) /\ (page.at = "login" => Hidden(calls))
      /\ page.selected \in SUBSET JobNames
  BY WindowFacts
<1>2. UNCHANGED <<vars, calls, rev, trail, session, acked, output, token>>
  BY DEF AppBarRefresh, Undo, Select, BulkDelete, apiVars
<1>3. Requests(calls', rev) /\ (page.at = "login" => Hidden(calls'))
  BY <1>1, <1>2
<1>4. CASE AppBarRefresh \/ Undo
  <2>1. page' = Refreshed(page) /\ (pending' = pending \/ pending' = NoChange)
    BY <1>4 DEF AppBarRefresh, Undo
  <2>2. Sight(page', acked') /\ page'.at = page.at
    BY <1>1, <2>1, RefreshedPage
  <2>3. Change(pending')
    BY <1>1, <2>1 DEF Change
  <2>4. Keeps
    BY <1>2, <1>3, <2>2, SamePageKeeps
  <2>. QED BY <1>1, <1>2, <2>3, <2>4, StepStays DEF Kept
<1>5. ASSUME NEW n \in JobNames, Select(n) \/ BulkDelete(n)
      PROVE  Kept
  <2>1. PICK S \in SUBSET JobNames : page' = [page EXCEPT !.selected = S]
    <3>1. PICK S : S = (page.selected \ {n}) \cup ({n} \ page.selected)
      OBVIOUS
    <3>2. S \in SUBSET JobNames
      BY <1>1, <3>1
    <3>. QED BY <1>5, <3>1, <3>2 DEF Select, BulkDelete
  <2>2. page.at # "login"
    BY <1>5 DEF Select, BulkDelete
  <2>3. Sight(page', acked) /\ page'.at = page.at
    BY <1>1, <2>1, <2>2, SelectedPage
  <2>4. Change(pending')
    BY <1>1, <1>5 DEF Select, BulkDelete, Change
  <2>5. Keeps
    BY <1>2, <1>3, <2>3, SamePageKeeps
  <2>. QED BY <1>1, <1>2, <2>4, <2>5, StepStays DEF Kept
<1>. QED BY <1>4, <1>5

\* The user saves a form.
LEMMA UserSaves ==
    ASSUME ServerInv, WindowInv, NEW i \in session.forms, JobEdit(i) \/ JobCreate(i)
    PROVE  Kept
<1>1. /\ rev \in Nat /\ acked \in Nat /\ acked <= Seen /\ output \in Nat /\ Requests(calls, rev)
      /\ token \in Tokens \cup {"none"} /\ Change(pending) /\ Sight(page, acked)
      /\ page.busy \in SUBSET Buttons /\ session \in Session
  BY WindowFacts
<1>2. i.name \in JobNames /\ i.job \in Job
  BY <1>1, FSMAssumption DEF Session
<1>3. UNCHANGED <<vars, rev, trail, session, acked, output, token>> /\ page.at # "login"
  BY DEF JobEdit, JobCreate
<1>4. CASE JobEdit(i)
  <2>1. /\ pending' = [kind |-> "save", name |-> i.name, job |-> i.job]
        /\ Goto("list", 0, calls)
    BY <1>4 DEF JobEdit
  <2>2. Change(pending')
    BY <1>2, <2>1 DEF Change
  <2>3. "list" \in Fetching /\ "list" \notin OfOneJob
    BY DEF Fetching, OfOneJob
  <2>4. Keeps
    BY <1>1, <1>3, <2>1, <2>3, SignedIn, GotoKeeps
  <2>. QED BY <1>1, <1>3, <2>2, <2>4, StepStays DEF Kept
<1>5. CASE JobCreate(i)
  <2>1. /\ Send("save", {i.name}, i.job, "create") /\ UNCHANGED pending
        /\ page' = [page EXCEPT !.busy = @ \cup {"create"}]
    BY <1>5 DEF JobCreate
  <2>2. PICK B \in SUBSET Buttons : B = page.busy \cup {"create"}
    BY <1>1 DEF Buttons
  <2>3. Sight(page', acked) /\ page'.at = page.at
    BY <1>1, <2>1, <2>2, BusyPage
  <2>4. /\ "save" \in Writes \cup {"full"} /\ "create" \in Buttons
        /\ {i.name} \in SUBSET JobNames /\ i.job \in Job \cup {NoJob}
    BY <1>2 DEF Writes, Buttons
  <2>5. Requests(calls', rev)
    BY <1>1, <1>2, <2>1, <2>4, SendRequests
  <2>6. Keeps
    BY <1>3, <2>3, <2>5, SamePageKeeps
  <2>7. Change(pending')
    BY <1>1, <2>1
  <2>. QED BY <1>1, <1>3, <2>6, <2>7, StepStays DEF Kept
<1>. QED BY <1>4, <1>5

----------------------------------------------------------------------------
(***************************************************************************)
(* Answers on their way to the window                                      *)
(***************************************************************************)

\* The server reads for the page: what it reads is not older than what the
\* window was told of.
LEMMA PageRead ==
    ASSUME ServerInv, WindowInv, FetchRead
    PROVE  Kept
<1>1. /\ rev \in Nat /\ Seen \in Nat /\ acked \in Nat /\ acked <= Seen
      /\ output \in Nat /\ Requests(calls, rev)
      /\ Change(pending) /\ Sight(page, acked) /\ (page.at = "login" => Hidden(calls))
  BY WindowFacts
<1>2. UNCHANGED <<vars, calls, rev, trail, session, acked, output, token, pending>>
  BY DEF FetchRead, apiVars
<1>3. PICK status \in {"ok", "notFound", "unauthorized"}, size \in Nat, rows \in SUBSET JobNames :
         page' = [page EXCEPT !.read = [status |-> status, rev |-> Seen, size |-> size,
                                        rows |-> rows]]
  <2>1. PICK size \in Nat : size = IF page.at = "executions" THEN output ELSE 0
    BY <1>1
  <2>2. PICK rows \in SUBSET JobNames : rows = {n \in JobNames : Stored(Local, n)}
    OBVIOUS
  <2>3. PICK status \in {"ok", "notFound", "unauthorized"} :
           status = IF ~Accepted(token) THEN "unauthorized"
                    ELSE IF page.at \in OfOneJob /\ ~Stored(Local, page.name)
                      THEN "notFound" ELSE "ok"
    OBVIOUS
  <2>. QED BY <2>1, <2>2, <2>3 DEF FetchRead
<1>4. PICK r \in ReadRec : r.rev = Seen /\ page' = [page EXCEPT !.read = r]
  BY <1>1, <1>3 DEF ReadRec
<1>5. page.at \in Fetching /\ page.st = "loading" /\ page.at # "login"
  BY DEF FetchRead, Fetching, OfOneJob
<1>6. Sight(page', acked) /\ page'.at = page.at
  BY <1>1, <1>4, <1>5 DEF Sight, PageRec
<1>7. Keeps
  BY <1>1, <1>2, <1>6, SamePageKeeps
<1>8. Change(pending')
  BY <1>1, <1>2
<1>. QED BY <1>1, <1>2, <1>7, <1>8, StepStays DEF Kept

\* The answer arrives, or an error.
LEMMA PageArrives ==
    ASSUME ServerInv, WindowInv, FetchAnswer \/ FetchFails
    PROVE  Kept
<1>1. /\ rev \in Nat /\ acked \in Nat /\ acked <= Seen /\ output \in Nat /\ Requests(calls, rev)
      /\ Change(pending) /\ Sight(page, acked) /\ token \in Tokens \cup {"none"}
  BY WindowFacts
<1>2. /\ UNCHANGED <<vars, rev, trail, session, acked, output, pending>> /\ page.st = "loading"
  BY DEF FetchAnswer, FetchFails, apiVars
<1>3. Change(pending')
  BY <1>1, <1>2
<1>4. SUFFICES Keeps
  BY <1>1, <1>2, <1>3, StepStays DEF Kept
<1>5. page.at # "login"
  BY <1>1, <1>2 DEF Sight
<1>6. PICK q : q = [page EXCEPT !.st = "error", !.read = Unread]
  OBVIOUS
<1>7. Sight(q, acked) /\ q.at = page.at
  BY <1>1, <1>5, <1>6 DEF Sight, PageRec
<1>8. CASE FetchFails
  <2>1. page' = q /\ UNCHANGED <<calls, token>>
    BY <1>6, <1>8 DEF FetchFails, apiVars
  <2>. QED BY <1>1, <1>2, <1>5, <1>7, <2>1, SamePageKeeps DEF Keeps
<1>9. CASE FetchAnswer
  <2>1. page.read # Unread /\ page.read \in ReadRec /\ page.read.rev >= acked /\ page.at \in Fetching
    BY <1>1, <1>9 DEF FetchAnswer, Sight, PageRec
  <2>2. CASE page.read.status = "notFound"
    <3>1. Goto("list", 0, calls) /\ UNCHANGED token
      BY <1>9, <2>2 DEF FetchAnswer
    <3>2. "list" \in Fetching /\ "list" \notin OfOneJob
      BY DEF Fetching, OfOneJob
    <3>. QED BY <1>1, <1>5, <3>1, <3>2, SignedIn, GotoKeeps
  <2>3. CASE page.read.status = "ok"
    <3>1. PICK k : k = executionsHandler(page.read.size)
      OBVIOUS
    <3>2. k \in [of : Nat, truncated : BOOLEAN] /\ page.read.size \in Nat
      BY <2>1, <3>1, PanelSent DEF ReadRec
    <3>3. PICK p : p = [page EXCEPT !.st = "ok", !.read = Unread, !.rev = page.read.rev,
                                    !.rows = page.read.rows, !.listed = page.read.size,
                                    !.panel = k]
      OBVIOUS
    <3>4. page.read.rev \in Nat /\ page.read.rows \in SUBSET JobNames
      BY <2>1 DEF ReadRec
    <3>5. Sight(p, acked) /\ p.at = page.at
      BY <1>1, <1>5, <2>1, <3>2, <3>3, <3>4 DEF Sight, PageRec
    <3>6. PICK cs \in {calls, Renewed(calls)} : checkError("ok", p, cs)
      BY <1>9, <2>3, <3>1, <3>3 DEF FetchAnswer
    <3>7. Requests(cs, rev)
      BY <1>1, <3>6, RenewedRequests
    <3>. QED BY <1>2, <1>5, <3>5, <3>6, <3>7, CheckErrorKeeps
  <2>4. CASE page.read.status \notin {"ok", "notFound"}
    <3>1. checkError(page.read.status, q, calls)
      BY <1>6, <1>9, <2>4 DEF FetchAnswer
    <3>. QED BY <1>1, <1>2, <1>5, <1>7, <3>1, CheckErrorKeeps
  <2>. QED BY <2>2, <2>3, <2>4
<1>. QED BY <1>8, <1>9

\* The page of a component that waits stays what it was.
LEMMA ReadyPage ==
    ASSUME WindowInv, NEW c \in Calls
    PROVE  Sight(Ready(c), acked) /\ Ready(c).at = page.at
<1>1. Sight(page, acked) /\ page.busy \in SUBSET Buttons
  BY DEF WindowInv, Sight, PageRec
<1>2. PICK B \in SUBSET Buttons :
         B = IF calls[c].here THEN page.busy \ {calls[c].by} ELSE page.busy
  BY <1>1
<1>3. Ready(c) = [page EXCEPT !.busy = B]
  BY <1>2 DEF Ready
<1>. QED BY <1>1, <1>3, BusyPage

\* The answer to a request is delivered.
LEMMA AnswerDelivered ==
    ASSUME ServerInv, WindowInv, NEW c \in Calls, Deliver(c)
    PROVE  Kept
<1>1. /\ rev \in Nat /\ acked \in Nat /\ acked <= Seen /\ output \in Nat /\ Requests(calls, rev)
      /\ Change(pending) /\ Sight(page, acked) /\ token \in Tokens \cup {"none"}
      /\ page.at = "login" => Hidden(calls)
  BY WindowFacts
<1>2. UNCHANGED <<vars, rev, trail, pending, output, session>> /\ calls[c] # Free
  BY DEF Deliver
<1>3. calls[c] \in CallRec /\ Sound(calls[c], rev)
  BY <1>1, <1>2 DEF Requests
<1>4. calls[c].rev \in Nat /\ calls[c].rev <= rev /\ calls[c].size \in Nat
  BY <1>3 DEF CallRec, Sound
<1>5. /\ acked' \in Nat /\ acked' <= Seen
      /\ calls[c].by = "client" \/ ~Ok(c) => acked' = acked
      /\ calls[c].rev = 0 => acked' = acked
  <2>1. CASE calls[c].by = "client" \/ ~Ok(c)
    BY <1>1, <2>1 DEF Deliver, Acknowledge
  <2>2. CASE calls[c].by # "client" /\ Ok(c)
    <3>1. acked' = IF calls[c].rev <= Seen THEN Max({acked, calls[c].rev}) ELSE acked
      BY <2>2 DEF Deliver, Acknowledge
    <3>2. Max({acked, calls[c].rev}) \in {acked, calls[c].rev} /\ acked <= Max({acked, calls[c].rev})
      BY <1>1, <1>4, MaxOfTwo
    <3>. QED BY <1>1, <1>4, <2>2, <3>1, <3>2
  <2>. QED BY <2>1, <2>2
<1>6. Change(pending')
  BY <1>1, <1>2
<1>7. SUFFICES Keeps
  BY <1>1, <1>2, <1>5, <1>6, StepStays DEF Kept
<1>8. Requests(Settled(c), rev) /\ (page.at = "login" => Hidden(Settled(c)))
  BY <1>1, SettledRequests
<1>9. Sight(Ready(c), acked) /\ Ready(c).at = page.at
  BY ReadyPage
<1>10. Sight(Refreshed(Ready(c)), acked') /\ Refreshed(Ready(c)).at = page.at
  BY <1>9, RefreshedPage
<1>11. ASSUME NEW p, page' = p, calls' = Settled(c), UNCHANGED token, Sight(p, acked'),
             p.at = page.at
      PROVE  Keeps
  BY <1>8, <1>11, SamePageKeeps
<1>12. CASE ButtonAnswer(c)
  <2>1. CASE Ok(c)
    BY <1>10, <1>11, <1>12, <2>1 DEF ButtonAnswer
  <2>2. CASE ~Ok(c)
    BY <1>5, <1>9, <1>11, <1>12, <2>2 DEF ButtonAnswer
  <2>. QED BY <2>1, <2>2
<1>13. CASE BulkAnswer(c)
  BY <1>10, <1>11, <1>13 DEF BulkAnswer
<1>14. CASE FullAnswer(c)
  <2>1. acked' = acked
    BY <1>3, <1>5, <1>14 DEF FullAnswer, Sound
  <2>2. CASE page' = Ready(c)
    BY <1>9, <1>11, <1>14, <2>1, <2>2 DEF FullAnswer
  <2>3. CASE page' = [Ready(c) EXCEPT !.panel = [of |-> calls[c].size, truncated |-> FALSE]]
    <3>1. PICK p : p = Ready(c)
      OBVIOUS
    <3>2. PICK q : q = [p EXCEPT !.panel = [of |-> calls[c].size, truncated |-> FALSE]]
      OBVIOUS
    <3>3. Sight(q, acked) /\ q.at = p.at
      BY <1>4, <1>9, <3>1, <3>2 DEF Sight, PageRec
    <3>4. page' = q
      BY <2>3, <3>1, <3>2
    <3>. QED BY <1>9, <1>11, <1>14, <2>1, <3>1, <3>3, <3>4 DEF FullAnswer
  <2>. QED BY <1>14, <2>2, <2>3 DEF FullAnswer, FullOutput
<1>15. CASE FormAnswer(c)
  <2>1. CASE Ok(c) /\ calls[c].by = "create" /\ calls[c].here
    <3>1. Goto("edit", calls[c].name, Settled(c)) /\ UNCHANGED token
      BY <1>15, <2>1 DEF FormAnswer
    <3>2. page.at # "login"
      BY <1>1, <1>2, <2>1 DEF Hidden
    <3>3. "edit" \in Fetching /\ calls[c].name \in JobNames
      BY <1>3 DEF Fetching, OfOneJob, CallRec
    <3>. QED BY <1>1, <1>8, <3>1, <3>2, <3>3, SignedIn, GotoKeeps
  <2>2. CASE ~(Ok(c) /\ calls[c].by = "create" /\ calls[c].here)
    <3>1. checkError(calls[c].status,
                     IF Ok(c) \/ calls[c].by = "form" THEN Refreshed(Ready(c)) ELSE Ready(c),
                     Settled(c))
      BY <1>15, <2>2 DEF FormAnswer
    <3>2. CASE Ok(c) \/ calls[c].by = "form"
      <4>1. checkError(calls[c].status, Refreshed(Ready(c)), Settled(c))
        BY <3>1, <3>2
      <4>. QED BY <1>8, <1>10, <4>1, CheckErrorKeeps
    <3>3. CASE ~(Ok(c) \/ calls[c].by = "form")
      <4>1. checkError(calls[c].status, Ready(c), Settled(c)) /\ acked' = acked
        BY <1>5, <3>1, <3>3
      <4>. QED BY <1>8, <1>9, <4>1, CheckErrorKeeps
    <3>. QED BY <3>2, <3>3
  <2>. QED BY <2>1, <2>2
<1>16. CASE ClientAnswer(c)
  BY <1>1, <1>5, <1>11, <1>16 DEF ClientAnswer
<1>. QED BY <1>12, <1>13, <1>14, <1>15, <1>16 DEF Deliver

----------------------------------------------------------------------------
(***************************************************************************)
(* Steps at the server, and the theorems                                   *)
(***************************************************************************)

\* A step that takes one request on leaves the window as it was.
LEMMA OnwardKeeps ==
    ASSUME ServerInv, WindowInv, NEW c \in Calls, calls[c] # Free, Onward(c),
           IInv', StoreValid(jobs)', Trail', Seen' = Seen, rev' \in {rev, rev + 1},
           UNCHANGED <<window, output, session>>
    PROVE  Kept
<1>1. /\ rev \in Nat /\ acked \in Nat /\ acked <= Seen /\ Requests(calls, rev)
      /\ page.at = "login" => Hidden(calls)
  BY WindowFacts
<1>2. rev' \in Nat /\ rev <= rev' /\ acked <= Seen'
  BY <1>1
<1>3. PICK h \in CallRec : /\ calls' = [calls EXCEPT ![c] = h] /\ Sound(h, rev')
                           /\ h.by = calls[c].by /\ h.here = calls[c].here /\ h.kind = calls[c].kind
  BY DEF Onward
<1>4. Requests(calls', rev')
  BY <1>1, <1>2, <1>3, OneRequest
<1>5. page.at = "login" => Hidden(calls')
  BY <1>1, <1>3 DEF Hidden, Requests
<1>. QED BY <1>2, <1>4, <1>5 DEF Kept, ServerInv, WindowInv, window, LoggedOutSeesNothing

\* The server handles or refuses a request, or it is lost on the way.
LEMMA ServerStep ==
    ASSUME ServerInv, WindowInv, NEW c \in Calls, Serve(c) \/ RunEnds(c) \/ Lose(c)
    PROVE  Kept
<1>1. calls[c] # Free /\ UNCHANGED <<window, output, session>>
  BY NotFree DEF Serve, Lose, Refuse, RunEnds, RunJobReturns, Is
<1>2. /\ calls[c] \in CallRec /\ calls[c].applied \in BOOLEAN
      /\ calls \in [Calls -> CallRec \cup {Free}]
      /\ rev \in Nat /\ Sound(calls[c], rev)
  BY <1>1 DEF ServerInv, Requests, CallRec
<1>3. UNCHANGED <<vars, rev, trail>> => IInv' /\ StoreValid(jobs)' /\ Trail' /\ Seen' = Seen
  BY StutterIInv DEF ServerInv, StoreValid, vars, Trail, ValidStores, JobMap, Seen
<1>4. {"unauthorized", "lost", "notFound", "serverError", "ok"} \subseteq HTTPStatuses
  BY DEF HTTPStatuses
<1>5. ASSUME NEW status \in HTTPStatuses, status # "ok", calls' = Respond(c, status),
             UNCHANGED <<vars, rev, trail>>
      PROVE  Kept
  <2>1. Onward(c)
    BY <1>1, <1>2, <1>5, RespondOnward
  <2>. QED BY <1>1, <1>3, <1>5, <2>1, OnwardKeeps
<1>6. CASE Refuse(c) \/ Lose(c)
  <2>1. PICK status \in {"unauthorized", "lost"} : calls' = Respond(c, status)
    BY <1>6 DEF Refuse, Lose
  <2>2. UNCHANGED <<vars, rev, trail>>
    BY <1>6 DEF Refuse, Lose
  <2>. QED BY <1>4, <1>5, <2>1, <2>2
<1>7. CASE Handler(c)
  BY <1>1, <1>7, HandlerStep, OnwardKeeps
<1>8. CASE executionHandler(c)
  <2>1. calls[c].kind = "full" /\ UNCHANGED <<vars, rev, trail>>
    BY <1>8 DEF executionHandler, Is
  <2>2. CASE calls' = [Respond(c, "ok") EXCEPT ![c].size = output]
    <3>1. PICK h : h = [calls[c] EXCEPT !.at = "answered", !.status = "ok", !.job = NoJob,
                                        !.size = output]
      OBVIOUS
    <3>2. output \in Nat
      BY DEF WindowInv
    <3>3. /\ h \in CallRec /\ h.by = calls[c].by /\ h.here = calls[c].here
          /\ h.at = "answered" /\ h.kind = "full" /\ h.rev = calls[c].rev
          /\ h.kind = calls[c].kind
      BY <1>2, <1>4, <2>1, <3>1, <3>2 DEF CallRec
    <3>4. Sound(h, rev')
      BY <1>2, <2>1, <3>3 DEF Sound, Writes
    <3>5. calls' = [calls EXCEPT ![c] = h]
      BY <1>2, <2>2, <3>1 DEF Respond, CallRec
    <3>6. Onward(c)
      BY <3>3, <3>4, <3>5 DEF Onward
    <3>. QED BY <1>1, <1>3, <2>1, <3>6, OnwardKeeps
  <2>3. CASE calls' = Respond(c, "notFound") \/ calls' = Respond(c, "serverError")
    BY <1>4, <1>5, <2>1, <2>3
  <2>. QED BY <1>8, <2>2, <2>3 DEF executionHandler
<1>9. CASE RunEnds(c)
  <2>1. PICK status \in {"ok", "notFound"} : calls' = Respond(c, status)
    BY <1>9 DEF RunEnds, RunJobReturns
  <2>2. UNCHANGED <<vars, rev, trail>> /\ calls[c].applied
    BY <1>2, <1>9 DEF RunEnds, RunJobReturns, Handled, Is, Sound
  <2>3. Onward(c)
    BY <1>1, <1>2, <1>4, <2>1, <2>2, RespondOnward
  <2>. QED BY <1>1, <1>3, <2>2, <2>3, OnwardKeeps
<1>. QED BY <1>6, <1>7, <1>8, <1>9 DEF Serve

\* Another client sends a request, or the time to undo a change is over.
LEMMA RequestSent ==
    ASSUME ServerInv, WindowInv,
           \/ UndoExpires
           \/ \E c \in ClientCalls, kind \in session.kinds \ {"pause"}, i \in session.others :
                Client(c, kind, i)
    PROVE  Kept
<1>1. /\ rev \in Nat /\ acked \in Nat /\ acked <= Seen /\ output \in Nat /\ Requests(calls, rev)
      /\ Change(pending) /\ Sight(page, acked) /\ token \in Tokens \cup {"none"}
      /\ (page.at = "login" => Hidden(calls)) /\ session \in Session
  BY WindowFacts
<1>2. /\ UNCHANGED <<vars, rev, trail, session, acked, output, token, page>>
      /\ pending' = NoChange \/ UNCHANGED pending
  BY DEF UndoExpires, Client, window
<1>3. Change(pending')
  BY <1>1, <1>2 DEF Change
<1>4. SUFFICES Requests(calls', rev) /\ (page.at = "login" => Hidden(calls'))
  BY <1>1, <1>2, <1>3, SamePageKeeps, StepStays DEF Kept
<1>5. CASE UndoExpires
  <2>1. /\ page.at # "login" /\ pending # NoChange
        /\ Send(pending.kind, {pending.name}, pending.job, "form")
    BY <1>5 DEF UndoExpires
  <2>2. /\ pending.kind \in Writes \cup {"full"} /\ {pending.name} \in SUBSET JobNames
        /\ pending.job \in Job \cup {NoJob} /\ (pending.kind = "save" => pending.job \in Job)
        /\ "form" \in Buttons
    BY <1>1, <2>1 DEF Change, Writes, Buttons
  <2>. QED BY <1>1, <2>1, <2>2, SendRequests
<1>6. ASSUME NEW c \in ClientCalls, NEW kind \in session.kinds \ {"pause"},
             NEW i \in session.others, Client(c, kind, i)
      PROVE  Requests(calls', rev) /\ (page.at = "login" => Hidden(calls'))
  <2>1. c \in Calls /\ kind \in Writes \cup {"full"} /\ i.name \in JobNames /\ i.job \in Job
    BY <1>1, ConsoleAssumption, FSMAssumption DEF Session
  <2>2. PICK job \in Job \cup {NoJob} : job = IF kind = "save" THEN i.job ELSE NoJob
    BY <2>1
  <2>3. PICK k : k = Ask(kind, i.name, job, "client")
    OBVIOUS
  <2>4. k \in CallRec /\ Sound(k, rev) /\ k.by = "client"
    <3>1. "client" \in Buttons
      BY DEF Buttons
    <3>2. k \in CallRec /\ Sound(k, rev)
      BY <1>1, <2>1, <2>2, <2>3, <3>1, AskSound
    <3>. QED BY <2>3, <3>2 DEF Ask
  <2>5. PICK h : h = [k EXCEPT !.tok = "good"]
    OBVIOUS
  <2>6. h \in CallRec /\ Sound(h, rev) /\ h.by = "client"
    BY <2>4, <2>5 DEF CallRec, Sound, Tokens
  <2>7. calls' = [calls EXCEPT ![c] = h]
    BY <1>6, <2>2, <2>3, <2>5 DEF Client
  <2>8. Requests(calls', rev)
    <3>1. rev <= rev
      BY <1>1
    <3>. QED BY <1>1, <2>1, <2>6, <2>7, <3>1, OneRequest
  <2>9. page.at = "login" => Hidden(calls')
    BY <1>1, <2>1, <2>6, <2>7 DEF Hidden, Requests
  <2>. QED BY <2>8, <2>9
<1>. QED BY <1>5, <1>6

\* Steps that no request, page or token takes part in.
LEMMA OtherStep ==
    ASSUME ServerInv, WindowInv, ClientPauses \/ Catchup \/ OutputGrows \/ UNCHANGED consoleVars
    PROVE  Kept
<1>1. /\ UNCHANGED <<vars, rev, calls, session, window>>
      /\ output' = output \/ output' = output + 1
      /\ trail' = trail \/ (Len(trail) > 1 /\ trail' = Tail(trail))
  BY DEF ClientPauses, pauseHandler, unpauseHandler, OutputGrows, apiVars, consoleVars,
         Catchup, Replicate
<1>2. output' \in Nat
  BY <1>1 DEF WindowInv
<1>3. IInv' /\ StoreValid(jobs)'
  BY <1>1, StutterIInv DEF ServerInv, StoreValid, vars
<1>4. trail \in Seq(ValidStores) /\ trail # <<>> /\ Len(trail) \in Nat /\ rev \in Nat
  BY LenProperties DEF ServerInv, Trail
<1>5. trail' \in Seq(ValidStores) /\ trail' # <<>> /\ Len(trail') <= Len(trail) /\ Len(trail') \in Nat
  <2>1. CASE trail' = trail
    BY <1>4, <2>1
  <2>2. CASE Len(trail) > 1 /\ trail' = Tail(trail)
    <3>1. trail' \in Seq(ValidStores) /\ Len(trail') = Len(trail) - 1
      BY <1>4, <2>2, HeadTailProperties
    <3>. QED BY <1>4, <2>2, <3>1, EmptySeq
  <2>. QED BY <1>1, <2>1, <2>2
<1>6. Trail'
  BY <1>5 DEF Trail, ValidStores, StoreValid, JobMap
<1>7. Seen <= Seen' /\ Seen \in Int /\ Seen' \in Int
  BY <1>1, <1>4, <1>5 DEF Seen
<1>8. acked' \in Nat /\ acked' <= Seen'
  BY <1>1, <1>7 DEF WindowInv, window
<1>. QED
  BY <1>1, <1>2, <1>3, <1>6, <1>8 DEF Kept, ServerInv, WindowInv, window, LoggedOutSeesNothing

\* What the console and the server keep to, however users, clients, requests
\* and losses interleave.
THEOREM ConsoleInvariant == ConsoleSpec => [](ServerInv /\ WindowInv)
<1>1. ConsoleInit => ServerInv /\ WindowInv
  <2> SUFFICES ASSUME ConsoleInit
               PROVE  ServerInv /\ WindowInv
    OBVIOUS
  <2>1. IInv /\ StoreValid(jobs)
    BY APIAssumption DEF ConsoleInit, APIInit, IInv, TypeOK, ParentListsChild, KeysUnique,
                         StoreValid, Whole, Stat
  <2>2. rev = 1 /\ calls = [c \in Calls |-> Free] /\ trail = <<jobs>>
    BY DEF ConsoleInit, APIInit
  <2>6. Trail /\ Seen = 1
    <3>1. jobs \in ValidStores
      BY <2>1, IInvFacts DEF ValidStores
    <3>. QED BY <2>2, <3>1 DEF Trail, Seen
  <2>3. Requests(calls, rev) /\ Hidden(calls)
    BY <2>2 DEF Requests, Hidden
  <2>4. PICK at \in {"login", "list"} : page = Page(at, 0) /\ (session.acl => at = "login")
    BY DEF ConsoleInit
  <2>5. Sight(page, acked) /\ page.at = at
    BY <2>4, NewPage DEF Fetching, OfOneJob
  <2>. QED
    BY <2>1, <2>2, <2>3, <2>4, <2>5, <2>6
       DEF ConsoleInit, ServerInv, WindowInv, Change, Tokens, LoggedOutSeesNothing
<1>2. ServerInv /\ WindowInv /\ [ConsoleNext]_consoleVars => (ServerInv /\ WindowInv)'
  <2> SUFFICES ASSUME ServerInv, WindowInv, [ConsoleNext]_consoleVars
               PROVE  Kept
    BY DEF Kept
  <2>1. CASE User
    BY <2>1, UserMoves, UserPresses, UserStays, UserSaves DEF User
  <2>. QED
    BY <2>1, PageRead, PageArrives, RequestSent, OtherStep, ServerStep, AnswerDelivered
       DEF ConsoleNext
<1>. QED BY <1>1, <1>2, PTL DEF ConsoleSpec

\* A change that the API reports as done was accepted by the state machine
\* (the callers of Agent.applySetJob in src/dkron/api.go).
THEOREM AcksTrue == ConsoleSpec => []AckedIsApplied
<1>1. ServerInv => AckedIsApplied
  <2>1. ASSUME ServerInv, NEW c \in Calls, calls[c].kind \in Writes, calls[c].status = "ok"
        PROVE  calls[c].applied
    <3>1. calls[c] # Free
      BY <2>1, NotFree DEF Writes
    <3>. QED BY <2>1, <3>1 DEF ServerInv, Requests, Sound
  <2>. QED BY <2>1 DEF AckedIsApplied
<1>. QED BY ConsoleInvariant, <1>1, PTL

\* A settled page shows every change that its window was told of and that the
\* node had applied by then; on the leader these are all changes (useRefresh in
\* src/ui/src/jobs).
THEOREM ChangesShown == ConsoleSpec => []AcknowledgedIsShown
<1>1. WindowInv => AcknowledgedIsShown
  BY DEF WindowInv, Sight, AcknowledgedIsShown
<1>. QED BY ConsoleInvariant, <1>1, PTL

\* A window without a token shows nothing but the login page, whatever is
\* still under way (src/ui/src/authProvider.ts).
THEOREM LoginHides == ConsoleSpec => []LoggedOutSeesNothing
<1>1. WindowInv => LoggedOutSeesNothing
  BY DEF WindowInv
<1>. QED BY ConsoleInvariant, <1>1, PTL

----------------------------------------------------------------------------
(***************************************************************************)
(* The output on the screen                                                *)
(***************************************************************************)

\* An answer to FullButton that will be shown.
Loaded(h) == h.kind = "full" /\ h.status = "ok" /\ h.here /\ h.shown

\* What was listed and read was there, what is shown or will be is not older
\* than what was listed, and a truncated output is the one of the list.
Outputs(cs, p, o) ==
    /\ p.listed <= o
    /\ p.read # Unread => p.read.size <= o
    /\ p.panel.of >= p.listed
    /\ p.panel.truncated => p.panel.of = p.listed
    /\ \A c \in Calls : Loaded(cs[c]) => cs[c].size >= p.listed

\* The types that these steps rest on.
LEMMA OutputTypes ==
    ASSUME ServerInv, WindowInv
    PROVE  /\ page \in PageRec /\ output \in Nat /\ Requests(calls, rev)
           /\ calls \in [Calls -> CallRec \cup {Free}]
           /\ page.listed \in Nat /\ page.panel.of \in Nat /\ page.panel.truncated \in BOOLEAN
           /\ page.read # Unread => page.read \in ReadRec /\ page.read.size \in Nat
BY DEF ServerInv, WindowInv, Requests, Sight, PageRec, ReadRec

\* A page that keeps what it lists and shows, while no other answer than those
\* under way will be shown.
LEMMA OutputsKept ==
    ASSUME ServerInv, WindowInv, Outputs(calls, page, output), NEW cs, NEW p, NEW o \in Nat,
           output <= o, p.listed = page.listed, p.panel = page.panel,
           p.read = page.read \/ p.read = Unread,
           \A c \in Calls : Loaded(cs[c]) => Loaded(calls[c]) /\ cs[c].size = calls[c].size
    PROVE  Outputs(cs, p, o)
<1>1. /\ output \in Nat /\ page.listed \in Nat
      /\ page.read # Unread => page.read.size \in Nat
  BY OutputTypes
<1>. QED BY <1>1 DEF Outputs

\* A page that was just mounted has no output, and no request of its own.
LEMMA OutputsReset ==
    ASSUME NEW cs, NEW r, Requests(cs, r), NEW at, NEW name, Goto(at, name, cs), NEW o \in Nat
    PROVE  Outputs(calls', page', o)
<1>1. page'.listed = 0 /\ page'.read = Unread /\ page'.panel = NoPanel
  BY DEF Goto, Page
<1>2. ASSUME NEW c \in Calls
      PROVE  ~Loaded(calls'[c])
  <2>1. CASE cs[c] = Free
    <3>1. calls'[c] = Free
      BY <2>1 DEF Goto, Orphaned
    <3>. QED BY <3>1, NotFree DEF Loaded
  <2>2. CASE cs[c] # Free
    <3>1. calls'[c] = [cs[c] EXCEPT !.here = FALSE] /\ cs[c] \in CallRec
      BY <2>2 DEF Goto, Orphaned, Requests
    <3>2. calls'[c].here = FALSE
      BY <3>1 DEF CallRec
    <3>. QED BY <3>2 DEF Loaded
  <2>. QED BY <2>1, <2>2
<1>. QED BY <1>1, <1>2 DEF Outputs, NoPanel

\* The error handler of the data provider does one or the other.
LEMMA CheckErrorOutputs ==
    ASSUME NEW status, NEW p, NEW cs, NEW r, Requests(cs, r), NEW o \in Nat, Outputs(cs, p, o),
           checkError(status, p, cs)
    PROVE  Outputs(calls', page', o)
<1>1. CASE SignOut(cs)
  BY <1>1, OutputsReset DEF SignOut
<1>2. CASE page' = p /\ calls' = cs
  BY <1>2
<1>. QED BY <1>1, <1>2 DEF checkError

\* Requests that were just sent have no answer.
LEMMA SendOutputs ==
    ASSUME NEW kind, NEW names, NEW job, NEW by, Send(kind, names, job, by), NEW c \in Calls,
           Loaded(calls'[c])
    PROVE  Loaded(calls[c]) /\ calls'[c].size = calls[c].size
<1>1. PICK f : calls' = [d \in Calls |->
                           IF \E n \in names : f[n] = d
                             THEN Ask(kind, CHOOSE n \in names : f[n] = d, job, by)
                             ELSE calls[d]]
  BY DEF Send
<1>2. ~\E n \in names : f[n] = c
  BY <1>1 DEF Ask, Loaded
<1>. QED BY <1>1, <1>2

\* Pages come and go, are refreshed or fail, and requests are sent.
LEMMA WindowOutputs ==
    ASSUME ServerInv, WindowInv, Outputs(calls, page, output),
           \/ User \/ UndoExpires \/ FetchFails \/ ClientPauses \/ Catchup \/ OutputGrows
           \/ UNCHANGED consoleVars
           \/ \E c \in ClientCalls, kind \in session.kinds \ {"pause"}, i \in session.others :
                Client(c, kind, i)
    PROVE  Outputs(calls', page', output')
<1>1. /\ page \in PageRec /\ output \in Nat /\ Requests(calls, rev)
      /\ calls \in [Calls -> CallRec \cup {Free}] /\ output <= output
  BY OutputTypes
<1>2. ASSUME UNCHANGED <<calls, output>>, page'.listed = page.listed, page'.panel = page.panel,
             page'.read = page.read \/ page'.read = Unread
      PROVE  Outputs(calls', page', output')
  BY <1>1, <1>2, OutputsKept
<1>3. ASSUME NEW at, NEW name, Goto(at, name, calls), UNCHANGED output
      PROVE  Outputs(calls', page', output')
  BY <1>1, <1>3, OutputsReset
<1>4. ASSUME NEW kind, NEW names, NEW job, NEW by, Send(kind, names, job, by), UNCHANGED output,
             page'.listed = page.listed, page'.panel = page.panel, page'.read = page.read
      PROVE  Outputs(calls', page', output')
  BY <1>1, <1>4, SendOutputs, OutputsKept
<1>5. ASSUME NEW v \in session.visits, Navigate(v[1], v[2])
      PROVE  Outputs(calls', page', output')
  BY <1>3, <1>5 DEF Navigate
<1>6. ASSUME NEW tok \in Tokens, LoginPage(tok)
      PROVE  Outputs(calls', page', output')
  BY <1>3, <1>6 DEF LoginPage
<1>7. ASSUME Logout
      PROVE  Outputs(calls', page', output')
  BY <1>3, <1>7 DEF Logout, SignOut
<1>8. ASSUME NEW button, NEW kind, NEW names, Press(button, kind, names)
      PROVE  Outputs(calls', page', output')
  <2>1. /\ page'.listed = page.listed /\ page'.panel = page.panel /\ page'.read = page.read
        /\ Send(kind, names, NoJob, button) /\ UNCHANGED output
    BY <1>1, <1>8 DEF Press, PageRec
  <2>. QED BY <1>4, <2>1
<1>9. ASSUME AppBarRefresh \/ Undo
      PROVE  Outputs(calls', page', output')
  <2>1. page' = Refreshed(page) /\ UNCHANGED <<calls, output>>
    BY <1>9 DEF AppBarRefresh, Undo, apiVars
  <2>2. /\ page'.listed = page.listed /\ page'.panel = page.panel
        /\ page'.read = page.read \/ page'.read = Unread
    BY <1>1, <2>1 DEF Refreshed, PageRec
  <2>. QED BY <1>2, <2>1, <2>2
<1>10. ASSUME NEW n \in JobNames, Select(n) \/ BulkDelete(n)
       PROVE  Outputs(calls', page', output')
  <2>1. /\ page'.listed = page.listed /\ page'.panel = page.panel /\ page'.read = page.read
        /\ UNCHANGED <<calls, output>>
    BY <1>1, <1>10 DEF Select, BulkDelete, apiVars, PageRec
  <2>. QED BY <1>2, <2>1
<1>11. ASSUME NEW i \in session.forms, JobEdit(i) \/ JobCreate(i)
       PROVE  Outputs(calls', page', output')
  <2>1. CASE JobEdit(i)
    BY <1>3, <2>1 DEF JobEdit
  <2>2. CASE JobCreate(i)
    <3>1. /\ page'.listed = page.listed /\ page'.panel = page.panel /\ page'.read = page.read
          /\ Send("save", {i.name}, i.job, "create") /\ UNCHANGED output
      BY <1>1, <2>2 DEF JobCreate, PageRec
    <3>. QED BY <1>4, <3>1
  <2>. QED BY <1>11, <2>1, <2>2
<1>12. CASE User
  <2>1. RunButton \/ ToggleButton \/ FullButton \/ BulkRunButton \/ BulkToggleButton =>
           \E button, kind, names : Press(button, kind, names)
    BY DEF RunButton, ToggleButton, FullButton, BulkRunButton, BulkToggleButton
  <2>. QED BY <1>5, <1>6, <1>7, <1>8, <1>9, <1>10, <1>11, <1>12, <2>1 DEF User
<1>13. CASE UndoExpires
  BY <1>4, <1>13 DEF UndoExpires
<1>14. CASE FetchFails
  <2>1. /\ page'.listed = page.listed /\ page'.panel = page.panel /\ page'.read = Unread
        /\ UNCHANGED <<calls, output>>
    BY <1>1, <1>14 DEF FetchFails, apiVars, PageRec
  <2>. QED BY <1>2, <2>1
<1>15. CASE ClientPauses \/ Catchup \/ UNCHANGED consoleVars
  <2>1. UNCHANGED <<calls, page, output>>
    BY <1>15 DEF ClientPauses, pauseHandler, unpauseHandler, Catchup, Replicate, window,
                 consoleVars, apiVars
  <2>. QED BY <1>2, <2>1
<1>16. CASE OutputGrows
  <2>1. UNCHANGED <<calls, page>> /\ output' = output + 1
    BY <1>16 DEF OutputGrows, window, apiVars
  <2>2. output' \in Nat /\ output <= output'
    BY <1>1, <2>1
  <2>. QED BY <2>1, <2>2, OutputsKept
<1>17. ASSUME NEW c \in ClientCalls, NEW kind \in session.kinds \ {"pause"},
              NEW i \in session.others, Client(c, kind, i)
       PROVE  Outputs(calls', page', output')
  <2>1. PICK job : job = IF kind = "save" THEN i.job ELSE NoJob
    OBVIOUS
  <2>2. PICK h : h = [Ask(kind, i.name, job, "client") EXCEPT !.tok = "good"]
    OBVIOUS
  <2>3. calls' = [calls EXCEPT ![c] = h] /\ UNCHANGED <<page, output>>
    BY <1>17, <2>1, <2>2 DEF Client, window
  <2>4. ~Loaded(h)
    BY <2>2 DEF Ask, Loaded
  <2>5. \A d \in Calls : Loaded(calls'[d]) => Loaded(calls[d]) /\ calls'[d].size = calls[d].size
    BY <1>1, <2>3, <2>4
  <2>. QED BY <1>1, <2>3, <2>5, OutputsKept
<1>. QED BY <1>12, <1>13, <1>14, <1>15, <1>16, <1>17

\* The server reads the output for a page, and the answer arrives.
LEMMA FetchOutputs ==
    ASSUME ServerInv, WindowInv, Outputs(calls, page, output), FetchRead \/ FetchAnswer
    PROVE  Outputs(calls', page', output')
<1>1. /\ page \in PageRec /\ output \in Nat /\ Requests(calls, rev)
      /\ calls \in [Calls -> CallRec \cup {Free}] /\ output <= output
      /\ page.read # Unread => page.read \in ReadRec /\ page.read.size \in Nat
  BY OutputTypes
<1>2. CASE FetchRead
  <2>1. PICK size : size = IF page.at = "executions" THEN output ELSE 0
    OBVIOUS
  <2>2. PICK status, rows :
           page' = [page EXCEPT !.read = [status |-> status, rev |-> Seen, size |-> size,
                                          rows |-> rows]]
    BY <1>2, <2>1 DEF FetchRead
  <2>3. PICK r : r = [status |-> status, rev |-> Seen, size |-> size, rows |-> rows]
    OBVIOUS
  <2>4. /\ page' = [page EXCEPT !.read = r] /\ UNCHANGED <<calls, output>>
        /\ r.size = IF page.at = "executions" THEN output ELSE 0
    BY <1>2, <2>1, <2>2, <2>3 DEF FetchRead, apiVars
  <2>5. /\ page'.listed = page.listed /\ page'.panel = page.panel /\ page'.read = r
        /\ r.size \in Nat /\ r.size <= output
    BY <1>1, <2>4 DEF PageRec
  <2>. QED BY <2>4, <2>5 DEF Outputs
<1>3. CASE FetchAnswer
  <2>1. page.read # Unread /\ UNCHANGED output
    BY <1>3 DEF FetchAnswer
  <2>2. CASE page.read.status = "notFound"
    <3>1. Goto("list", 0, calls)
      BY <1>3, <2>2 DEF FetchAnswer
    <3>. QED BY <1>1, <2>1, <3>1, OutputsReset
  <2>3. CASE page.read.status \notin {"ok", "notFound"}
    <3>1. PICK p : p = [page EXCEPT !.st = "error", !.read = Unread]
      OBVIOUS
    <3>2. checkError(page.read.status, p, calls)
      BY <1>3, <2>3, <3>1 DEF FetchAnswer
    <3>3. p.listed = page.listed /\ p.panel = page.panel /\ p.read = Unread
      BY <1>1, <3>1 DEF PageRec
    <3>4. Outputs(calls, p, output)
      BY <1>1, <3>3, OutputsKept
    <3>. QED BY <1>1, <2>1, <3>2, <3>4, CheckErrorOutputs
  <2>4. CASE page.read.status = "ok"
    <3>1. PICK k : k = executionsHandler(page.read.size)
      OBVIOUS
    <3>2. PICK p : p = [page EXCEPT !.st = "ok", !.read = Unread, !.rev = page.read.rev,
                                    !.rows = page.read.rows, !.listed = page.read.size,
                                    !.panel = k]
      OBVIOUS
    <3>3. p.listed = page.read.size /\ p.panel = k /\ p.read = Unread
      BY <1>1, <3>2 DEF PageRec
    <3>4. k.of = page.read.size /\ page.read.size \in Nat /\ page.read.size <= output
      BY <1>1, <2>1, <3>1, PanelSent DEF Outputs
    <3>5. CASE page.panel.truncated /\ page.panel = k
      <4>1. checkError("ok", p, calls)
        BY <1>3, <2>4, <3>1, <3>2, <3>5 DEF FetchAnswer
      <4>2. page.read.size = page.listed
        BY <3>4, <3>5 DEF Outputs
      <4>3. Outputs(calls, p, output)
        BY <3>3, <3>4, <4>2 DEF Outputs
      <4>. QED BY <1>1, <2>1, <4>1, <4>3, CheckErrorOutputs
    <3>6. CASE ~(page.panel.truncated /\ page.panel = k)
      <4>1. checkError("ok", p, Renewed(calls))
        BY <1>3, <2>4, <3>1, <3>2, <3>6 DEF FetchAnswer
      <4>2. ASSUME NEW c \in Calls
            PROVE  ~Loaded(Renewed(calls)[c])
        <5>1. CASE calls[c].kind = "full"
          <6>1. calls[c] \in CallRec
            BY <1>1, <5>1, NotFree
          <6>2. Renewed(calls)[c] = [calls[c] EXCEPT !.shown = FALSE]
            BY <5>1 DEF Renewed
          <6>3. ~Renewed(calls)[c].shown
            BY <6>1, <6>2 DEF CallRec
          <6>. QED BY <6>3 DEF Loaded
        <5>2. CASE calls[c].kind # "full"
          BY <5>2 DEF Renewed, Loaded
        <5>. QED BY <5>1, <5>2
      <4>3. Outputs(Renewed(calls), p, output)
        BY <3>3, <3>4, <4>2 DEF Outputs
      <4>4. Requests(Renewed(calls), rev)
        BY <1>1, RenewedRequests
      <4>. QED BY <1>1, <2>1, <4>1, <4>3, <4>4, CheckErrorOutputs
    <3>. QED BY <3>5, <3>6
  <2>. QED BY <2>2, <2>3, <2>4
<1>. QED BY <1>2, <1>3

\* The server reads all of an output no earlier than what the page lists.
LEMMA ServerOutputs ==
    ASSUME ServerInv, WindowInv, Outputs(calls, page, output), NEW c \in Calls,
           Serve(c) \/ RunEnds(c) \/ Lose(c)
    PROVE  Outputs(calls', page', output')
<1>1. /\ page \in PageRec /\ output \in Nat /\ page.listed \in Nat
      /\ calls \in [Calls -> CallRec \cup {Free}] /\ output <= output
  BY OutputTypes
<1>2. UNCHANGED <<page, output>>
  BY DEF Serve, RunEnds, Lose, window
<1>3. ASSUME NEW h, calls' = [calls EXCEPT ![c] = h], Loaded(h) => h.size >= page.listed
      PROVE  Outputs(calls', page', output')
  <2>1. \A d \in Calls : d # c => calls'[d] = calls[d]
    BY <1>1, <1>3
  <2>2. calls'[c] = h
    BY <1>1, <1>3
  <2>. QED BY <1>2, <1>3, <2>1, <2>2 DEF Outputs
<1>4. ASSUME NEW status, calls[c] # Free, calls' = Respond(c, status),
             calls[c].kind = "full" => status # "ok"
      PROVE  Outputs(calls', page', output')
  <2>1. PICK h : h = [calls[c] EXCEPT !.at = "answered", !.status = status, !.job = NoJob]
    OBVIOUS
  <2>2. calls' = [calls EXCEPT ![c] = h]
    BY <1>1, <1>4, <2>1 DEF Respond
  <2>3. h.kind = calls[c].kind /\ h.status = status
    BY <1>1, <1>4, <2>1 DEF CallRec
  <2>. QED BY <1>3, <1>4, <2>2, <2>3 DEF Loaded
<1>5. CASE Refuse(c) \/ Lose(c)
  BY <1>4, <1>5 DEF Refuse, Lose
<1>6. CASE RunEnds(c)
  <2>1. PICK status : calls' = Respond(c, status)
    BY <1>6 DEF RunEnds, RunJobReturns
  <2>2. calls[c].kind = "run"
    BY <1>6 DEF RunEnds, RunJobReturns, Is
  <2>. QED BY <1>4, <2>1, <2>2, NotFree
<1>7. CASE Handler(c)
  <2>1. calls[c].kind \in Writes /\ Onward(c)
    BY <1>7, HandlerStep
  <2>2. PICK h : calls' = [calls EXCEPT ![c] = h] /\ h.kind = calls[c].kind
    BY <2>1 DEF Onward
  <2>3. ~Loaded(h)
    BY <2>1, <2>2 DEF Loaded, Writes
  <2>. QED BY <1>3, <2>2, <2>3
<1>8. CASE executionHandler(c)
  <2>1. calls[c].kind = "full" /\ calls[c] # Free /\ calls[c] \in CallRec
    BY <1>1, <1>8, NotFree DEF executionHandler, Is
  <2>2. CASE calls' = [Respond(c, "ok") EXCEPT ![c].size = output]
    <3>1. PICK h : h = [calls[c] EXCEPT !.at = "answered", !.status = "ok", !.job = NoJob,
                                        !.size = output]
      OBVIOUS
    <3>2. calls' = [calls EXCEPT ![c] = h]
      BY <1>1, <2>1, <2>2, <3>1 DEF Respond, CallRec
    <3>3. h.size = output
      BY <2>1, <3>1 DEF CallRec
    <3>4. output >= page.listed
      BY <1>1 DEF Outputs
    <3>. QED BY <1>3, <3>2, <3>3, <3>4
  <2>3. CASE calls' = Respond(c, "notFound") \/ calls' = Respond(c, "serverError")
    BY <1>4, <2>1, <2>3
  <2>. QED BY <1>8, <2>2, <2>3 DEF executionHandler
<1>. QED BY <1>5, <1>6, <1>7, <1>8 DEF Serve

\* An answer that is shown is about the record that is on the screen.
LEMMA AnswerOutputs ==
    ASSUME ServerInv, WindowInv, Outputs(calls, page, output), NEW c \in Calls, Deliver(c)
    PROVE  Outputs(calls', page', output')
<1>1. /\ page \in PageRec /\ output \in Nat /\ page.listed \in Nat /\ Requests(calls, rev)
      /\ calls \in [Calls -> CallRec \cup {Free}] /\ output <= output
  BY OutputTypes
<1>2. UNCHANGED output /\ calls[c] # Free /\ calls[c] \in CallRec /\ Sound(calls[c], rev)
  BY <1>1 DEF Deliver, Requests
<1>3. Requests(Settled(c), rev)
  BY <1>1, SettledRequests
<1>4. \A d \in Calls : Loaded(Settled(c)[d]) =>
         Loaded(calls[d]) /\ Settled(c)[d].size = calls[d].size
  BY <1>1, NotFree DEF Settled, Loaded
<1>5. Ready(c).listed = page.listed /\ Ready(c).panel = page.panel /\ Ready(c).read = page.read
  BY <1>1 DEF Ready, PageRec
<1>6. /\ Refreshed(Ready(c)).listed = page.listed /\ Refreshed(Ready(c)).panel = page.panel
      /\ Refreshed(Ready(c)).read = page.read \/ Refreshed(Ready(c)).read = Unread
  <2>1. PICK p \in PageRec : p = Ready(c)
    <3>1. Sight(Ready(c), acked)
      BY ReadyPage
    <3>. QED BY <3>1 DEF Sight
  <2>2. /\ Refreshed(p).listed = p.listed /\ Refreshed(p).panel = p.panel
        /\ Refreshed(p).read = p.read \/ Refreshed(p).read = Unread
    BY <2>1 DEF Refreshed, PageRec
  <2>. QED BY <1>5, <2>1, <2>2
<1>7. Outputs(Settled(c), Ready(c), output) /\ Outputs(Settled(c), Refreshed(Ready(c)), output)
  BY <1>1, <1>4, <1>5, <1>6, OutputsKept
<1>8. CASE ButtonAnswer(c) \/ BulkAnswer(c)
  BY <1>2, <1>7, <1>8 DEF ButtonAnswer, BulkAnswer
<1>9. CASE FullAnswer(c)
  <2>1. CASE page' = Ready(c)
    BY <1>2, <1>7, <1>9, <2>1 DEF FullAnswer
  <2>2. CASE Ok(c) /\ calls[c].here /\ calls[c].shown /\ page' = FullOutput(c)
    <3>1. calls[c].kind = "full" /\ calls' = Settled(c)
      BY <1>2, <1>9 DEF FullAnswer, Sound
    <3>2. calls[c].size >= page.listed
      BY <2>2, <3>1 DEF Outputs, Loaded, Ok
    <3>3. PICK p : p = Ready(c)
      OBVIOUS
    <3>4. p \in PageRec
      BY <3>3, ReadyPage DEF Sight
    <3>5. page' = [p EXCEPT !.panel = [of |-> calls[c].size, truncated |-> FALSE]]
      BY <2>2, <3>3 DEF FullOutput
    <3>6. /\ page'.listed = page.listed /\ page'.read = page.read
          /\ page'.panel.of = calls[c].size /\ ~page'.panel.truncated
      BY <1>5, <3>3, <3>4, <3>5 DEF PageRec
    <3>7. \A d \in Calls : Loaded(calls'[d]) => calls'[d].size >= page.listed
      BY <1>4, <3>1 DEF Outputs
    <3>. QED BY <1>2, <3>2, <3>6, <3>7 DEF Outputs
  <2>. QED BY <1>9, <2>1, <2>2 DEF FullAnswer
<1>10. CASE FormAnswer(c)
  <2>1. CASE Goto("edit", calls[c].name, Settled(c))
    BY <1>1, <1>2, <1>3, <2>1, OutputsReset
  <2>2. ASSUME NEW p \in {Ready(c), Refreshed(Ready(c))}, checkError(calls[c].status, p, Settled(c))
        PROVE  Outputs(calls', page', output')
    BY <1>1, <1>2, <1>3, <1>7, <2>2, CheckErrorOutputs
  <2>. QED BY <1>10, <2>1, <2>2 DEF FormAnswer
<1>11. CASE ClientAnswer(c)
  <2>1. Outputs(Settled(c), page, output)
    BY <1>1, <1>4, OutputsKept
  <2>. QED BY <1>2, <1>11, <2>1 DEF ClientAnswer
<1>. QED BY <1>8, <1>9, <1>10, <1>11 DEF Deliver

\* The output on the screen is never older than the list that it belongs to
\* (FullButton and SpecialOutputPanel in src/ui/src/jobs/JobShow.tsx).
THEOREM OutputsFresh == ConsoleSpec => []OutputNotOlder
<1>1. ConsoleInit => Outputs(calls, page, output)
  <2> SUFFICES ASSUME ConsoleInit
               PROVE  Outputs(calls, page, output)
    OBVIOUS
  <2>1. /\ page.listed = 0 /\ page.read = Unread /\ page.panel = NoPanel /\ output = 0
        /\ calls = [c \in Calls |-> Free]
    BY DEF ConsoleInit, APIInit, Page
  <2>. QED BY <2>1, NotFree DEF Outputs, NoPanel, Loaded
<1>2. /\ ServerInv /\ WindowInv /\ Outputs(calls, page, output)
      /\ [ConsoleNext]_consoleVars
      => Outputs(calls, page, output)'
  <2> SUFFICES ASSUME ServerInv, WindowInv, Outputs(calls, page, output), [ConsoleNext]_consoleVars
               PROVE  Outputs(calls', page', output')
    BY DEF Outputs, Loaded
  <2>. QED BY WindowOutputs, FetchOutputs, ServerOutputs, AnswerOutputs DEF ConsoleNext
<1>3. Outputs(calls, page, output) => OutputNotOlder
  BY DEF Outputs, OutputNotOlder
<1>. QED BY ConsoleInvariant, <1>1, <1>2, <1>3, PTL DEF ConsoleSpec
============================================================================
