----------------------------- MODULE Leadership -----------------------------
(***************************************************************************)
(* The servers as leaders, src/dkron/leader.go: monitorLeadership starts   *)
(* and stops the leader loop when Raft says so, the loop starts and stops  *)
(* the scheduler, and it adds and removes Raft peers after the members     *)
(* that Serf knows.                                                        *)
(*                                                                         *)
(* Raft and Serf are libraries, modelled from how this file uses them.     *)
(* What the scheduler holds when it starts is module JobSync.              *)
(***************************************************************************)
EXTENDS Naturals, FiniteSets

CONSTANTS
    Servers,     \* names of servers, which are their Raft identifiers too
    NoServer,
    Addresses,
    FirstPeers,  \* the members and peers at the start, name -> address
    Candidates,  \* bound: the servers that win elections
    MaxTerms,    \* bound: elections
    MaxFaults,   \* bound: calls that fail although they could succeed
    MaxChanges   \* bound: servers that join, leave, fail or are reaped

VARIABLES
    leader,       \* the Raft leader, or NoServer
    peers,        \* the Raft configuration, [name, addr]
    member,       \* Serf: status and address of each server
    notice,       \* LeaderCh, which keeps the newest value only
    prompt,       \* an idle monitor reads its notice before the next election
    weAreLeader,  \* weAreLeaderCh: nil, open, or closed
    loop,         \* where the leader loop is
    established,  \* establishedLeader of the loop
    todo,         \* members that reconcile has still to look at
    started,      \* Scheduler.started
    terms, faults, changes

raft       == <<leader, peers, notice, terms>>
serf       == <<member, changes>>
leaderVars == <<raft, serf, prompt, weAreLeader, loop, established, todo, started, faults>>

Peer    == [name : Servers, addr : Addresses]
Member  == [name : Servers, addr : Addresses, status : {"alive", "failed", "left"}]

ASSUME LeadershipAssumption ==
    /\ NoServer \notin Servers
    /\ FirstPeers \subseteq Peer /\ Candidates \subseteq Servers
    /\ {MaxTerms, MaxFaults, MaxChanges} \subseteq Nat

\* Names of the peers that answer Raft, which knows them by their address.
Answering(config) ==
    {p.name : p \in {q \in config : \E m \in member : /\ m.name = q.name /\ m.addr = q.addr
                                                      /\ m.status = "alive"}}
Quorum(config) == 2 * Cardinality(Answering(config)) > Cardinality(config)
Names(config)  == {p.name : p \in config}
At(s, place)   == loop[s] = place

Fault == faults < MaxFaults /\ faults' = faults + 1
Go(s, place) == loop' = [loop EXCEPT ![s] = place]

----------------------------------------------------------------------------
(***************************************************************************)
(* Raft and Serf                                                           *)
(***************************************************************************)

Elected(s) ==
    /\ leader = NoServer /\ s \in Candidates /\ terms < MaxTerms
    /\ s \in Answering(peers) /\ Quorum(peers)
    /\ prompt => ~(notice[s] = "lost" /\ weAreLeader[s] # "closed")
    /\ leader' = s /\ terms' = terms + 1
    /\ notice' = [notice EXCEPT ![s] = "won"]
    /\ UNCHANGED <<peers, serf, prompt, weAreLeader, loop, established, todo, started, faults>>

Deposed(s) ==
    /\ leader = s
    /\ leader' = NoServer
    /\ notice' = [notice EXCEPT ![s] = "lost"]
    /\ UNCHANGED <<peers, terms, serf, prompt, weAreLeader, loop, established, todo, started, faults>>

Change == changes < MaxChanges /\ changes' = changes + 1

\* A server starts, at an address that no live server has.
Join(s, addr) ==
    /\ Change
    /\ ~\E m \in member : m.status = "alive" /\ (m.name = s \/ m.addr = addr)
    /\ member' = {m \in member : m.name # s}
                     \cup {[name |-> s, addr |-> addr, status |-> "alive"]}
    /\ UNCHANGED <<raft, prompt, weAreLeader, loop, established, todo, started, faults>>

\* Agent.Stop, or a crash: the process and all that it keeps in memory end.
Stop(s, status) ==
    /\ Change
    /\ \E m \in member :
          /\ m.name = s /\ m.status = "alive"
          /\ member' = (member \ {m}) \cup {[m EXCEPT !.status = status]}
    /\ leader' = IF leader = s THEN NoServer ELSE leader
    /\ notice' = [notice EXCEPT ![s] = "none"]
    /\ weAreLeader' = [weAreLeader EXCEPT ![s] = "nil"]
    /\ Go(s, "none")
    /\ established' = [established EXCEPT ![s] = FALSE]
    /\ todo' = [todo EXCEPT ![s] = {}]
    /\ started' = [started EXCEPT ![s] = FALSE]
    /\ UNCHANGED <<peers, terms, prompt, faults>>

\* Serf forgets a server long after it went.
Reap(s) ==
    /\ Change
    /\ \E m \in member : m.name = s /\ m.status # "alive" /\ member' = member \ {m}
    /\ UNCHANGED <<raft, prompt, weAreLeader, loop, established, todo, started, faults>>

----------------------------------------------------------------------------
(***************************************************************************)
(* monitorLeadership                                                       *)
(***************************************************************************)

Won(s) ==
    /\ notice[s] = "won" /\ weAreLeader[s] # "closed"
    /\ notice' = [notice EXCEPT ![s] = "none"]
    /\ IF weAreLeader[s] = "open" THEN UNCHANGED <<weAreLeader, loop>>
       ELSE weAreLeader' = [weAreLeader EXCEPT ![s] = "open"] /\ Go(s, "barrier")
    /\ UNCHANGED <<leader, peers, terms, serf, prompt, established, todo, started, faults>>

\* A defective monitor that forgets the channel without closing it.
LostUnclosed(s) ==
    /\ notice[s] = "lost" /\ weAreLeader[s] # "closed"
    /\ notice' = [notice EXCEPT ![s] = "none"]
    /\ weAreLeader' = [weAreLeader EXCEPT ![s] = "nil"]
    /\ UNCHANGED <<leader, peers, terms, serf, prompt, loop, established, todo, started, faults>>

\* The channel is closed, and the monitor waits for the loop.
Lost(s) ==
    /\ notice[s] = "lost" /\ weAreLeader[s] # "closed"
    /\ notice' = [notice EXCEPT ![s] = "none"]
    /\ weAreLeader' = [weAreLeader EXCEPT ![s] = IF @ = "nil" THEN "nil" ELSE "closed"]
    /\ UNCHANGED <<leader, peers, terms, serf, prompt, loop, established, todo, started, faults>>

LoopWaited(s) ==
    /\ weAreLeader[s] = "closed" /\ At(s, "none")
    /\ weAreLeader' = [weAreLeader EXCEPT ![s] = "nil"]
    /\ UNCHANGED <<raft, serf, prompt, loop, established, todo, started, faults>>

monitorLeadership(s) == Won(s) \/ Lost(s) \/ LoopWaited(s)

----------------------------------------------------------------------------
(***************************************************************************)
(* leaderLoop                                                              *)
(***************************************************************************)

\* From RECONCILE to the answer of the barrier.
Barrier(s) ==
    /\ At(s, "barrier")
    /\ \/ /\ leader = s /\ Quorum(peers)
          /\ Go(s, IF established[s] THEN "reconcile" ELSE "establish")
          /\ UNCHANGED faults
       \/ /\ IF leader = s THEN Fault ELSE UNCHANGED faults
          /\ Go(s, "wait")
    /\ UNCHANGED <<raft, serf, prompt, weAreLeader, established, todo, started>>

\* A scheduler that is started is an error of Scheduler.Start; revokeLeadership
\* follows every error.
establishLeadership(s) ==
    /\ At(s, "establish")
    /\ \/ /\ ~started[s]
          /\ started' = [started EXCEPT ![s] = TRUE]
          /\ established' = [established EXCEPT ![s] = TRUE]
          /\ Go(s, "reconcile")
          /\ UNCHANGED faults
       \/ /\ IF started[s] THEN UNCHANGED faults ELSE Fault
          /\ started' = [started EXCEPT ![s] = FALSE]
          /\ Go(s, "transfer")
          /\ UNCHANGED established
    /\ UNCHANGED <<raft, serf, prompt, weAreLeader, todo>>

\* A defective loop that ends although no other server took over.
transferOrEnd(s) ==
    /\ At(s, "transfer")
    /\ Go(s, "none")
    /\ UNCHANGED <<raft, serf, prompt, weAreLeader, established, todo, started, faults>>

\* A transfer needs another server that answers.  The loop ends before the
\* monitor has read that the leadership is lost.
leadershipTransfer(s) ==
    /\ At(s, "transfer")
    /\ \/ /\ leader = s /\ Answering(peers) \ {s} # {}
          /\ leader' = NoServer
          /\ notice' = [notice EXCEPT ![s] = "lost"]
          /\ Go(s, "none")
          /\ UNCHANGED faults
       \/ /\ IF leader = s /\ Answering(peers) \ {s} # {} THEN Fault ELSE UNCHANGED faults
          /\ Go(s, "wait")
          /\ UNCHANGED <<leader, notice>>
    /\ UNCHANGED <<peers, terms, serf, prompt, weAreLeader, established, todo, started>>

\* Why nothing has to be done for a member.
Current(s, m) ==
    \/ m.status = "failed"
    \/ m.status = "alive" /\ [name |-> m.name, addr |-> m.addr] \in peers
    \/ m.status = "alive" /\ m.name = s /\ Cardinality(peers) < 3
    \/ m.status = "left" /\ (m.name = s \/ m.name \notin Names(peers))

\* reconcile goes over the members of the moment; those for which nothing has
\* to be done are passed at once.
reconcile(s) ==
    /\ At(s, "reconcile")
    /\ todo' = [todo EXCEPT ![s] = {m \in member : ~Current(s, m)}]
    /\ Go(s, "members")
    /\ UNCHANGED <<raft, serf, prompt, weAreLeader, established, started, faults>>

Looked(s, m)  == todo' = [todo EXCEPT ![s] = @ \ {m}] /\ UNCHANGED loop
GaveUp(s)     == todo' = [todo EXCEPT ![s] = {}] /\ Go(s, "wait")

\* A change of the configuration is used as soon as the leader has it, and
\* reported once a quorum of it has it; next says where a success leads.
Configure(s, config, next) ==
    /\ leader = s
    /\ peers' = config
    /\ IF config # peers /\ Quorum(peers') THEN next ELSE GaveUp(s)
    /\ UNCHANGED faults

\* Raft gives a known name its new address, and refuses an address twice.
AddVoter(m) ==
    IF \E p \in peers : p.addr = m.addr /\ p.name # m.name THEN peers
    ELSE {p \in peers : p.name # m.name} \cup {[name |-> m.name, addr |-> m.addr]}

\* A defective addRaftPeer that only compares identifiers.
addUnchecked(s, m) ==
    /\ m.status = "alive"
    /\ Configure(s, AddVoter(m), Looked(s, m))

\* A peer with the address of the member and another name goes first.  Two
\* servers in bootstrap mode, which are not added, are left out.
addRaftPeer(s, m) ==
    /\ m.status = "alive"
    /\ LET duplicate == {p \in peers : p.addr = m.addr /\ p.name # m.name}
       IN  IF duplicate # {}
             THEN Configure(s, peers \ duplicate, UNCHANGED <<todo, loop>>)
             ELSE Configure(s, AddVoter(m), Looked(s, m))

removeRaftPeer(s, m) ==
    /\ m.status = "left"
    /\ Configure(s, {p \in peers : p.name # m.name}, Looked(s, m))

reconcileMember(s, m) ==
    /\ At(s, "members") /\ m \in todo[s]
    /\ \/ Current(s, m) /\ Looked(s, m) /\ UNCHANGED <<peers, faults>>
       \/ ~Current(s, m) /\ (addRaftPeer(s, m) \/ removeRaftPeer(s, m))
       \/ /\ ~Current(s, m)
          /\ IF leader = s THEN Fault ELSE UNCHANGED faults
          /\ GaveUp(s) /\ UNCHANGED peers
    /\ UNCHANGED <<leader, notice, terms, serf, prompt, weAreLeader, established, started>>

\* A defective return that leaves the scheduler as it is.
ReturnRunning(s) ==
    /\ Go(s, "none")
    /\ established' = [established EXCEPT ![s] = FALSE]
    /\ UNCHANGED started

\* A return with the deferred call of revokeLeadership.
Return(s) ==
    /\ Go(s, "none")
    /\ established' = [established EXCEPT ![s] = FALSE]
    /\ started' = [started EXCEPT ![s] = IF established[s] THEN FALSE ELSE @]

\* The stop channel is looked at after reconcile, and while the loop waits.
\* reconcileCh is nil in every agent: members are never received from it.
StopLoop(s) ==
    /\ At(s, "wait") \/ (At(s, "members") /\ todo[s] = {})
    /\ weAreLeader[s] = "closed"
    /\ Return(s)
    /\ UNCHANGED <<raft, serf, prompt, weAreLeader, todo, faults>>

Reconciled(s) ==
    /\ At(s, "members") /\ todo[s] = {} /\ weAreLeader[s] # "closed"
    /\ Go(s, "wait")
    /\ UNCHANGED <<raft, serf, prompt, weAreLeader, established, todo, started, faults>>

Interval(s) ==
    /\ At(s, "wait")
    /\ Go(s, "barrier")
    /\ UNCHANGED <<raft, serf, prompt, weAreLeader, established, todo, started, faults>>

leaderLoop(s) ==
    \/ Barrier(s)
    \/ establishLeadership(s)
    \/ leadershipTransfer(s)
    \/ reconcile(s)
    \/ \E m \in Member : reconcileMember(s, m)
    \/ StopLoop(s)
    \/ Reconciled(s)
    \/ Interval(s)

----------------------------------------------------------------------------
LeadershipInit ==
    /\ leader = NoServer
    /\ peers = FirstPeers
    /\ member = {[name |-> p.name, addr |-> p.addr, status |-> "alive"] : p \in FirstPeers}
    /\ prompt \in BOOLEAN
    /\ notice = [s \in Servers |-> "none"]
    /\ weAreLeader = [s \in Servers |-> "nil"]
    /\ loop = [s \in Servers |-> "none"]
    /\ established = [s \in Servers |-> FALSE]
    /\ todo = [s \in Servers |-> {}]
    /\ started = [s \in Servers |-> FALSE]
    /\ terms = 0 /\ faults = 0 /\ changes = 0

LeadershipNext ==
    \E s \in Servers :
        \/ Elected(s) \/ Deposed(s)
        \/ \E addr \in Addresses : Join(s, addr)
        \/ \E status \in {"left", "failed"} : Stop(s, status)
        \/ Reap(s)
        \/ monitorLeadership(s)
        \/ leaderLoop(s)

(***************************************************************************)
(* Goroutines run.  Of several channels that are ready, select takes any,  *)
(* so a closed stop channel is taken some day.  Raft's lease deposes a     *)
(* leader without a quorum.                                                *)
(***************************************************************************)
LeadershipFairness ==
    \A s \in Servers :
        /\ WF_leaderVars(monitorLeadership(s))
        /\ WF_leaderVars(leaderLoop(s))
        /\ SF_leaderVars(StopLoop(s))
        /\ WF_leaderVars(~Quorum(peers) /\ Deposed(s))

LeadershipSpec == LeadershipInit /\ [][LeadershipNext]_leaderVars /\ LeadershipFairness

----------------------------------------------------------------------------
(***************************************************************************)
(* Properties                                                              *)
(***************************************************************************)

\* A scheduler only runs inside of a leader loop that established itself, on
\* every path out of the loop: lost leadership, errors and transfers.
SchedulerHasLoop == \A s \in Servers : started[s] => ~At(s, "none") /\ established[s]

\* The scheduler of a server that lost the leadership stops, unless the
\* server wins again before (monitorLeadership, revokeLeadership).
DeposedStops ==
    \A s \in Servers : (started[s] /\ leader # s) ~> (~started[s] \/ leader = s)

\* A server that stays the leader runs its scheduler in the end, although
\* barriers, establishing and transferring may fail on the way.
LeaderSchedules ==
    prompt => \A s \in Servers : <>[](leader = s) => <>[]started[s]

\* Under a leader that stays, the live members become peers at the addresses
\* they have now and servers that left are peers no more: servers may move,
\* take over an address and return under another one (addRaftPeer,
\* removeRaftPeer).
Agreed ==
    \A m \in member : m.name # leader =>
        /\ m.status = "alive" => [name |-> m.name, addr |-> m.addr] \in peers
        /\ m.status = "left" => m.name \notin Names(peers)

PeersFollowMembers ==
    prompt => \A s \in Servers : <>[](leader = s) => <>[]Agreed
============================================================================
