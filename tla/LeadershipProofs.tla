-------------------------- MODULE LeadershipProofs --------------------------
(***************************************************************************)
(* A scheduler runs only inside of an established leader loop, for any     *)
(* servers, addresses and bounds of module Leadership.                     *)
(*                                                                         *)
(* The property is not inductive: a loop that starts while an older one    *)
(* runs would establish itself over a scheduler that is started.  What     *)
(* excludes this is the channel of the monitor, which is nil only when no  *)
(* loop runs.                                                              *)
(***************************************************************************)
EXTENDS Leadership, TLAPS

Places == {"none", "barrier", "establish", "transfer", "reconcile", "members", "wait"}

\* What the leader loop and the monitor keep of each server.
LoopTypes ==
    /\ weAreLeader \in [Servers -> {"nil", "open", "closed"}]
    /\ loop \in [Servers -> Places]
    /\ established \in [Servers -> BOOLEAN]
    /\ started \in [Servers -> BOOLEAN]

OneLoop(s)     == weAreLeader[s] = "nil" => loop[s] = "none"
InStep(s)      == started[s] <=> established[s]
InLoop(s)      == established[s] => loop[s] \in {"barrier", "reconcile", "members", "wait"}
LoopInv        == LoopTypes /\ \A s \in Servers : OneLoop(s) /\ InStep(s) /\ InLoop(s)

\* The steps of everything but the loop and the monitor.
Outside == UNCHANGED <<weAreLeader, loop, established, started>>

\* They keep the invariant.
LEMMA OutsideStep ==
    ASSUME LoopInv, Outside
    PROVE  LoopInv'
BY DEF LoopInv, LoopTypes, Outside, OneLoop, InStep, InLoop

\* A step that moves a loop among places where both kinds of loops may be.
LEMMA MoveStep ==
    ASSUME LoopInv, NEW s \in Servers, NEW place \in {"barrier", "reconcile", "members", "wait"},
           loop[s] # "none", Go(s, place), UNCHANGED <<weAreLeader, established, started>>
    PROVE  LoopInv'
BY DEF LoopInv, LoopTypes, Go, OneLoop, InStep, InLoop, Places

\* One step of a leader loop keeps the invariant.
LEMMA LoopStep ==
    ASSUME LoopInv, NEW s \in Servers, leaderLoop(s)
    PROVE  LoopInv'
<1>1. CASE Barrier(s)
  <2>1. CASE Go(s, "wait")
    BY <1>1, <2>1, MoveStep DEF Barrier, At
  <2>2. CASE Go(s, "reconcile")
    BY <1>1, <2>2, MoveStep DEF Barrier, At
  <2>3. CASE ~established[s] /\ Go(s, "establish")
    BY <1>1, <2>3 DEF Barrier, At, LoopInv, LoopTypes, Go, OneLoop, InStep, InLoop, Places
  <2> QED
    BY <1>1, <2>1, <2>2, <2>3 DEF Barrier
<1>2. CASE establishLeadership(s)
  BY <1>2 DEF establishLeadership, At, LoopInv, LoopTypes, Go, OneLoop, InStep, InLoop, Places
<1>3. CASE leadershipTransfer(s)
  BY <1>3 DEF leadershipTransfer, At, LoopInv, LoopTypes, Go, OneLoop, InStep, InLoop, Places
<1>4. CASE reconcile(s)
  BY <1>4, MoveStep DEF reconcile, At
<1>5. ASSUME NEW m \in Member, reconcileMember(s, m)
      PROVE  LoopInv'
  <2>1. loop[s] # "none" /\ UNCHANGED <<weAreLeader, established, started>>
    BY <1>5 DEF reconcileMember, At
  <2>2. UNCHANGED loop \/ Go(s, "wait")
    BY <1>5 DEF reconcileMember, addRaftPeer, removeRaftPeer, Configure, Looked, GaveUp
  <2> QED
    BY <2>1, <2>2, MoveStep, OutsideStep DEF Outside
<1>6. CASE StopLoop(s)
  BY <1>6 DEF StopLoop, Return, At, LoopInv, LoopTypes, Go, OneLoop, InStep, InLoop, Places
<1>7. CASE Reconciled(s)
  BY <1>7, MoveStep DEF Reconciled, At
<1>8. CASE Interval(s)
  BY <1>8, MoveStep DEF Interval, At
<1> QED
  BY <1>1, <1>2, <1>3, <1>4, <1>5, <1>6, <1>7, <1>8 DEF leaderLoop

\* One step of a monitor keeps the invariant: a loop only starts where none is.
LEMMA MonitorStep ==
    ASSUME LoopInv, NEW s \in Servers, monitorLeadership(s)
    PROVE  LoopInv'
<1>1. CASE Won(s)
  <2>1. CASE weAreLeader[s] = "open"
    BY <1>1, <2>1, OutsideStep DEF Won, Outside
  <2>2. CASE weAreLeader[s] # "open"
    <3>1. weAreLeader[s] = "nil" /\ loop[s] = "none" /\ ~established[s]
      BY <1>1, <2>2 DEF Won, LoopInv, LoopTypes, OneLoop, InLoop
    <3> QED
      BY <1>1, <2>2, <3>1 DEF Won, LoopInv, LoopTypes, Go, OneLoop, InStep, InLoop, Places
  <2> QED
    BY <2>1, <2>2
<1>2. CASE Lost(s)
  BY <1>2 DEF Lost, LoopInv, LoopTypes, OneLoop, InStep, InLoop
<1>3. CASE LoopWaited(s)
  BY <1>3 DEF LoopWaited, At, LoopInv, LoopTypes, OneLoop, InStep, InLoop
<1> QED
  BY <1>1, <1>2, <1>3 DEF monitorLeadership

\* The invariant holds in every state.
THEOREM LoopInvariant == LeadershipSpec => []LoopInv
<1>1. LeadershipInit => LoopInv
  BY DEF LeadershipInit, LoopInv, LoopTypes, OneLoop, InStep, InLoop, Places
<1>2. LoopInv /\ [LeadershipNext]_leaderVars => LoopInv'
  <2>0. SUFFICES ASSUME LoopInv, [LeadershipNext]_leaderVars PROVE LoopInv'
    OBVIOUS
  <2>1. CASE UNCHANGED leaderVars
    BY <2>0, <2>1, OutsideStep DEF leaderVars, Outside
  <2>2. ASSUME NEW s \in Servers, Elected(s) \/ Deposed(s) \/ Reap(s)
        PROVE  LoopInv'
    BY <2>0, <2>2, OutsideStep DEF Elected, Deposed, Reap, Outside
  <2>3. ASSUME NEW s \in Servers, NEW addr \in Addresses, Join(s, addr)
        PROVE  LoopInv'
    BY <2>0, <2>3, OutsideStep DEF Join, Outside
  <2>4. ASSUME NEW s \in Servers, NEW status \in {"left", "failed"}, Stop(s, status)
        PROVE  LoopInv'
    BY <2>0, <2>4 DEF Stop, LoopInv, LoopTypes, Go, OneLoop, InStep, InLoop, Places
  <2> QED
    BY <2>0, <2>1, <2>2, <2>3, <2>4, MonitorStep, LoopStep DEF LeadershipNext
<1> QED
  BY <1>1, <1>2, PTL DEF LeadershipSpec

\* The scheduler of a server runs only inside of a leader loop of that server
\* that established itself (establishLeadership, revokeLeadership).
THEOREM SchedulerBound == LeadershipSpec => []SchedulerHasLoop
<1>1. LoopInv => SchedulerHasLoop
  BY DEF LoopInv, InStep, InLoop, SchedulerHasLoop, At, LoopTypes
<1> QED
  BY <1>1, LoopInvariant, PTL
============================================================================
