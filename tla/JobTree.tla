------------------------------ MODULE JobTree ------------------------------
(***************************************************************************)
(* What the job store promises about parents and children: jobs hang under *)
(* jobs that are there, and a job that others hang under stays.  The lists *)
(* of dependents that src/dkron/store.go keeps on the parent's side, and   *)
(* updates in transactions of their own, do not appear: module FSM         *)
(* implements this specification whatever those lists hold.                *)
(***************************************************************************)

CONSTANTS Names, NoParent

VARIABLES
    there,    \* the names under which a job is stored
    parentOf  \* the parent of each of them, NoParent for all other names

treeVars == <<there, parentOf>>

Parents == there \cup {NoParent}

\* A job is stored, or moved with its whole subtree.  Nothing keeps it from
\* moving below one of its own descendants.
Put(name, parent) ==
    /\ parent \in Parents \ {name}
    /\ there' = there \cup {name}
    /\ parentOf' = [parentOf EXCEPT ![name] = parent]

Remove(name) ==
    /\ name \in there
    /\ \A n \in there : parentOf[n] # name
    /\ there' = there \ {name}
    /\ parentOf' = [parentOf EXCEPT ![name] = NoParent]

Init ==
    /\ there = {}
    /\ parentOf = [n \in Names |-> NoParent]

Next ==
    \/ \E n \in Names, p \in Names \cup {NoParent} : Put(n, p)
    \/ \E n \in Names : Remove(n)

Spec == Init /\ [][Next]_treeVars
============================================================================
