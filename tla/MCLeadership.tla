---------------------------- MODULE MCLeadership ----------------------------
(***************************************************************************)
(* A small instance of Leadership for TLC.                                 *)
(***************************************************************************)
EXTENDS Leadership

CONSTANTS a, b, c, d

\* Three peers, so that one may fail, and a server d that may take its address.
Three == {[name |-> a, addr |-> 1], [name |-> b, addr |-> 2], [name |-> c, addr |-> 3]}
============================================================================
