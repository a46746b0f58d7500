------------------------------ MODULE MCTurnQueue ------------------------------
(* The turn pipeline with two interchangeable requests, of which at least one,   *)
(* d1, is about an event with a key: those without keys share nothing at the     *)
(* ingress, and the queue does not tell the two kinds apart.                     *)
EXTENDS TurnQueue

CONSTANT d1

MCNext == Next /\ event'[d1] \notin Unkeyed
MCSpec == Init /\ [][MCNext]_vars /\ Fairness
================================================================================
