------------------------------ MODULE MCAssistant ------------------------------
(* The assistant's runtime, and the relay adapter its handlers may execute      *)
(* turns with: both bound what they wait for by timers, and both are shut down  *)
(* while work goes on.  They share no state, so each behaviour is one of a      *)
(* single part.                                                                 *)
EXTENDS AssistantRuntime, RelayExecution

VARIABLE part

assistantVars == <<part, vars, relayVars>>

\* Attempts that close the adapter, whose worker has a relay of its own; and
\* attempts that spawn a worker, which shares the adapter they leave open.
TwoSetups == {
    [spawns |-> FALSE, closesAfter |-> TRUE, sharesRelay |-> FALSE],
    [spawns |-> TRUE, closesAfter |-> FALSE, sharesRelay |-> TRUE]}

AssistantInit ==
    /\ part \in {"runtime", "relay"}
    /\ Init /\ RelayInit
    /\ part # "relay" => setup = CHOOSE s \in Setups : TRUE

AssistantNext ==
    /\ UNCHANGED part
    /\ \/ part = "runtime" /\ Next /\ UNCHANGED relayVars
       \/ part = "relay" /\ RelayNext /\ UNCHANGED vars

\* Outside their parts no timer runs and no attempt has begun, so that the
\* fairness conditions ask for nothing there.
AssistantSpec ==
    AssistantInit /\ [][AssistantNext]_assistantVars /\ Fairness /\ RelayFair
================================================================================
