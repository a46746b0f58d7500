----------------------------- MODULE MCProactive ------------------------------
(* What an assistant does unasked: the watch rules, the batch run over         *)
(* collected signals, and the channel its notices go to.  They share no state: *)
(* each behaviour is one of a single part, while the others keep their first   *)
(* state.                                                                      *)
EXTENDS WatchRules, FollowUpBatch, NotifyChannel

VARIABLE part

proactiveVars == <<part, vars, batchVars, notifyVars>>

ProactiveInit ==
    /\ part \in {"watch", "batch", "notify"}
    /\ Init /\ BatchInit /\ NotifyInit
    /\ part # "batch" => ~ cancelled

ProactiveNext ==
    /\ UNCHANGED part
    /\ \/ part = "watch" /\ Next /\ UNCHANGED <<batchVars, notifyVars>>
       \/ part = "batch" /\ BatchNext /\ UNCHANGED <<vars, notifyVars>>
       \/ part = "notify" /\ NotifyNext /\ UNCHANGED <<vars, batchVars>>

\* With no rule registered nothing is pending, fired or awaited.
ProactiveSpec == ProactiveInit /\ [][ProactiveNext]_proactiveVars /\ Fairness
================================================================================
