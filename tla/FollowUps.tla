------------------------------- MODULE FollowUps -------------------------------
(***************************************************************************)
(* Follow-up rules of the proactive engine, for one session.  An           *)
(* evaluation awaits its evidence, takes the time, and walks the rules: it *)
(* reads a rule's reminder state, awaits the rule's condition and then     *)
(* writes the state it makes of what it read.  Meanwhile rules are         *)
(* registered and removed, the reminders of the session are reset, and     *)
(* other evaluations run.                                                  *)
(***************************************************************************)
EXTENDS Naturals, Sequences, FiniteSets, SequencesExt

CONSTANTS
    Evaluations,   \* calls of evaluateFollowUp that may be under way at once
    Rules,         \* rule ids
    MaxReminders,  \* of the rules' policy
    ReminderCooldown,      \* of the rules' policy
    LastInstant    \* bound on the clock

ASSUME FollowUpConstants ==
    /\ MaxReminders \in Nat
    /\ ReminderCooldown \in Nat
    /\ LastInstant \in Nat

VARIABLES
    rules,     \* registered rules, in the order they will be walked
    reminders, \* of each rule: how many were sent, and when the last one was
    eval,      \* where each evaluation is
    time,      \* the clock
    sent,      \* history: of each rule, when reminders went out since it was reset
    crossed    \* history: rules whose state was written from an outdated copy

followVars == <<rules, reminders, eval, time, sent, crossed>>

NeverSent == LastInstant + 1
Unsent == [count |-> 0, last |-> NeverSent]
NoEval == [at |-> "idle", active |-> FALSE, now |-> 0, seen |-> 0, on |-> "none",
           state |-> Unsent]

FollowInit ==
    /\ rules = <<>>
    /\ reminders = [r \in Rules |-> Unsent]
    /\ eval = [e \in Evaluations |-> NoEval]
    /\ time = 0
    /\ sent = [r \in Rules |-> <<>>]
    /\ crossed = {}

-----------------------------------------------------------------------------

\* applySuppression: the user is active, reminders used up, or cooling down.
ReminderSuppressed(e, s) ==
    \/ eval[e].active
    \/ s.count >= MaxReminders
    \/ s.last # NeverSent /\ eval[e].now - s.last < ReminderCooldown

\* The walk of the Map visits what is registered when it gets there.
Ended(e) == eval[e].seen >= Len(rules)
Here(e) == rules[eval[e].seen + 1]

RegisterFollowUpRule(r) ==
    /\ r \notin Range(rules)
    /\ rules' = Append(rules, r)
    /\ UNCHANGED <<reminders, eval, time, sent, crossed>>

Forget(rs) ==
    /\ reminders' = [r \in Rules |-> IF r \in rs THEN Unsent ELSE reminders[r]]
    /\ sent' = [r \in Rules |-> IF r \in rs THEN <<>> ELSE sent[r]]
    /\ crossed' = crossed \ rs

\* A walk that is past the removed rule does not skip the one behind it.
RemoveFollowUpRule(r) ==
    /\ \E i \in DOMAIN rules :
        /\ rules[i] = r
        /\ rules' = RemoveAt(rules, i)
        /\ eval' = [e \in Evaluations |->
                        IF i <= eval[e].seen THEN [eval[e] EXCEPT !.seen = @ - 1] ELSE eval[e]]
    /\ Forget({r})
    /\ UNCHANGED time

\* For one rule, or for all of them.
ResetReminderState ==
    /\ \E rs \in {Rules} \cup {{r} : r \in Rules} : Forget(rs)
    /\ UNCHANGED <<rules, eval, time>>

\* The call begins and awaits the evidence source.
BeginEvaluation(e) ==
    /\ eval[e].at = "idle"
    /\ \E active \in BOOLEAN :
        eval' = [eval EXCEPT ![e] = [NoEval EXCEPT !.at = "evidence", !.active = active]]
    /\ UNCHANGED <<rules, reminders, time, sent, crossed>>

EvidenceArrives(e) ==
    /\ eval[e].at = "evidence"
    /\ eval' = [eval EXCEPT ![e].at = "walking", ![e].now = time]
    /\ UNCHANGED <<rules, reminders, time, sent, crossed>>

\* The next rule is suppressed at once, or its condition is awaited.
VisitRule(e) ==
    /\ eval[e].at = "walking"
    /\ ~Ended(e)
    /\ \/ /\ ReminderSuppressed(e, reminders[Here(e)])
          /\ eval' = [eval EXCEPT ![e].seen = @ + 1]
       \/ /\ ~ReminderSuppressed(e, reminders[Here(e)])
          /\ eval' = [eval EXCEPT ![e].at = "condition", ![e].seen = @ + 1,
                                  ![e].on = Here(e), ![e].state = reminders[Here(e)]]
    /\ UNCHANGED <<rules, reminders, time, sent, crossed>>

ConditionFails(e) ==
    /\ eval[e].at = "condition"
    /\ eval' = [eval EXCEPT ![e].at = "walking", ![e].on = "none", ![e].state = Unsent]
    /\ UNCHANGED <<rules, reminders, time, sent, crossed>>

\* Mutant: the time of the reminder is not kept.
CountedOnly(s, now) == [count |-> s.count + 1, last |-> s.last]

Counted(s, now) == [count |-> s.count + 1, last |-> now]

FireFollowUp(e) ==
    LET r == eval[e].on
    IN  /\ eval[e].at = "condition"
        /\ reminders' = [reminders EXCEPT ![r] = Counted(eval[e].state, eval[e].now)]
        /\ sent' = [sent EXCEPT ![r] = Append(@, eval[e].now)]
        /\ crossed' = IF eval[e].state = reminders[r] /\ r \in Range(rules)
                      THEN crossed ELSE crossed \cup {r}
        /\ eval' = [eval EXCEPT ![e].at = "walking", ![e].on = "none", ![e].state = Unsent]
        /\ UNCHANGED <<rules, time>>

EndEvaluation(e) ==
    /\ eval[e].at = "walking"
    /\ Ended(e)
    /\ eval' = [eval EXCEPT ![e] = NoEval]
    /\ UNCHANGED <<rules, reminders, time, sent, crossed>>

\* The condition throws, or the evidence source does: nothing more is evaluated.
EvaluationThrows(e) ==
    /\ eval[e].at \in {"evidence", "condition"}
    /\ eval' = [eval EXCEPT ![e] = NoEval]
    /\ UNCHANGED <<rules, reminders, time, sent, crossed>>

InstantPasses ==
    /\ time < LastInstant
    /\ time' = time + 1
    /\ UNCHANGED <<rules, reminders, eval, sent, crossed>>

FollowNext ==
    \/ \E r \in Rules : RegisterFollowUpRule(r) \/ RemoveFollowUpRule(r)
    \/ ResetReminderState
    \/ \E e \in Evaluations :
        \/ BeginEvaluation(e) \/ EvidenceArrives(e) \/ VisitRule(e)
        \/ ConditionFails(e) \/ FireFollowUp(e) \/ EndEvaluation(e) \/ EvaluationThrows(e)
    \/ InstantPasses

FollowSpec == FollowInit /\ [][FollowNext]_followVars

-----------------------------------------------------------------------------
(* Properties *)

FollowTypeOK ==
    LET States == [count: Nat, last: 0..NeverSent]
    IN  /\ IsInjective(rules) /\ Range(rules) \subseteq Rules
        /\ reminders \in [Rules -> States]
        /\ \A e \in Evaluations :
            /\ eval[e].at \in {"idle", "evidence", "walking", "condition"}
            /\ eval[e].seen \in 0..Len(rules)
            /\ eval[e].state \in States
        /\ crossed \subseteq Rules

\* Since its last reset a rule sent no more reminders than its policy allows,
\* no two of them within the cooldown, and its state counts them all, unless
\* an evaluation wrote that state from a copy it took before another
\* evaluation, a reset or the rule's removal changed it.
RemindersKeepPolicy ==
    /\ FollowTypeOK
    /\ \A r \in Rules \ crossed :
        /\ Len(sent[r]) <= MaxReminders
        /\ reminders[r].count = Len(sent[r])
        /\ \A i \in 1..Len(sent[r]) - 1 : sent[r][i + 1] - sent[r][i] >= ReminderCooldown

=============================================================================
