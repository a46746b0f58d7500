------------------------------ MODULE WatchRules ------------------------------
(***************************************************************************)
(* The watch rules of the proactive engine, for one rule id.  A rule is    *)
(* evaluated when its wake-up fires and then requests the next one; an     *)
(* operator registers, pauses, resumes and cancels it meanwhile.  Every    *)
(* call is cut where it awaits the scheduler or the rule's condition, so   *)
(* calls interleave at those points.                                       *)
(*                                                                         *)
(* The scheduler is external: it fires a pending wake-up once, the runtime *)
(* delivers it to evaluateWatchRules some time later, and cancelling one   *)
(* that has fired does nothing.  Wake-ups are numbered; a number nobody    *)
(* holds any more is used again.                                           *)
(***************************************************************************)
EXTENDS Naturals, FiniteSets

CONSTANTS
    Operators,       \* callers of register, resume and cancel
    MaxEvaluations,  \* evaluateWatchRules calls that may run at once
    MaxRecords,      \* registrations of the rule id
    MaxLive          \* bound on the wake-ups alive and the requests under way

ASSUME ConstantsAssumption ==
    /\ IsFiniteSet(Operators)
    /\ Operators \cap Nat = {}
    /\ MaxEvaluations \in Nat \ {0}
    /\ MaxRecords \in Nat \ {0}
    /\ MaxLive \in Nat \ {0}

VARIABLES
    current,  \* registrations so far; the last one is what the id maps to
    rule,     \* of each registration: its status and the wake-up it tracks
    pending,  \* wake-ups the scheduler will fire
    fired,    \* how many wake-ups are on their way to evaluateWatchRules
    call,     \* where each call is, the registration it works on and the
              \* wake-up it is about
    failed    \* history: a call on the current registration threw, and none
              \* has requested a wake-up since

vars == <<current, rule, pending, fired, call, failed>>

Evaluators == 1..MaxEvaluations
Calls == Operators \cup Evaluators
NoWake == 0

\* As many numbers as can be held: by live wake-ups, calls and registrations.
Wakes == 1..(MaxLive + Cardinality(Calls) + MaxRecords)

Unregistered == [status |-> "none", binding |-> NoWake]
Idle == [at |-> "idle", on |-> 0, wake |-> NoWake]

Init ==
    /\ current = 0
    /\ rule = [r \in 1..MaxRecords |-> Unregistered]
    /\ pending = {}
    /\ fired = 0
    /\ call = [k \in Calls |-> Idle]
    /\ failed = FALSE

-----------------------------------------------------------------------------
(* Helpers *)

Status == IF current = 0 THEN "none" ELSE rule[current].status

\* The rule is found and not cancelled; every method but register throws otherwise.
Usable == Status \in {"active", "paused"}

Idles(k) == call[k].at = "idle"
Return(k) == call' = [call EXCEPT ![k] = Idle]
Succeed(k) == failed' = (failed /\ call[k].on # current)
Fail(k) == failed' = (failed \/ call[k].on = current)
Goto(k, at) == call' = [call EXCEPT ![k].at = at]
Tracked(k) == rule[call[k].on].binding

Unused ==
    Wakes \ UNION {pending, {call[k].wake : k \in Calls},
                   {rule[r].binding : r \in 1..MaxRecords}}

\* Calls that go on to request a wake-up.
Requesting == {k \in Calls : call[k].at \in {"condition", "replace", "request"}}

\* The bound on what operators may add.
MayRequest == Cardinality(pending) + fired + Cardinality(Requesting) < MaxLive

\* Mutant: the wake-up before is left to itself.
RequestAtOnce(k) == Goto(k, "request")

\* Mutant: only a rule that tracks a wake-up requests another.
CancelOnly(k) ==
    IF Tracked(k) # NoWake
    THEN call' = [call EXCEPT ![k].at = "replace", ![k].wake = Tracked(k)]
    ELSE Return(k)

\* The wake-up before is cancelled first, if one is tracked.
Replace(k) ==
    IF Tracked(k) # NoWake
    THEN call' = [call EXCEPT ![k].at = "replace", ![k].wake = Tracked(k)]
    ELSE Goto(k, "request")

-----------------------------------------------------------------------------
(* Operator calls up to their first await *)

\* A registration is active at once; it replaces the one before, whatever its
\* status, which nobody can see any more.
Register(k) ==
    /\ Idles(k)
    /\ current < MaxRecords
    /\ MayRequest
    /\ current' = current + 1
    /\ rule' = [r \in 1..MaxRecords |->
                    [rule[r] EXCEPT !.status = IF r = current' THEN "active" ELSE "none"]]
    /\ call' = [call EXCEPT ![k] =
                    [at |-> "request", on |-> current', wake |-> NoWake]]
    /\ failed' = FALSE
    /\ UNCHANGED <<pending, fired>>

Pause ==
    /\ Usable
    /\ rule' = [rule EXCEPT ![current].status = "paused"]
    /\ UNCHANGED <<current, pending, fired, call, failed>>

Resume(k) ==
    /\ Idles(k)
    /\ Usable
    /\ MayRequest
    /\ rule' = [rule EXCEPT ![current].status = "active"]
    /\ call' = [call EXCEPT ![k] =
                    [at |-> "request", on |-> current, wake |-> NoWake]]
    /\ UNCHANGED <<current, pending, fired, failed>>

\* cancelWatchRule; without a tracked wake-up it has nothing to await.
Cancel(k) ==
    /\ Idles(k)
    /\ Usable
    /\ \/ /\ rule[current].binding # NoWake
          /\ call' = [call EXCEPT ![k] =
                          [at |-> "cancel", on |-> current, wake |-> rule[current].binding]]
          /\ UNCHANGED rule
       \/ /\ rule[current].binding = NoWake
          /\ rule' = [rule EXCEPT ![current].status = "cancelled"]
          /\ UNCHANGED call
    /\ UNCHANGED <<current, pending, fired, failed>>

-----------------------------------------------------------------------------
(* evaluateWatchRules *)

\* Mutant: a paused rule is evaluated like an active one.
EvaluableIfUsable == Usable

Evaluable == Status = "active"

Fire(w) ==
    /\ w \in pending
    /\ pending' = pending \ {w}
    /\ fired' = fired + 1
    /\ UNCHANGED <<current, rule, call, failed>>

\* A paused rule is skipped; one that is cancelled is not found.
Evaluate(k) ==
    /\ Idles(k)
    /\ \A j \in 1..(k - 1) : ~Idles(j)
    /\ fired > 0
    /\ fired' = fired - 1
    /\ \/ /\ Evaluable
          /\ call' = [call EXCEPT ![k] =
                          [at |-> "condition", on |-> current, wake |-> NoWake]]
       \/ ~Evaluable /\ UNCHANGED call
    /\ UNCHANGED <<current, rule, pending, failed>>

\* Whatever the condition answers, the next wake-up is requested; if it throws,
\* the call rejects and none is.
Condition(k) ==
    /\ call[k].at = "condition"
    /\ \/ Replace(k) /\ UNCHANGED failed
       \/ Return(k) /\ Fail(k)
    /\ UNCHANGED <<current, rule, pending, fired>>

-----------------------------------------------------------------------------
(* Awaits of the scheduler, shared by the calls *)

AfterReplace == "request"

\* cancelWakeUp and the code behind it; one that throws may have been applied.
\* A wake-up that could be cancelled earlier can as well not fire until now.
CancelWakeUp(k) ==
    /\ call[k].at \in {"replace", "cancel"}
    /\ \/ /\ pending' = pending \ {call[k].wake}
          /\ \/ /\ call[k].at = "replace"
                /\ rule' = [rule EXCEPT ![call[k].on].binding = NoWake]
                /\ call' = [call EXCEPT ![k].at = AfterReplace, ![k].wake = NoWake]
             \/ /\ call[k].at = "cancel"
                /\ rule' = [rule EXCEPT ![call[k].on] =
                                [status |-> "cancelled", binding |-> NoWake]]
                /\ Return(k)
          /\ UNCHANGED failed
       \/ /\ pending' \in {pending, pending \ {call[k].wake}}
          /\ Return(k)
          /\ Fail(k)
          /\ UNCHANGED rule
    /\ UNCHANGED <<current, fired>>

\* scheduleWatchWakeUp; one that throws may have been applied.
RequestWakeUp(k) ==
    /\ call[k].at = "request"
    /\ \E w \in Unused :
        /\ \A v \in Unused : w <= v
        /\ \/ /\ pending' = pending \cup {w}
              /\ call' = [call EXCEPT ![k].at = "store", ![k].wake = w]
              /\ Succeed(k)
           \/ /\ pending' \in {pending, pending \cup {w}}
              /\ Return(k)
              /\ Fail(k)
    /\ UNCHANGED <<current, rule, fired>>

\* Back from the scheduler: the registration tracks the new wake-up.
Store(k) ==
    /\ call[k].at = "store"
    /\ rule' = [rule EXCEPT ![call[k].on].binding = call[k].wake]
    /\ Return(k)
    /\ UNCHANGED <<current, pending, fired, failed>>

-----------------------------------------------------------------------------
(* Specification *)

Step(k) == Condition(k) \/ CancelWakeUp(k) \/ RequestWakeUp(k) \/ Store(k)

Next ==
    \/ Pause
    \/ \E k \in Operators : Register(k) \/ Resume(k) \/ Cancel(k)
    \/ \E k \in Evaluators : Evaluate(k)
    \/ \E k \in Calls : Step(k)
    \/ \E w \in Wakes : Fire(w)

Spec == Init /\ [][Next]_vars

\* The scheduler fires what is pending, the runtime evaluates what has fired, and
\* conditions and scheduler calls settle; operators need not do anything.
Fairness ==
    /\ \A w \in Wakes : WF_vars(Fire(w))
    /\ WF_vars(\E k \in Evaluators : Evaluate(k))
    /\ \A k \in Calls : WF_vars(Step(k))

FairSpec == Spec /\ Fairness

-----------------------------------------------------------------------------
(* Properties *)

\* The type invariant; a call holds a wake-up only around the scheduler's answers.
TypeOK ==
    /\ current \in 0..MaxRecords
    /\ rule \in [1..MaxRecords ->
                    [status : {"none", "active", "paused", "cancelled"},
                     binding : Wakes \cup {NoWake}]]
    /\ pending \subseteq Wakes
    /\ fired \in Nat
    /\ failed \in BOOLEAN
    /\ call \in [Calls -> {Idle}
           \cup [at : {"condition", "request"}, on : 1..MaxRecords, wake : {NoWake}]
           \cup [at : {"replace", "cancel", "store"}, on : 1..MaxRecords, wake : Wakes]]

\* An active rule never goes dead: unless one of its calls threw, a wake-up for it
\* is pending or delivered, or a call is under way that requests one or cancels
\* the rule, however pauses, resumes, cancels, registrations and evaluations
\* overlap (evaluateWatchRules and resumeWatchRule request the next wake-up).
ActiveIsWatched ==
    /\ TypeOK
    /\ Status = "active" /\ ~failed =>
        \/ pending # {} \/ fired > 0
        \/ \E k \in Calls : call[k].on = current /\ call[k].at # "store"

\* A rule that stays paused or cancelled falls silent: calls under way when it was
\* stopped may still request a wake-up, but in the end none is left
\* (evaluateWatchRules skips such a rule without requesting another).
StoppedFallsSilent ==
    <>[](Status \in {"paused", "cancelled"}) => <>[](pending = {} /\ fired = 0)

Evaluating == {k \in Evaluators : ~Idles(k)}
LeftAlone ==
    /\ \A k \in Operators : Idles(k)
    /\ ~failed
    /\ fired + Cardinality(Evaluating) <= 1

\* Wake-ups doubled by a resume, a second registration or overlapping evaluations
\* die out once the rule is left alone, no call throws and its wake-ups are
\* evaluated one at a time (evaluateWatchRules cancels the tracked wake-up before
\* it requests the next).
DuplicatesDieOut ==
    <>[]LeftAlone =>
        <>[](Cardinality(pending) + fired <= 1)
==============================================================================
