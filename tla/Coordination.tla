----------------------------- MODULE Coordination ------------------------------
(***************************************************************************)
(* One turn of the coordinator: it walks a delegation plan, asks the       *)
(* router for a mode, awaits the step's specialist, and looks at the       *)
(* signals this specialist has raised in the turn's thread.  While it      *)
(* awaits, specialists (also those of earlier steps) raise signals, other  *)
(* code ends them, and the registry changes.  In between it is one         *)
(* synchronous piece of code.  The text of the answer and the fan-out of   *)
(* signals to an audience, which nothing uses, are left out.               *)
(***************************************************************************)
EXTENDS Routing, FiniteSets

CONSTANTS
    TurnId,       \* of the turn, which is its thread too
    Specialists,
    Plans,        \* sequences of steps [name, optional]
    Outcomes,     \* results a handler may answer with: [status, cost]
    MaxSteps,     \* the coordinator's limit on a plan
    QueryLimit,   \* DEFAULT_LIMIT of a query of signals
    SweepLimit,   \* the limit of the queries at the end of a turn
    MaxRaised     \* bound on the signals raised

ASSUME CoordinationConstants ==
    /\ TurnId \in Threads
    /\ MaxSteps \in Nat \ {0}
    /\ {QueryLimit, SweepLimit} \subseteq Nat \ {0}
    /\ MaxRaised \in Nat
    /\ Plans \subseteq Seq([name : Specialists, optional : BOOLEAN])
    /\ Outcomes \subseteq [status : {"complete", "partial", "failed"}, cost : Nat]

VARIABLES
    registry,  \* names of the registered specialists
    plan,      \* of the turn
    strategy,  \* of the synthesizer: a function of the caller's, or one of the package's
               \* two, which differ in the text only
    progress,  \* "idle", "step", "handler", or how execute ended
    k,         \* the step under way
    results,   \* the statuses of the results, in order
    skipped,   \* skippedSteps: step numbers
    raised,    \* the thread's signals, oldest first; "ended" says in which step one
               \* ended, one more than the last for the sweep at the end
    quality    \* of the answer

coordVars == <<registry, plan, strategy, progress, k, results, skipped, raised, quality>>

Classes == {"confidence.blocker", "escalation.interrupt", "conflict.active", "handoff.ready"}
Ends == {"refused", "returned", "blocked", "failed", "notFound"}
Open == {s \in DOMAIN raised : raised[s].state = "live"}
NoQuality == "none"
NotEnded == MaxSteps + 2

CoordInit ==
    /\ registry \in SUBSET Specialists
    /\ plan \in Plans
    /\ strategy \in {"custom", "builtIn"}
    /\ progress = "idle"
    /\ k = 0
    /\ results = <<>>
    /\ skipped = <<>>
    /\ raised = <<>>
    /\ quality = NoQuality

CurrentStep == plan[k]

-----------------------------------------------------------------------------
(* The specialists and everybody else, while the coordinator awaits *)

\* The connectivity layer drops a live signal's duplicate within one step, unless
\* it is critical, as interrupts are.
Duplicate(name, class) ==
    /\ class # "escalation.interrupt"
    /\ \E s \in Open : raised[s].source = name /\ raised[s].class = class /\ raised[s].born = k

\* A signal may replace another, and may have a step to expire at.
Raise(name, class, expires, replaced) ==
    /\ progress = "handler"
    /\ \E j \in 1..k : plan[j].name = name
    /\ Len(raised) < MaxRaised
    /\ ~Duplicate(name, class)
    /\ raised' = Append([s \in DOMAIN raised |->
                            IF s \in replaced THEN [raised[s] EXCEPT !.state = "superseded", !.ended = k]
                            ELSE raised[s]],
                        [source |-> name, class |-> class, born |-> k, expires |-> expires,
                         state |-> "live", ended |-> NotEnded])
    /\ UNCHANGED <<registry, plan, strategy, progress, k, results, skipped, quality, routeVars>>

\* Anyone with the connectivity layer may resolve a signal.
ResolvedByOthers(s) ==
    /\ progress = "handler"
    /\ raised' = [raised EXCEPT ![s].state = "resolved", ![s].ended = k]
    /\ UNCHANGED <<registry, plan, strategy, progress, k, results, skipped, quality, routeVars>>

Register(name) ==
    /\ progress = "handler"
    /\ name \notin registry
    /\ registry' = registry \cup {name}
    /\ UNCHANGED <<plan, strategy, progress, k, results, skipped, raised, quality, routeVars>>

Unregister(name) ==
    /\ progress = "handler"
    /\ name \in registry
    /\ registry' = registry \ {name}
    /\ UNCHANGED <<plan, strategy, progress, k, results, skipped, raised, quality, routeVars>>

-----------------------------------------------------------------------------
(* execute *)

\* validateDelegationPlan
Valid ==
    /\ plan # <<>>
    /\ Len(plan) <= MaxSteps
    /\ \A j \in DOMAIN plan : plan[j].name \in registry

\* Off to a step: it is looked up, the router is asked, its handler called.
BeginTurn(j, spent) ==
    IF plan[j].name \notin registry
    THEN progress' = "notFound" /\ UNCHANGED <<k, asked, decision>>
    ELSE /\ progress' = "handler"
         /\ k' = j
         /\ Answer(TurnId, [capability |-> plan[j].name, requested |-> None,
                            escalations |-> <<>>, maxLatency |-> 0], spent)

Execute ==
    /\ progress = "idle"
    /\ IF Valid THEN BeginTurn(1, costs[TurnId])
       ELSE progress' = "refused" /\ UNCHANGED <<k, asked, decision>>
    /\ UNCHANGED <<registry, plan, strategy, results, skipped, raised, quality, policy, costs>>

\* What resolveSignals and advanceStep make of the thread's signals.
Resolved(rs, log, step) ==
    [s \in DOMAIN log |->
        IF s \in rs THEN [log[s] EXCEPT !.state = "resolved", !.ended = step] ELSE log[s]]

Advanced(log) ==
    [s \in DOMAIN log |->
        IF log[s].state = "live" /\ log[s].expires <= k
        THEN [log[s] EXCEPT !.state = "expired", !.ended = k] ELSE log[s]]

\* What is resolved when the plan is done: everything live but the conflicts, of the
\* oldest signals that have not expired.
Resolvable(log) ==
    {s \in DOMAIN log :
        /\ log[s].state = "live"
        /\ log[s].class # "conflict.active"
        /\ Cardinality({r \in 1..s - 1 : log[r].state # "expired"}) < SweepLimit}

\* The conflicts that count, of the oldest signals.
Unresolved(log) ==
    {s \in DOMAIN log : /\ s <= SweepLimit
                        /\ log[s].class = "conflict.active"
                        /\ log[s].state # "superseded"}

\* What a synthesizer may make of the results.  A custom one may do as it likes.
Synthesized(all) ==
    LET usable == {j \in DOMAIN all : all[j] # "failed"}
        whole == Cardinality(usable) = Len(plan) /\ \A j \in usable : all[j] = "complete"
    IN  IF strategy = "custom" THEN {"complete", "degraded"}
        ELSE {IF whole THEN "complete" ELSE "degraded"}

\* The quality of the answer: conflicts lower it.
Quality(given, log) == IF Unresolved(log) # {} THEN "degraded" ELSE given

Stop(end, all, log) ==
    /\ progress' = end
    /\ results' = all
    /\ raised' = log
    /\ UNCHANGED <<k, quality, asked, decision>>

\* The plan is done.  A custom synthesizer may throw, before anything is resolved.
Finish(all, log) ==
    \/ \E given \in Synthesized(all) :
          /\ progress' = "returned"
          /\ results' = all
          /\ raised' = Resolved(Resolvable(log), log, k + 1)
          /\ quality' = Quality(given, raised')
          /\ UNCHANGED <<k, asked, decision>>
    \/ strategy = "custom" /\ Stop("failed", all, log)

\* The step is over without a reason to stop.
GoOn(all, log) ==
    IF k < Len(plan)
    THEN /\ BeginTurn(k + 1, costs'[TurnId])
         /\ results' = all
         /\ raised' = Advanced(log)
         /\ UNCHANGED quality
    ELSE Finish(all, Advanced(log))

\* The specialist's own live signals.
Mine == {s \in Open : raised[s].source = CurrentStep.name}

\* A query lists the newest first, and those of one millisecond as they were raised.
\* The times are not kept but chosen when they matter: they never run backwards.
Clocks == {ms \in [Mine -> 1..Len(raised)] : \A s, t \in Mine : s < t => ms[s] <= ms[t]}
Ahead(ms, s, t) == ms[s] > ms[t] \/ (ms[s] = ms[t] /\ s < t)

\* Mutant: the step is advanced before its signals are looked at.
LiveOfAdvanced(class, ms) ==
    {s \in Mine : /\ raised[s].class = class
                  /\ raised[s].expires > k
                  /\ Cardinality({t \in Mine : Ahead(ms, t, s)}) < QueryLimit}

\* Those of a class among as many of them as the query lists.
LiveOf(class, ms) ==
    {s \in Mine : /\ raised[s].class = class
                  /\ Cardinality({t \in Mine : Ahead(ms, t, s)}) < QueryLimit}

\* The one that find finds.
Foremost(S, ms) == {s \in S : \A t \in S \ {s} : Ahead(ms, s, t)}

\* What follows the handler: the first blocker is resolved and ends the turn or the
\* step; only when there is none is there a look at interrupts.
Look(all, skips) ==
    \E ms \in Clocks :
        LET blockers == LiveOf("confidence.blocker", ms)
            interrupts == LiveOf("escalation.interrupt", ms)
        IN  \/ /\ CurrentStep.optional
               /\ \E s \in Foremost(blockers, ms) : GoOn(all, Resolved({s}, raised, k))
               /\ skipped' = Append(skips, k)
           \/ /\ ~CurrentStep.optional
               /\ \E s \in Foremost(blockers, ms) : Stop("blocked", all, Resolved({s}, raised, k))
               /\ skipped' = skips
           \/ /\ blockers = {}
               /\ \E s \in Foremost(interrupts, ms) :
                     Stop("blocked", all, Resolved({s}, raised, k))
               /\ skipped' = skips
           \/ /\ blockers = {} /\ interrupts = {}
               /\ GoOn(all, raised)
               /\ skipped' = skips

\* A result may itself say that it failed; the step is not skipped for that.
SpecialistReturns(result) ==
    /\ progress = "handler"
    /\ costs' = WithCost(TurnId, result.cost)
    /\ Look(Append(results, result.status), skipped)
    /\ UNCHANGED <<registry, plan, strategy, policy>>

\* A handler that throws, or answers what normalizeSpecialistResult refuses.
SpecialistThrows ==
    /\ progress = "handler"
    /\ UNCHANGED costs
    /\ IF CurrentStep.optional THEN Look(Append(results, "failed"), Append(skipped, k))
       ELSE Stop("failed", Append(results, "failed"), raised) /\ UNCHANGED skipped
    /\ UNCHANGED <<registry, plan, strategy, policy>>

-----------------------------------------------------------------------------
(* Specification *)

CoordNext ==
    \/ Execute
    \/ \E result \in Outcomes : SpecialistReturns(result)
    \/ SpecialistThrows
    \/ \E name \in Specialists :
            \/ Register(name) \/ Unregister(name)
            \/ \E class \in Classes, expires \in {k, NotEnded} :
                    \/ Raise(name, class, expires, {})
                    \/ \E s \in Open : Raise(name, class, expires, {s})
    \/ \E s \in Open : ResolvedByOthers(s)

CoordSpec == CoordInit /\ RouteInit /\ [][CoordNext]_<<coordVars, routeVars>>

-----------------------------------------------------------------------------
(* Properties *)

Alarms == {s \in DOMAIN raised :
              raised[s].class \in {"confidence.blocker", "escalation.interrupt"}}

\* Somebody took the signal back, or had it resolved, before step j was over.
SettledBy(s, j) ==
    \/ raised[s].ended < j
    \/ raised[s].ended = j /\ raised[s].state \in {"superseded", "resolved"}

\* As many signals of the specialist, by the end of a step, as hide one from a query.
Crowded(name, j) ==
    Cardinality({s \in DOMAIN raised : raised[s].source = name /\ raised[s].born <= j}) > QueryLimit

\* An answer is earned: when execute returns one, no alarm of a specialist, raised in
\* a required step of this specialist or before it, outlived the step, unless the
\* specialist has raised more than a query lists; of the oldest signals all but
\* conflicts have ended; the package's own synthesis calls it complete only if each
\* step has a complete result, and no synthesis does with an unresolved conflict among
\* the oldest signals; and every step that was skipped was optional (execute's looks
\* behind each handler, the synthesis and the sweep at the end).  Of other alarms it
\* says nothing: those raised after the specialist's last step, or in an optional step
\* together with a blocker, halt no turn, against packages/coordination/README.md:152.
AnswerIsEarned ==
    progress = "returned" =>
        /\ \A s \in Alarms, j \in DOMAIN plan :
              /\ ~plan[j].optional
              /\ plan[j].name = raised[s].source
              /\ raised[s].born <= j
              => SettledBy(s, j) \/ Crowded(plan[j].name, j)
        /\ \A s \in Open : raised[s].class = "conflict.active" \/ s > SweepLimit
        /\ Len(results) = Len(plan)
        /\ quality = "complete" =>
              /\ strategy # "custom" => \A j \in DOMAIN plan : results[j] = "complete"
              /\ \A s \in DOMAIN raised :
                    raised[s].class = "conflict.active" =>
                        raised[s].state \in {"superseded", "resolved"} \/ s > SweepLimit
        /\ \A j \in ToSet(skipped) : plan[j].optional

================================================================================
