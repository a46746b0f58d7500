-------------------------------- MODULE Routing --------------------------------
(***************************************************************************)
(* The router: from a policy, what a thread has spent and what the caller  *)
(* asks for, the mode a model is called in.  Costs are kept by thread.     *)
(* The model specs are reduced to the latencies decide looks at.           *)
(***************************************************************************)
EXTENDS Naturals, Sequences, SequencesExt

CONSTANTS
    Threads,
    Policies,  \* policies a router may be created with
    Contexts,  \* what decide may be called with, but for what was spent
    MaxCost    \* bound on what a thread spends

VARIABLES
    policy,    \* of the router, normalized
    costs,     \* costMap
    asked,     \* the context of the last decide
    decision   \* what it answered

routeVars == <<policy, costs, asked, decision>>

None == "none"
Modes == {"cheap", "fast", "deep"}
MODE_DEPTH == [cheap |-> 0, fast |-> 1, deep |-> 2]
PriorityDepth == [low |-> 0, normal |-> 1, high |-> 2, critical |-> 3]

\* What normalizePolicy makes of a policy, and what decide accepts.
ASSUME RoutingConstants ==
    /\ MaxCost \in Nat
    /\ \A p \in Policies :
        /\ p.defaultMode \in Modes /\ p.modeCeiling \in Modes
        /\ p.costLimit \in Nat
    /\ \A c \in Contexts :
        /\ c.requested \in Modes \cup {None}
        /\ c.escalations \in Seq(ToSet(c.escalations))
        /\ \A e \in ToSet(c.escalations) : e.priority \in DOMAIN PriorityDepth
    /\ \A p \in Policies, c \in Contexts :
        /\ p.capabilityModes[c.capability] \in Modes \cup {None}
        /\ \A e \in ToSet(c.escalations) :
              p.escalationModeMap[e.signalClass] \in Modes \cup {None}

Deeper(m, n) == MODE_DEPTH[m] > MODE_DEPTH[n]
Undecided == [mode |-> None, reason |-> None, escalated |-> FALSE]
NotAsked == [thread |-> None]

RouteInit ==
    /\ policy \in Policies
    /\ costs = [t \in Threads |-> 0]
    /\ asked = NotAsked
    /\ decision = Undecided

-----------------------------------------------------------------------------

\* Mutant: a deeper mode wins over a more urgent signal.
OutvotesDeepFirst(mode, e, best) ==
    \/ best.mode = None
    \/ Deeper(mode, best.mode)
    \/ mode = best.mode /\ PriorityDepth[e.priority] > best.urgency

\* Whether an escalation's mode replaces the one selected so far.
Outvotes(mode, e, best) ==
    \/ best.mode = None
    \/ PriorityDepth[e.priority] > best.urgency
    \/ PriorityDepth[e.priority] = best.urgency /\ Deeper(mode, best.mode)

Unheard == [mode |-> None, urgency |-> 0]

\* An escalation is heard after others.
Hear(p, e, best) ==
    LET mode == p.escalationModeMap[e.signalClass]
    IN  IF mode # None /\ Outvotes(mode, e, best)
        THEN [mode |-> mode, urgency |-> PriorityDepth[e.priority]] ELSE best

PickEscalationMode(p, escalations) ==
    LET best[n \in 0..Len(escalations)] ==
            IF n = 0 THEN Unheard ELSE Hear(p, escalations[n], best[n - 1])
    IN  best[Len(escalations)].mode

\* A latency of 0 is one nobody vouches for.
CanMeetLatency(spec, requested) == spec > 0 /\ spec <= requested

PickLatencyMode(p, requested) ==
    IF requested = 0 \/ CanMeetLatency(p.latency.deep, requested) THEN None
    ELSE IF CanMeetLatency(p.latency.fast, requested) THEN "fast" ELSE "cheap"

\* What is wanted, in the order of precedence; the first that wants a mode is it.
Wishes(p, c, spent) ==
    <<[mode |-> c.requested, reason |-> "caller_requested"],
      [mode |-> p.capabilityModes[c.capability], reason |-> "capability_override"],
      [mode |-> IF p.costLimit > 0 /\ spent > p.costLimit THEN "cheap" ELSE None,
       reason |-> "cost_envelope_exceeded"],
      [mode |-> PickEscalationMode(p, c.escalations), reason |-> "escalation_signal"],
      [mode |-> PickLatencyMode(p, c.maxLatency), reason |-> "latency_constraint"],
      [mode |-> p.defaultMode, reason |-> "policy_default"]>>

Candidate(p, c, spent) ==
    LET wishes == Wishes(p, c, spent)
        wish == wishes[CHOOSE i \in DOMAIN wishes :
                          wishes[i].mode # None /\ \A j \in 1..i - 1 : wishes[j].mode = None]
    IN  [mode |-> wish.mode, reason |-> wish.reason,
         escalated |-> wish.reason = "escalation_signal"]

Decide(p, c, spent) ==
    LET candidate == Candidate(p, c, spent)
    IN  IF Deeper(candidate.mode, p.modeCeiling)
        THEN [candidate EXCEPT !.mode = p.modeCeiling, !.reason = "hard_constraint"]
        ELSE candidate

-----------------------------------------------------------------------------

\* decide, for a thread that has spent so much
Answer(t, c, spent) ==
    /\ asked' = [thread |-> t, context |-> c, spent |-> spent]
    /\ decision' = Decide(policy, c, spent)

Ask(t, c) ==
    /\ Answer(t, c, costs[t])
    /\ UNCHANGED <<policy, costs>>

WithCost(t, cost) == [costs EXCEPT ![t] = @ + cost]

RecordCost(t, cost) ==
    /\ costs' = WithCost(t, cost)
    /\ UNCHANGED <<policy, asked, decision>>

ResetCost(t) ==
    /\ costs' = [costs EXCEPT ![t] = 0]
    /\ UNCHANGED <<policy, asked, decision>>

RouteNext ==
    \E t \in Threads :
        \/ asked = NotAsked /\ \E c \in Contexts : Ask(t, c)
        \/ asked = NotAsked /\ \E cost \in 1..(MaxCost - costs[t]) : RecordCost(t, cost)
        \/ ResetCost(t)

RouteSpec == RouteInit /\ [][RouteNext]_routeVars

-----------------------------------------------------------------------------

\* What the caller wants goes before the capability, the capability before the budget,
\* the budget before the escalations, and these before the latency and the default. Of
\* the escalations that map to a mode the most urgent are heard, and of these the one
\* that asks for the deepest mode, in whatever order they are listed. Whoever is heard,
\* the answer is cut down to the ceiling, and says so exactly when what was wanted is
\* deeper (decide, resolveDecisionCandidate, pickEscalationMode).
UrgencyWins ==
    decision # Undecided =>
        LET c == asked.context
            capable == policy.capabilityModes[c.capability]
            latency == PickLatencyMode(policy, c.maxLatency)
            overspent == policy.costLimit > 0 /\ asked.spent > policy.costLimit
            earlier == c.requested # None \/ capable # None \/ overspent
            mapped == {e \in ToSet(c.escalations) :
                          policy.escalationModeMap[e.signalClass] # None}
            urgent == {e \in mapped : \A f \in mapped :
                          PriorityDepth[f.priority] <= PriorityDepth[e.priority]}
            wanted == {policy.escalationModeMap[e.signalClass] : e \in urgent}
            Gives(m) ==
                /\ decision.mode = IF Deeper(m, policy.modeCeiling) THEN policy.modeCeiling ELSE m
                /\ decision.reason = "hard_constraint" <=> Deeper(m, policy.modeCeiling)
        IN  /\ c.requested # None => Gives(c.requested)
            /\ c.requested = None /\ capable # None => Gives(capable)
            /\ c.requested = None /\ capable = None /\ overspent => Gives("cheap")
            /\ decision.escalated <=> (~earlier /\ mapped # {})
            /\ decision.escalated =>
                  \E m \in wanted : (\A n \in wanted : ~Deeper(n, m)) /\ Gives(m)
            /\ ~earlier /\ mapped = {} =>
                  Gives(IF latency # None THEN latency ELSE policy.defaultMode)
================================================================================
