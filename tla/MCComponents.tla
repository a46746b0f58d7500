----------------------------- MODULE MCComponents -----------------------------
(* The components that are checked for safety: continuations, sessions,        *)
(* memories, follow-up reminders and clone requests, which write back to a     *)
(* store what they have read before an await; the guard that answers repeated  *)
(* tool calls; and the signals, the router and the coordinator of a turn.      *)
(* They are independent or include what they use, so each behaviour is one of  *)
(* a single part, while the others keep their first state.                     *)
EXTENDS Continuation, Sessions, MemoryStore, FollowUps, CloneRequests, CallGuard,
        Connectivity, Coordination

VARIABLE part

componentsVars ==
    <<part, vars, sessVars, memoryVars, followVars, cloneVars, guardVars, signalVars, coordVars,
      routeVars>>

-----------------------------------------------------------------------------
(* Instances *)

\* One session and one user, so that there is a scope to promote to.
SessionAndUser == {[kind |-> "session", id |-> 1], [kind |-> "user", id |-> 1]}

RoutingPolicies ==
    [defaultMode : {"fast"}, modeCeiling : {"fast", "deep"}, costLimit : 0..1,
     capabilityModes : [{"writer"} -> {None, "deep"}],
     escalationModeMap : [{"interrupt", "uncertainty"} -> Modes \cup {None}],
     latency : [deep : {0, 2}, fast : {1}]]

RoutingContexts ==
    [capability : {"writer"}, requested : {None, "deep"},
     escalations : UNION {[1..n -> [signalClass : {"interrupt", "uncertainty"},
                                    priority : {"normal", "high"}]] : n \in 0..2},
     maxLatency : 0..2]

\* Bounds on what a part's constants bound one by one.
MaxSignalsAndSteps == 3
MaxMemory == 4
MaxSignalsAndMissing == 2

SameCalls == CHOOSE f \in [ToolCalls -> GuardTurns \X ToolInputs] : TRUE

\* The critic is routed deep, until the cost limit is reached.
TurnPolicy ==
    [defaultMode |-> "fast", modeCeiling |-> "deep", costLimit |-> 1,
     capabilityModes |-> [s \in Specialists |-> IF s = "critic" THEN "deep" ELSE None],
     escalationModeMap |-> [c \in {"interrupt", "uncertainty"} |-> None],
     latency |-> [deep |-> 0, fast |-> 1]]

SomePolicies == RoutingPolicies \cup {TurnPolicy}

Required(s) == [name |-> s, optional |-> FALSE]
Optional(s) == [name |-> s, optional |-> TRUE]

\* Plans that are empty, too long, and of two steps of one or two specialists.
SomePlans == {
    <<>>, <<Required("critic"), Required("critic"), Required("critic")>>,
    <<Required("writer"), Required("writer")>>, <<Optional("writer"), Required("writer")>>,
    <<Required("writer"), Optional("critic")>>, <<Optional("critic"), Optional("writer")>>}

SomeOutcomes == {
    [status |-> "complete", cost |-> 1], [status |-> "partial", cost |-> 1],
    [status |-> "failed", cost |-> 0]}

-----------------------------------------------------------------------------
ComponentsInit ==
    /\ part \in {"continuation", "sessions", "memory", "followUps", "clone", "guard",
                 "signals", "routing", "turn"}
    /\ Init /\ MemoryInit /\ FollowInit /\ CloneInit
    /\ SessInit /\ (part # "sessions" => adapter = "memory")
    /\ GuardInit /\ (part # "guard" => asks = SameCalls)
    /\ SignalInit /\ (part # "signals" => callbacks = <<>>)
    /\ RouteInit /\ (part = "routing" <=> policy # TurnPolicy)
    /\ CoordInit /\ (part # "turn" => registry = {} /\ plan = <<>>)
    /\ strategy = "custom" => plan = <<Required("writer"), Optional("critic")>>

InContinuation == part = "continuation" /\ Next
InSessions == part = "sessions" /\ SessNext
\* Three entries and one fact, two and two, or one day and one of them fewer.
InMemory == part = "memory" /\ MemoryNext /\ entriesMade' + facts' + day' <= MaxMemory
\* The last instant, the third, is for histories of one rule, and nothing is said of
\* rules that are all crossed.
InFollowUps ==
    /\ part = "followUps" /\ FollowNext
    /\ crossed' # Rules
    /\ time' = LastInstant =>
        Cardinality(Range(rules') \cup crossed' \cup {r \in Rules : reminders'[r] # Unsent}) <= 1
InClone == part = "clone" /\ CloneNext
InGuard == part = "guard" /\ GuardNext
\* Three signals, two and one step, or one and two of them.
InSignals == part = "signals" /\ SignalNext /\ Len(signal') + step' <= MaxSignalsAndSteps
InRouting == part = "routing" /\ RouteNext
\* Two signals, or one and a specialist that is not registered.
InTurn ==
    /\ part = "turn" /\ CoordNext
    /\ Len(raised') + Cardinality(Specialists \ registry') <= MaxSignalsAndMissing

StoresKeep == UNCHANGED <<vars, sessVars, memoryVars, followVars, cloneVars>>
TurnsKeep == UNCHANGED <<guardVars, signalVars, coordVars, routeVars>>

ComponentsNext ==
    /\ UNCHANGED part
    /\ \/ InContinuation /\ UNCHANGED <<sessVars, memoryVars, followVars, cloneVars>> /\ TurnsKeep
       \/ InSessions /\ UNCHANGED <<vars, memoryVars, followVars, cloneVars>> /\ TurnsKeep
       \/ InMemory /\ UNCHANGED <<vars, sessVars, followVars, cloneVars>> /\ TurnsKeep
       \/ InFollowUps /\ UNCHANGED <<vars, sessVars, memoryVars, cloneVars>> /\ TurnsKeep
       \/ InClone /\ UNCHANGED <<vars, sessVars, memoryVars, followVars>> /\ TurnsKeep
       \/ InGuard /\ UNCHANGED <<signalVars, coordVars, routeVars>> /\ StoresKeep
       \/ InSignals /\ UNCHANGED <<guardVars, coordVars, routeVars>> /\ StoresKeep
       \/ InRouting /\ UNCHANGED <<guardVars, signalVars, coordVars>> /\ StoresKeep
       \/ InTurn /\ UNCHANGED <<guardVars, signalVars>> /\ StoresKeep

ComponentsSpec == ComponentsInit /\ [][ComponentsNext]_componentsVars
================================================================================
