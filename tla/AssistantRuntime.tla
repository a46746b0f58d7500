--------------------------- MODULE AssistantRuntime ---------------------------
(***************************************************************************)
(* createAssistant: the dispatch queue, the handler slots and the          *)
(* start/stop lifecycle of one assistant.                                  *)
(*                                                                         *)
(* The runtime is single-threaded; an action is the code from one await to *)
(* the next.  The onMessage hook has no timeout, a handler has one, and    *)
(* the body of a handler that timed out keeps running: only its slot is    *)
(* freed.  A timer counts down to zero, and time does not pass a timer     *)
(* that is due.  A second stop() returns at once and changes nothing, so   *)
(* the calls of stop() are one.                                            *)
(***************************************************************************)
EXTENDS Naturals, Sequences, FiniteSets, SequencesExt

CONSTANTS
    MaxMessages,      \* bound on the messages dispatched
    MaxConcurrent,    \* constraints.maxConcurrentHandlers
    HandlerTimeout,   \* constraints.handlerTimeoutMs
    DrainMargin,      \* DRAIN_MARGIN_MS
    ErrorHookThrows   \* the product's onError may itself throw

ASSUME ConstantsAssumption ==
    /\ MaxMessages \in Nat
    /\ MaxConcurrent \in Nat \ {0}
    /\ HandlerTimeout \in Nat \ {0}
    /\ DrainMargin \in Nat \ {0}
    /\ ErrorHookThrows \in BOOLEAN

VARIABLES
    lifecycle,  \* lifecycleState
    stop,       \* where stop() is
    queue,      \* pendingDispatches
    inFlight,   \* inFlightCount
    phase,      \* what executeDispatch is doing for each message
    settled,    \* how dispatch()'s promise was settled
    bodies,     \* handlers whose body is still running
    timeLeft,   \* until each handler times out
    drainLeft   \* until waitForDrain gives up

slots == <<queue, inFlight, phase, settled>>
timers == <<timeLeft, drainLeft>>
vars == <<lifecycle, stop, queue, inFlight, phase, settled, bodies,
          timeLeft, drainLeft>>

\* Messages are numbered in the order in which dispatch takes them.
Messages == 1..MaxMessages

Phases == {"idle", "queued", "hook", "handler", "done"}
Outcomes == {"none", "resolved", "rejected"}
StopStates == {"none", "draining", "drained", "onStop", "returned", "failed"}

Executing == {m \in Messages : phase[m] \in {"hook", "handler"}}

Init ==
    /\ lifecycle = "created"
    /\ stop = "none"
    /\ queue = <<>>
    /\ inFlight = 0
    /\ phase = [m \in Messages |-> "idle"]
    /\ settled = [m \in Messages |-> "none"]
    /\ bodies = {}
    /\ timeLeft = [m \in Messages |-> 0]
    /\ drainLeft = 0

-----------------------------------------------------------------------------
(* Dispatching *)

\* How many of the messages of q runNext takes when k slots are in use.
Takes(q, k) ==
    IF lifecycle = "started" /\ k < MaxConcurrent
      THEN IF Len(q) < MaxConcurrent - k THEN Len(q) ELSE MaxConcurrent - k
      ELSE 0

\* Mutant: pop() for shift().
RunNextPops(q, k, phases) ==
    LET n == Takes(q, k)
        taken == ToSet(SubSeq(q, Len(q) - n + 1, Len(q)))
    IN  /\ queue' = SubSeq(q, 1, Len(q) - n)
        /\ inFlight' = k + n
        /\ phase' = [m \in Messages |-> IF m \in taken THEN "hook" ELSE phases[m]]

\* runNext: the first messages of q get a slot and enter the onMessage hook.
RunNext(q, k, phases) ==
    LET n == Takes(q, k)
        taken == ToSet(SubSeq(q, 1, n))
    IN  /\ queue' = SubSeq(q, n + 1, Len(q))
        /\ inFlight' = k + n
        /\ phase' = [m \in Messages |-> IF m \in taken THEN "hook" ELSE phases[m]]

Dispatch(m) ==
    /\ lifecycle = "started"
    /\ phase[m] = "idle"
    /\ \A earlier \in 1..(m - 1) : phase[earlier] # "idle"
    /\ RunNext(Append(queue, m), inFlight, [phase EXCEPT ![m] = "queued"])
    /\ UNCHANGED <<lifecycle, stop, settled, bodies, timers>>

\* maybeResolveDrainWaiter and waitForDrain: k slots in use let stop() go on.
Drained(k) == k = 0

\* Mutant: the finally block forgets runNext.
SettleOnly(m, how) ==
    /\ settled' = [settled EXCEPT ![m] = how]
    /\ phase' = [phase EXCEPT ![m] = "done"]
    /\ inFlight' = inFlight - 1
    /\ stop' = IF stop = "draining" /\ Drained(inFlight - 1) THEN "drained" ELSE stop
    /\ UNCHANGED <<lifecycle, queue, timers>>

\* The end of executeDispatch with its finally block: the slot is given back,
\* a waiting stop() is released and the next messages are taken.
Settle(m, how) ==
    /\ settled' = [settled EXCEPT ![m] = how]
    /\ RunNext(queue, inFlight - 1, [phase EXCEPT ![m] = "done"])
    /\ stop' = IF stop = "draining" /\ Drained(inFlight - 1) THEN "drained" ELSE stop
    /\ UNCHANGED <<lifecycle, timers>>

\* An error of the handler is reported and the promise resolved.  An onError
\* that throws sends it to the outer catch, which reports again and rejects,
\* or, if onError throws there too, settles nothing.
AfterHandlerError ==
    IF ErrorHookThrows THEN {"resolved", "rejected", "none"} ELSE {"resolved"}

AfterHookError == IF ErrorHookThrows THEN {"rejected", "none"} ELSE {"rejected"}

HookPasses(m) ==
    /\ phase[m] = "hook"
    /\ phase' = [phase EXCEPT ![m] = "handler"]
    /\ bodies' = bodies \cup {m}
    /\ timeLeft' = [timeLeft EXCEPT ![m] = HandlerTimeout]
    /\ UNCHANGED <<lifecycle, stop, queue, inFlight, settled, drainLeft>>

\* The hook returned false.
HookDrops(m) ==
    /\ phase[m] = "hook"
    /\ Settle(m, "resolved")
    /\ UNCHANGED bodies

HookThrows(m) ==
    /\ phase[m] = "hook"
    /\ \E how \in AfterHookError : Settle(m, how)
    /\ UNCHANGED bodies

\* The hook passed and no capability of that name is registered.
NoCapability(m) ==
    /\ phase[m] = "hook"
    /\ \E how \in AfterHandlerError : Settle(m, how)
    /\ UNCHANGED bodies

HandlerReturns(m) ==
    /\ phase[m] = "handler" /\ m \in bodies
    /\ bodies' = bodies \ {m}
    /\ Settle(m, "resolved")

HandlerThrows(m) ==
    /\ phase[m] = "handler" /\ m \in bodies
    /\ bodies' = bodies \ {m}
    /\ \E how \in AfterHandlerError : Settle(m, how)

HandlerTimesOut(m) ==
    /\ phase[m] = "handler"
    /\ timeLeft[m] = 0
    /\ \E how \in AfterHandlerError : Settle(m, how)
    /\ UNCHANGED bodies

\* The body of a handler that timed out comes to its end; nobody is waiting.
AbandonedEnds(m) ==
    /\ phase[m] = "done" /\ m \in bodies
    /\ bodies' = bodies \ {m}
    /\ UNCHANGED <<lifecycle, stop, slots, timers>>

-----------------------------------------------------------------------------
(* Lifecycle *)

DrainTimeout == HandlerTimeout + DrainMargin

\* The runtime is started before onStart has run, and stays started whether
\* that hook returns, throws or hangs: nothing else waits for it.
Start ==
    /\ lifecycle = "created"
    /\ lifecycle' = "started"
    /\ UNCHANGED <<stop, slots, bodies, timers>>

StopNeverStarted ==
    /\ lifecycle = "created"
    /\ lifecycle' = "stopped"
    /\ stop' = "returned"
    /\ UNCHANGED <<slots, bodies, timers>>

Stop ==
    /\ lifecycle = "started"
    /\ lifecycle' = "stopped"
    /\ stop' = IF Drained(inFlight) THEN "drained" ELSE "draining"
    /\ drainLeft' = DrainTimeout
    /\ UNCHANGED <<slots, bodies, timeLeft>>

StopRunsHook ==
    /\ stop = "drained"
    /\ stop' = "onStop"
    /\ UNCHANGED <<lifecycle, slots, bodies, timers>>

OnStopEnds ==
    /\ stop = "onStop"
    /\ stop' \in {"returned", "failed"}
    /\ UNCHANGED <<lifecycle, slots, bodies, timers>>

\* waitForDrain rejects: stop() fails and onStop is never called.
DrainTimesOut ==
    /\ stop = "draining"
    /\ drainLeft = 0
    /\ stop' = "failed"
    /\ UNCHANGED <<lifecycle, slots, bodies, timers>>

\* Mutant: the timer is cleared as soon as it is set.
NoHandlerTimer(m) == FALSE

HandlerTimer(m) == phase[m] = "handler"

\* Mutant: the drain is awaited without a timer.
NoDrainTimer == FALSE

DrainTimer == stop = "draining"

\* A timer that is due fires before time goes on; without timers it is idle.
Tick ==
    /\ DrainTimer \/ \E m \in Messages : HandlerTimer(m)
    /\ \A m \in Messages : HandlerTimer(m) => timeLeft[m] > 0
    /\ DrainTimer => drainLeft > 0
    /\ timeLeft' = [m \in Messages |-> IF HandlerTimer(m) THEN timeLeft[m] - 1
                                                         ELSE timeLeft[m]]
    /\ drainLeft' = IF DrainTimer THEN drainLeft - 1 ELSE drainLeft
    /\ UNCHANGED <<lifecycle, stop, slots, bodies>>

HookEnds(m) == HookPasses(m) \/ HookDrops(m) \/ HookThrows(m) \/ NoCapability(m)

HandlerEnds(m) == HandlerReturns(m) \/ HandlerThrows(m)

Next ==
    \/ Start \/ StopNeverStarted \/ Stop \/ StopRunsHook \/ OnStopEnds
    \/ DrainTimesOut \/ Tick
    \/ \E m \in Messages :
          Dispatch(m) \/ HookEnds(m) \/ HandlerEnds(m) \/ HandlerTimesOut(m)
             \/ AbandonedEnds(m)

Spec == Init /\ [][Next]_vars

\* Time passes and due timers fire.  Hooks and handlers are the product's: they
\* may hang for ever.
Fairness ==
    /\ WF_vars(Tick)
    /\ WF_vars(StopRunsHook)
    /\ WF_vars(DrainTimesOut)
    /\ \A m \in Messages : WF_vars(HandlerTimesOut(m))

FairSpec == Spec /\ Fairness

-----------------------------------------------------------------------------
(* Properties *)

TypeOK ==
    /\ lifecycle \in {"created", "started", "stopped"}
    /\ stop \in StopStates
    /\ queue \in Seq(Messages)
    /\ inFlight \in Nat
    /\ phase \in [Messages -> Phases]
    /\ settled \in [Messages -> Outcomes]
    /\ bodies \subseteq Messages
    /\ timeLeft \in [Messages -> 0..HandlerTimeout]
    /\ drainLeft \in 0..(HandlerTimeout + DrainMargin)

\* No message waits in the queue of a started runtime while a slot is free: when
\* one does, as many dispatches are executing as there are slots, whichever way
\* the ones before them came to an end (the finally block of executeDispatch).
\* Once onStop is reached no dispatch holds a slot and none gets one again.
NoIdleSlot ==
    /\ TypeOK
    /\ lifecycle = "started" /\ queue # <<>> => Cardinality(Executing) = MaxConcurrent
    /\ stop \in {"onStop", "returned"} => Executing = {}

\* Messages get their slots in the order dispatch took them.
FirstComeFirstServed ==
    \A m \in Messages : phase[m] = "queued" =>
        \A later \in (m + 1)..MaxMessages : phase[later] \in {"idle", "queued"}

\* A handler that hangs does not keep its slot, even if the error hook throws
\* when its timeout is reported.
SlotIsFreed == \A m \in Messages : phase[m] = "handler" ~> phase[m] = "done"

\* stop() gets past the drain, even if a hook never returns.
StopGetsPastDrain == lifecycle = "stopped" ~> stop \in {"onStop", "returned", "failed"}
===============================================================================
