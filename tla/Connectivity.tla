----------------------------- MODULE Connectivity -----------------------------
(***************************************************************************)
(* The connectivity layer, for one thread: signals are emitted, suppress   *)
(* their duplicates, replace one another, are resolved, and expire as the  *)
(* thread advances (suppression by step).                                  *)
(*                                                                         *)
(* Everything is synchronous, but emit, resolve and advanceStep call       *)
(* subscribers and hooks in the middle of their work, and those may call   *)
(* the layer again.  The calls under way form a stack; code outside the    *)
(* layer runs when the stack is empty or its top is in a callback.  A      *)
(* callback that throws returns like any other.  A call that is refused,   *)
(* suppressed or finds nothing to do changes nothing and is left out.      *)
(***************************************************************************)
EXTENDS Naturals, Sequences, FiniteSets, FiniteSetsExt, SequencesExt

CONSTANTS
    Keys,         \* thread, source, signal class and audience of a signal
    Subscribers,  \* the callbacks that may be registered
    MaxSignals,   \* bound on the signals emitted
    MaxStep,      \* bound on the thread's steps
    MaxDepth      \* bound on the calls nested in one another

ASSUME SignalConstants ==
    /\ MaxSignals \in Nat
    /\ MaxStep \in Nat
    /\ MaxDepth \in Nat \ {0}
    /\ IsFiniteSet(Subscribers)
    /\ Subscribers \cap {"nothing", "layer", "hooks"} = {}

VARIABLES
    signal,     \* signalsById, in the order in which the signals were stored
    listed,     \* signalsByThread: which of them the thread's list holds
    step,       \* stepsByThread
    callbacks,  \* the registered callbacks in their order
    stack,      \* the calls of the layer under way, the innermost first
    steady,     \* history: subscribers registered all the time
    heard,      \* history: the events each of these was told of
    silent      \* history: signals whose emit failed in the audience resolver

signalVars == <<signal, listed, step, callbacks, stack, heard, steady, silent>>

TerminalStates == {"superseded", "resolved", "expired"}
Never == MaxStep + 1

\* An insistent signal is critical, or an escalation with a summary of its own.
\* To bound the inputs, these and only these have no step at which to expire.
Inputs ==
    [key : Keys, insistent : {FALSE}, expires : 1..MaxStep]
        \cup [key : Keys, insistent : {TRUE}, expires : {Never}]
NoInput == [key |-> "none"]

\* What a call tells its callbacks; "hooks" stands for the audience resolver and
\* the escalation hook.
EventOf == [replacing |-> "superseded", announcing |-> "emitted",
            resolving |-> "resolved", expiring |-> "expired"]
Doings == DOMAIN EventOf \cup {"hooks"}

SignalInit ==
    /\ signal = <<>>
    /\ listed = {}
    /\ step = 0
    /\ callbacks \in {<<>>, SetToSeq(Subscribers)}
    /\ stack = <<>>
    /\ heard = [c \in Subscribers |-> {}]
    /\ steady = ToSet(callbacks)
    /\ silent = {}

-----------------------------------------------------------------------------
(* Helpers *)

Stored == DOMAIN signal
Live(s) == signal[s].state \notin TerminalStates
Become(s, state) == signal' = [signal EXCEPT ![s].state = state]

Top == Head(stack)

\* A call at a point where it runs outside code, with what it needs afterwards:
\* the input to store, the part of the list it holds, and the step it read.
Frame(doing, about, input, rest, at) ==
    [doing |-> doing, about |-> about, input |-> input, rest |-> rest, at |-> at,
     told |-> {}, inside |-> IF doing = "hooks" THEN "hooks" ELSE "layer"]
Push(frame) == stack' = <<frame>> \o stack
Replace(frame) == stack' = <<frame>> \o Tail(stack)
Pop == stack' = Tail(stack)

Inside == IF stack = <<>> THEN "nothing" ELSE Top.inside
Outside == Inside # "layer"
MayCall == Outside /\ Len(stack) < MaxDepth

\* Emits that have yet to store their signal.
Replacing == {d \in DOMAIN stack : stack[d].doing = "replacing"}

\* Mutant: a suppressed signal is one of an earlier step.
StepsBefore(s) == signal[s].born < step

SameStep(s) == signal[s].born = step

\* shouldSuppress: a live signal of the list stands for the input.
Suppressed(i) ==
    /\ ~i.insistent
    /\ \E s \in listed : Live(s) /\ signal[s].key = i.key /\ SameStep(s)

NextList(list, s) == list \cup {s}

\* Mutant: signals expire one step late.
ExpiringLate(list, at) == {s \in list : signal[s].expires < at /\ Live(s)}

Expiring(list, at) == {s \in list : signal[s].expires <= at /\ Live(s)}

-----------------------------------------------------------------------------
(* Calls *)

\* The signal is stored under the list and the step read when emit was entered.
Store(i, list, at, below) ==
    LET s == Len(signal) + 1
    IN  /\ signal' = Append(signal,
                        [key |-> i.key, insistent |-> i.insistent, expires |-> i.expires,
                         born |-> at, stored |-> step, state |-> "emitted"])
        /\ listed' = NextList(list, s)
        /\ stack' = <<Frame("hooks", s, NoInput, {}, at)>> \o below

Emit(i) ==
    /\ MayCall
    /\ Len(signal) + Cardinality(Replacing) < MaxSignals
    /\ ~Suppressed(i)
    /\ Store(i, listed, step, stack)
    /\ UNCHANGED <<step, callbacks, heard, steady, silent>>

\* With `replaces`: the callbacks hear of the replaced signal first.
EmitReplacing(i, s) ==
    /\ MayCall
    /\ Len(signal) + Cardinality(Replacing) < MaxSignals
    /\ ~Suppressed(i)
    /\ Live(s)
    /\ Become(s, "superseded")
    /\ Push(Frame("replacing", s, i, listed, step))
    /\ UNCHANGED <<listed, step, callbacks, heard, steady, silent>>

\* Mutant: the callbacks are not told.
ResolveSilently(s) ==
    /\ MayCall
    /\ Live(s)
    /\ Become(s, "resolved")
    /\ UNCHANGED <<listed, step, callbacks, stack, heard, steady, silent>>

ResolveSignal(s) ==
    /\ MayCall
    /\ Live(s)
    /\ Become(s, "resolved")
    /\ Push(Frame("resolving", s, NoInput, {}, step))
    /\ UNCHANGED <<listed, step, callbacks, heard, steady, silent>>

\* The first of the list to expire, and what is left of the list behind it.
ExpireFirst(list, at, below) ==
    IF Expiring(list, at) = {}
    THEN stack' = below /\ UNCHANGED signal
    ELSE LET s == Min(Expiring(list, at))
         IN  /\ Become(s, "expired")
             /\ stack' = <<Frame("expiring", s, NoInput, {t \in list : t > s}, at)>> \o below

AdvanceStep ==
    /\ MayCall
    /\ step < MaxStep
    /\ step' = step + 1
    /\ ExpireFirst(listed, step + 1, stack)
    /\ UNCHANGED <<listed, callbacks, heard, steady, silent>>

OnSignal(c) ==
    /\ Outside
    /\ c \notin ToSet(callbacks)
    /\ callbacks' = Append(callbacks, c)
    /\ UNCHANGED <<signal, listed, step, stack, heard, steady, silent>>

\* A callback that is removed and registered again is visited again.
OffSignal(c) ==
    /\ Outside
    /\ c \in ToSet(callbacks)
    /\ \E i \in DOMAIN callbacks : callbacks[i] = c /\ callbacks' = RemoveAt(callbacks, i)
    /\ stack' = [d \in DOMAIN stack |-> [stack[d] EXCEPT !.told = @ \ {c}]]
    /\ steady' = steady \ {c}
    /\ heard' = [heard EXCEPT ![c] = {}]
    /\ UNCHANGED <<signal, listed, step, silent>>

-----------------------------------------------------------------------------
(* The inside of a call: fireCallbacks and what follows it *)

\* The places of the callbacks that were not told.
Untold == {i \in DOMAIN callbacks : callbacks[i] \notin Top.told}

CallNext ==
    /\ Inside = "layer"
    /\ Untold # {}
    /\ LET c == callbacks[Min(Untold)]
       IN  /\ Replace([Top EXCEPT !.told = @ \cup {c}, !.inside = c])
           /\ heard' = IF c \in steady
                       THEN [heard EXCEPT ![c] = @ \cup {<<Top.about, EventOf[Top.doing]>>}]
                       ELSE heard
    /\ UNCHANGED <<signal, listed, step, callbacks, steady, silent>>

\* A callback returns; after the hooks the new signal is announced.
OutsideReturns ==
    /\ Inside \notin {"nothing", "layer"}
    /\ Replace(IF Top.doing = "hooks"
               THEN Frame("announcing", Top.about, NoInput, {}, Top.at)
               ELSE [Top EXCEPT !.inside = "layer"])
    /\ UNCHANGED <<signal, listed, step, callbacks, heard, steady, silent>>

\* Nothing catches what the resolver of a narrowcast throws: emit fails, with the
\* signal stored and nobody told.
ResolverThrows ==
    /\ Inside = "hooks"
    /\ silent' = silent \cup {Top.about}
    /\ Pop
    /\ UNCHANGED <<signal, listed, step, callbacks, heard, steady>>

\* Mutant: an announced signal is promoted whatever has become of it.
PromotableAlways(s) == callbacks # <<>>

Promotable(s) == callbacks # <<>> /\ signal[s].state = "emitted"

\* Every callback was told: the call goes on behind fireCallbacks.
Proceed ==
    /\ Inside = "layer"
    /\ Untold = {}
    /\ \/ /\ Top.doing = "replacing"
          /\ Store(Top.input, Top.rest, Top.at, Tail(stack))
       \/ /\ Top.doing = "announcing"
          /\ IF Promotable(Top.about) THEN Become(Top.about, "active") ELSE UNCHANGED signal
          /\ Pop
          /\ UNCHANGED listed
       \/ /\ Top.doing = "resolving"
          /\ Pop
          /\ UNCHANGED <<signal, listed>>
       \/ /\ Top.doing = "expiring"
          /\ ExpireFirst(Top.rest, Top.at, Tail(stack))
          /\ UNCHANGED listed
    /\ UNCHANGED <<step, callbacks, heard, steady, silent>>

-----------------------------------------------------------------------------
(* Specification *)

SignalNext ==
    \/ \E i \in Inputs : Emit(i) \/ \E s \in Stored : EmitReplacing(i, s)
    \/ \E s \in Stored : ResolveSignal(s)
    \/ AdvanceStep
    \/ \E c \in Subscribers : OnSignal(c) \/ OffSignal(c)
    \/ CallNext \/ OutsideReturns \/ ResolverThrows \/ Proceed

SignalSpec == SignalInit /\ [][SignalNext]_signalVars

-----------------------------------------------------------------------------
(* Properties *)

\* The type invariant.
SignalTypeOK ==
    /\ signal \in Seq([key : Keys, insistent : BOOLEAN, expires : 1..Never,
                       born : 0..MaxStep, stored : 0..MaxStep,
                       state : {"emitted", "active"} \cup TerminalStates])
    /\ Len(signal) <= MaxSignals
    /\ listed \subseteq Stored
    /\ step \in 0..MaxStep
    /\ IsInjective(callbacks) /\ ToSet(callbacks) \subseteq Subscribers
    /\ Len(stack) <= MaxDepth
    /\ \A d \in DOMAIN stack :
          /\ stack[d] \in [doing : Doings, about : Stored, input : Inputs \cup {NoInput},
                           rest : SUBSET Stored, at : 0..MaxStep,
                           told : SUBSET Subscribers,
                           inside : Subscribers \cup {"layer", "hooks"}]
          /\ stack[d].doing = "replacing" <=> stack[d].input # NoInput
    /\ steady \subseteq ToSet(callbacks)
    /\ silent \subseteq Stored

\* Between the outermost calls, a subscriber that was always registered has been
\* told of every signal whose emit succeeded, of every end of one, and of nothing
\* else, however the calls were nested (fireCallbacks at each change of state).
EveryoneHears ==
    /\ SignalTypeOK
    /\ stack = <<>> =>
        \A c \in steady :
            heard[c] = {<<s, "emitted">> : s \in Stored \ silent}
                       \cup {<<s, signal[s].state>> : s \in {t \in Stored : ~Live(t)}}

\* Between the outermost calls, no signal of the list has outlived its step, even
\* if steps were advanced inside callbacks of other advances or emits
\* (advanceStep expires what is due).
ExpiresOnTime ==
    stack = <<>> =>
        \A s \in listed : Live(s) /\ signal[s].stored < step => signal[s].expires > step

\* At any time, two live signals of the list with one key and one step are there
\* because the later one insisted, also when emits were nested (shouldSuppress
\* runs before the callbacks of emit, the list is written after them).
NoLiveDuplicates ==
    \A s, t \in listed :
        s < t /\ Live(s) /\ Live(t) /\ signal[s].key = signal[t].key
              /\ signal[s].born = signal[t].born => signal[t].insistent

\* A signal that was superseded, resolved or expired stays so, whatever the
\* callbacks of calls under way call in turn (the state checks of emit, resolve
\* and advanceStep).
EndedStaysEnded ==
    [][\A s \in Stored : ~Live(s) => signal'[s].state = signal[s].state]_signalVars

\* The signal log retains all signals, emit by emit (what emit writes to
\* signalsByThread).
LogRetainsAll == stack = <<>> => listed = Stored
===============================================================================
