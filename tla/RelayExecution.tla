--------------------------- MODULE RelayExecution ---------------------------
(***************************************************************************)
(* Turns executed by a worker at the other end of Agent Relay.             *)
(*                                                                         *)
(* Attempts to execute a turn share one relay adapter, which starts a      *)
(* broker process when it is first needed and shuts it down on request.    *)
(* Every use of the broker is a call that first awaits start(): a call     *)
(* waits for a shutdown in flight, shares a start in flight, and then uses *)
(* whatever client the adapter has when its turn comes.  An attempt awaits *)
(* start, sees to the worker, and then subscribes, arms its timer and      *)
(* publishes its request; the first of answer, time-out, abort and failed  *)
(* send settles it.  The call that publishes is not awaited: it may go on  *)
(* after the attempt has been settled.                                     *)
(*                                                                         *)
(* A worker runs the requests that reach it and publishes an answer each,  *)
(* over a relay of its own or over the same adapter.                       *)
(***************************************************************************)
EXTENDS Naturals, FiniteSets

CONSTANTS
    Attempts,   \* calls of execute
    Turns,      \* turns they execute: a retry has the turn of an earlier one
    Setups      \* configurations: whether a worker is spawned, whether an attempt
                \* closes the adapter, whether the worker shares it

ASSUME RelayConstants ==
    /\ IsFiniteSet(Attempts)
    /\ Setups \subseteq [spawns : BOOLEAN, closesAfter : BOOLEAN, sharesRelay : BOOLEAN]

VARIABLES
    setup,     \* how the adapters are configured
    turnOf,    \* the turn of each attempt
    client,    \* the adapter's broker, or NoBroker
    starting,  \* a start is in flight
    stopping,  \* the shutdown in flight: awaiting a start, or closing a broker
    closing,   \* the broker it closes
    alive,     \* broker processes
    wait,      \* what each call of the adapter waits for
    stage,     \* how far each attempt is
    result,    \* its outcome
    signalled,   \* attempts whose signal has fired
    work,      \* what became of each attempt's request
    refused    \* history: brokers that outlived a shutdown that rejected

relayVars == <<setup, turnOf, client, starting, stopping, closing, alive, wait, stage, result,
               signalled, work, refused>>

NoBroker == 0
Brokers == 1 .. (2 * Cardinality(Attempts) + 1)

\* The calls an attempt makes before it subscribes, to publish its request, and
\* its worker's to publish the answer.
AdapterCalls == Attempts \X {"setup", "send", "answer"}

RelayInit ==
    /\ setup \in Setups
    /\ turnOf \in [Attempts -> Turns]
    /\ client = NoBroker
    /\ starting = FALSE
    /\ stopping = "no"
    /\ closing = NoBroker
    /\ alive = {}
    /\ wait = [c \in AdapterCalls |-> "no"]
    /\ stage = [a \in Attempts |-> "idle"]
    /\ result = [a \in Attempts |-> "none"]
    /\ signalled = {}
    /\ work = [a \in Attempts |-> "none"]
    /\ refused = {}

-----------------------------------------------------------------------------
(* The adapter: start and shutdown *)

\* Mutant: start does not look for a shutdown in flight.
NeverWaits == FALSE

WaitsForShutdown == stopping # "no"

\* start() as far as its first await, for call c; the others wait as in w.
CallStartFrom(w, c) ==
    IF WaitsForShutdown
    THEN wait' = [w EXCEPT ![c] = "shutdown"] /\ UNCHANGED starting
    ELSE IF client # NoBroker
    THEN wait' = [w EXCEPT ![c] = "ready"] /\ UNCHANGED starting
    ELSE wait' = [w EXCEPT ![c] = "start"] /\ starting' = TRUE

CallStart(c) == CallStartFrom(wait, c)

\* Mutant: those who share a start that fails are not told.
TellOwnerOnly(outcome) ==
    wait' = [c \in AdapterCalls |->
                IF wait[c] = "start" /\ (outcome = "ready" \/ c[2] # "setup")
                THEN outcome ELSE wait[c]]

\* The start in flight has ended: all that share it go on.
TellStarters(outcome) ==
    wait' = [c \in AdapterCalls |-> IF wait[c] = "start" THEN outcome ELSE wait[c]]

BrokerStarts ==
    /\ starting
    /\ starting' = FALSE
    /\ \E b \in Brokers \ (alive \cup refused) :
        /\ \A other \in Brokers \ (alive \cup refused) : b <= other
        /\ client' = b
        /\ alive' = alive \cup {b}
    /\ TellStarters("ready")
    /\ UNCHANGED <<setup, turnOf, stopping, closing, stage, result,
                   signalled, work, refused>>

StartFails ==
    /\ starting
    /\ starting' = FALSE
    /\ TellStarters("failed")
    /\ UNCHANGED <<setup, turnOf, client, stopping, closing, alive, stage, result,
                   signalled, work, refused>>

\* doShutdown takes the client away and asks its broker to go.
BeginClose ==
    /\ stopping' = "closing"
    /\ closing' = client
    /\ client' = NoBroker

\* Whoever called shutdown goes on; of those waiting to start one starts a
\* broker and the others share it.
EndShutdown ==
    /\ stopping' = "no"
    /\ closing' = NoBroker
    /\ stage' = [a \in Attempts |-> IF stage[a] = "closing" THEN "done" ELSE stage[a]]
    /\ wait' = [c \in AdapterCalls |-> IF wait[c] = "shutdown" THEN "start" ELSE wait[c]]
    /\ starting' = (starting \/ \E c \in AdapterCalls : wait[c] = "shutdown")

\* The start a shutdown waited for has ended.
ShutdownGoesOn ==
    /\ stopping = "waiting"
    /\ ~ starting
    /\ IF client = NoBroker
       THEN EndShutdown /\ UNCHANGED client
       ELSE BeginClose /\ UNCHANGED <<stage, wait, starting>>
    /\ UNCHANGED <<setup, turnOf, alive, result, signalled, work, refused>>

\* It is gone, or has been killed when the time was up.
BrokerGoes ==
    /\ stopping = "closing"
    /\ EndShutdown
    /\ alive' = alive \ {closing}
    /\ UNCHANGED <<setup, turnOf, client, result, signalled, work, refused>>

\* client.shutdown rejects: that counts as done.
BrokerRefuses ==
    /\ stopping = "closing"
    /\ closing \in alive
    /\ EndShutdown
    /\ refused' = refused \cup {closing}
    /\ UNCHANGED <<setup, turnOf, client, alive, result, signalled, work>>

\* The process dies by itself; the adapter keeps its client.
BrokerDies ==
    /\ client \in alive
    /\ alive' = alive \ {client}
    /\ UNCHANGED <<setup, turnOf, client, starting, stopping, closing, wait, stage,
                   result, signalled, work, refused>>

AdapterUnchanged == UNCHANGED <<setup, turnOf, client, stopping, closing, alive, refused>>

-----------------------------------------------------------------------------
(* Attempts *)

Settled(a) == stage[a] \in {"finally", "closing", "done"}

\* The attempt's promise resolves with r; what is left is its finally block.
\* Its listeners and timer are those of an attempt at "open": they end here.
SettleWith(a, r) ==
    /\ result' = [result EXCEPT ![a] = r]
    /\ stage' = [stage EXCEPT ![a] = "finally"]

\* execute up to its first await.  Aborted already, it returns from outside
\* the try block.
Execute(a) ==
    /\ stage[a] = "idle"
    /\ IF a \in signalled
       THEN /\ stage' = [stage EXCEPT ![a] = "done"]
            /\ result' = [result EXCEPT ![a] = "cancelled early"]
            /\ UNCHANGED <<wait, starting>>
       ELSE /\ stage' = [stage EXCEPT ![a] = "starting"]
            /\ CallStart(<<a, "setup">>)
            /\ UNCHANGED result
    /\ AdapterUnchanged
    /\ UNCHANGED <<signalled, work>>

\* start() or a call for the worker failed: the catch block.
SetupFails(a) ==
    /\ wait[<<a, "setup">>] = "failed"
    /\ wait' = [wait EXCEPT ![<<a, "setup">>] = "no"]
    /\ SettleWith(a, "setup failed")
    /\ AdapterUnchanged
    /\ UNCHANGED <<starting, signalled, work>>

\* Mutant: the signal is not looked at again.
AbortOverlooked(a) == FALSE

AbortSeen(a) == a \in signalled

\* The worker is there: subscribe, arm the timer and publish.
Open(a, w) ==
    IF AbortSeen(a)
    THEN SettleWith(a, "cancelled early") /\ wait' = w /\ UNCHANGED starting
    ELSE /\ stage' = [stage EXCEPT ![a] = "open"]
         /\ CallStartFrom(w, <<a, "send">>)
         /\ UNCHANGED result

\* start() is over: without a worker to see to the attempt opens at once.
Started(a) ==
    LET c == <<a, "setup">> IN
    /\ stage[a] = "starting"
    /\ wait[c] = "ready"
    /\ IF setup.spawns /\ ~ AbortSeen(a)
       THEN /\ stage' = [stage EXCEPT ![a] = "listing"]
            /\ CallStart(c)
            /\ UNCHANGED result
       ELSE Open(a, [wait EXCEPT ![c] = "no"])
    /\ AdapterUnchanged
    /\ UNCHANGED <<signalled, work>>

\* ensureClient: the client may have been taken away since start() resolved.
CallBroker(c) ==
    wait' = [wait EXCEPT ![c] = IF client = NoBroker THEN "failed" ELSE "rpc"]

AskBroker(a) ==
    /\ stage[a] \in {"listing", "spawning"}
    /\ wait[<<a, "setup">>] = "ready"
    /\ CallBroker(<<a, "setup">>)
    /\ AdapterUnchanged
    /\ UNCHANGED <<starting, stage, result, signalled, work>>

\* listAgents finds no worker: spawn one.
NoWorkerYet(a) ==
    /\ stage[a] = "listing"
    /\ wait[<<a, "setup">>] = "rpc"
    /\ stage' = [stage EXCEPT ![a] = "spawning"]
    /\ CallStart(<<a, "setup">>)
    /\ AdapterUnchanged
    /\ UNCHANGED <<result, signalled, work>>

WorkerReady(a) ==
    /\ stage[a] \in {"listing", "spawning"}
    /\ wait[<<a, "setup">>] = "rpc"
    /\ Open(a, [wait EXCEPT ![<<a, "setup">>] = "no"])
    /\ AdapterUnchanged
    /\ UNCHANGED <<signalled, work>>

\* Publishing, awaited by nobody.
Publish(a) ==
    LET c == <<a, "send">> IN
    /\ wait[c] = "ready"
    /\ CallBroker(c)
    /\ \/ client \in alive /\ work' = [work EXCEPT ![a] = "queued"]
       \/ UNCHANGED work
    /\ AdapterUnchanged
    /\ UNCHANGED <<starting, stage, result, signalled>>

\* The broker answers a call or fails it.
CallFails(c) ==
    /\ wait[c] = "rpc"
    /\ wait' = [wait EXCEPT ![c] = "failed"]
    /\ AdapterUnchanged
    /\ UNCHANGED <<starting, stage, result, signalled, work>>

SendEnds(a) ==
    LET c == <<a, "send">> IN
    /\ wait[c] = "rpc"
    /\ wait' = [wait EXCEPT ![c] = "no"]
    /\ AdapterUnchanged
    /\ UNCHANGED <<starting, stage, result, signalled, work>>

\* The send's catch handler.
SendFails(a) ==
    LET c == <<a, "send">> IN
    /\ wait[c] = "failed"
    /\ wait' = [wait EXCEPT ![c] = "no"]
    /\ IF stage[a] = "open" THEN SettleWith(a, "send failed") ELSE UNCHANGED <<stage, result>>
    /\ AdapterUnchanged
    /\ UNCHANGED <<starting, signalled, work>>

Timeout(a) ==
    /\ stage[a] = "open"
    /\ SettleWith(a, "timeout")
    /\ AdapterUnchanged
    /\ UNCHANGED <<starting, wait, signalled, work>>

\* The caller's signal fires; once open the attempt listens to it.
SignalFires(a) ==
    /\ a \notin signalled
    /\ ~ Settled(a)
    /\ signalled' = signalled \cup {a}
    /\ IF stage[a] = "open" THEN SettleWith(a, "cancelled") ELSE UNCHANGED <<stage, result>>
    /\ AdapterUnchanged
    /\ UNCHANGED <<starting, wait, work>>

\* The finally block.
Finally(a) ==
    /\ stage[a] = "finally"
    /\ IF ~ setup.closesAfter \/ (stopping = "no" /\ client = NoBroker /\ ~ starting)
       THEN /\ stage' = [stage EXCEPT ![a] = "done"]
            /\ UNCHANGED <<stopping, closing, client>>
       ELSE /\ stage' = [stage EXCEPT ![a] = "closing"]
            /\ \/ stopping # "no" /\ UNCHANGED <<stopping, closing, client>>
               \/ stopping = "no" /\ starting
                  /\ stopping' = "waiting" /\ UNCHANGED <<closing, client>>
               \/ stopping = "no" /\ ~ starting /\ BeginClose
    /\ UNCHANGED <<setup, turnOf, starting, alive, wait, result, signalled, work, refused>>

-----------------------------------------------------------------------------
(* The worker *)

\* handleEvent runs each request by itself and publishes its answer; a runner
\* that throws or takes too long has failed, which is an answer as well.
Work(a) ==
    /\ work[a] = "queued"
    /\ work' = [work EXCEPT ![a] = IF setup.sharesRelay THEN "answering" ELSE "answered"]
    /\ IF setup.sharesRelay
       THEN CallStart(<<a, "answer">>)
       ELSE UNCHANGED <<starting, wait>>
    /\ AdapterUnchanged
    /\ UNCHANGED <<stage, result, signalled>>

\* A failure is only logged.
PublishAnswer(a) ==
    LET c == <<a, "answer">> IN
    /\ wait[c] \in {"ready", "failed"}
    /\ wait' = [wait EXCEPT ![c] = "no"]
    /\ work' = [work EXCEPT ![a] =
                  IF wait[c] = "ready" /\ client \in alive THEN "answered" ELSE "lost"]
    /\ AdapterUnchanged
    /\ UNCHANGED <<starting, stage, result, signalled>>

\* The answer reaches the adapter's client, if it ever does.  Who listens goes
\* by the turn.
AnswerArrives(a) ==
    LET Hears(x) == stage[x] = "open" /\ turnOf[x] = turnOf[a] IN
    /\ work[a] = "answered"
    /\ work' = [work EXCEPT ![a] = "delivered"]
    /\ client \in alive
    /\ result' = [x \in Attempts |-> IF Hears(x) THEN "answered" ELSE result[x]]
    /\ stage' = [x \in Attempts |-> IF Hears(x) THEN "finally" ELSE stage[x]]
    /\ AdapterUnchanged
    /\ UNCHANGED <<starting, wait, signalled>>

-----------------------------------------------------------------------------
Adapter == BrokerStarts \/ StartFails \/ ShutdownGoesOn \/ BrokerGoes \/ BrokerRefuses

Attempt(a) ==
    \/ Started(a) \/ SetupFails(a) \/ AskBroker(a) \/ NoWorkerYet(a) \/ WorkerReady(a)
    \/ Finally(a)

RelayNext ==
    \/ Adapter \/ BrokerDies
    \/ \E a \in Attempts : Execute(a) \/ Attempt(a) \/ Publish(a) \/ Timeout(a)
                           \/ SignalFires(a)
                           \/ SendEnds(a) \/ SendFails(a) \/ CallFails(<<a, "setup">>)
                           \/ CallFails(<<a, "send">>) \/ Work(a) \/ PublishAnswer(a)
                           \/ AnswerArrives(a)

\* The adapter's processes start or fail, a shutdown has a time limit, the
\* broker's calls end, promises are resumed, and the timer fires.
RelayFair ==
    /\ WF_relayVars(Adapter)
    /\ \A a \in Attempts :
        WF_relayVars(Attempt(a) \/ CallFails(<<a, "setup">>)) /\ WF_relayVars(Timeout(a))

RelaySpec == RelayInit /\ [][RelayNext]_relayVars /\ RelayFair

-----------------------------------------------------------------------------
(* Properties *)

\* The adapter never has a second broker running: one is not started before the
\* one it replaces is gone.  Only a broker whose shutdown failed may live on.
OneBroker ==
    /\ Cardinality(alive \ refused) <= 1
    /\ alive \ refused \subseteq {client, closing}
    /\ client # NoBroker => stopping # "closing" /\ ~ starting

\* A signal that fires during one of the awaits before the attempt listens to it
\* is not missed: an aborted attempt does not sit waiting for its answer.  One
\* that ends before it is open has published nothing and never will.
AbortIsHeard ==
    \A a \in Attempts :
        /\ a \in signalled => stage[a] # "open"
        /\ result[a] \in {"cancelled early", "setup failed"} =>
                work[a] = "none" /\ wait[<<a, "send">>] = "no"

\* An attempt comes to an end, whatever becomes of the broker, its worker and
\* the other attempts' shutdowns.
ExecuteEnds == \A a \in Attempts : stage[a] # "idle" ~> stage[a] = "done"

\* shutdown "waits for an in-flight start() so the broker it spawns is not left
\* running unowned": once every attempt has shut down and no call is pending no
\* broker is left.
NoBrokerLeft ==
    (/\ setup.closesAfter /\ ~ setup.sharesRelay
     /\ \A a \in Attempts : stage[a] = "done"
     /\ \A c \in AdapterCalls : wait[c] = "no"
     /\ stopping = "no" /\ ~ starting)
    => alive \subseteq refused

=============================================================================
