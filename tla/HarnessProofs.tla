---------------------------- MODULE HarnessProofs ----------------------------
(***************************************************************************)
(* Theorems about the harness: RelayExecution, for any attempts, turns and *)
(* configurations, the turn loop, for any limits and batches, and the      *)
(* idempotency guard, for any calls, turns and size of its memory.         *)
(*                                                                         *)
(* One broker: a start and the closing of a broker exclude each other, so  *)
(* that the adapter has its client's broker or the one it is closing.      *)
(* An abort is heard: until an attempt is open it has published nothing,   *)
(* no call of its own but the one it awaits is pending, and it looks at    *)
(* its signal in the very step in which it opens.                          *)
(*                                                                         *)
(* The turn: while a batch is under way there is a result for every call   *)
(* that has returned, so that a batch which goes on has one for each; and  *)
(* an abort lets a turn go nowhere but to its end.  Its limits hold since  *)
(* a batch keeps room for all of its calls that still wait, and since what *)
(* usage does not count yet is in the results of the batch.                *)
(*                                                                         *)
(* The guard: a cache belongs to one turn, the calls of a turn that began  *)
(* while it was remembered hold its latest cache, and a cache has an entry *)
(* for just what one of its calls has succeeded with.                      *)
(***************************************************************************)
EXTENDS RelayExecution, HarnessTurn, CallGuard, SequenceLemmas

Waits == {"no", "shutdown", "start", "ready", "failed", "rpc"}

Stages ==
    {"idle", "starting", "listing", "spawning", "open", "finally", "closing", "done"}

Results ==
    {"none", "cancelled early", "setup failed", "send failed", "timeout", "cancelled", "answered"}

Works == {"none", "queued", "answering", "answered", "lost", "delivered"}

USE DEF Waits, Stages, Results, Works

RelayTypes ==
    /\ wait \in [AdapterCalls -> Waits]
    /\ stage \in [Attempts -> Stages]
    /\ result \in [Attempts -> Results]
    /\ work \in [Attempts -> Works]
    /\ starting \in BOOLEAN

BrokerInv ==
    /\ client # NoBroker => stopping # "closing" /\ ~ starting
    /\ starting => stopping # "closing"
    /\ stopping # "closing" => closing = NoBroker
    /\ alive \ refused \subseteq {client, closing}
    /\ NoBroker \notin alive

BeforeOpen == {"idle", "starting", "listing", "spawning"}

AttemptInv(a) ==
    /\ a \in signalled => stage[a] # "open"
    /\ stage[a] \in BeforeOpen \cup {"open"} => result[a] = "none"
    /\ \/ stage[a] \in BeforeOpen
       \/ result[a] \in {"cancelled early", "setup failed"}
       => work[a] = "none" /\ wait[<<a, "send">>] = "no"
    /\ wait[<<a, "setup">>] # "no" => stage[a] \in BeforeOpen \ {"idle"}
    /\ wait[<<a, "answer">>] # "no" => work[a] # "none"

RelayInv == RelayTypes /\ BrokerInv /\ \A a \in Attempts : AttemptInv(a)

LEMMA RelayInitOK == RelayInit => RelayInv
  <1> SUFFICES ASSUME RelayInit PROVE RelayInv
    OBVIOUS
  <1>1. \A a \in Attempts, k \in {"setup", "send", "answer"} : <<a, k>> \in AdapterCalls
    BY DEF AdapterCalls
  <1>2. RelayTypes /\ BrokerInv
    BY DEF RelayInit, RelayTypes, BrokerInv
  <1> QED BY <1>1, <1>2 DEF RelayInit, RelayInv, AttemptInv, BeforeOpen

Kinds == {"setup", "send", "answer"}

\* The calls an attempt may have pending are different ones.
LEMMA CallsOfAttempts ==
    ASSUME NEW a \in Attempts
    PROVE  /\ \A k \in Kinds : <<a, k>> \in AdapterCalls
           /\ \A b \in Attempts, k, l \in Kinds : b # a \/ l # k => <<b, l>> # <<a, k>>
  BY DEF AdapterCalls, Kinds

\* f and g differ in one call of attempt a at most.
OneCall(f, g, a, k) ==
    \A b \in Attempts, l \in Kinds : b # a \/ l # k => f[<<b, l>>] = g[<<b, l>>]

\* What start() does up to its first await, called where the others wait as in w.
StartedFrom(w, a, k) ==
    /\ wait' \in [AdapterCalls -> Waits]
    /\ \A b \in Attempts, l \in Kinds : b # a \/ l # k => wait'[<<b, l>>] = w[<<b, l>>]
    /\ wait'[<<a, k>>] \in {"shutdown", "ready", "start"}
    /\ starting' \in BOOLEAN
    /\ starting' = starting \/ (client = NoBroker /\ stopping = "no")

LEMMA StartCalled ==
    ASSUME NEW w \in [AdapterCalls -> Waits], NEW a \in Attempts, NEW k \in Kinds, RelayTypes,
           CallStartFrom(w, <<a, k>>)
    PROVE  StartedFrom(w, a, k)
  <1>1. \E x \in {"shutdown", "ready", "start"} : wait' = [w EXCEPT ![<<a, k>>] = x]
    BY DEF CallStartFrom
  <1>2. /\ starting' \in BOOLEAN
        /\ starting' = starting \/ (client = NoBroker /\ stopping = "no")
    BY DEF CallStartFrom, WaitsForShutdown, RelayTypes
  <1> QED BY <1>1, <1>2, CallsOfAttempts DEF StartedFrom

\* A step that leaves the adapter alone, but for a start that may begin.
LEMMA BrokerUndisturbed ==
    ASSUME BrokerInv, AdapterUnchanged,
           starting' = starting \/ (client = NoBroker /\ stopping = "no")
    PROVE  BrokerInv'
  BY DEF BrokerInv, AdapterUnchanged

-----------------------------------------------------------------------------
(* The adapter *)

\* What an attempt does not mind: its calls wait on, it ends further, it is answered.
LEMMA AttemptStays ==
    ASSUME NEW a \in Attempts, AttemptInv(a),
           a \in signalled' => a \in signalled,
           work'[a] = work[a] \/ (work[a] # "none" /\ work'[a] # "none"),
           wait'[<<a, "setup">>] = "no" <=> wait[<<a, "setup">>] = "no",
           wait'[<<a, "send">>] = "no" <=> wait[<<a, "send">>] = "no",
           wait'[<<a, "answer">>] = "no" <=> wait[<<a, "answer">>] = "no",
           \/ stage'[a] = stage[a] /\ result'[a] = result[a]
           \/ /\ stage[a] \in {"closing", "finally"} /\ stage'[a] \in {"closing", "done"}
              /\ result'[a] = result[a]
           \/ stage[a] = "open" /\ stage'[a] = "finally" /\ result'[a] = "answered"
    PROVE  AttemptInv(a)'
  <1>1. CASE stage'[a] = stage[a] /\ result'[a] = result[a]
    BY <1>1 DEF AttemptInv, BeforeOpen
  <1>2. CASE /\ stage[a] \in {"closing", "finally"} /\ stage'[a] \in {"closing", "done"}
             /\ result'[a] = result[a]
    BY <1>2 DEF AttemptInv, BeforeOpen
  <1>3. CASE stage[a] = "open" /\ stage'[a] = "finally" /\ result'[a] = "answered"
    BY <1>3 DEF AttemptInv, BeforeOpen
  <1> QED BY <1>1, <1>2, <1>3

\* No attempt minds a step that moves on the calls that wait, and attempts that
\* were closing the adapter.
LEMMA AttemptsUndisturbed ==
    ASSUME RelayTypes, \A a \in Attempts : AttemptInv(a),
           wait' \in [AdapterCalls -> Waits], stage' \in [Attempts -> Stages],
           UNCHANGED <<result, signalled, work>>, starting' \in BOOLEAN,
           \A c \in AdapterCalls : wait[c] = "no" <=> wait'[c] = "no",
           \A a \in Attempts : \/ stage'[a] = stage[a]
                               \/ /\ stage[a] \in {"closing", "finally"}
                                  /\ stage'[a] \in {"closing", "done"}
    PROVE  RelayTypes' /\ \A a \in Attempts : AttemptInv(a)'
  <1>1. RelayTypes'
    BY DEF RelayTypes
  <1>2. ASSUME NEW a \in Attempts
        PROVE  AttemptInv(a)'
    <2>1. ASSUME NEW k \in Kinds
          PROVE  wait'[<<a, k>>] = "no" <=> wait[<<a, k>>] = "no"
      <3>1. <<a, k>> \in AdapterCalls
        BY CallsOfAttempts
      <3> QED BY <3>1
    <2>2. /\ wait'[<<a, "setup">>] = "no" <=> wait[<<a, "setup">>] = "no"
          /\ wait'[<<a, "send">>] = "no" <=> wait[<<a, "send">>] = "no"
          /\ wait'[<<a, "answer">>] = "no" <=> wait[<<a, "answer">>] = "no"
      BY <2>1 DEF Kinds
    <2>3. /\ AttemptInv(a) /\ work'[a] = work[a] /\ result'[a] = result[a]
          /\ a \in signalled' => a \in signalled
      OBVIOUS
    <2> QED BY <2>2, <2>3, AttemptStays
  <1> QED BY <1>1, <1>2

LEMMA ShutdownEnds ==
    ASSUME RelayTypes, EndShutdown
    PROVE  /\ wait' \in [AdapterCalls -> Waits] /\ stage' \in [Attempts -> Stages]
           /\ \A c \in AdapterCalls : wait[c] = "no" <=> wait'[c] = "no"
           /\ \A a \in Attempts : \/ stage'[a] = stage[a]
                                  \/ stage[a] = "closing" /\ stage'[a] = "done"
           /\ starting' \in BOOLEAN /\ stopping' = "no" /\ closing' = NoBroker
  BY DEF EndShutdown, RelayTypes

LEMMA AdapterKeeps ==
    ASSUME RelayInv, Adapter \/ BrokerDies
    PROVE  RelayInv'
  <1> USE DEF RelayInv
  <1>1. CASE BrokerStarts
    <2>1. PICK b : b \in Brokers /\ client' = b /\ alive' = alive \cup {b}
      BY <1>1 DEF BrokerStarts
    <2>2. b # NoBroker
      <3>1. Cardinality(Attempts) \in Nat
        BY RelayConstants, FS_CardinalityType
      <3> QED BY <2>1, <3>1 DEF Brokers, NoBroker
    <2>3. BrokerInv'
      BY <1>1, <2>1, <2>2 DEF BrokerStarts, BrokerInv
    <2>4. RelayTypes' /\ \A a \in Attempts : AttemptInv(a)'
      BY <1>1, AttemptsUndisturbed DEF BrokerStarts, TellStarters, RelayTypes
    <2> QED BY <2>3, <2>4
  <1>2. CASE StartFails
    <2>1. BrokerInv'
      BY <1>2 DEF StartFails, BrokerInv
    <2>2. RelayTypes' /\ \A a \in Attempts : AttemptInv(a)'
      BY <1>2, AttemptsUndisturbed DEF StartFails, TellStarters, RelayTypes
    <2> QED BY <2>1, <2>2
  <1>3. CASE ShutdownGoesOn
    <2>1. CASE client = NoBroker
      <3>1. EndShutdown /\ UNCHANGED <<client, alive, refused, result, signalled, work>>
            /\ stopping = "waiting"
        BY <1>3, <2>1 DEF ShutdownGoesOn
      <3>2. BrokerInv'
        BY <2>1, <3>1, ShutdownEnds DEF BrokerInv
      <3>3. RelayTypes' /\ \A a \in Attempts : AttemptInv(a)'
        BY <3>1, ShutdownEnds, AttemptsUndisturbed
      <3> QED BY <3>2, <3>3
    <2>2. CASE client # NoBroker
      <3>1. BrokerInv'
        BY <1>3, <2>2 DEF ShutdownGoesOn, BeginClose, BrokerInv
      <3>2. RelayTypes' /\ \A a \in Attempts : AttemptInv(a)'
        <4>1. UNCHANGED <<stage, wait, starting, result, signalled, work>>
          BY <1>3, <2>2 DEF ShutdownGoesOn
        <4>2. /\ wait \in [AdapterCalls -> Waits] /\ stage \in [Attempts -> Stages]
              /\ starting \in BOOLEAN
          BY DEF RelayTypes
        <4> QED BY <4>1, <4>2, AttemptsUndisturbed
      <3> QED BY <3>1, <3>2
    <2> QED BY <2>1, <2>2
  <1>4. CASE BrokerGoes \/ BrokerRefuses
    <2>1. /\ stopping = "closing" /\ EndShutdown
          /\ UNCHANGED <<client, result, signalled, work>>
          /\ \/ alive' = alive \ {closing} /\ UNCHANGED refused
             \/ UNCHANGED alive /\ refused' = refused \cup {closing}
      BY <1>4 DEF BrokerGoes, BrokerRefuses
    <2>2. BrokerInv'
      BY <2>1, ShutdownEnds DEF BrokerInv
    <2>3. RelayTypes' /\ \A a \in Attempts : AttemptInv(a)'
      BY <2>1, ShutdownEnds, AttemptsUndisturbed
    <2> QED BY <2>2, <2>3
  <1>5. CASE BrokerDies
    BY <1>5 DEF BrokerDies, BrokerInv, RelayTypes, AttemptInv
  <1> QED BY <1>1, <1>2, <1>3, <1>4, <1>5 DEF Adapter

-----------------------------------------------------------------------------
(* Attempts *)

\* A step of attempt a: the others and their calls stay as they are.
StepOf(a) ==
    \A b \in Attempts \ {a} :
        /\ stage'[b] = stage[b] /\ result'[b] = result[b] /\ work'[b] = work[b]
        /\ b \in signalled' <=> b \in signalled
        /\ \A k \in Kinds : wait'[<<b, k>>] = wait[<<b, k>>]

LEMMA OthersKeep ==
    ASSUME \A b \in Attempts : AttemptInv(b), NEW a \in Attempts, StepOf(a), AttemptInv(a)'
    PROVE  \A b \in Attempts : AttemptInv(b)'
  <1>1. ASSUME NEW b \in Attempts \ {a} PROVE AttemptInv(b)'
    <2>1. /\ stage'[b] = stage[b] /\ result'[b] = result[b] /\ work'[b] = work[b]
          /\ b \in signalled' <=> b \in signalled
          /\ \A k \in Kinds : wait'[<<b, k>>] = wait[<<b, k>>]
      BY DEF StepOf
    <2>2. /\ wait'[<<b, "setup">>] = wait[<<b, "setup">>]
          /\ wait'[<<b, "send">>] = wait[<<b, "send">>]
          /\ wait'[<<b, "answer">>] = wait[<<b, "answer">>]
      BY <2>1 DEF Kinds
    <2>3. AttemptInv(b)
      OBVIOUS
    <2> QED BY <2>1, <2>2, <2>3, AttemptStays
  <1> QED BY <1>1

LEMMA ExecuteKeeps ==
    ASSUME RelayInv, NEW a \in Attempts, Execute(a)
    PROVE  RelayInv'
  <1> USE DEF RelayInv
  <1>1. stage[a] = "idle" /\ UNCHANGED <<signalled, work>> /\ AdapterUnchanged
    BY DEF Execute
  <1>2. /\ work[a] = "none" /\ result[a] = "none"
        /\ wait[<<a, "setup">>] = "no" /\ wait[<<a, "send">>] = "no"
        /\ wait[<<a, "answer">>] = "no"
    BY <1>1 DEF AttemptInv, BeforeOpen
  <1>3. CASE a \in signalled
    <2>1. /\ stage' = [stage EXCEPT ![a] = "done"]
          /\ result' = [result EXCEPT ![a] = "cancelled early"] /\ UNCHANGED <<wait, starting>>
      BY <1>3 DEF Execute
    <2>2. RelayTypes' /\ StepOf(a)
      BY <1>1, <2>1 DEF RelayTypes, StepOf
    <2>3. AttemptInv(a)'
      BY <1>1, <1>2, <2>1 DEF RelayTypes, AttemptInv, BeforeOpen
    <2> QED BY <1>1, <2>1, <2>2, <2>3, OthersKeep, BrokerUndisturbed
  <1>4. CASE a \notin signalled
    <2>1. /\ stage' = [stage EXCEPT ![a] = "starting"] /\ CallStartFrom(wait, <<a, "setup">>)
          /\ UNCHANGED result
      BY <1>4 DEF Execute, CallStart
    <2>2. StartedFrom(wait, a, "setup")
      BY <2>1, StartCalled DEF RelayTypes, Kinds
    <2>3. RelayTypes' /\ StepOf(a)
      BY <1>1, <2>1, <2>2 DEF RelayTypes, StepOf, StartedFrom
    <2>4. AttemptInv(a)'
      BY <1>1, <1>2, <1>4, <2>1, <2>2 DEF RelayTypes, AttemptInv, BeforeOpen, StartedFrom, Kinds
    <2>5. BrokerInv'
      BY <1>1, <2>2, BrokerUndisturbed DEF StartedFrom
    <2> QED BY <2>3, <2>4, <2>5, OthersKeep
  <1> QED BY <1>3, <1>4

\* An attempt opens, or sees that it has been aborted.
LEMMA OpenKeeps ==
    ASSUME RelayInv, NEW a \in Attempts, NEW w \in [AdapterCalls -> Waits],
           Open(a, w), stage[a] \in BeforeOpen, AdapterUnchanged,
           UNCHANGED <<signalled, work>>,
           w[<<a, "setup">>] = "no", OneCall(w, wait, a, "setup")
    PROVE  RelayInv'
  <1> USE DEF RelayInv
  <1>1. /\ work[a] = "none" /\ wait[<<a, "send">>] = "no" /\ result[a] = "none"
        /\ wait[<<a, "answer">>] = "no"
    BY DEF AttemptInv
  <1>2. w[<<a, "send">>] = "no" /\ w[<<a, "answer">>] = "no"
    BY <1>1 DEF OneCall, Kinds
  <1>3. CASE a \in signalled
    <2>1. /\ stage' = [stage EXCEPT ![a] = "finally"]
          /\ result' = [result EXCEPT ![a] = "cancelled early"] /\ wait' = w /\ UNCHANGED starting
      BY <1>3 DEF Open, AbortSeen, SettleWith
    <2>2. RelayTypes' /\ StepOf(a)
      BY <2>1 DEF RelayTypes, StepOf, OneCall
    <2>3. AttemptInv(a)'
      BY <1>1, <1>2, <2>1 DEF RelayTypes, AttemptInv, BeforeOpen
    <2> QED BY <2>1, <2>2, <2>3, OthersKeep, BrokerUndisturbed
  <1>4. CASE a \notin signalled
    <2>1. /\ stage' = [stage EXCEPT ![a] = "open"] /\ CallStartFrom(w, <<a, "send">>)
          /\ UNCHANGED result
      BY <1>4 DEF Open, AbortSeen
    <2>2. StartedFrom(w, a, "send")
      BY <2>1, StartCalled DEF Kinds
    <2>3. RelayTypes' /\ StepOf(a)
      <3>1. RelayTypes'
        BY <2>1, <2>2 DEF RelayTypes, StartedFrom
      <3>2. ASSUME NEW b \in Attempts \ {a}
            PROVE  /\ stage'[b] = stage[b] /\ result'[b] = result[b] /\ work'[b] = work[b]
                   /\ b \in signalled' <=> b \in signalled
        BY <2>1 DEF RelayTypes
      <3>3. ASSUME NEW b \in Attempts \ {a}, NEW k \in Kinds
            PROVE  wait'[<<b, k>>] = wait[<<b, k>>]
        <4>1. wait'[<<b, k>>] = w[<<b, k>>]
          BY <2>2 DEF StartedFrom
        <4>2. w[<<b, k>>] = wait[<<b, k>>]
          BY DEF OneCall
        <4> QED BY <4>1, <4>2
      <3> QED BY <3>1, <3>2, <3>3 DEF StepOf
    <2>4. /\ stage'[a] = "open" /\ result'[a] = "none" /\ work'[a] = "none"
          /\ wait'[<<a, "setup">>] = "no" /\ wait'[<<a, "answer">>] = "no"
      BY <1>1, <1>2, <2>1, <2>2 DEF RelayTypes, StartedFrom, Kinds
    <2>5. AttemptInv(a)'
      BY <1>4, <2>4 DEF AttemptInv, BeforeOpen
    <2>6. BrokerInv'
      BY <2>2, BrokerUndisturbed DEF StartedFrom
    <2> QED BY <2>3, <2>5, <2>6, OthersKeep
  <1> QED BY <1>3, <1>4

\* The steps between the start of an attempt and its opening.
LEMMA SetupKeeps ==
    ASSUME RelayInv, NEW a \in Attempts,
           Started(a) \/ SetupFails(a) \/ AskBroker(a) \/ NoWorkerYet(a) \/ WorkerReady(a)
    PROVE  RelayInv'
  <1> USE DEF RelayInv
  <1> DEFINE c == <<a, "setup">>
             w == [wait EXCEPT ![c] = "no"]
  <1>1. w \in [AdapterCalls -> Waits] /\ w[c] = "no" /\ OneCall(w, wait, a, "setup")
    BY CallsOfAttempts DEF RelayTypes, OneCall, Kinds
  <1>2. AdapterUnchanged /\ UNCHANGED <<signalled, work>>
    BY DEF Started, SetupFails, AskBroker, NoWorkerYet, WorkerReady
  <1>3. CASE (Started(a) /\ ~(setup.spawns /\ ~ AbortSeen(a))) \/ WorkerReady(a)
    BY <1>1, <1>2, <1>3, OpenKeeps DEF Started, WorkerReady, BeforeOpen
  <1>4. CASE SetupFails(a)
    <2>1. /\ wait' = w /\ stage' = [stage EXCEPT ![a] = "finally"]
          /\ result' = [result EXCEPT ![a] = "setup failed"] /\ UNCHANGED starting
      BY <1>4 DEF SetupFails, SettleWith
    <2>2. wait[c] = "failed"
      BY <1>4 DEF SetupFails
    <2>3. work[a] = "none" /\ wait[<<a, "send">>] = "no" /\ wait[<<a, "answer">>] = "no"
      BY <2>2 DEF AttemptInv
    <2>4. RelayTypes' /\ StepOf(a)
      BY <1>1, <1>2, <2>1 DEF RelayTypes, StepOf, OneCall
    <2>5. w[<<a, "send">>] = "no" /\ w[<<a, "answer">>] = "no"
      BY <1>1, <2>3 DEF OneCall, Kinds
    <2>6. AttemptInv(a)'
      BY <1>1, <1>2, <2>1, <2>3, <2>5 DEF RelayTypes, AttemptInv, BeforeOpen
    <2> QED BY <1>2, <2>1, <2>4, <2>6, OthersKeep, BrokerUndisturbed
  <1>5. CASE AskBroker(a)
    <2>1. /\ wait' \in [AdapterCalls -> Waits] /\ UNCHANGED <<stage, result, starting>>
          /\ OneCall(wait', wait, a, "setup")
          /\ stage[a] \in {"listing", "spawning"}
      BY <1>5, CallsOfAttempts DEF AskBroker, CallBroker, RelayTypes, OneCall, Kinds
    <2>2. RelayTypes' /\ StepOf(a)
      BY <1>2, <2>1 DEF RelayTypes, StepOf, OneCall
    <2>3. /\ wait'[<<a, "send">>] = wait[<<a, "send">>]
          /\ wait'[<<a, "answer">>] = wait[<<a, "answer">>]
      BY <2>1 DEF OneCall, Kinds
    <2>4. AttemptInv(a)'
      BY <1>2, <2>1, <2>3 DEF AttemptInv, BeforeOpen
    <2> QED BY <1>2, <2>1, <2>2, <2>4, OthersKeep, BrokerUndisturbed
  <1>6. CASE (Started(a) /\ setup.spawns /\ ~ AbortSeen(a)) \/ NoWorkerYet(a)
    <2>1. /\ stage[a] \in {"starting", "listing"} /\ UNCHANGED result
          /\ CallStartFrom(wait, c)
      BY <1>6 DEF Started, NoWorkerYet, CallStart
    <2>2. PICK s \in {"listing", "spawning"} : stage' = [stage EXCEPT ![a] = s]
      BY <1>6 DEF Started, NoWorkerYet
    <2>3. StartedFrom(wait, a, "setup")
      BY <2>1, StartCalled DEF RelayTypes, Kinds
    <2>4. RelayTypes' /\ StepOf(a)
      BY <1>2, <2>1, <2>2, <2>3 DEF RelayTypes, StepOf, StartedFrom
    <2>5. /\ stage'[a] = s /\ UNCHANGED <<result[a], work[a], signalled>>
          /\ wait'[<<a, "send">>] = wait[<<a, "send">>]
          /\ wait'[<<a, "answer">>] = wait[<<a, "answer">>]
      BY <1>2, <2>1, <2>2, <2>3 DEF RelayTypes, StartedFrom, Kinds
    <2>6. AttemptInv(a)'
      BY <2>1, <2>5 DEF AttemptInv, BeforeOpen
    <2>7. BrokerInv'
      BY <1>2, <2>3, BrokerUndisturbed DEF StartedFrom
    <2> QED BY <2>4, <2>6, <2>7, OthersKeep
  <1> QED BY <1>3, <1>4, <1>5, <1>6

\* The request on its way: its call is pending or its attempt has published.
LEMMA SendKeeps ==
    ASSUME RelayInv, NEW a \in Attempts,
           Publish(a) \/ SendEnds(a) \/ SendFails(a) \/ CallFails(<<a, "send">>)
    PROVE  RelayInv'
  <1> USE DEF RelayInv
  <1> DEFINE c == <<a, "send">>
  <1>1. AdapterUnchanged /\ UNCHANGED <<signalled, starting>> /\ wait[c] # "no"
    BY DEF Publish, SendEnds, SendFails, CallFails
  <1>2. \E x \in Waits : wait' = [wait EXCEPT ![c] = x]
    BY DEF Publish, SendEnds, SendFails, CallFails, CallBroker
  <1>3. wait' \in [AdapterCalls -> Waits] /\ OneCall(wait', wait, a, "send")
    BY <1>2, CallsOfAttempts DEF RelayTypes, OneCall, Kinds
  <1>4. /\ stage[a] \notin BeforeOpen
        /\ result[a] \notin {"cancelled early", "setup failed"}
    BY <1>1 DEF AttemptInv
  <1>5. UNCHANGED work \/ work' = [work EXCEPT ![a] = "queued"]
    BY DEF Publish, SendEnds, SendFails, CallFails
  <1>6. \/ UNCHANGED <<stage, result>>
        \/ /\ stage' = [stage EXCEPT ![a] = "finally"]
           /\ result' = [result EXCEPT ![a] = "send failed"]
    BY DEF Publish, SendEnds, SendFails, CallFails, SettleWith
  <1>7. RelayTypes' /\ StepOf(a)
    BY <1>1, <1>3, <1>5, <1>6 DEF RelayTypes, StepOf, OneCall
  <1>8. /\ work'[a] = work[a] \/ work'[a] = "queued"
        /\ \/ stage'[a] = stage[a] /\ result'[a] = result[a]
           \/ stage'[a] = "finally" /\ result'[a] = "send failed"
    BY <1>5, <1>6 DEF RelayTypes
  <1>9. /\ wait[<<a, "setup">>] = "no"
        /\ wait'[<<a, "setup">>] = wait[<<a, "setup">>]
        /\ wait'[<<a, "answer">>] = wait[<<a, "answer">>]
    BY <1>3, <1>4 DEF AttemptInv, OneCall, Kinds
  <1>10. AttemptInv(a)'
    BY <1>1, <1>4, <1>8, <1>9 DEF AttemptInv, BeforeOpen
  <1> QED BY <1>1, <1>7, <1>10, OthersKeep, BrokerUndisturbed

\* The time-out, the caller's signal, and a call for the worker that fails.
LEMMA InterruptKeeps ==
    ASSUME RelayInv, NEW a \in Attempts,
           Timeout(a) \/ SignalFires(a) \/ CallFails(<<a, "setup">>)
    PROVE  RelayInv'
  <1> USE DEF RelayInv
  <1>1. AdapterUnchanged /\ UNCHANGED <<starting, work>>
    BY DEF Timeout, SignalFires, CallFails
  <1>2. CASE CallFails(<<a, "setup">>)
    <2>1. /\ wait' = [wait EXCEPT ![<<a, "setup">>] = "failed"]
          /\ wait[<<a, "setup">>] # "no" /\ UNCHANGED <<stage, result, signalled>>
      BY <1>2 DEF CallFails
    <2>2. wait' \in [AdapterCalls -> Waits] /\ OneCall(wait', wait, a, "setup")
      BY <2>1, CallsOfAttempts DEF RelayTypes, OneCall, Kinds
    <2>3. RelayTypes' /\ StepOf(a)
      BY <1>1, <2>1, <2>2 DEF RelayTypes, StepOf, OneCall
    <2>4. /\ wait'[<<a, "send">>] = wait[<<a, "send">>]
          /\ wait'[<<a, "answer">>] = wait[<<a, "answer">>]
      BY <2>2 DEF OneCall, Kinds
    <2>5. AttemptInv(a)'
      BY <1>1, <2>1, <2>4 DEF AttemptInv
    <2> QED BY <1>1, <2>3, <2>5, OthersKeep, BrokerUndisturbed
  <1>3. CASE Timeout(a) \/ SignalFires(a)
    <2>1. /\ UNCHANGED wait
          /\ signalled' = signalled \/ signalled' = signalled \cup {a}
      BY <1>3 DEF Timeout, SignalFires
    <2>2. \/ UNCHANGED <<stage, result>> /\ stage[a] # "open"
          \/ /\ stage[a] = "open" /\ stage' = [stage EXCEPT ![a] = "finally"]
             /\ \E r \in {"timeout", "cancelled"} : result' = [result EXCEPT ![a] = r]
      BY <1>3 DEF Timeout, SignalFires, SettleWith
    <2>3. RelayTypes' /\ StepOf(a)
      <3>1. CASE UNCHANGED <<stage, result>>
        BY <1>1, <2>1, <3>1 DEF RelayTypes, StepOf
      <3>2. ASSUME NEW r \in {"timeout", "cancelled"}, result' = [result EXCEPT ![a] = r],
                   stage' = [stage EXCEPT ![a] = "finally"]
            PROVE  RelayTypes' /\ StepOf(a)
        BY <1>1, <2>1, <3>2 DEF RelayTypes, StepOf
      <3> QED BY <2>2, <3>1, <3>2
    <2>4. \/ stage'[a] = stage[a] /\ result'[a] = result[a] /\ stage[a] # "open"
          \/ /\ stage[a] = "open" /\ stage'[a] = "finally"
             /\ result'[a] \in {"timeout", "cancelled"}
      BY <2>2 DEF RelayTypes
    <2>5. AttemptInv(a)'
      BY <1>1, <2>1, <2>4 DEF AttemptInv, BeforeOpen
    <2> QED BY <1>1, <2>3, <2>5, OthersKeep, BrokerUndisturbed
  <1> QED BY <1>2, <1>3

LEMMA FinallyKeeps ==
    ASSUME RelayInv, NEW a \in Attempts, Finally(a)
    PROVE  RelayInv'
  <1> USE DEF RelayInv
  <1>1. /\ stage[a] = "finally"
        /\ \E s \in {"done", "closing"} : stage' = [stage EXCEPT ![a] = s]
        /\ UNCHANGED <<starting, alive, wait, result, signalled, work, refused>>
    BY DEF Finally
  <1>2. BrokerInv'
    BY DEF Finally, BeginClose, BrokerInv
  <1>3. /\ stage' \in [Attempts -> Stages]
        /\ \A b \in Attempts : \/ stage'[b] = stage[b]
                               \/ stage[b] = "finally" /\ stage'[b] \in {"closing", "done"}
    <2>1. PICK s \in {"done", "closing"} : stage' = [stage EXCEPT ![a] = s]
      BY <1>1
    <2> QED BY <1>1, <2>1 DEF RelayTypes
  <1>4. RelayTypes' /\ \A b \in Attempts : AttemptInv(b)'
    <2>1. wait' \in [AdapterCalls -> Waits] /\ starting' \in BOOLEAN
      BY <1>1 DEF RelayTypes
    <2> QED BY <1>1, <1>3, <2>1, AttemptsUndisturbed
  <1> QED BY <1>2, <1>4

\* The worker's steps: a request that has been published, and its answer.
LEMMA WorkerKeeps ==
    ASSUME RelayInv, NEW a \in Attempts, Work(a) \/ PublishAnswer(a)
    PROVE  RelayInv'
  <1> USE DEF RelayInv
  <1>1. AdapterUnchanged /\ UNCHANGED <<stage, result, signalled>>
    BY DEF Work, PublishAnswer
  <1>2. /\ wait' \in [AdapterCalls -> Waits] /\ OneCall(wait', wait, a, "answer")
        /\ starting' \in BOOLEAN
        /\ starting' = starting \/ (client = NoBroker /\ stopping = "no")
    <2>1. CASE Work(a) /\ setup.sharesRelay
      <3>1. CallStartFrom(wait, <<a, "answer">>)
        BY <2>1 DEF Work, CallStart
      <3>2. StartedFrom(wait, a, "answer")
        BY <3>1, StartCalled DEF RelayTypes, Kinds
      <3> QED BY <3>2 DEF StartedFrom, OneCall
    <2>2. CASE Work(a) /\ ~ setup.sharesRelay
      BY <2>2 DEF Work, RelayTypes, OneCall
    <2>3. CASE PublishAnswer(a)
      BY <2>3, CallsOfAttempts DEF PublishAnswer, RelayTypes, OneCall, Kinds
    <2> QED BY <2>1, <2>2, <2>3
  <1>3. \E x \in Works \ {"none"} : work' = [work EXCEPT ![a] = x]
    BY DEF Work, PublishAnswer
  <1>4. work[a] # "none"
    BY DEF Work, PublishAnswer, AttemptInv
  <1>5. RelayTypes' /\ StepOf(a)
    BY <1>1, <1>2, <1>3 DEF RelayTypes, StepOf, OneCall
  <1>6. work'[a] # "none"
    BY <1>3 DEF RelayTypes
  <1>7. /\ wait'[<<a, "setup">>] = wait[<<a, "setup">>]
        /\ wait'[<<a, "send">>] = wait[<<a, "send">>]
    BY <1>2 DEF OneCall, Kinds
  <1>8. AttemptInv(a)'
    BY <1>1, <1>4, <1>6, <1>7 DEF AttemptInv
  <1> QED BY <1>1, <1>2, <1>5, <1>8, OthersKeep, BrokerUndisturbed

\* An answer settles whichever attempts of its turn are open.
LEMMA AnswerKeeps ==
    ASSUME RelayInv, NEW a \in Attempts, AnswerArrives(a)
    PROVE  RelayInv'
  <1> USE DEF RelayInv
  <1>1. AdapterUnchanged /\ UNCHANGED <<signalled, wait, starting>>
    BY DEF AnswerArrives
  <1>2. /\ work' \in [Attempts -> Works]
        /\ \A b \in Attempts : work'[b] = work[b] \/ (work[b] # "none" /\ work'[b] # "none")
    BY DEF AnswerArrives, RelayTypes
  <1>3. /\ stage' \in [Attempts -> Stages] /\ result' \in [Attempts -> Results]
        /\ \A b \in Attempts :
             \/ stage'[b] = stage[b] /\ result'[b] = result[b]
             \/ stage[b] = "open" /\ stage'[b] = "finally" /\ result'[b] = "answered"
    BY DEF AnswerArrives, RelayTypes
  <1>4. ASSUME NEW b \in Attempts PROVE AttemptInv(b)'
    <2>1. /\ AttemptInv(b) /\ UNCHANGED signalled
          /\ work'[b] = work[b] \/ (work[b] # "none" /\ work'[b] # "none")
      BY <1>1, <1>2
    <2> QED BY <1>1, <1>3, <2>1, AttemptStays
  <1> QED BY <1>1, <1>2, <1>3, <1>4, BrokerUndisturbed DEF RelayTypes

-----------------------------------------------------------------------------

LEMMA RelayStep == RelayInv /\ [RelayNext]_relayVars => RelayInv'
  <1>1. ASSUME RelayInv, UNCHANGED relayVars PROVE RelayInv'
    BY <1>1 DEF relayVars, RelayInv, RelayTypes, BrokerInv, AttemptInv
  <1>2. ASSUME RelayInv, NEW a \in Attempts,
               \/ Execute(a) \/ Attempt(a) \/ Publish(a) \/ Timeout(a) \/ SignalFires(a)
               \/ SendEnds(a) \/ SendFails(a) \/ CallFails(<<a, "setup">>)
               \/ CallFails(<<a, "send">>) \/ Work(a) \/ PublishAnswer(a) \/ AnswerArrives(a)
        PROVE  RelayInv'
    BY <1>2, ExecuteKeeps, SetupKeeps, SendKeeps, InterruptKeeps, FinallyKeeps, WorkerKeeps,
       AnswerKeeps
       DEF Attempt
  <1> QED BY <1>1, <1>2, AdapterKeeps DEF RelayNext

\* The inductive invariant.
THEOREM RelayAlways == RelaySpec => []RelayInv
  BY RelayInitOK, RelayStep, PTL DEF RelaySpec

\* The adapter never has two brokers, but for those whose shutdown failed.
THEOREM AlwaysOneBroker == RelaySpec => []OneBroker
  <1>1. ASSUME BrokerInv PROVE OneBroker
    <2>1. PICK b : alive \ refused \subseteq {b}
      BY <1>1 DEF BrokerInv
    <2>2. Cardinality(alive \ refused) <= 1
      <3>1. IsFiniteSet({b}) /\ Cardinality({b}) = 1
        BY FS_Singleton
      <3> QED BY <2>1, <3>1, FS_Subset
    <2> QED BY <1>1, <2>2 DEF BrokerInv, OneBroker
  <1> QED BY <1>1, RelayAlways, PTL DEF RelayInv

\* No abort is missed: an attempt that is open has not been signalled, and one
\* that was stopped before it opened has published nothing and never will.
THEOREM AbortAlwaysHeard == RelaySpec => []AbortIsHeard
  <1>1. (\A a \in Attempts : AttemptInv(a)) => AbortIsHeard
    BY DEF AttemptInv, AbortIsHeard
  <1> QED BY <1>1, RelayAlways, PTL DEF RelayInv

-----------------------------------------------------------------------------
(* The turn: its batches *)

ToolOrPolicyResults == ToolResults \cup PolicyResults

Returned == {i \in DOMAIN calls : calls[i] = "returned"}

BatchInv ==
    /\ IsFiniteSet(DOMAIN calls) /\ DOMAIN calls \subseteq Nat \ {0}
    /\ calls \in [DOMAIN calls -> CallStates]
    /\ results \in Seq(ToolOrPolicyResults)
    /\ at \in {"tool list", "top", "model", "approval"} =>
            results = <<>> /\ owed = 0 /\ Outstanding = {}
    /\ at = "results" => results # <<>> /\ owed = Len(results) /\ Outstanding = {}
    /\ mode \in {"sequential", "parallel"}
    /\ at = "tools" =>
          /\ DOMAIN calls # {}
          /\ owed = Cardinality(DOMAIN calls) /\ Len(results) = Cardinality(Returned)
          /\ mode = "sequential" =>
                \A i, j \in DOMAIN calls : j < i /\ calls[i] # "waiting" => calls[j] = "returned"
    /\ at = "done" /\ Outstanding # {} => threw
    /\ at \in Awaits \cup {"done"}

LEMMA BatchInitOK == Init => BatchInv
  <1> SUFFICES ASSUME Init PROVE BatchInv
    OBVIOUS
  <1>1. /\ calls = <<>> /\ results = <<>> /\ at = "tool list" /\ owed = 0
        /\ mode = "sequential"
    BY DEF Init
  <1>2. IsFiniteSet({})
    BY FS_EmptySet
  <1>3. /\ DOMAIN <<>> = {} /\ <<>> \in Seq(ToolOrPolicyResults)
        /\ <<>> \in [DOMAIN <<>> -> CallStates]
    BY EmptySeq
  <1>4. Outstanding = {}
    BY <1>1, <1>3 DEF Outstanding
  <1> QED BY <1>1, <1>2, <1>3, <1>4 DEF BatchInv, Awaits

\* Nothing is under way, and nothing is left of the batch before.
LEMMA QuietKeeps ==
    ASSUME BatchInv, at \in {"tool list", "top", "model", "approval"},
           at' \in {"tool list", "top", "model", "approval", "done"},
           UNCHANGED <<mode, calls, results, owed>>
    PROVE  BatchInv'
  <1>1. Outstanding' = Outstanding
    BY DEF Outstanding
  <1> QED BY <1>1 DEF BatchInv, Awaits

LEMMA FrameKeeps ==
    ASSUME BatchInv, UNCHANGED <<at, mode, calls, results, owed, threw>>
    PROVE  BatchInv'
  <1>1. Outstanding' = Outstanding /\ Returned' = Returned
    BY DEF Outstanding, Returned
  <1> QED BY <1>1 DEF BatchInv

LEMMA QuietSteps ==
    ASSUME BatchInv,
           \/ ToolsListed \/ NextStep \/ ModelCancelled \/ ModelSettles \/ ModelAsksApproval
           \/ ModelInvalid \/ ModelRefusedTools \/ ApprovalPrepared
           \/ AdapterThrows /\ at # "results"
    PROVE  BatchInv'
  <1>1. CASE ToolsListed \/ NextStep
    <2>1. /\ at \in {"tool list", "top"} /\ UNCHANGED <<mode, calls, results, owed>>
          /\ at' \in {"top", "model", "done"}
      BY <1>1 DEF ToolsListed, NextStep, Finish, GoOn, FinishOr, batch
    <2> QED BY <2>1, QuietKeeps
  <1>2. CASE ModelCancelled \/ ModelSettles \/ ModelAsksApproval \/ ModelRefusedTools
    <2>1. /\ at = "model" /\ UNCHANGED <<mode, calls, results, owed>> /\ at' \in {"approval", "done"}
      BY <1>2 DEF ModelCancelled, ModelSettles, ModelAsksApproval, ModelRefusedTools, ModelGives,
           Finish, GoOn, batch
    <2> QED BY <2>1, QuietKeeps
  <1>3. CASE ModelInvalid
    <2>1. /\ at = "model" /\ UNCHANGED <<mode, calls, results, owed>> /\ at' \in {"top", "done"}
      BY <1>3 DEF ModelInvalid, ModelGives, Finish, FinishOr, GoOn, batch
    <2> QED BY <2>1, QuietKeeps
  <1>4. CASE ApprovalPrepared \/ (AdapterThrows /\ at # "results")
    <2>1. /\ at \in {"tool list", "model", "approval"} /\ UNCHANGED <<mode, calls, results, owed>>
          /\ at' = "done"
      BY <1>4 DEF ApprovalPrepared, AdapterThrows, Caught, Finish, batch
    <2> QED BY <2>1, QuietKeeps
  <1> QED BY <1>1, <1>2, <1>3, <1>4

LEMMA RequestKeeps == ASSUME BatchInv, ModelRequestsTools PROVE BatchInv'
  <1>1. PICK n \in 1..MaxBatch :
            /\ calls' = [i \in 1..n |-> "waiting"] /\ owed' = owed + n
            /\ at = "model" /\ at' = "tools" /\ results' = results
            /\ mode' \in {"sequential", "parallel"}
    BY DEF ModelRequestsTools, ModelGives, GoOn
  <1>2. n \in Nat \ {0}
    BY ConstantsAssumption
  <1>3. DOMAIN calls' = 1..n /\ IsFiniteSet(1..n) /\ Cardinality(1..n) = n
    BY <1>1, <1>2, FS_Interval
  <1>4. Returned' = {} /\ Cardinality({}) = 0
    BY <1>1, FS_EmptySet DEF Returned
  <1>5. results = <<>> /\ owed = 0 /\ Len(<<>>) = 0
    BY <1>1 DEF BatchInv
  <1>6. calls' \in [DOMAIN calls' -> CallStates] /\ 1 \in 1..n
    BY <1>1, <1>2, <1>3 DEF CallStates
  <1>7. \A i \in DOMAIN calls' : calls'[i] = "waiting"
    BY <1>1, <1>3
  <1> QED BY <1>1, <1>2, <1>3, <1>4, <1>5, <1>6, <1>7 DEF BatchInv, Awaits

\* Calls of a batch begin.
LEMMA BeginsKeep == ASSUME BatchInv, BeginParallel \/ BeginNext PROVE BatchInv'
  <1>1. PICK allowed, begun :
            /\ Begin(allowed, begun) /\ at = "tools"
            /\ \A i \in begun : i \in DOMAIN calls /\ calls[i] = "waiting"
            /\ mode = "sequential" =>
                  \A i \in begun : begun = {i} /\ \A j \in 1..(i - 1) : calls[j] = "returned"
    <2>1. CASE BeginParallel
      <3>1. PICK allowed \in SUBSET DOMAIN calls : Begin(allowed, DOMAIN calls)
        BY <2>1 DEF BeginParallel
      <3> QED BY <2>1, <3>1 DEF BeginParallel
    <2>2. CASE BeginNext
      <3>1. PICK i \in DOMAIN calls :
                /\ calls[i] = "waiting" /\ \A j \in 1..(i - 1) : calls[j] = "returned"
                /\ \E allowed \in SUBSET {i} : Begin(allowed, {i})
        BY <2>2 DEF BeginNext
      <3> QED BY <2>2, <3>1 DEF BeginNext
    <2> QED BY <2>1, <2>2
  <1>2. /\ calls' = [i \in DOMAIN calls |-> IF i \notin begun THEN calls[i]
                                            ELSE IF i \in allowed THEN "running" ELSE "answered"]
        /\ UNCHANGED <<at, mode, results, owed, threw>>
    BY <1>1 DEF Begin
  <1>3. /\ DOMAIN calls' = DOMAIN calls
        /\ \A i \in DOMAIN calls : calls'[i] = IF i \notin begun THEN calls[i]
                                              ELSE IF i \in allowed THEN "running" ELSE "answered"
    BY <1>2
  <1>4. calls' \in [DOMAIN calls' -> CallStates]
    <2>1. \A i \in DOMAIN calls : calls'[i] \in CallStates
      BY <1>3 DEF BatchInv, CallStates
    <2> QED BY <1>2, <1>3, <2>1
  <1>5. Returned' = Returned
    BY <1>1, <1>3 DEF Returned
  <1>6. ASSUME mode = "sequential", NEW i \in DOMAIN calls, NEW j \in DOMAIN calls,
               j < i, calls'[i] # "waiting"
        PROVE  calls'[j] = "returned"
    <2>1. calls[j] = "returned"
      <3>1. CASE i \in begun
        <4>1. i \in Nat \ {0} /\ j \in Nat \ {0}
          BY DEF BatchInv
        <4>2. j \in 1..(i - 1)
          BY <1>6, <4>1
        <4> QED BY <1>1, <1>6, <3>1, <4>2
      <3>2. CASE i \notin begun
        BY <1>1, <1>3, <1>6, <3>2 DEF BatchInv
      <3> QED BY <3>1, <3>2
    <2> QED BY <1>1, <1>3, <2>1
  <1> QED BY <1>1, <1>2, <1>3, <1>4, <1>5, <1>6 DEF BatchInv

\* A call goes from one state to another, without a result.
LEMMA MoveKeeps ==
    ASSUME BatchInv, NEW i \in DOMAIN calls, calls[i] \in {"running", "backoff"},
           NEW next \in {"running", "backoff"}, calls' = [calls EXCEPT ![i] = next],
           UNCHANGED <<at, mode, results, owed, threw>>
    PROVE  BatchInv'
  <1>1. DOMAIN calls' = DOMAIN calls /\ calls'[i] = next
        /\ \A j \in DOMAIN calls \ {i} : calls'[j] = calls[j]
    OBVIOUS
  <1>2. calls' \in [DOMAIN calls' -> CallStates]
    BY DEF BatchInv, CallStates
  <1>3. Returned' = Returned /\ Outstanding' = Outstanding
    BY <1>1 DEF Returned, Outstanding
  <1>4. \A j \in DOMAIN calls : /\ calls'[j] = "returned" <=> calls[j] = "returned"
                               /\ calls'[j] = "waiting" <=> calls[j] = "waiting"
    BY <1>1
  <1> QED BY <1>1, <1>2, <1>3, <1>4 DEF BatchInv

\* A call returns.
LEMMA ReturnKeeps ==
    ASSUME BatchInv, NEW i \in DOMAIN calls, i \in Outstanding,
           NEW r \in ToolOrPolicyResults, Returns(i, r)
    PROVE  BatchInv'
  <1>1. /\ calls' = [calls EXCEPT ![i] = "returned"] /\ results' = Append(results, r)
        /\ UNCHANGED <<at, mode, owed, threw>>
    BY DEF Returns
  <1>2. /\ DOMAIN calls' = DOMAIN calls /\ calls'[i] = "returned"
        /\ \A j \in DOMAIN calls \ {i} : calls'[j] = calls[j]
    BY <1>1
  <1>3. calls' \in [DOMAIN calls' -> CallStates]
    BY <1>1 DEF BatchInv, CallStates
  <1>4. results' \in Seq(ToolOrPolicyResults) /\ Len(results') = Len(results) + 1
    <2>1. results \in Seq(ToolOrPolicyResults)
      BY DEF BatchInv
    <2> QED BY <1>1, <2>1, AppendProperties
  <1>5. Returned' = Returned \cup {i} /\ i \notin Returned /\ Outstanding' \subseteq Outstanding
    BY <1>2 DEF Returned, Outstanding
  <1>6. Cardinality(Returned') = Cardinality(Returned) + 1
    <2>1. IsFiniteSet(Returned)
      BY FS_Subset DEF BatchInv, Returned
    <2> QED BY <1>5, <2>1, FS_AddElement
  <1>7. at \in {"tools", "done"}
    BY DEF BatchInv, Awaits
  <1>8. \A j \in DOMAIN calls : /\ calls[j] = "returned" => calls'[j] = "returned"
                               /\ calls'[j] = "waiting" <=> calls[j] = "waiting"
    BY <1>2 DEF Outstanding
  <1> QED BY <1>1, <1>2, <1>3, <1>4, <1>5, <1>6, <1>7, <1>8 DEF BatchInv

LEMMA ThrowKeeps ==
    ASSUME BatchInv, NEW i \in DOMAIN calls, ToolThrows(i)
    PROVE  BatchInv'
  <1>1. /\ calls[i] \in {"answered", "running"} /\ calls' = [calls EXCEPT ![i] = "returned"]
        /\ threw' = (threw \/ mode = "parallel") /\ UNCHANGED <<mode, results, owed>>
    BY DEF ToolThrows
  <1>2. at \in {"tools", "done"} /\ at' = "done"
    BY <1>1 DEF BatchInv, Awaits, Outstanding, ToolThrows, Caught, Finish
  <1>3. /\ DOMAIN calls' = DOMAIN calls /\ calls'[i] = "returned"
        /\ \A j \in DOMAIN calls \ {i} : calls'[j] = calls[j]
    BY <1>1
  <1>4. calls' \in [DOMAIN calls' -> CallStates]
    BY <1>1 DEF BatchInv, CallStates
  <1>5. Outstanding' \subseteq Outstanding \ {i}
    BY <1>3 DEF Outstanding
  <1>6. ASSUME NEW j \in Outstanding' PROVE threw'
    <2>1. j \in Outstanding /\ j # i /\ i \in Outstanding /\ j \in DOMAIN calls
      BY <1>1, <1>5 DEF Outstanding
    <2>2. CASE at = "done"
      BY <1>1, <2>1, <2>2 DEF BatchInv
    <2>3. CASE at = "tools" /\ mode = "sequential"
      <3>1. /\ calls[i] \notin {"waiting", "returned"} /\ calls[j] \notin {"waiting", "returned"}
            /\ i \in Nat /\ j \in Nat
        BY <1>1, <2>1 DEF Outstanding, BatchInv
      <3>2. i < j \/ j < i
        BY <2>1, <3>1
      <3> QED BY <2>1, <2>3, <3>1, <3>2 DEF BatchInv
    <2>4. CASE mode # "sequential" /\ at = "tools"
      BY <1>1, <2>4 DEF BatchInv
    <2> QED BY <1>2, <2>2, <2>3, <2>4
  <1> QED BY <1>1, <1>2, <1>3, <1>4, <1>6 DEF BatchInv, Awaits

LEMMA CallsKeep ==
    ASSUME BatchInv, NEW i \in DOMAIN calls, CallStep(i)
    PROVE  BatchInv'
  <1>1. CASE PolicyAnswers(i)
    <2>1. i \in Outstanding
      BY <1>1 DEF PolicyAnswers, Outstanding
    <2> QED BY <1>1, <2>1, ReturnKeeps DEF ToolOrPolicyResults, PolicyAnswers
  <1>2. CASE ToolReturns(i)
    <2>1. i \in Outstanding
      BY <1>2 DEF ToolReturns, Outstanding
    <2> QED BY <1>2, <2>1, ReturnKeeps DEF ToolOrPolicyResults, ToolReturns
  <1>3. CASE BackoffAborted(i)
    <2>1. i \in Outstanding
      BY <1>3 DEF BackoffAborted, Outstanding
    <2>2. [status |-> "retryable", output |-> NoOutput, cost |-> 0] \in ToolResults
      BY ConstantsAssumption DEF ToolResults
    <2> QED BY <1>3, <2>1, <2>2, ReturnKeeps DEF ToolOrPolicyResults, BackoffAborted
  <1>4. CASE ToolFailsRetryably(i)
    BY <1>4, MoveKeeps DEF ToolFailsRetryably
  <1>5. CASE BackoffEnds(i)
    BY <1>5, MoveKeeps DEF BackoffEnds, limits
  <1>6. CASE ToolThrows(i)
    BY <1>6, ThrowKeeps
  <1> QED BY <1>1, <1>2, <1>3, <1>4, <1>5, <1>6 DEF CallStep

\* The end of a batch: the turn is over, or there is a result of every call.
LEMMA BatchEndKeeps ==
    ASSUME BatchInv, BatchCancelled \/ BatchTerminates \/ BatchGoesOn
    PROVE  BatchInv'
  <1>1. at = "tools" /\ BatchIsOver /\ calls' = calls /\ threw' = threw /\ mode' = mode
    BY DEF BatchCancelled, BatchTerminates, BatchGoesOn, batch
  <1>2. Outstanding = {} /\ Outstanding' = Outstanding
    BY <1>1 DEF BatchIsOver, Outstanding
  <1>3. CASE BatchCancelled \/ BatchTerminates
    <2>1. at' = "done" /\ (results' = results \/ results' = <<>>)
      BY <1>3 DEF BatchCancelled, BatchTerminates, Finish, Caught, batch
    <2>2. results' \in Seq(ToolOrPolicyResults)
      BY <2>1, EmptySeq DEF BatchInv
    <2> QED BY <1>1, <1>2, <2>1, <2>2 DEF BatchInv, Awaits
  <1>4. CASE BatchGoesOn
    <2>1. /\ at' = "results" /\ UNCHANGED <<results, owed>> /\ ~aborted
      BY <1>4 DEF BatchGoesOn, GoOn, batch, CancelledInBatch
    <2>2. Returned = DOMAIN calls
      BY <1>1, <2>1 DEF BatchIsOver, Returned
    <2>3. /\ owed = Len(results) /\ owed = Cardinality(DOMAIN calls)
          /\ DOMAIN calls # {} /\ IsFiniteSet(DOMAIN calls)
      BY <1>1, <2>2 DEF BatchInv
    <2>4. results # <<>>
      BY <2>3, FS_EmptySet
    <2> QED BY <1>1, <1>2, <2>1, <2>3, <2>4 DEF BatchInv, Awaits
  <1> QED BY <1>3, <1>4

LEMMA ResultsKeep == ASSUME BatchInv, ProcessResult PROVE BatchInv'
  <1>1. /\ at = "results" /\ results' = Tail(results) /\ owed' = owed - 1
        /\ UNCHANGED <<mode, calls, threw>>
        /\ at' \in {"done", IF Tail(results) = <<>> THEN "top" ELSE "results"}
    BY DEF ProcessResult, LeftAfter, FinishOr, Finish, GoOn
  <1>2. Outstanding = {} /\ Outstanding' = Outstanding
    BY <1>1 DEF Outstanding, BatchInv
  <1>3. /\ results # <<>> /\ owed = Len(results)
        /\ results \in Seq(ToolOrPolicyResults)
    BY <1>1 DEF BatchInv
  <1>4. /\ results' \in Seq(ToolOrPolicyResults) /\ owed' = Len(results')
    BY <1>1, <1>3
  <1>5. results' = <<>> => owed' = 0
    BY <1>4
  <1> QED BY <1>1, <1>2, <1>4, <1>5 DEF BatchInv, Awaits

LEMMA BatchKeeps == ASSUME BatchInv, [Next]_vars PROVE BatchInv'
  <1>1. CASE Abort \/ TimeIsUp \/ UNCHANGED vars
    BY <1>1, FrameKeeps DEF Abort, TimeIsUp, vars, batch
  <1>2. CASE AdapterThrows /\ at = "results"
    <2>1. UNCHANGED <<calls, results, mode>> /\ at' = "done"
      BY <1>2 DEF AdapterThrows, Caught, Finish, batch
    <2>2. Outstanding' = {}
      BY <1>2, <2>1 DEF BatchInv, Outstanding
    <2> QED BY <2>1, <2>2 DEF BatchInv, Awaits
  <1> QED BY <1>1, <1>2, QuietSteps, RequestKeeps, BeginsKeep, CallsKeep, BatchEndKeeps,
             ResultsKeep DEF Next, Turn, ModelStep, BatchStep

-----------------------------------------------------------------------------
(* The turn: an abort *)

AbortInv ==
    /\ ~aborted => abortedAt = "none"
    /\ abortedAt \in {"tool list", "model", "approval", "tools"} =>
            at = abortedAt \/ (at = "done" /\ stopReason = "cancelled")

\* An abort leaves what is awaited as it is.
LEMMA AbortedGoesNowhere ==
    ASSUME BatchInv, AbortInv, UNCHANGED <<aborted, abortedAt>>,
           aborted /\ at \in {"tool list", "model", "approval", "tools"} =>
               UNCHANGED <<at, stopReason>> \/ (at' = "done" /\ stopReason' = "cancelled"),
           at = "done" => UNCHANGED <<at, stopReason>>
    PROVE  AbortInv'
  BY DEF AbortInv

LEMMA AbortKeeps == ASSUME BatchInv, AbortInv, [Next]_vars PROVE AbortInv'
  <1>1. CASE Abort
    <2>1. aborted' /\ abortedAt' = at /\ at' = at
      BY <1>1 DEF Abort
    <2> QED BY <2>1 DEF AbortInv
  <1>2. CASE TimeIsUp \/ UNCHANGED vars
    BY <1>2 DEF TimeIsUp, vars, signal, AbortInv
  <1>3. CASE ToolsListed \/ NextStep \/ ApprovalPrepared
    BY <1>3, AbortedGoesNowhere DEF ToolsListed, NextStep, ApprovalPrepared, Finish, signal
  <1>4. CASE AdapterThrows
    BY <1>4, AbortedGoesNowhere DEF AdapterThrows, Caught, Finish, signal
  <1>5. CASE ModelStep
    BY <1>5, AbortedGoesNowhere DEF ModelStep, ModelCancelled, ModelSettles, ModelAsksApproval,
         ModelInvalid, ModelRefusedTools, ModelRequestsTools, ModelGives, Finish, signal
  <1>6. CASE BeginParallel \/ BeginNext
    <2>1. UNCHANGED <<aborted, abortedAt, at, stopReason>>
      BY <1>6 DEF BeginParallel, BeginNext, Begin, signal
    <2> QED BY <2>1, AbortedGoesNowhere
  <1>7. CASE BatchCancelled \/ BatchTerminates \/ BatchGoesOn
    BY <1>7, AbortedGoesNowhere DEF BatchCancelled, BatchTerminates, BatchGoesOn,
         CancelledInBatch, Finish, signal
  <1>8. CASE ProcessResult
    BY <1>8, AbortedGoesNowhere DEF ProcessResult, signal
  <1>9. ASSUME NEW i \in DOMAIN calls, CallStep(i) PROVE AbortInv'
    <2>1. CASE ToolThrows(i)
      BY <2>1, AbortedGoesNowhere DEF ToolThrows, Caught, Finish, signal
    <2>2. CASE ~ ToolThrows(i)
      <3>1. UNCHANGED <<aborted, abortedAt, at, stopReason>>
        BY <1>9, <2>2 DEF CallStep, PolicyAnswers, ToolReturns, ToolFailsRetryably,
             BackoffAborted, BackoffEnds, Returns, signal
      <3> QED BY <3>1, AbortedGoesNowhere
    <2> QED BY <2>1, <2>2
  <1> QED BY <1>1, <1>2, <1>3, <1>4, <1>5, <1>6, <1>7, <1>8, <1>9 DEF Next, Turn, BatchStep

-----------------------------------------------------------------------------
(* The turn: theorems *)

TurnInv == BatchInv /\ AbortInv

\* The inductive invariant of a turn: every call of a batch that has returned
\* has left a result, and an aborted turn goes nowhere but to its end.
THEOREM TurnAlways == Spec => []TurnInv
  <1>1. Init => TurnInv
    <2>1. ASSUME Init PROVE AbortInv
      <3>1. at = "tool list" /\ abortedAt \in {at, "none"} /\ (~aborted => abortedAt = "none")
        BY <2>1 DEF Init
      <3> QED BY <3>1 DEF AbortInv
    <2> QED BY <2>1, BatchInitOK DEF TurnInv
  <1>2. TurnInv /\ [Next]_vars => TurnInv'
    BY BatchKeeps, AbortKeeps DEF TurnInv
  <1> QED BY <1>1, <1>2, PTL DEF Spec

\* The model never goes on without the results of the calls it requested, for
\* batches of any size (runTurn, executeToolBatch).
THEOREM ModelAlwaysSeesResults == Spec => []ModelSeesResults
  <1>1. TurnInv => ModelSeesResults
    BY DEF TurnInv, BatchInv, ModelSeesResults
  <1> QED BY <1>1, TurnAlways, PTL

\* A turn that is aborted while anything but the handling of a result is awaited
\* ends as cancelled, whatever is still answered or thrown.
THEOREM CancelAlwaysWins == Spec => []CancelWins
  <1>1. TurnInv => CancelWins
    BY DEF TurnInv, AbortInv, CancelWins
  <1> QED BY <1>1, TurnAlways, PTL

\* No tool call is under way once runTurn has returned, unless another one of its
\* parallel batch threw, for batches of any size.
THEOREM NoCallEverOutlivesTurn == Spec => []NoCallOutlivesTurn
  <1>1. TurnInv => NoCallOutlivesTurn
    BY DEF TurnInv, BatchInv, NoCallOutlivesTurn
  <1> QED BY <1>1, TurnAlways, PTL

-----------------------------------------------------------------------------
(* The turn: what results cost *)

\* Two sums that grow alike differ by what they started with.
LEMMA SumsGrowAlike ==
    ASSUME NEW m \in Nat, NEW f, NEW g, \A n \in 0..m : f[n] \in Int /\ g[n] \in Int,
           \A n \in 1..m : f[n] - f[n - 1] = g[n] - g[n - 1]
    PROVE  f[m] - f[0] = g[m] - g[0]
  <1> DEFINE Apart == {n \in 0..m : f[n] - f[0] # g[n] - g[0]}
  <1>1. SUFFICES ASSUME Apart # {} PROVE FALSE
    OBVIOUS
  <1>2. PICK n \in Apart : \A k \in Apart : n <= k
    <2>1. Apart \in SUBSET Nat
      OBVIOUS
    <2> HIDE DEF Apart
    <2> QED BY <1>1, <2>1, NatLeast
  <1>3. n \in 0..m /\ n # 0 /\ f[0] \in Int /\ g[0] \in Int
    OBVIOUS
  <1>4. n - 1 \in 0..m /\ n \in 1..m /\ n - 1 \notin Apart
    BY <1>2, <1>3
  <1>5. f[n - 1] \in Int /\ g[n - 1] \in Int /\ f[n] \in Int /\ g[n] \in Int
    BY <1>3, <1>4
  <1>6. f[n - 1] - f[0] = g[n - 1] - g[0] /\ f[n] - f[n - 1] = g[n] - g[n - 1]
    BY <1>4
  <1>7. f[n] - f[0] = g[n] - g[0]
    BY <1>3, <1>5, <1>6
  <1> QED BY <1>2, <1>7

LEMMA CostOfResult == \A r \in ToolOrPolicyResults : r.cost \in Nat
  BY ConstantsAssumption DEF ToolOrPolicyResults, ToolResults, PolicyResults

\* The total is what one gets by counting on from nothing.
CountsUp(rs, f) ==
    /\ f[0] = 0 /\ \A n \in 0..Len(rs) : f[n] \in Nat
    /\ \A n \in 1..Len(rs) : f[n] = f[n - 1] + rs[n].cost

LEMMA TotalCountsUp ==
    ASSUME NEW rs \in Seq(ToolOrPolicyResults)
    PROVE  \E f : CountsUp(rs, f) /\ TotalCost(rs) = f[Len(rs)]
  <1>1. PICK len : len = Len(rs)
    OBVIOUS
  <1>2. len \in Nat /\ \A n \in 1..len : rs[n].cost \in Nat
    BY <1>1, ElementOfSeq, LenProperties, CostOfResult
  <1>3. PICK add : add = [n \in 1..len |-> [v \in Nat |-> v + rs[n].cost]]
    OBVIOUS
  <1>4. add \in [1..len -> [Nat -> Nat]]
    <2>1. \A n \in 1..len, v \in Nat : v + rs[n].cost \in Nat
      BY <1>2
    <2> QED BY <1>3, <2>1
  <1>5. PICK f \in [0..len -> Nat] :
            f[0] = 0 /\ \A n \in 1..len : f[n] = add[n][f[n - 1]]
    <2>1. PICK none, V : none = 0 /\ V = Nat
      OBVIOUS
    <2>2. len \in Nat /\ add \in [1..len -> [V -> V]] /\ none \in V
      BY <1>2, <1>4, <2>1
    <2>3. \E f \in [0..len -> V] :
              f[0] = none /\ \A n \in 1..len : f[n] = add[n][f[n - 1]]
      BY <2>2, Iterates
    <2> QED BY <2>1, <2>3
  <1>6. \A n \in 0..len : f[n] = IF n = 0 THEN 0 ELSE f[n - 1] + rs[n].cost
    <2>1. ASSUME NEW n \in 0..len, n # 0 PROVE f[n] = f[n - 1] + rs[n].cost
      <3>1. n - 1 \in 0..len /\ n \in 1..len
        BY <1>2, <2>1
      <3>2. f[n - 1] \in Nat /\ f[n] = add[n][f[n - 1]]
        BY <1>5, <2>1, <3>1
      <3> QED BY <1>3, <3>1, <3>2
    <2>2. f[0] = 0
      BY <1>2, <1>5
    <2> QED BY <2>1, <2>2
  <1>7. f = [n \in 0..len |-> IF n = 0 THEN 0 ELSE f[n - 1] + rs[n].cost]
    <2>1. f = [n \in 0..len |-> f[n]]
      OBVIOUS
    <2> QED BY <1>6, <2>1
  <1> DEFINE upto == CHOOSE u : u = [n \in 0..len |->
                                IF n = 0 THEN 0 ELSE u[n - 1] + rs[n].cost]
  <1>8. upto = [n \in 0..len |-> IF n = 0 THEN 0 ELSE upto[n - 1] + rs[n].cost]
    BY <1>7
  <1>9. TotalCost(rs) = upto[len]
    BY <1>1 DEF TotalCost
  <1> HIDE DEF upto
  <1>10. upto[0] = 0 /\ \A n \in 1..len : upto[n] = upto[n - 1] + rs[n].cost
    BY <1>2, <1>8
  <1>11. \A n \in 0..len : upto[n] \in Nat
    <2> DEFINE Bad == {n \in 0..len : upto[n] \notin Nat}
    <2>1. SUFFICES ASSUME Bad # {} PROVE FALSE
      OBVIOUS
    <2>2. PICK n \in Bad : \A k \in Bad : n <= k
      <3>1. Bad \in SUBSET Nat
        BY <1>2
      <3> HIDE DEF Bad
      <3> QED BY <2>1, <3>1, NatLeast
    <2>3. n \in 1..len /\ n - 1 \in 0..len /\ n - 1 \notin Bad
      BY <1>2, <1>10, <2>2
    <2>4. upto[n - 1] \in Nat /\ upto[n] = upto[n - 1] + rs[n].cost /\ rs[n].cost \in Nat
      BY <1>2, <1>10, <2>3
    <2>5. upto[n] \in Nat
      BY <2>4
    <2> QED BY <2>2, <2>5
  <1> QED BY <1>1, <1>9, <1>10, <1>11 DEF CountsUp

LEMMA TotalOfNone == TotalCost(<<>>) = 0
  <1>1. <<>> \in Seq(ToolOrPolicyResults) /\ Len(<<>>) = 0
    BY EmptySeq
  <1>2. PICK rs : rs = <<>>
    OBVIOUS
  <1>3. PICK f : CountsUp(rs, f) /\ TotalCost(rs) = f[Len(rs)]
    BY <1>1, <1>2, TotalCountsUp
  <1> QED BY <1>1, <1>2, <1>3 DEF CountsUp

LEMMA TotalOfAppend ==
    ASSUME NEW rs \in Seq(ToolOrPolicyResults), NEW r \in ToolOrPolicyResults
    PROVE  TotalCost(Append(rs, r)) = TotalCost(rs) + r.cost
  <1>1. PICK t : t = Append(rs, r)
    OBVIOUS
  <1>2. PICK len : len = Len(rs)
    OBVIOUS
  <1>3. /\ t \in Seq(ToolOrPolicyResults) /\ Len(t) = len + 1 /\ t[len + 1] = r
        /\ \A n \in 1..len : t[n] = rs[n]
    BY <1>1, <1>2, AppendProperties
  <1>4. len \in Nat /\ r.cost \in Nat
    BY <1>2, LenProperties, CostOfResult
  <1>5. PICK f : CountsUp(rs, f) /\ TotalCost(rs) = f[len]
    BY <1>2, TotalCountsUp
  <1>6. PICK g : CountsUp(t, g) /\ TotalCost(t) = g[len + 1]
    BY <1>3, TotalCountsUp
  <1>7. /\ \A n \in 0..len : f[n] \in Nat
        /\ \A n \in 1..len : f[n] = f[n - 1] + rs[n].cost
        /\ f[0] = 0
    BY <1>2, <1>5 DEF CountsUp
  <1>8. /\ \A n \in 0..len + 1 : g[n] \in Nat
        /\ \A n \in 1..len + 1 : g[n] = g[n - 1] + t[n].cost
        /\ g[0] = 0
    BY <1>3, <1>6 DEF CountsUp
  <1>9. f[len] - f[0] = g[len] - g[0]
    <2>1. \A n \in 0..len : f[n] \in Int /\ g[n] \in Int
      BY <1>4, <1>7, <1>8
    <2>2. ASSUME NEW n \in 1..len PROVE f[n] - f[n - 1] = g[n] - g[n - 1]
      <3>1. /\ n \in 1..len + 1 /\ n - 1 \in 0..len /\ n \in 0..len
            /\ rs[n] \in ToolOrPolicyResults
        BY <1>2, <1>4, ElementOfSeq
      <3>2. f[n] = f[n - 1] + rs[n].cost /\ g[n] = g[n - 1] + rs[n].cost /\ rs[n].cost \in Nat
        BY <1>3, <1>7, <1>8, <3>1, CostOfResult
      <3>3. f[n - 1] \in Int /\ g[n - 1] \in Int
        BY <2>1, <3>1
      <3> QED BY <3>2, <3>3
    <2> QED BY <1>4, <2>1, <2>2, SumsGrowAlike
  <1>10. g[len + 1] = g[len] + r.cost /\ g[len] \in Nat /\ f[len] \in Nat
    <2>1. len + 1 \in 1..len + 1 /\ len \in 0..len + 1 /\ len \in 0..len /\ (len + 1) - 1 = len
      BY <1>4
    <2>2. g[len + 1] = g[(len + 1) - 1] + t[len + 1].cost
      BY <1>8, <2>1
    <2> QED BY <1>3, <1>7, <1>8, <2>1, <2>2
  <1>11. g[len + 1] = f[len] + r.cost
    BY <1>4, <1>7, <1>8, <1>9, <1>10
  <1> QED BY <1>1, <1>5, <1>6, <1>11

LEMMA TotalOfTail ==
    ASSUME NEW rs \in Seq(ToolOrPolicyResults), rs # <<>>
    PROVE  TotalCost(rs) = Head(rs).cost + TotalCost(Tail(rs)) /\ TotalCost(Tail(rs)) \in Nat
  <1>1. PICK t : t = Tail(rs)
    OBVIOUS
  <1>2. PICK len : len = Len(rs)
    OBVIOUS
  <1>3. /\ t \in Seq(ToolOrPolicyResults) /\ Len(t) = len - 1 /\ Head(rs) = rs[1]
        /\ \A n \in 1..len - 1 : t[n] = rs[n + 1]
    <2>1. Len(t) = len - 1 /\ \A n \in 1..Len(t) : t[n] = rs[n + 1]
      BY <1>1, <1>2, HeadTailProperties
    <2>2. t \in Seq(ToolOrPolicyResults) /\ Head(rs) = rs[1]
      BY <1>1, HeadTailProperties
    <2> QED BY <2>1, <2>2
  <1>4. len \in Nat /\ len # 0
    BY <1>2, LenProperties, EmptySeq
  <1>5. PICK f : CountsUp(rs, f) /\ TotalCost(rs) = f[len]
    BY <1>2, TotalCountsUp
  <1>6. PICK g : CountsUp(t, g) /\ TotalCost(t) = g[len - 1]
    BY <1>3, TotalCountsUp
  <1>7. /\ \A n \in 0..len : f[n] \in Nat
        /\ \A n \in 1..len : f[n] = f[n - 1] + rs[n].cost
        /\ f[0] = 0
    BY <1>2, <1>5 DEF CountsUp
  <1>8. /\ \A n \in 0..len - 1 : g[n] \in Nat
        /\ \A n \in 1..len - 1 : g[n] = g[n - 1] + t[n].cost
        /\ g[0] = 0
    BY <1>3, <1>6 DEF CountsUp
  <1>9. PICK h : h = [n \in 0..len - 1 |-> f[n + 1]]
    OBVIOUS
  <1>10. h[len - 1] = f[len] /\ h[0] = f[1] /\ f[1] = rs[1].cost
    <2>1. 0 \in 0..len - 1 /\ len - 1 \in 0..len - 1 /\ (len - 1) + 1 = len /\ 1 \in 1..len
      BY <1>4
    <2>2. h[len - 1] = f[(len - 1) + 1] /\ h[0] = f[0 + 1]
      BY <1>9, <2>1
    <2>3. f[1] = f[1 - 1] + rs[1].cost /\ rs[1].cost \in Nat
      BY <1>2, <1>7, <2>1, ElementOfSeq, CostOfResult
    <2> QED BY <1>7, <2>1, <2>2, <2>3
  <1>11. h[len - 1] - h[0] = g[len - 1] - g[0]
    <2>1. \A n \in 0..len - 1 : h[n] \in Int /\ g[n] \in Int
      <3>1. \A n \in 0..len - 1 : n + 1 \in 0..len
        BY <1>4
      <3> QED BY <1>7, <1>8, <1>9, <3>1
    <2>2. ASSUME NEW n \in 1..len - 1 PROVE h[n] - h[n - 1] = g[n] - g[n - 1]
      <3>1. /\ n + 1 \in 1..len /\ n - 1 \in 0..len - 1 /\ n \in 0..len - 1
            /\ (n + 1) - 1 = n /\ (n - 1) + 1 = n
        BY <1>4
      <3>2. rs[n + 1].cost \in Nat
        BY <1>2, <3>1, ElementOfSeq, CostOfResult
      <3>3. f[n + 1] = f[n] + rs[n + 1].cost /\ g[n] = g[n - 1] + rs[n + 1].cost
        <4>1. f[n + 1] = f[(n + 1) - 1] + rs[n + 1].cost
          BY <1>7, <3>1
        <4> QED BY <1>3, <1>8, <3>1, <4>1
      <3>4. h[n] = f[n + 1] /\ h[n - 1] = f[n]
        <4>1. h[n - 1] = f[(n - 1) + 1]
          BY <1>9, <3>1
        <4> QED BY <1>9, <3>1, <4>1
      <3>5. h[n - 1] \in Int /\ g[n - 1] \in Int
        BY <2>1, <3>1
      <3> QED BY <3>2, <3>3, <3>4, <3>5
    <2>3. len - 1 \in Nat
      BY <1>4
    <2> QED BY <2>1, <2>2, <2>3, SumsGrowAlike
  <1>12. g[len - 1] \in Nat /\ f[len] \in Nat /\ f[1] \in Nat
    <2>1. len - 1 \in 0..len - 1 /\ len \in 0..len /\ 1 \in 0..len
      BY <1>4
    <2> QED BY <1>7, <1>8, <2>1
  <1>13. f[len] = rs[1].cost + g[len - 1]
    BY <1>8, <1>10, <1>11, <1>12
  <1> QED BY <1>1, <1>3, <1>5, <1>6, <1>12, <1>13

LEMMA TotalIsNat == \A rs \in Seq(ToolOrPolicyResults) : TotalCost(rs) \in Nat
  <1> SUFFICES ASSUME NEW rs \in Seq(ToolOrPolicyResults) PROVE TotalCost(rs) \in Nat
    OBVIOUS
  <1>1. PICK f : CountsUp(rs, f) /\ TotalCost(rs) = f[Len(rs)]
    BY TotalCountsUp
  <1>2. Len(rs) \in 0..Len(rs)
    BY LenProperties
  <1> QED BY <1>1, <1>2 DEF CountsUp

-----------------------------------------------------------------------------
(* The turn: its limits *)

\* What the turn counts.
CountInv ==
    /\ iteration \in Nat /\ invalids \in Nat
    /\ cost \in 0..BudgetLimit
    /\ late \in BOOLEAN /\ aborted \in BOOLEAN /\ threw \in BOOLEAN
    /\ recent \in Seq(Outputs) /\ Len(recent) <= 5
    /\ stopReason \in StopReasons
    /\ owed \in Int /\ unbilled \in Int
    /\ abortedAt \in Awaits \cup {"none"}

Waiting == {i \in DOMAIN calls : calls[i] = "waiting"}

\* What a batch may still do: there is room for all of its calls that wait, and a
\* call that is tried again has been run too few times to be the last.
CallInv ==
    /\ calls \in Seq(CallStates)
    /\ runs \in Seq(Nat) /\ Len(runs) = Len(calls)
    /\ \A i \in DOMAIN calls : /\ runs[i] <= MaxRetries + 1
                               /\ calls[i] = "backoff" => runs[i] <= MaxRetries
    /\ toolCalls \in Nat /\ toolCalls <= MaxToolCalls
    /\ at = "model" => iteration <= MaxIterations /\ toolCalls < MaxToolCalls
    /\ at = "tools" => toolCalls + Cardinality(Waiting) <= MaxToolCalls

\* What has not been paid for yet is in the results.
BillInv == at # "done" => unbilled <= TotalCost(results)

LimitInv == CountInv /\ CallInv /\ BillInv

LEMMA PaidIsInBudget == ASSUME CountInv PROVE \A c \in Nat : Paid(c) \in 0..BudgetLimit
  BY ConstantsAssumption DEF CountInv, Paid

LEMMA LimitsAreReasons ==
    \A i, paid : Limit(i, paid) \in Deferred \cup {"none"}
  BY DEF Limit, Deferred

LEMMA CostsAreNat == Costs \subseteq Nat /\ 0 \in Costs
  BY ConstantsAssumption

LEMMA RemembersFive ==
    ASSUME CountInv, NEW r \in ToolOrPolicyResults
    PROVE  Remember(r) \in Seq(Outputs) /\ Len(Remember(r)) <= 5
  <1>1. recent \in Seq(Outputs) /\ Len(recent) <= 5 /\ Len(recent) \in Nat
    BY LenProperties DEF CountInv
  <1>2. <<>> \in Seq(Outputs) /\ Len(<<>>) = 0
    BY EmptySeq
  <1>3. r.output \in Outputs \cup {NoOutput}
    BY DEF ToolOrPolicyResults, ToolResults, PolicyResults
  <1>4. CASE r.output \in Outputs
    <2>1. PICK s : s = Append(recent, r.output)
      OBVIOUS
    <2>2. s \in Seq(Outputs) /\ Len(s) = Len(recent) + 1
      BY <1>1, <1>4, <2>1, AppendProperties
    <2>3. LastFive(s) \in Seq(Outputs) /\ Len(LastFive(s)) <= 5
      <3>1. CASE Len(s) > 5
        <4>1. Tail(s) \in Seq(Outputs) /\ Len(Tail(s)) = Len(s) - 1
          BY <2>2, <3>1, HeadTailProperties, EmptySeq
        <4> QED BY <1>1, <2>2, <3>1, <4>1 DEF LastFive
      <3>2. CASE ~(Len(s) > 5)
        BY <1>1, <2>2, <3>2 DEF LastFive
      <3> QED BY <3>1, <3>2
    <2> QED BY <1>1, <1>2, <2>1, <2>3 DEF Remember
  <1>5. CASE r.output \notin Outputs
    BY <1>1, <1>2, <1>3, <1>5 DEF Remember
  <1> QED BY <1>4, <1>5

LEMMA LimitsBegin == Init => LimitInv
  <1> SUFFICES ASSUME Init PROVE LimitInv
    OBVIOUS
  <1>1. at = "tool list" /\ calls = <<>> /\ runs = <<>> /\ results = <<>> /\ recent = <<>>
    BY DEF Init
  <1>2. iteration = 0 /\ invalids = 0 /\ cost = 0 /\ toolCalls = 0 /\ owed = 0 /\ unbilled = 0
    BY DEF Init
  <1>3. late \in BOOLEAN /\ aborted \in BOOLEAN /\ threw \in BOOLEAN
    BY DEF Init
  <1>4. stopReason \in StopReasons /\ abortedAt \in Awaits \cup {"none"}
    BY DEF Init, StopReasons, Awaits
  <1>5. /\ <<>> \in Seq(Outputs) /\ <<>> \in Seq(CallStates) /\ <<>> \in Seq(Nat)
        /\ Len(<<>>) = 0 /\ DOMAIN <<>> = {}
    BY EmptySeq
  <1>6. cost \in 0..BudgetLimit /\ toolCalls \in Nat /\ toolCalls <= MaxToolCalls
    BY <1>2, ConstantsAssumption
  <1>7. CountInv
    <2>1. recent \in Seq(Outputs) /\ Len(recent) = 0
      BY <1>1, <1>5
    <2>2. Len(recent) <= 5
      BY <2>1
    <2> QED BY <1>2, <1>3, <1>4, <1>6, <2>1, <2>2 DEF CountInv
  <1>8. CallInv
    <2>1. /\ calls \in Seq(CallStates) /\ runs \in Seq(Nat) /\ Len(runs) = Len(calls)
          /\ DOMAIN calls = {}
      BY <1>1, <1>5
    <2> QED BY <1>1, <1>6, <2>1 DEF CallInv
  <1>9. BillInv
    <2>1. TotalCost(results) = 0
      BY <1>1, TotalOfNone
    <2> QED BY <1>2, <2>1 DEF BillInv
  <1> QED BY <1>7, <1>8, <1>9 DEF LimitInv

LEMMA EndsWithReason ==
    ASSUME CountInv, Caught \/ UNCHANGED stopReason PROVE stopReason' \in StopReasons
  BY DEF CountInv, Caught, Finish, StopReasons

\* What a step leaves of the counters when it neither pays nor remembers anything.
LEMMA CountsStay ==
    ASSUME CountInv, UNCHANGED <<cost, recent, unbilled, signal>>,
           iteration' \in Nat, invalids' \in Nat, late' \in BOOLEAN, threw' \in BOOLEAN,
           owed' \in Int, stopReason' \in StopReasons
    PROVE  CountInv'
  BY DEF CountInv, signal

LEMMA CountsOfLoop ==
    ASSUME CountInv,
           ToolsListed \/ NextStep \/ ModelCancelled \/ ApprovalPrepared \/ AdapterThrows
               \/ BatchCancelled \/ BatchGoesOn
    PROVE  CountInv'
  <1>1. /\ UNCHANGED <<cost, recent, unbilled, signal, invalids, late, threw, owed>>
        /\ iteration' \in {iteration, iteration + 1}
    BY DEF ToolsListed, NextStep, ModelCancelled, ApprovalPrepared, AdapterThrows,
           BatchCancelled, BatchGoesOn, limits
  <1>2. CASE NextStep
    <2>1. PICK limit \in Deferred \cup {"none"} : limit = Limit(iteration + 1, cost)
      BY LimitsAreReasons
    <2>2. stopReason' \in {"cancelled", limit, stopReason}
      BY <1>2, <2>1 DEF NextStep, Finish, FinishOr, GoOn
    <2>3. stopReason' \in StopReasons
      BY <2>1, <2>2 DEF CountInv, StopReasons
    <2> QED BY <1>1, <2>3, CountsStay DEF CountInv
  <1>3. CASE ~NextStep
    <2>1. stopReason' \in {"cancelled", "runtime_error", "approval_required", stopReason}
      BY <1>3 DEF ToolsListed, ModelCancelled, ApprovalPrepared, AdapterThrows,
         BatchCancelled, BatchGoesOn, Finish, GoOn, Caught
    <2>2. stopReason' \in StopReasons
      BY <2>1 DEF CountInv, StopReasons
    <2> QED BY <1>1, <2>2, CountsStay DEF CountInv
  <1> QED BY <1>2, <1>3

LEMMA CountsOfModel ==
    ASSUME CountInv,
           ModelSettles \/ ModelAsksApproval \/ ModelInvalid \/ ModelRefusedTools
               \/ ModelRequestsTools
    PROVE  CountInv'
  <1>1. PICK c \in Costs : ModelGives(c)
    BY DEF ModelSettles, ModelAsksApproval, ModelInvalid, ModelRefusedTools, ModelRequestsTools
  <1>2. /\ UNCHANGED <<iteration, late, aborted, abortedAt, recent, unbilled, threw>>
        /\ cost' \in 0..BudgetLimit
    BY <1>1, CostsAreNat, PaidIsInBudget DEF ModelGives, signal
  <1>3. invalids' \in {invalids, invalids + 1}
    BY DEF ModelSettles, ModelAsksApproval, ModelInvalid, ModelRefusedTools, ModelRequestsTools
  <1>4. owed' \in Int
    <2>1. CASE ModelRequestsTools
      <3>1. PICK n \in 1..MaxBatch : owed' = owed + n
        BY <2>1 DEF ModelRequestsTools
      <3> QED BY <3>1 DEF CountInv
    <2>2. CASE ~ModelRequestsTools
      BY <2>2 DEF ModelSettles, ModelAsksApproval, ModelInvalid, ModelRefusedTools, CountInv
    <2> QED BY <2>1, <2>2
  <1>5. stopReason' \in StopReasons
    <2>1. CASE ModelInvalid
      <3>1. PICK b \in Costs : stopReason' \in {"model_invalid_response", stopReason,
                                                Limit(iteration, Paid(b))}
        BY <2>1 DEF ModelInvalid, Finish, FinishOr, GoOn
      <3>2. PICK limit \in Deferred \cup {"none"} : limit = Limit(iteration, Paid(b))
        BY LimitsAreReasons
      <3> QED BY <3>1, <3>2 DEF CountInv, StopReasons
    <2>2. CASE ~ModelInvalid
      <3>1. stopReason' \in {"answer_finalized", "evidence_density_violation",
                             "clarification_required", "model_refused", "tool_unavailable",
                             "max_tool_calls_reached", stopReason}
        BY <2>2 DEF ModelSettles, ModelAsksApproval, ModelRefusedTools, ModelRequestsTools,
           Finish, GoOn
      <3> QED BY <3>1 DEF CountInv, StopReasons, Deferred
    <2> QED BY <2>1, <2>2
  <1> QED BY <1>2, <1>3, <1>4, <1>5 DEF CountInv

LEMMA CountsOfCalls ==
    ASSUME CountInv,
           BeginParallel \/ BeginNext \/ \E i \in DOMAIN calls : CallStep(i)
    PROVE  CountInv'
  <1>1. CASE BeginParallel \/ BeginNext
    BY <1>1 DEF BeginParallel, BeginNext, Begin, CountInv, signal
  <1>2. ASSUME NEW i \in DOMAIN calls, PolicyAnswers(i) \/ BackoffAborted(i) \/ BackoffEnds(i)
        PROVE  CountInv'
    BY <1>2 DEF PolicyAnswers, BackoffAborted, BackoffEnds, Returns, CountInv, limits, signal
  <1>3. ASSUME NEW i \in DOMAIN calls, ToolReturns(i) PROVE CountInv'
    <2>1. PICK r \in ToolResults : Returns(i, r) /\ unbilled' = unbilled + r.cost
      BY <1>3 DEF ToolReturns
    <2>2. r.cost \in Nat
      BY CostOfResult DEF ToolOrPolicyResults
    <2>3. unbilled' \in Int
      BY <2>1, <2>2 DEF CountInv
    <2> QED BY <2>1, <2>3 DEF Returns, CountInv, limits, signal
  <1>4. ASSUME NEW i \in DOMAIN calls, ToolFailsRetryably(i) PROVE CountInv'
    <2>1. cost' \in 0..BudgetLimit
      BY <1>4, CostsAreNat, PaidIsInBudget DEF ToolFailsRetryably
    <2> QED BY <1>4, <2>1 DEF ToolFailsRetryably, CountInv, signal
  <1>5. ASSUME NEW i \in DOMAIN calls, ToolThrows(i) PROVE CountInv'
    <2>1. stopReason' \in StopReasons
      BY <1>5, EndsWithReason DEF ToolThrows
    <2>2. threw' \in BOOLEAN
      BY <1>5 DEF ToolThrows
    <2>3. UNCHANGED <<iteration, invalids, cost, late, aborted, recent, owed, unbilled, abortedAt>>
      BY <1>5 DEF ToolThrows, limits, signal
    <2> QED BY <2>1, <2>2, <2>3 DEF CountInv
  <1> QED BY <1>1, <1>2, <1>3, <1>4, <1>5 DEF CallStep

LEMMA CountsOfResults ==
    ASSUME BatchInv, CountInv, BatchTerminates \/ ProcessResult
    PROVE  CountInv'
  <1>1. results \in Seq(ToolOrPolicyResults)
    BY DEF BatchInv
  <1>2. CASE BatchTerminates
    <2>1. TotalCost(results) \in Nat /\ Len(results) \in Nat
      BY <1>1, TotalIsNat, LenProperties
    <2>2. cost' \in 0..BudgetLimit /\ unbilled' \in Int /\ owed' \in Int
      <3>1. cost' = Paid(TotalCost(results))
        BY <1>2 DEF BatchTerminates
      <3>2. unbilled' = unbilled - TotalCost(results) /\ owed' = owed - Len(results)
        BY <1>2 DEF BatchTerminates
      <3>3. cost' \in 0..BudgetLimit
        BY <2>1, <3>1, PaidIsInBudget
      <3>4. unbilled' \in Int /\ owed' \in Int
        BY <2>1, <3>2 DEF CountInv
      <3> QED BY <3>3, <3>4
    <2>3. UNCHANGED <<iteration, invalids, late, aborted, abortedAt, recent, threw>>
      BY <1>2 DEF BatchTerminates, signal
    <2>4. stopReason' \in StopReasons
      BY <1>2 DEF BatchTerminates, Caught, Finish, StopReasons
    <2> QED BY <2>2, <2>3, <2>4 DEF CountInv
  <1>3. CASE ProcessResult
    <2>1. PICK r : r = Head(results)
      OBVIOUS
    <2>2. r \in ToolOrPolicyResults /\ r.cost \in Nat
      <3>1. results # <<>>
        BY <1>3 DEF ProcessResult, BatchInv
      <3> QED BY <1>1, <2>1, <3>1, HeadTailProperties, CostOfResult
    <2>3. cost' \in 0..BudgetLimit /\ unbilled' \in Int /\ owed' \in Int /\ invalids' \in Nat
      <3>1. cost' = Paid(r.cost)
        BY <1>3, <2>1 DEF ProcessResult, Billed
      <3>2. /\ unbilled' = unbilled - r.cost /\ owed' = owed - 1
            /\ invalids' \in {0, invalids}
        BY <1>3, <2>1 DEF ProcessResult, Billed
      <3>3. cost' \in 0..BudgetLimit
        BY <2>2, <3>1, PaidIsInBudget
      <3>4. unbilled' \in Int /\ owed' \in Int /\ invalids' \in Nat
        BY <2>2, <3>2 DEF CountInv
      <3> QED BY <3>3, <3>4
    <2>4. UNCHANGED <<iteration, late, aborted, abortedAt, threw>>
      BY <1>3 DEF ProcessResult, signal
    <2>5. recent' \in Seq(Outputs) /\ Len(recent') <= 5
      <3>1. recent' = recent \/ recent' = Remember(r)
        BY <1>3, <2>1 DEF ProcessResult
      <3> QED BY <2>2, <3>1, RemembersFive DEF CountInv
    <2>6. stopReason' \in StopReasons
      <3>1. PICK clarified : FinishOr(Ending(r, clarified),
                                      IF LeftAfter = <<>> THEN "top" ELSE "results")
        BY <1>3, <2>1 DEF ProcessResult
      <3>2. PICK limit \in Deferred \cup {"none"} : limit = Limit(iteration, Paid(Billed(r)))
        BY LimitsAreReasons
      <3>3. Ending(r, clarified) \in {limit, "clarification_required",
                                      "tool_error_unrecoverable", "redundant_tool_loop"}
        BY <3>2 DEF Ending
      <3>4. stopReason' \in {stopReason, Ending(r, clarified)}
        BY <3>1 DEF FinishOr, Finish, GoOn
      <3> QED BY <3>2, <3>3, <3>4 DEF CountInv, StopReasons
    <2> QED BY <2>3, <2>4, <2>5, <2>6 DEF CountInv
  <1> QED BY <1>2, <1>3

LEMMA CountsKeep == ASSUME BatchInv, CountInv, [Next]_vars PROVE CountInv'
  <1>1. CASE UNCHANGED vars
    BY <1>1 DEF vars, CountInv
  <1>2. CASE TimeIsUp
    BY <1>2 DEF TimeIsUp, CountInv, signal
  <1>3. CASE Abort
    BY <1>3 DEF Abort, CountInv, BatchInv, limits
  <1> QED BY <1>1, <1>2, <1>3, CountsOfLoop, CountsOfModel, CountsOfCalls, CountsOfResults
          DEF Next, Turn, ModelStep, BatchStep

\* The calls stay as they are, and nothing more is asked for than there is room for.
LEMMA CallsStay ==
    ASSUME CallInv, UNCHANGED <<calls, runs, toolCalls>>,
           at' = "model" => iteration' <= MaxIterations /\ toolCalls < MaxToolCalls,
           at' = "tools" => at = "tools"
    PROVE  CallInv'
  <1>1. Waiting' = Waiting
    BY DEF Waiting
  <1> QED BY <1>1 DEF CallInv

LEMMA CallsStayInLoop ==
    ASSUME CallInv,
           \/ ToolsListed \/ ModelCancelled \/ ModelSettles \/ ModelAsksApproval \/ ModelInvalid
           \/ ModelRefusedTools \/ ApprovalPrepared \/ AdapterThrows \/ BatchCancelled
           \/ BatchTerminates \/ BatchGoesOn \/ ProcessResult
    PROVE  CallInv'
  <1>1. UNCHANGED <<calls, runs, toolCalls>>
    BY DEF ToolsListed, ModelCancelled, ModelSettles, ModelAsksApproval, ModelInvalid,
       ModelRefusedTools, ApprovalPrepared, AdapterThrows, BatchCancelled, BatchTerminates,
       BatchGoesOn, ProcessResult, ModelGives, limits, batch
  <1>2. at' \in {"done", "top", "approval", "results"}
    BY DEF ToolsListed, ModelCancelled, ModelSettles, ModelAsksApproval, ModelInvalid,
       ModelRefusedTools, ApprovalPrepared, AdapterThrows, BatchCancelled, BatchTerminates,
       BatchGoesOn, ProcessResult, Finish, GoOn, FinishOr, Caught
  <1> QED BY <1>1, <1>2, CallsStay

LEMMA StepIsAllowed == ASSUME CallInv, CountInv, NextStep PROVE CallInv'
  <1>1. /\ UNCHANGED <<calls, runs, toolCalls>> /\ iteration' = iteration + 1
        /\ at' \in {"done", "model"}
        /\ at' = "model" => Limit(iteration + 1, cost) = "none"
    BY DEF NextStep, Finish, FinishOr, GoOn, batch
  <1>2. Limit(iteration + 1, cost) = "none" =>
            ~(iteration + 1 > MaxIterations) /\ ~(toolCalls >= MaxToolCalls)
    BY DEF Limit
  <1>3. at' = "model" => iteration' <= MaxIterations /\ toolCalls < MaxToolCalls
    BY <1>1, <1>2, ConstantsAssumption DEF CallInv, CountInv
  <1> QED BY <1>1, <1>3, CallsStay

LEMMA RequestIsAffordable == ASSUME CallInv, ModelRequestsTools PROVE CallInv'
  <1>1. PICK n \in 1..MaxBatch :
            /\ toolCalls + n <= MaxToolCalls
            /\ calls' = [i \in 1..n |-> "waiting"] /\ runs' = [i \in 1..n |-> 0]
            /\ at' = "tools" /\ toolCalls' = toolCalls
    BY DEF ModelRequestsTools, ModelGives, GoOn, Affordable
  <1>2. n \in Nat /\ MaxRetries \in Nat
    BY ConstantsAssumption
  <1>3. /\ calls' \in Seq(CallStates) /\ runs' \in Seq(Nat)
        /\ Len(runs') = n /\ Len(calls') = n /\ DOMAIN calls' = 1..n
    BY <1>1, <1>2 DEF CallStates
  <1>4. \A i \in 1..n : runs'[i] = 0 /\ calls'[i] = "waiting"
    BY <1>1
  <1>5. Waiting' = 1..n
    BY <1>3, <1>4 DEF Waiting
  <1>6. Cardinality(1..n) = n
    BY <1>2, FS_Interval
  <1> QED BY <1>1, <1>2, <1>3, <1>4, <1>5, <1>6 DEF CallInv

\* Calls begin only within the room that was kept for them.
LEMMA BeginsWithinLimit == ASSUME BatchInv, CallInv, BeginParallel \/ BeginNext PROVE CallInv'
  <1>1. PICK allowed, begun :
            /\ Begin(allowed, begun) /\ at = "tools" /\ allowed \subseteq begun
            /\ begun \subseteq Waiting
    <2>1. CASE BeginParallel
      <3>1. PICK allowed \in SUBSET DOMAIN calls : Begin(allowed, DOMAIN calls)
        BY <2>1 DEF BeginParallel
      <3> QED BY <2>1, <3>1 DEF BeginParallel, Waiting
    <2>2. CASE BeginNext
      <3>1. PICK i \in DOMAIN calls :
                calls[i] = "waiting" /\ \E allowed \in SUBSET {i} : Begin(allowed, {i})
        BY <2>2 DEF BeginNext
      <3> QED BY <2>2, <3>1 DEF BeginNext, Waiting
    <2> QED BY <2>1, <2>2
  <1>2. /\ calls' = [i \in DOMAIN calls |-> IF i \notin begun THEN calls[i]
                                            ELSE IF i \in allowed THEN "running" ELSE "answered"]
        /\ runs' = [i \in DOMAIN calls |-> IF i \in allowed THEN 1 ELSE runs[i]]
        /\ toolCalls' = toolCalls + Cardinality(allowed) /\ at' = at
    BY <1>1 DEF Begin
  <1>3. PICK len : len = Len(calls)
    OBVIOUS
  <1>4. /\ DOMAIN calls = 1..len /\ DOMAIN runs = 1..len /\ len \in Nat
        /\ \A i \in 1..len : calls[i] \in CallStates /\ runs[i] \in Nat
    BY <1>3, LenProperties, ElementOfSeq DEF CallInv
  <1>5. /\ calls' \in Seq(CallStates) /\ runs' \in Seq(Nat) /\ Len(runs') = len
        /\ Len(calls') = len /\ DOMAIN calls' = 1..len
    BY <1>2, <1>4 DEF CallStates
  <1>6. ASSUME NEW i \in 1..len
        PROVE  runs'[i] <= MaxRetries + 1 /\ (calls'[i] = "backoff" => runs'[i] <= MaxRetries)
    <2>1. /\ runs'[i] = IF i \in allowed THEN 1 ELSE runs[i]
          /\ calls'[i] = "backoff" => i \notin begun /\ calls[i] = "backoff"
      BY <1>2, <1>4
    <2> QED BY <1>1, <1>4, <2>1, ConstantsAssumption DEF CallInv
  <1>7. Waiting' = Waiting \ begun
    <2>1. \A i \in 1..len : calls'[i] = "waiting" <=> i \notin begun /\ calls[i] = "waiting"
      BY <1>2, <1>4
    <2> QED BY <1>4, <1>5, <2>1 DEF Waiting
  <1>8. /\ Cardinality(allowed) \in Nat /\ Cardinality(Waiting') \in Nat
        /\ Cardinality(allowed) + Cardinality(Waiting') <= Cardinality(Waiting)
        /\ Cardinality(Waiting) \in Nat
    <2>1. IsFiniteSet(Waiting)
      BY FS_Subset DEF BatchInv, Waiting
    <2>2. IsFiniteSet(begun) /\ IsFiniteSet(allowed) /\ Cardinality(allowed) <= Cardinality(begun)
      BY <1>1, <2>1, FS_Subset
    <2>3. Waiting \cap begun = begun
      BY <1>1
    <2>4. /\ IsFiniteSet(Waiting')
          /\ Cardinality(Waiting') = Cardinality(Waiting) - Cardinality(begun)
      BY <1>7, <2>1, <2>3, FS_Difference
    <2>5. /\ Cardinality(allowed) \in Nat /\ Cardinality(begun) \in Nat
          /\ Cardinality(Waiting) \in Nat /\ Cardinality(Waiting') \in Nat
      BY <2>1, <2>2, <2>4, FS_CardinalityType
    <2> QED BY <2>2, <2>4, <2>5
  <1>9. /\ toolCalls' \in Nat /\ toolCalls' + Cardinality(Waiting') <= MaxToolCalls
        /\ toolCalls' <= MaxToolCalls
    <2>1. toolCalls \in Nat /\ toolCalls + Cardinality(Waiting) <= MaxToolCalls
      BY <1>1 DEF CallInv
    <2>2. MaxToolCalls \in Nat
      BY ConstantsAssumption
    <2> QED BY <1>2, <1>8, <2>1, <2>2
  <1> QED BY <1>1, <1>2, <1>5, <1>6, <1>9 DEF CallInv

\* A call that has begun goes on or returns.
LEMMA CallMoves ==
    ASSUME CallInv, NEW i \in DOMAIN calls, calls[i] # "waiting",
           NEW next \in CallStates \ {"waiting"}, NEW tries \in Nat,
           calls' = [calls EXCEPT ![i] = next], runs' = [runs EXCEPT ![i] = tries],
           UNCHANGED <<toolCalls, iteration>>, at' \in {at, "done"},
           tries <= MaxRetries + 1, next = "backoff" => tries <= MaxRetries
    PROVE  CallInv'
  <1>1. PICK len : len = Len(calls)
    OBVIOUS
  <1>2. DOMAIN calls = 1..len /\ DOMAIN runs = 1..len /\ len \in Nat
    BY <1>1, LenProperties DEF CallInv
  <1>3. /\ calls' \in Seq(CallStates) /\ runs' \in Seq(Nat)
        /\ Len(runs') = len /\ Len(calls') = len /\ DOMAIN calls' = 1..len
    <2>1. calls \in Seq(CallStates) /\ runs \in Seq(Nat)
      BY DEF CallInv
    <2> QED BY <1>1, <1>2, <2>1, ExceptSeq
  <1>4. /\ calls'[i] = next /\ runs'[i] = tries
        /\ \A j \in 1..len : j # i => calls'[j] = calls[j] /\ runs'[j] = runs[j]
    BY <1>2
  <1>5. Waiting' = Waiting
    BY <1>2, <1>3, <1>4 DEF Waiting
  <1>6. \A j \in 1..len : /\ runs'[j] <= MaxRetries + 1
                         /\ calls'[j] = "backoff" => runs'[j] <= MaxRetries
    BY <1>2, <1>4 DEF CallInv
  <1> QED BY <1>3, <1>5, <1>6 DEF CallInv

LEMMA CallsKeepLimit ==
    ASSUME CallInv, NEW i \in DOMAIN calls, CallStep(i)
    PROVE  CallInv'
  <1>1. /\ runs[i] \in Nat /\ runs[i] <= MaxRetries + 1 /\ MaxRetries \in Nat
        /\ runs = [runs EXCEPT ![i] = runs[i]]
    <2>1. i \in 1..Len(runs)
      BY LenProperties DEF CallInv
    <2>2. runs[i] \in Nat /\ runs = [runs EXCEPT ![i] = runs[i]]
      BY <2>1, ElementOfSeq DEF CallInv
    <2> QED BY <2>2, ConstantsAssumption DEF CallInv
  <1>2. CASE PolicyAnswers(i) \/ ToolReturns(i) \/ BackoffAborted(i) \/ ToolThrows(i)
    <2>1. /\ calls' = [calls EXCEPT ![i] = "returned"] /\ calls[i] # "waiting"
          /\ runs' = runs /\ UNCHANGED <<toolCalls, iteration>> /\ at' \in {at, "done"}
      BY <1>2 DEF PolicyAnswers, ToolReturns, BackoffAborted, ToolThrows, Returns, Caught, Finish,
         limits
    <2>2. "returned" \in CallStates \ {"waiting"}
      BY DEF CallStates
    <2> QED BY <1>1, <2>1, <2>2, CallMoves
  <1>3. CASE ToolFailsRetryably(i)
    <2>1. /\ calls' = [calls EXCEPT ![i] = "backoff"] /\ calls[i] # "waiting"
          /\ runs' = runs /\ UNCHANGED <<toolCalls, iteration>> /\ at' = at
          /\ runs[i] <= MaxRetries
      BY <1>3 DEF ToolFailsRetryably, Retriable
    <2>2. "backoff" \in CallStates \ {"waiting"}
      BY DEF CallStates
    <2> QED BY <1>1, <2>1, <2>2, CallMoves
  <1>4. CASE BackoffEnds(i)
    <2>1. /\ calls' = [calls EXCEPT ![i] = "running"] /\ calls[i] = "backoff"
          /\ runs' = [runs EXCEPT ![i] = runs[i] + 1]
          /\ UNCHANGED <<toolCalls, iteration>> /\ at' = at
      BY <1>4 DEF BackoffEnds, Retried, limits
    <2>2. runs[i] + 1 \in Nat /\ runs[i] + 1 <= MaxRetries + 1
      BY <1>1, <2>1 DEF CallInv
    <2>3. "running" \in CallStates \ {"waiting"}
      BY DEF CallStates
    <2> QED BY <2>1, <2>2, <2>3, CallMoves
  <1> QED BY <1>2, <1>3, <1>4 DEF CallStep

LEMMA CallInvKeeps ==
    ASSUME BatchInv, CountInv, CallInv, [Next]_vars PROVE CallInv'
  <1>1. CASE Abort \/ TimeIsUp \/ UNCHANGED vars
    <2>1. UNCHANGED <<calls, runs, toolCalls, iteration, at>>
      BY <1>1 DEF Abort, TimeIsUp, vars, limits, batch
    <2> QED BY <2>1, CallsStay DEF CallInv
  <1> QED BY <1>1, CallsStayInLoop, StepIsAllowed, RequestIsAffordable, BeginsWithinLimit,
             CallsKeepLimit DEF Next, Turn, ModelStep, BatchStep

-----------------------------------------------------------------------------
(* The turn: its bill *)

LEMMA BillStays ==
    ASSUME BillInv, UNCHANGED <<results, unbilled>>, at = "done" => at' = "done"
    PROVE  BillInv'
  BY DEF BillInv

LEMMA BillOfReturn ==
    ASSUME BatchInv, CountInv, BillInv, NEW i, NEW r \in ToolOrPolicyResults, Returns(i, r),
           unbilled' \in {unbilled, unbilled + r.cost}
    PROVE  BillInv'
  <1>1. results' = Append(results, r) /\ at' = at
    BY DEF Returns
  <1>2. results \in Seq(ToolOrPolicyResults) /\ unbilled \in Int
    BY DEF BatchInv, CountInv
  <1>3. /\ TotalCost(results') = TotalCost(results) + r.cost
        /\ TotalCost(results) \in Nat /\ r.cost \in Nat
    BY <1>1, <1>2, TotalOfAppend, TotalIsNat, CostOfResult
  <1> QED BY <1>1, <1>2, <1>3 DEF BillInv

LEMMA BillOfResult ==
    ASSUME BatchInv, CountInv, BillInv, ProcessResult
    PROVE  BillInv'
  <1>1. /\ results' = Tail(results) /\ unbilled' = unbilled - Head(results).cost
        /\ at = "results"
    BY DEF ProcessResult, LeftAfter, Billed
  <1>2. results \in Seq(ToolOrPolicyResults) /\ results # <<>> /\ unbilled \in Int
    BY <1>1 DEF BatchInv, CountInv
  <1>3. /\ TotalCost(results) = Head(results).cost + TotalCost(results')
        /\ TotalCost(results') \in Nat /\ Head(results).cost \in Nat
    <2>1. Head(results) \in ToolOrPolicyResults
      BY <1>2, HeadTailProperties
    <2> QED BY <1>1, <1>2, <2>1, TotalOfTail, CostOfResult
  <1> QED BY <1>1, <1>2, <1>3 DEF BillInv

LEMMA BillKeeps ==
    ASSUME BatchInv, CountInv, BillInv, [Next]_vars PROVE BillInv'
  <1>1. CASE BatchTerminates
    <2>1. at' = "done"
      BY <1>1 DEF BatchTerminates, Caught, Finish
    <2> QED BY <2>1 DEF BillInv
  <1>2. ASSUME NEW i \in DOMAIN calls, CallStep(i) PROVE BillInv'
    <2>1. CASE PolicyAnswers(i)
      <3>1. PICK r \in PolicyResults : Returns(i, r)
        BY <2>1 DEF PolicyAnswers
      <3>2. unbilled' = unbilled /\ r \in ToolOrPolicyResults
        BY <2>1 DEF PolicyAnswers, ToolOrPolicyResults
      <3> QED BY <3>1, <3>2, BillOfReturn
    <2>2. CASE ToolReturns(i)
      <3>1. PICK r \in ToolResults : Returns(i, r) /\ unbilled' = unbilled + r.cost
        BY <2>2 DEF ToolReturns
      <3>2. r \in ToolOrPolicyResults
        BY DEF ToolOrPolicyResults
      <3> QED BY <3>1, <3>2, BillOfReturn
    <2>3. CASE BackoffAborted(i)
      <3>1. PICK r : r = [status |-> "retryable", output |-> NoOutput, cost |-> 0]
        OBVIOUS
      <3>2. r \in ToolOrPolicyResults
        BY <3>1, CostsAreNat DEF ToolOrPolicyResults, ToolResults
      <3>3. Returns(i, r) /\ unbilled' = unbilled
        BY <2>3, <3>1 DEF BackoffAborted
      <3> QED BY <3>2, <3>3, BillOfReturn
    <2>4. CASE ToolFailsRetryably(i) \/ BackoffEnds(i)
      BY <2>4, BillStays DEF ToolFailsRetryably, BackoffEnds
    <2>5. CASE ToolThrows(i)
      BY <2>5, BillStays DEF ToolThrows, Caught, Finish
    <2> QED BY <1>2, <2>1, <2>2, <2>3, <2>4, <2>5 DEF CallStep
  <1>3. CASE UNCHANGED vars \/ Abort \/ TimeIsUp
    BY <1>3, BillStays DEF vars, Abort, TimeIsUp, batch
  <1>4. CASE ModelStep
    <2>1. UNCHANGED <<results, unbilled>> /\ at = "model"
      BY <1>4 DEF ModelStep, ModelCancelled, ModelSettles, ModelAsksApproval, ModelInvalid,
         ModelRefusedTools, ModelRequestsTools, ModelGives, batch
    <2> QED BY <2>1, BillStays
  <1>5. CASE ToolsListed \/ NextStep \/ ApprovalPrepared \/ AdapterThrows
             \/ BeginParallel \/ BeginNext \/ BatchCancelled \/ BatchGoesOn
    <2>1. UNCHANGED <<results, unbilled>> /\ at # "done"
      BY <1>5 DEF ToolsListed, NextStep, ApprovalPrepared, AdapterThrows, BeginParallel,
         BeginNext, Begin, BatchCancelled, BatchGoesOn, batch
    <2> QED BY <2>1, BillStays
  <1> QED BY <1>1, <1>2, <1>3, <1>4, <1>5, BillOfResult DEF Next, Turn, BatchStep

LEMMA LimitsAlways == Spec => []LimitInv
  <1>1. TurnInv /\ LimitInv /\ [Next]_vars => LimitInv'
    BY CountsKeep, CallInvKeeps, BillKeeps DEF TurnInv, LimitInv
  <1> QED BY <1>1, LimitsBegin, TurnAlways, PTL DEF Spec

\* No tool call is begun beyond maxToolCalls or executed more than maxRetries times
\* over, the model is never asked once more than maxIterations allows, and all that
\* tools have cost is counted in before it is asked again, whatever the limits and
\* however the calls of a batch overlap (checkLimits, executeToolBatch,
\* executeToolWithRetry, processToolResult).
THEOREM LimitsAlwaysHold == Spec => []LimitsHold
  <1>1. TurnInv /\ LimitInv => LimitsHold
    <2> SUFFICES ASSUME TurnInv, LimitInv PROVE LimitsHold
      OBVIOUS
    <2>1. TypeOK
      BY DEF TurnInv, LimitInv, BatchInv, CountInv, CallInv, TypeOK, ToolOrPolicyResults
    <2>2. \A i \in DOMAIN runs : runs[i] <= MaxRetries + 1
      <3>1. DOMAIN runs = DOMAIN calls
        BY LenProperties DEF LimitInv, CallInv
      <3> QED BY <3>1 DEF LimitInv, CallInv
    <2>3. at \in {"top", "model"} => unbilled <= 0
      <3>1. at \in {"top", "model"} => results = <<>>
        BY DEF TurnInv, BatchInv
      <3> QED BY <3>1, TotalOfNone DEF LimitInv, BillInv
    <2> QED BY <2>1, <2>2, <2>3 DEF LimitInv, CallInv, LimitsHold
  <1> QED BY <1>1, TurnAlways, LimitsAlways, PTL

-----------------------------------------------------------------------------
(* The idempotency guard *)

Answers == {"new", "running", "ok", "error"} \cup ByGuard
CacheIds == 1..Cardinality(ToolCalls)
TurnCaches == GuardTurns \X CacheIds
Begun == {k \in ToolCalls : answer[k] # "new"}

GuardTypes ==
    /\ asks \in [ToolCalls -> GuardTurns \X ToolInputs]
    /\ answer \in [ToolCalls -> Answers]
    /\ turnCaches \in Seq(TurnCaches) /\ IsInjective(turnCaches)
    /\ entry \in [CacheIds -> [ToolInputs -> Nat \cup {Forgotten}]]
    /\ cacheOf \in [ToolCalls -> Nat]
    /\ caches \in Nat /\ caches <= Cardinality(Begun)
    /\ succeeded \in [ToolCalls -> SUBSET ToolCalls]

\* A set of turns with their caches, no two with one turn or one cache.
Separate(cs) == \A p, q \in cs : p[1] = q[1] \/ p[2] = q[2] => p = q

\* The caches in use belong to turns, and the calls that hold one are of its turn;
\* who was not pushed out holds the cache that its turn uses.
Owned(cs) ==
    /\ Separate(cs)
    /\ \A p \in cs : p[2] \in 1..caches
    /\ \A k \in Begun : cacheOf[k] \in 1..caches
    /\ \A p \in cs, k \in Begun : cacheOf[k] = p[2] => GuardTurn(k) = p[1]
    /\ \A k \in Begun \ pushedOut : <<GuardTurn(k), cacheOf[k]>> \in cs

\* A cache remembers the inputs of the calls that hold it and have succeeded.
Remembers(c, i) == \E j \in ToolCalls : answer[j] = "ok" /\ cacheOf[j] = c /\ Input(j) = i
Recalls == \A c \in CacheIds, i \in ToolInputs : entry[c][i] # Forgotten <=> Remembers(c, i)

GuardInv == GuardTypes /\ Owned(ToSet(turnCaches)) /\ Recalls /\ RepeatsAreBlocked

LEMMA BegunFacts ==
    /\ IsFiniteSet(Begun) /\ Cardinality(Begun) \in Nat /\ Cardinality(ToolCalls) \in Nat
    /\ Cardinality(Begun) <= Cardinality(ToolCalls)
    /\ \A k \in ToolCalls \ Begun :
          /\ Cardinality(Begun \cup {k}) = Cardinality(Begun) + 1
          /\ Cardinality(Begun \cup {k}) <= Cardinality(ToolCalls)
  <1>1. IsFiniteSet(ToolCalls) /\ Begun \subseteq ToolCalls
    BY GuardConstants DEF Begun
  <1>2. /\ IsFiniteSet(Begun) /\ Cardinality(Begun) \in Nat /\ Cardinality(ToolCalls) \in Nat
        /\ Cardinality(Begun) <= Cardinality(ToolCalls)
    BY <1>1, FS_Subset, FS_CardinalityType
  <1>3. ASSUME NEW k \in ToolCalls \ Begun
        PROVE  /\ Cardinality(Begun \cup {k}) = Cardinality(Begun) + 1
               /\ Cardinality(Begun \cup {k}) <= Cardinality(ToolCalls)
    <2>1. Cardinality(Begun \cup {k}) = Cardinality(Begun) + 1
      BY <1>2, FS_AddElement
    <2>2. Begun \cup {k} \in SUBSET ToolCalls
      BY <1>1
    <2>3. Cardinality(Begun \cup {k}) <= Cardinality(ToolCalls)
      BY <1>1, <2>2, FS_Subset
    <2> QED BY <2>1, <2>3
  <1> QED BY <1>2, <1>3

LEMMA GuardStart == GuardInit => GuardInv
  <1> SUFFICES ASSUME GuardInit PROVE GuardInv
    OBVIOUS
  <1>1. /\ asks \in [ToolCalls -> GuardTurns \X ToolInputs]
        /\ answer = [k \in ToolCalls |-> "new"] /\ turnCaches = <<>>
        /\ entry = [n \in CacheIds |-> [i \in ToolInputs |-> Forgotten]]
        /\ cacheOf = [k \in ToolCalls |-> NoCache] /\ caches = 0
        /\ succeeded = [k \in ToolCalls |-> {}]
    BY DEF GuardInit, CacheIds
  <1>2. Begun = {}
    BY <1>1 DEF Begun
  <1>3. GuardTypes
    <2>1. turnCaches \in Seq(TurnCaches) /\ IsInjective(turnCaches)
      BY <1>1 DEF IsInjective
    <2>2. caches \in Nat /\ caches <= Cardinality(Begun)
      BY <1>1, <1>2, FS_EmptySet
    <2>3. answer \in [ToolCalls -> Answers]
      BY <1>1 DEF Answers
    <2> QED BY <1>1, <2>1, <2>2, <2>3 DEF GuardTypes, NoCache
  <1>4. Owned(ToSet(turnCaches))
    BY <1>1, <1>2, ToSetOfEmpty DEF Owned, Separate
  <1>5. Recalls
    BY <1>1 DEF Recalls, Remembers
  <1>6. RepeatsAreBlocked
    BY <1>1 DEF RepeatsAreBlocked, ByGuard
  <1> QED BY <1>3, <1>4, <1>5, <1>6 DEF GuardInv

\* The turn is the last in the list, with the cache it had or with a new one.
LEMMA TouchedIs ==
    ASSUME GuardInv, NEW t \in GuardTurns, caches + 1 \in CacheIds
    PROVE  \E cs \in Seq(TurnCaches), c \in CacheIds :
              /\ Touched(t) = cs /\ IsInjective(cs) /\ cs # <<>> /\ cs[Len(cs)] = <<t, c>>
              /\ \/ <<t, c>> \in ToSet(turnCaches) /\ ToSet(cs) = ToSet(turnCaches)
                 \/ /\ c = caches + 1 /\ \A p \in ToSet(turnCaches) : p[1] # t
                    /\ ToSet(cs) = ToSet(turnCaches) \cup {<<t, c>>}
  <1>1. turnCaches \in Seq(TurnCaches) /\ IsInjective(turnCaches) /\ caches \in Nat
    BY DEF GuardInv, GuardTypes
  <1>2. PICK n \in Nat : n = Len(turnCaches) /\ DOMAIN turnCaches = 1..n
    BY <1>1, LenProperties
  <1>3. /\ ToSet(turnCaches) = {turnCaches[i] : i \in 1..n}
        /\ \A i \in 1..n : turnCaches[i] \in TurnCaches
    BY <1>1, <1>2, ToSetProperties, ElementOfSeq
  <1>4. PICK known : known = {i \in DOMAIN turnCaches : turnCaches[i][1] = t}
    OBVIOUS
  <1>5. CASE known = {}
    <2>1. PICK c, cs : c = caches + 1 /\ cs = Append(turnCaches, <<t, c>>)
      OBVIOUS
    <2>2. Touched(t) = cs
      BY <1>4, <1>5, <2>1 DEF Touched
    <2>3. <<t, c>> \in TurnCaches /\ c \in CacheIds
      BY <2>1 DEF TurnCaches
    <2>4. \A p \in ToSet(turnCaches) : p[1] # t
      BY <1>2, <1>3, <1>4, <1>5
    <2>5. <<t, c>> \notin ToSet(turnCaches)
      BY <2>4
    <2>6. cs \in Seq(TurnCaches) /\ IsInjective(cs) /\ ToSet(cs) = ToSet(turnCaches) \cup {<<t, c>>}
          /\ Len(cs) = n + 1 /\ cs[n + 1] = <<t, c>>
      <3>1. PICK x \in TurnCaches : x = <<t, c>>
        BY <2>3
      <3>2. cs = Append(turnCaches, x) /\ x \notin ToSet(turnCaches)
        BY <2>1, <2>5, <3>1
      <3>3. cs \in Seq(TurnCaches) /\ Len(cs) = n + 1 /\ cs[n + 1] = x
        BY <1>1, <1>2, <3>2, AppendProperties
      <3>4. IsInjective(cs) /\ ToSet(cs) = ToSet(turnCaches) \cup {x}
        BY <1>1, <3>2, AppendInjectively, ToSetOfAppend
      <3> QED BY <3>1, <3>3, <3>4
    <2>7. cs # <<>>
      BY <2>6
    <2> QED BY <2>1, <2>2, <2>3, <2>4, <2>6, <2>7
  <1>6. CASE known # {}
    <2>1. PICK i \in known : i = CHOOSE j \in known : TRUE
      BY <1>6
    <2>2. i \in 1..n /\ turnCaches[i][1] = t
      BY <1>2, <1>4, <2>1
    <2>3. PICK x, rest : x = turnCaches[i] /\ rest = RemoveAt(turnCaches, i)
      OBVIOUS
    <2>4. PICK cs : cs = Append(rest, x)
      OBVIOUS
    <2>5. Touched(t) = cs
      BY <1>4, <1>6, <2>1, <2>3, <2>4 DEF Touched
    <2>6. x \in TurnCaches /\ x \in ToSet(turnCaches) /\ x[1] = t
      BY <1>3, <2>2, <2>3
    <2>7. PICK c \in CacheIds : x = <<t, c>>
      BY <2>6 DEF TurnCaches
    <2>8. /\ rest \in Seq(TurnCaches) /\ IsInjective(rest)
          /\ ToSet(rest) = ToSet(turnCaches) \ {x} /\ Len(rest) = n - 1
      BY <1>1, <1>2, <2>2, <2>3, RemoveAtProperties, RemoveAtInjective
    <2>9. x \notin ToSet(rest)
      BY <2>8
    <2>10. cs \in Seq(TurnCaches) /\ IsInjective(cs) /\ ToSet(cs) = ToSet(rest) \cup {x}
           /\ Len(cs) = Len(rest) + 1 /\ cs[Len(rest) + 1] = x
      BY <2>4, <2>6, <2>8, <2>9, AppendInjectively, ToSetOfAppend, AppendProperties
    <2>11. cs # <<>> /\ ToSet(cs) = ToSet(turnCaches)
      BY <1>2, <2>6, <2>8, <2>10
    <2> QED BY <2>5, <2>6, <2>7, <2>10, <2>11
  <1> QED BY <1>5, <1>6

\* The turns used last are kept, the one used now among them.
LEMMA RecentIs ==
    ASSUME NEW cs \in Seq(TurnCaches), IsInjective(cs), cs # <<>>
    PROVE  \E kept \in Seq(TurnCaches) :
              /\ KeepRecent(cs) = kept /\ IsInjective(kept) /\ ToSet(kept) \subseteq ToSet(cs)
              /\ kept # <<>> /\ Last(kept) = cs[Len(cs)]
  <1>1. PICK n \in Nat : n = Len(cs) /\ n # 0 /\ DOMAIN cs = 1..n
    BY LenProperties, EmptySeq
  <1>2. PICK m \in Nat : m = MaxTurns /\ m # 0
    BY GuardConstants
  <1>3. \A i \in 1..n : cs[i] \in TurnCaches
    BY <1>1, ElementOfSeq
  <1>4. CASE n > m
    <2>1. PICK kept : kept = SubSeq(cs, n - m + 1, n)
      OBVIOUS
    <2>2. n - m + 1 \in Int /\ n \in Int /\ \A i \in n - m + 1..n : cs[i] \in TurnCaches
      BY <1>2, <1>3, <1>4
    <2>3. /\ kept \in Seq(TurnCaches)
          /\ Len(kept) = (IF n - m + 1 <= n THEN n - (n - m + 1) + 1 ELSE 0)
          /\ \A i \in 1..n - (n - m + 1) + 1 : kept[i] = cs[n - m + 1 + i - 1]
      BY <2>1, <2>2, SubSeqProperties
    <2>4. Len(kept) = m /\ DOMAIN kept = 1..m /\ \A i \in 1..m : kept[i] = cs[n - m + i]
      <3>1. Len(kept) = m
        BY <1>2, <2>3
      <3>2. \A i \in 1..m : i \in 1..n - (n - m + 1) + 1 /\ n - m + 1 + i - 1 = n - m + i
        BY <1>2
      <3> QED BY <2>3, <3>1, <3>2, LenProperties
    <2>5. \A i \in 1..m : n - m + i \in 1..n
      BY <1>2, <1>4
    <2>6. IsInjective(kept)
      <3>1. ASSUME NEW i \in 1..m, NEW j \in 1..m, kept[i] = kept[j] PROVE i = j
        <4>1. PICK p, q \in 1..n : p = n - m + i /\ q = n - m + j
          BY <2>5
        <4>2. cs[p] = cs[q]
          BY <2>4, <3>1, <4>1
        <4>3. p = q
          BY <1>1, <4>2 DEF IsInjective
        <4> QED BY <1>1, <1>2, <4>1, <4>3
      <3> QED BY <2>4, <3>1 DEF IsInjective
    <2>7. ToSet(kept) \subseteq ToSet(cs)
      BY <1>1, <2>4, <2>5 DEF ToSet
    <2>8. kept # <<>> /\ Last(kept) = cs[n]
      BY <1>2, <2>4 DEF Last
    <2>9. KeepRecent(cs) = kept
      BY <1>1, <1>2, <1>4, <2>1 DEF KeepRecent
    <2> QED BY <1>1, <2>3, <2>6, <2>7, <2>8, <2>9
  <1>5. CASE ~(n > m)
    BY <1>1, <1>2, <1>5 DEF KeepRecent, Last
  <1> QED BY <1>4, <1>5

\* A call takes a cache: the one of its turn, unless the turn is new or was pushed out.
LEMMA TakesCache ==
    ASSUME GuardInv, NEW k \in ToolCalls, ExecuteGuarded(k)
    PROVE  \E c \in CacheIds, cs \in SUBSET TurnCaches :
              LET kept == ToSet(turnCaches') IN
              /\ turnCaches' \in Seq(TurnCaches) /\ IsInjective(turnCaches')
              /\ kept \subseteq cs /\ <<GuardTurn(k), c>> \in kept
              /\ \/ <<GuardTurn(k), c>> \in ToSet(turnCaches) /\ cs = ToSet(turnCaches)
                 \/ /\ c = caches + 1 /\ \A p \in ToSet(turnCaches) : p[1] # GuardTurn(k)
                    /\ cs = ToSet(turnCaches) \cup {<<GuardTurn(k), c>>}
              /\ caches' = IF c > caches THEN c ELSE caches
              /\ cacheOf' = [cacheOf EXCEPT ![k] = c]
              /\ IF entry[c][Input(k)] # Forgotten
                 THEN /\ entry' = [entry EXCEPT ![c][Input(k)] = entry[c][Input(k)] + 1]
                      /\ answer' = [answer EXCEPT ![k] = Tier(entry[c][Input(k)] + 1)]
                 ELSE answer' = [answer EXCEPT ![k] = "running"] /\ entry' = entry
              /\ \A j \in Begun : (\A p \in kept : p[1] # GuardTurn(j))
                                     /\ (\E p \in cs : p[1] = GuardTurn(j)) => j \in pushedOut'
  <1>1. GuardTurn(k) \in GuardTurns /\ k \notin Begun
    BY DEF GuardInv, GuardTypes, GuardTurn, ExecuteGuarded, Begun
  <1>2. caches + 1 \in CacheIds
    <2>1. /\ caches \in Nat /\ caches <= Cardinality(Begun) /\ Cardinality(Begun) \in Nat
          /\ Cardinality(Begun) + 1 <= Cardinality(ToolCalls) /\ Cardinality(ToolCalls) \in Nat
      BY <1>1, BegunFacts DEF GuardInv, GuardTypes
    <2> QED BY <2>1 DEF CacheIds
  <1>3. PICK t \in GuardTurns : t = GuardTurn(k)
    BY <1>1
  <1>4. PICK touched \in Seq(TurnCaches), c \in CacheIds :
              /\ Touched(t) = touched /\ IsInjective(touched) /\ touched # <<>>
              /\ touched[Len(touched)] = <<t, c>>
              /\ \/ <<t, c>> \in ToSet(turnCaches) /\ ToSet(touched) = ToSet(turnCaches)
                 \/ /\ c = caches + 1 /\ \A p \in ToSet(turnCaches) : p[1] # t
                    /\ ToSet(touched) = ToSet(turnCaches) \cup {<<t, c>>}
    BY <1>2, TouchedIs
  <1>5. PICK kept \in Seq(TurnCaches) :
              /\ KeepRecent(touched) = kept /\ IsInjective(kept)
              /\ ToSet(kept) \subseteq ToSet(touched)
              /\ kept # <<>> /\ Last(kept) = <<t, c>>
    BY <1>4, RecentIs
  <1>6. Last(kept)[2] = c /\ <<t, c>> \in ToSet(kept)
    <2>1. Len(kept) \in 1..Len(kept)
      BY <1>5, LenProperties, EmptySeq
    <2> QED BY <1>5, <2>1, ToSetProperties DEF Last
  <1>7. KeepRecent(Touched(GuardTurn(k))) = kept /\ Touched(GuardTurn(k)) = touched
    BY <1>3, <1>4, <1>5
  <1>8. /\ turnCaches' = kept
        /\ caches' = IF c > caches THEN c ELSE caches
        /\ cacheOf' = [cacheOf EXCEPT ![k] = c]
    BY <1>6, <1>7 DEF ExecuteGuarded
  <1>9. IF entry[c][Input(k)] # Forgotten
        THEN /\ entry' = [entry EXCEPT ![c][Input(k)] = entry[c][Input(k)] + 1]
             /\ answer' = [answer EXCEPT ![k] = Tier(entry[c][Input(k)] + 1)]
        ELSE answer' = [answer EXCEPT ![k] = "running"] /\ entry' = entry
    BY <1>6, <1>7 DEF ExecuteGuarded
  <1>10. pushedOut' = pushedOut
            \cup {j \in ToolCalls : answer[j] # "new"
                     /\ GuardTurn(j) \in {p[1] : p \in ToSet(touched)} \ {p[1] : p \in ToSet(kept)}}
    BY <1>7 DEF ExecuteGuarded
  <1>11. \A j \in Begun : (\A p \in ToSet(kept) : p[1] # GuardTurn(j))
                             /\ (\E p \in ToSet(touched) : p[1] = GuardTurn(j)) => j \in pushedOut'
    BY <1>10 DEF Begun
  <1>12. ToSet(touched) \in SUBSET TurnCaches
    BY ToSetProperties
  <1>13. /\ turnCaches' \in Seq(TurnCaches) /\ IsInjective(turnCaches')
         /\ ToSet(turnCaches') \subseteq ToSet(touched)
         /\ <<GuardTurn(k), c>> \in ToSet(turnCaches')
         /\ \/ <<GuardTurn(k), c>> \in ToSet(turnCaches) /\ ToSet(touched) = ToSet(turnCaches)
            \/ /\ c = caches + 1 /\ \A p \in ToSet(turnCaches) : p[1] # GuardTurn(k)
               /\ ToSet(touched) = ToSet(turnCaches) \cup {<<GuardTurn(k), c>>}
         /\ \A j \in Begun : (\A p \in ToSet(turnCaches') : p[1] # GuardTurn(j))
                /\ (\E p \in ToSet(touched) : p[1] = GuardTurn(j)) => j \in pushedOut'
    BY <1>3, <1>4, <1>5, <1>6, <1>8, <1>11
  <1>14. PICK cs \in SUBSET TurnCaches : cs = ToSet(touched)
    BY <1>12
  <1> QED BY <1>8, <1>9, <1>13, <1>14

LEMMA ExecutesWell ==
    ASSUME GuardInv, NEW k \in ToolCalls, ExecuteGuarded(k)
    PROVE  GuardInv'
  <1>1. /\ GuardTypes /\ Owned(ToSet(turnCaches)) /\ Recalls /\ RepeatsAreBlocked
        /\ asks \in [ToolCalls -> GuardTurns \X ToolInputs]
        /\ answer \in [ToolCalls -> Answers]
        /\ entry \in [CacheIds -> [ToolInputs -> Nat \cup {Forgotten}]]
        /\ cacheOf \in [ToolCalls -> Nat] /\ caches \in Nat
        /\ succeeded \in [ToolCalls -> SUBSET ToolCalls]
    BY DEF GuardInv, GuardTypes
  <1>2. /\ answer[k] = "new" /\ asks' = asks
        /\ succeeded' = [succeeded EXCEPT ![k] = {j \in ToolCalls : answer[j] = "ok"}]
        /\ pushedOut \subseteq pushedOut'
    BY DEF ExecuteGuarded
  <1>3. PICK c \in CacheIds, cs \in SUBSET TurnCaches :
              LET kept == ToSet(turnCaches') IN
              /\ turnCaches' \in Seq(TurnCaches) /\ IsInjective(turnCaches')
              /\ kept \subseteq cs /\ <<GuardTurn(k), c>> \in kept
              /\ \/ <<GuardTurn(k), c>> \in ToSet(turnCaches) /\ cs = ToSet(turnCaches)
                 \/ /\ c = caches + 1 /\ \A p \in ToSet(turnCaches) : p[1] # GuardTurn(k)
                    /\ cs = ToSet(turnCaches) \cup {<<GuardTurn(k), c>>}
              /\ caches' = IF c > caches THEN c ELSE caches
              /\ cacheOf' = [cacheOf EXCEPT ![k] = c]
              /\ IF entry[c][Input(k)] # Forgotten
                 THEN /\ entry' = [entry EXCEPT ![c][Input(k)] = entry[c][Input(k)] + 1]
                      /\ answer' = [answer EXCEPT ![k] = Tier(entry[c][Input(k)] + 1)]
                 ELSE answer' = [answer EXCEPT ![k] = "running"] /\ entry' = entry
              /\ \A j \in Begun : (\A p \in kept : p[1] # GuardTurn(j))
                                     /\ (\E p \in cs : p[1] = GuardTurn(j)) => j \in pushedOut'
    BY TakesCache
  <1>4. PICK i, t, r, old, kept :
            /\ i \in ToolInputs /\ t \in GuardTurns /\ r \in Nat \cup {Forgotten}
            /\ i = Input(k) /\ t = GuardTurn(k) /\ r = entry[c][i]
            /\ old = ToSet(turnCaches) /\ kept = ToSet(turnCaches')
    BY <1>1 DEF Input, GuardTurn
  <1>5. /\ kept \subseteq cs /\ <<t, c>> \in kept
        /\ \/ <<t, c>> \in old /\ cs = old
           \/ /\ c = caches + 1 /\ \A p \in old : p[1] # t
              /\ cs = old \cup {<<t, c>>}
    BY <1>3, <1>4
  <1>6. PICK a \in Answers :
            /\ answer' = [answer EXCEPT ![k] = a]
            /\ a \notin {"new", "ok", "error"}
            /\ a \in ByGuard <=> r # Forgotten
            /\ entry' \in [CacheIds -> [ToolInputs -> Nat \cup {Forgotten}]]
            /\ \A d \in CacheIds, h \in ToolInputs :
                  entry'[d][h] # Forgotten <=> entry[d][h] # Forgotten
    <2>1. CASE r # Forgotten
      <3>1. /\ entry' = [entry EXCEPT ![c][i] = r + 1]
            /\ answer' = [answer EXCEPT ![k] = Tier(r + 1)]
        BY <1>3, <1>4, <2>1
      <3>2. Tier(r + 1) \in ByGuard
        BY DEF Tier, ByGuard
      <3>3. r + 1 \in Nat /\ r + 1 # Forgotten
        BY <1>4, <2>1 DEF Forgotten
      <3>4. entry' \in [CacheIds -> [ToolInputs -> Nat \cup {Forgotten}]]
        BY <1>1, <3>1, <3>3
      <3>5. \A d \in CacheIds, h \in ToolInputs :
                entry'[d][h] # Forgotten <=> entry[d][h] # Forgotten
        BY <1>1, <1>4, <2>1, <3>1, <3>3
      <3>6. Tier(r + 1) \in Answers /\ Tier(r + 1) \notin {"new", "ok", "error"}
        BY <3>2 DEF Answers, ByGuard
      <3> QED BY <2>1, <3>1, <3>2, <3>4, <3>5, <3>6
    <2>2. CASE r = Forgotten
      BY <1>1, <1>3, <1>4, <2>2 DEF Answers, ByGuard
    <2> QED BY <2>1, <2>2
  <1>7. Begun' = Begun \cup {k} /\ k \notin Begun
    BY <1>1, <1>2, <1>6 DEF Begun
  <1>8. caches' \in Nat /\ caches <= caches' /\ c <= caches' /\ caches' <= caches + 1 /\ c \in Nat /\ c # 0
    <2>1. c \in Nat /\ c # 0
      BY BegunFacts DEF CacheIds
    <2>2. c <= caches + 1
      BY <1>1, <1>4, <1>5, <2>1 DEF Owned
    <2> QED BY <1>1, <1>3, <2>1, <2>2
  <1>9. GuardTypes'
    <2>1. caches' <= Cardinality(Begun')
      <3>1. /\ Cardinality(Begun \cup {k}) = Cardinality(Begun) + 1
            /\ Cardinality(Begun) \in Nat /\ caches <= Cardinality(Begun)
        BY <1>1, <1>7, BegunFacts DEF GuardTypes
      <3> QED BY <1>1, <1>7, <1>8, <3>1
    <2>2. cacheOf' \in [ToolCalls -> Nat]
      BY <1>1, <1>3, <1>8
    <2>3. succeeded' \in [ToolCalls -> SUBSET ToolCalls] /\ answer' \in [ToolCalls -> Answers]
      BY <1>1, <1>2, <1>6
    <2>4. turnCaches' \in Seq(TurnCaches) /\ IsInjective(turnCaches')
      BY <1>3
    <2> QED BY <1>1, <1>2, <1>6, <1>8, <2>1, <2>2, <2>3, <2>4 DEF GuardTypes
  <1>10. /\ cacheOf'[k] = c /\ answer'[k] = a
         /\ \A j \in ToolCalls \ {k} : cacheOf'[j] = cacheOf[j] /\ answer'[j] = answer[j]
         /\ \A j \in ToolCalls : GuardTurn(j)' = GuardTurn(j) /\ Input(j)' = Input(j)
    BY <1>1, <1>2, <1>3, <1>6 DEF GuardTurn, Input
  <1>11. /\ Separate(old) /\ \A p \in old : p[2] \in 1..caches
         /\ \A j \in Begun : cacheOf[j] \in 1..caches
         /\ \A p \in old, j \in Begun : cacheOf[j] = p[2] => GuardTurn(j) = p[1]
         /\ \A j \in Begun \ pushedOut : <<GuardTurn(j), cacheOf[j]>> \in old
    BY <1>1, <1>4 DEF Owned
  <1>12. Separate(cs) /\ \A p \in cs : p[2] \in 1..caches'
    <2>1. \A p \in old : p[2] \in 1..caches'
      BY <1>1, <1>8, <1>11
    <2>2. c \in 1..caches'
      BY <1>8
    <2>3. CASE <<t, c>> \in old /\ cs = old
      BY <1>11, <2>1, <2>3
    <2>4. CASE c = caches + 1 /\ (\A p \in old : p[1] # t) /\ cs = old \cup {<<t, c>>}
      <3>1. \A p \in old : p[2] # c
        BY <1>1, <1>11, <2>4
      <3>2. \A p \in cs : p \in old \/ p = <<t, c>>
        BY <2>4
      <3>3. Separate(cs)
        BY <1>11, <2>4, <3>1, <3>2 DEF Separate
      <3> QED BY <2>1, <2>2, <3>2, <3>3
    <2> QED BY <1>5, <2>3, <2>4
  <1>13. \A p \in cs, j \in Begun' : cacheOf'[j] = p[2] => GuardTurn(j) = p[1]
    <2>1. ASSUME NEW p \in cs, NEW j \in Begun', cacheOf'[j] = p[2] PROVE GuardTurn(j) = p[1]
      <3>1. CASE j = k
        <4>1. <<t, c>> \in cs /\ p[2] = c
          BY <1>5, <1>10, <2>1, <3>1
        <4>2. p = <<t, c>>
          BY <1>12, <4>1 DEF Separate
        <4> QED BY <1>4, <3>1, <4>2
      <3>2. CASE j # k
        <4>1. j \in Begun /\ cacheOf[j] = p[2] /\ cacheOf[j] \in 1..caches
          BY <1>7, <1>10, <1>11, <2>1, <3>2 DEF Begun
        <4>2. p \in old
          <5>1. p[2] # caches + 1
            BY <1>1, <4>1
          <5> QED BY <1>5, <2>1, <5>1
        <4> QED BY <1>11, <4>1, <4>2
      <3> QED BY <3>1, <3>2
    <2> QED BY <2>1
  <1>14. \A j \in Begun' \ pushedOut' : <<GuardTurn(j), cacheOf'[j]>> \in kept
    <2>1. ASSUME NEW j \in Begun' \ pushedOut' PROVE <<GuardTurn(j), cacheOf'[j]>> \in kept
      <3>1. CASE j = k
        BY <1>4, <1>5, <1>10, <3>1
      <3>2. CASE j # k
        <4>1. j \in Begun \ pushedOut /\ cacheOf'[j] = cacheOf[j]
          BY <1>2, <1>7, <1>10, <2>1, <3>2 DEF Begun
        <4>2. PICK p : p = <<GuardTurn(j), cacheOf[j]>>
          OBVIOUS
        <4>3. p \in old /\ p[1] = GuardTurn(j) /\ p \in cs
          BY <1>5, <1>11, <4>1, <4>2
        <4>4. PICK q \in kept : q[1] = GuardTurn(j)
          BY <1>3, <1>4, <2>1, <4>1, <4>3
        <4>5. q = p
          BY <1>5, <1>12, <4>3, <4>4 DEF Separate
        <4> QED BY <4>1, <4>2, <4>4, <4>5
      <3> QED BY <3>1, <3>2
    <2> QED BY <2>1
  <1>15. Owned(ToSet(turnCaches))'
    <2>1. Separate(kept)
      BY <1>5, <1>12 DEF Separate
    <2>2. \A p \in kept : p[2] \in 1..caches'
      BY <1>5, <1>12
    <2>3. \A j \in Begun' : cacheOf'[j] \in 1..caches'
      <3>1. ASSUME NEW j \in Begun' PROVE cacheOf'[j] \in 1..caches'
        <4>1. CASE j = k
          BY <1>8, <1>10, <4>1
        <4>2. CASE j # k
          BY <1>1, <1>7, <1>8, <1>10, <1>11, <4>2 DEF Begun
        <4> QED BY <4>1, <4>2
      <3> QED BY <3>1
    <2>4. \A p \in kept, j \in Begun' : cacheOf'[j] = p[2] => GuardTurn(j)' = p[1]
      BY <1>5, <1>10, <1>13 DEF Begun
    <2>5. \A j \in Begun' \ pushedOut' : <<GuardTurn(j)', cacheOf'[j]>> \in kept
      BY <1>10, <1>14 DEF Begun
    <2> QED BY <1>4, <2>1, <2>2, <2>3, <2>4, <2>5 DEF Owned
  <1>16. Recalls'
    <2>1. \A d \in CacheIds, h \in ToolInputs : Remembers(d, h)' <=> Remembers(d, h)
      BY <1>2, <1>6, <1>10 DEF Remembers
    <2> QED BY <1>1, <1>6, <2>1 DEF Recalls
  <1>17. RepeatsAreBlocked'
    <2>1. ASSUME NEW j \in ToolCalls
          PROVE  LET before == {h \in succeeded'[j] : asks'[h] = asks'[j]} IN
                 /\ answer'[j] \in ByGuard => before # {}
                 /\ answer'[j] \in {"running", "ok", "error"} => before \subseteq pushedOut'
      <3>1. CASE j # k
        <4>1. succeeded'[j] = succeeded[j] /\ answer'[j] = answer[j]
          BY <1>1, <1>2, <1>10, <3>1
        <4> QED BY <1>1, <1>2, <4>1 DEF RepeatsAreBlocked
      <3>2. CASE j = k
        <4>1. succeeded'[j] = {h \in ToolCalls : answer[h] = "ok"} /\ answer'[j] = a
          BY <1>1, <1>2, <1>10, <3>2
        <4>2. \A h \in ToolCalls : asks[h] = <<GuardTurn(h), Input(h)>>
          BY <1>1 DEF GuardTurn, Input
        <4>3. ASSUME a \in ByGuard PROVE \E h \in succeeded'[j] : asks'[h] = asks'[j]
          <5>1. entry[c][i] # Forgotten
            BY <1>4, <1>6, <4>3
          <5>2. PICK h \in ToolCalls : answer[h] = "ok" /\ cacheOf[h] = c /\ Input(h) = i
            BY <1>1, <1>4, <5>1 DEF Recalls, Remembers
          <5>3. h \in Begun
            BY <5>2 DEF Begun
          <5>4. c \in 1..caches
            BY <1>11, <5>2, <5>3
          <5>5. <<t, c>> \in old
            <6>1. c # caches + 1
              BY <1>1, <5>4
            <6> QED BY <1>5, <6>1
          <5>6. GuardTurn(h) = t
            <6>1. <<t, c>>[2] = c /\ <<t, c>>[1] = t
              OBVIOUS
            <6> QED BY <1>11, <5>2, <5>3, <5>5, <6>1
          <5> QED BY <1>2, <1>4, <3>2, <4>1, <4>2, <5>2, <5>6
        <4>4. ASSUME a = "running", NEW h \in succeeded'[j], asks'[h] = asks'[j]
              PROVE  h \in pushedOut'
          <5>1. h \in ToolCalls /\ answer[h] = "ok" /\ GuardTurn(h) = t /\ Input(h) = i /\ h \in Begun
            BY <1>2, <1>4, <3>2, <4>1, <4>4 DEF GuardTurn, Input, Begun
          <5>2. SUFFICES ASSUME h \notin pushedOut PROVE FALSE
            BY <1>2
          <5>3. <<t, cacheOf[h]>> \in old
            BY <1>11, <5>1, <5>2
          <5>4. <<t, cacheOf[h]>>[1] = t
            OBVIOUS
          <5>5. <<t, c>> \in old /\ cs = old
            BY <1>5, <5>3, <5>4
          <5>6. <<t, cacheOf[h]>> = <<t, c>>
            <6>1. <<t, c>>[1] = t
              OBVIOUS
            <6> QED BY <1>11, <5>3, <5>4, <5>5, <6>1 DEF Separate
          <5>7. cacheOf[h] = c
            BY <5>6
          <5>8. entry[c][i] # Forgotten
            BY <1>1, <1>4, <5>1, <5>7 DEF Recalls, Remembers
          <5>9. a \in ByGuard
            BY <1>4, <1>6, <5>8
          <5> QED BY <4>4, <5>9 DEF ByGuard
        <4> QED BY <1>6, <4>1, <4>3, <4>4
      <3> QED BY <3>1, <3>2
    <2> QED BY <2>1 DEF RepeatsAreBlocked
  <1> QED BY <1>9, <1>15, <1>16, <1>17 DEF GuardInv

LEMMA ReturnsToGuard ==
    ASSUME GuardInv, NEW k \in ToolCalls, NEW outcome \in {"ok", "error"}, InnerReturns(k, outcome)
    PROVE  GuardInv'
  <1>1. /\ GuardTypes /\ Owned(ToSet(turnCaches)) /\ Recalls /\ RepeatsAreBlocked
        /\ asks \in [ToolCalls -> GuardTurns \X ToolInputs]
        /\ answer \in [ToolCalls -> Answers]
        /\ entry \in [CacheIds -> [ToolInputs -> Nat \cup {Forgotten}]]
        /\ caches \in Nat /\ caches <= Cardinality(Begun)
    BY DEF GuardInv, GuardTypes
  <1>2. /\ answer[k] = "running" /\ answer' = [answer EXCEPT ![k] = outcome]
        /\ outcome = "ok" => entry' = [entry EXCEPT ![cacheOf[k]][Input(k)] = 0]
        /\ outcome # "ok" => entry' = entry
        /\ UNCHANGED <<asks, turnCaches, cacheOf, caches, succeeded, pushedOut>>
    BY DEF InnerReturns, Remembered
  <1>3. /\ answer'[k] = outcome /\ answer' \in [ToolCalls -> Answers]
        /\ \A j \in ToolCalls \ {k} : answer'[j] = answer[j]
    BY <1>1, <1>2 DEF Answers
  <1>4. Begun' = Begun /\ k \in Begun
    BY <1>2, <1>3 DEF Begun
  <1>5. \A j : GuardTurn(j)' = GuardTurn(j) /\ Input(j)' = Input(j)
    BY <1>2 DEF GuardTurn, Input
  <1>6. PICK c \in Nat, i \in ToolInputs : c = cacheOf[k] /\ i = Input(k)
    BY <1>1 DEF GuardTypes, Input
  <1>7. c \in CacheIds
    <2>1. c \in 1..caches
      BY <1>1, <1>4, <1>6 DEF Owned
    <2> QED BY <1>1, <2>1, BegunFacts DEF CacheIds
  <1>8. entry' \in [CacheIds -> [ToolInputs -> Nat \cup {Forgotten}]]
    BY <1>1, <1>2, <1>6, <1>7
  <1>9. GuardTypes'
    BY <1>1, <1>2, <1>3, <1>4, <1>8 DEF GuardTypes
  <1>10. Owned(ToSet(turnCaches))'
    BY <1>1, <1>2, <1>4, <1>5 DEF Owned
  <1>11. Recalls'
    <2>1. ASSUME NEW d \in CacheIds, NEW h \in ToolInputs
          PROVE  entry'[d][h] # Forgotten <=> Remembers(d, h)'
      <3>1. entry[d][h] # Forgotten <=> Remembers(d, h)
        BY <1>1 DEF Recalls
      <3>2. Remembers(d, h)' <=> Remembers(d, h) \/ (outcome = "ok" /\ d = c /\ h = i)
        BY <1>2, <1>3, <1>5, <1>6 DEF Remembers
      <3>3. CASE outcome = "ok" /\ d = c /\ h = i
        BY <1>1, <1>2, <1>6, <3>2, <3>3 DEF Forgotten
      <3>4. CASE ~(outcome = "ok" /\ d = c /\ h = i)
        <4>1. entry'[d][h] = entry[d][h]
          BY <1>1, <1>2, <1>6, <3>4
        <4> QED BY <3>1, <3>2, <3>4, <4>1
      <3> QED BY <3>3, <3>4
    <2> QED BY <2>1 DEF Recalls
  <1>12. RepeatsAreBlocked'
    <2>1. \A j \in ToolCalls : /\ answer'[j] \in ByGuard => answer[j] \in ByGuard
                               /\ answer'[j] \in {"running", "ok", "error"} =>
                                     answer[j] \in {"running", "ok", "error"}
      BY <1>2, <1>3 DEF ByGuard
    <2> QED BY <1>1, <1>2, <2>1 DEF RepeatsAreBlocked
  <1> QED BY <1>9, <1>10, <1>11, <1>12 DEF GuardInv

LEMMA GuardStays == GuardInv /\ UNCHANGED guardVars => GuardInv'
  <1> SUFFICES ASSUME GuardInv, UNCHANGED guardVars PROVE GuardInv'
    OBVIOUS
  <1>1. UNCHANGED <<asks, answer, turnCaches, entry, cacheOf, caches, succeeded, pushedOut>>
    BY DEF guardVars
  <1>2. Begun' = Begun
    BY <1>1 DEF Begun
  <1>3. GuardTypes' /\ Owned(ToSet(turnCaches))'
    BY <1>1, <1>2 DEF GuardInv, GuardTypes, Owned, GuardTurn
  <1>4. Recalls'
    BY <1>1 DEF GuardInv, Recalls, Remembers, Input
  <1>5. RepeatsAreBlocked'
    BY <1>1 DEF GuardInv, RepeatsAreBlocked
  <1> QED BY <1>3, <1>4, <1>5 DEF GuardInv

\* A repeated call is answered by the guard, and only a repeated call is, however
\* calls of several turns interleave and push one another's caches out.
THEOREM RepeatsAlwaysBlocked == GuardSpec => []RepeatsAreBlocked
  <1>1. GuardInv /\ [GuardNext]_guardVars => GuardInv'
    BY ExecutesWell, ReturnsToGuard, GuardStays DEF GuardNext
  <1>2. GuardInv => RepeatsAreBlocked
    BY DEF GuardInv
  <1> QED BY <1>1, <1>2, GuardStart, PTL DEF GuardSpec
===============================================================================
