# TLA+ models and proofs for agent-assistant

This directory models the parts of agent-assistant in which order, failure and
time matter. TLC checks every model on small instances; TLAPS proves their
safety properties for every instance. Source paths below are relative
to `packages/` of the repository.

    tlc -workers 2 -config Conversation.cfg MCConversation.tla   # a run
    tlapm CloudflareProofs.tla                                   # a module's proofs

`PROJECT.json` lists the runs, their mutants, the theorems, the hazards and, for
every definition that models code, the lines it stands for.

## 1. Inventory

All components are single-threaded TypeScript. Concurrency is what happens at
an `await`, inside a synchronous callback, or between processes that share a
store or a queue. "Hard" names what the properties are for.

**continuation** (`continuation/src/continuation.ts`). One
`ContinuationRecord` per id in a store that offers get, put, list and delete and
no compare-and-swap. `create`, `resume` and `stop` each read a record once, keep
that copy over several awaits (scheduler, harness turn, delivery adapter) and put
the whole record back. User replies, approvals, external results and wake-ups
call them. Hard: overlapping calls, restarts between two puts, deliveries that
fail, wake-ups that race with expiry. Correct means: terminal is final, at most
one reply is posted, and the record tells the truth about it.

**core** (`core/src/core.ts`). Lifecycle, pending dispatches, in-flight count,
the drain waiter; `start`, `dispatch`, `stop`. It calls product hooks and
capability handlers, the latter under a timeout. Hard: handlers that hang, hooks
that throw, error hooks that throw while reporting, a stop at any moment. Correct
means: slots are never lost, messages get them in order, `stop` comes to an end.

**cloudflare-runtime, ingress and queue** (`ingress/`, `executor/`). Webhook
requests become queue messages, de-duplicated through a key-value store;
`handleCfQueue` runs one turn per message in a context that collects `waitUntil`
promises. Hard: at-least-once delivery, failing sends, consumers that die,
promises registered while promises are being settled. Correct means: an event
comes to an ack or a dead letter, an ack is earned, and an event with a key is
enqueued twice only in a race.

**cloudflare-runtime, durable object** (`do/`, `adapters/`). `TurnExecutorDO`
chains the turns of a conversation; the continuation store writes a record, a
session list and a trigger index one after the other; the scheduler has the
object's single alarm. Hard: turns that reject, promises that outlive a turn,
writes that fail half-way, restarts, two continuations and one alarm. Correct
means: turns never overlap, a record is found by what it waits for, an alarm is
never for somebody who was called off.

**harness, turn loop** (`harness/src/harness.ts`). The `MutableState` of one
turn; `runTurn` loops over model steps and sequential or parallel tool batches
with retries, limits, an abort signal and a runtime policy that may answer in a
tool's place. Hard: limits against overlapping calls, the abort at each await,
one call of a parallel batch failing. Correct means: limits bind, the model sees
all results it asked for, costs are counted, cancellation wins.

**harness, idempotency guard** (`idempotency-guard.ts`). Per-turn caches of
successful calls, of the turns used last. Hard: identical calls in flight, a
cache pushed out while a call holds it. Correct means: an identical call is not
run once one has succeeded in the turn, and the answers climb a ladder that ends
the turn.

**harness, Agent Relay execution** (`adapter/agent-relay-adapter.ts`,
`adapter/relay-adapter.ts`, `worker-bridge/`). Attempts share an adapter that
starts and shuts down a broker process; a worker answers. Hard: starts and
shutdowns that wait for each other, un-awaited sends, timers, aborts. Correct
means: one broker at a time and none left behind, an abort is heard, every
attempt ends.

**proactive, engine** (`proactive/src/proactive.ts`). Watch rules bound to one
wake-up each, follow-up rules with reminder states. Hard: status, binding and
reminder state are read before an await and written after it. Correct means: an
active rule keeps a wake-up, a stopped one runs out of them, reminders keep their
limit and cooldown.

**proactive, batch and channel** (`signal-inbox.ts`, `run-follow-up-batch.ts`,
`notify-channel-*.ts`, and `coordination/src/bounded-parallel.ts`, which the
batch runs in). A drained inbox, a capped batch in a bounded pool with per-item
limits and an abort; a stored preference for the channel of notices that counts
unconfirmed posts. Hard: items that ignore their signal, counters incremented
from stale reads, a reply racing with a post. Correct means: every signal is
accounted for once, a user's choice stays.

**connectivity** (`connectivity/src/connectivity.ts`). Signals by id, a list per
thread, steps, callbacks. Synchronous, with callbacks in the middle of every
operation. Hard: re-entrancy. Correct means: ended signals stay ended, every
subscriber hears of every change, duplicates are suppressed, signals expire on
their step, the log keeps every signal.

**coordination, routing** (`coordination/src/coordination.ts`,
`routing/src/routing.ts`). The coordinator walks a plan, asks the router for a
mode, awaits a specialist and looks at the signals raised meanwhile; the router
decides from policy, spent cost, capability, escalations and latency. Hard:
signals raised or ended while a step is awaited, optional steps that fail,
precedence of rules against a ceiling. Correct means: an answer is complete only
if every required step was, urgency wins except over the ceiling.

**sessions** (`sessions/src/sessions.ts`). Session records in a store; create,
touch, attach, detach, expire, `sweepStale`, resolution of a message to a
session. Each is a get followed by an update, through one of two adapters. Hard:
a touch across an expiry, a sweep across a touch. Correct means: racing calls
spoil no session but those they raced on.

**memory** (`memory/src/memory.ts`, `turn-memory.ts`). Scoped entries; write,
update, promote, compact, delete over an adapter, each access an await. Hard:
promotions and compactions from sources that change or fail half-way, a retrieval
window. Correct means: nothing told is lost but what was deleted, expired or
overtaken, and what is stored can be retrieved.

**vfs, clone freshness** (`vfs/src/clone/`). A status cache, a requester with a
cooldown in memory and in a shared store, and `ensureCloneFresh` on top. Hard: a
cached status that was old when it was cached. Correct means: nobody goes by a
status older than the cache's time to live.

**surfaces**: registry, fan-out, progress stream, and the de-duplication gate the
ingress uses. **policy** evaluates ordered rules and keeps a bounded audit log;
**inbox** items move through statuses by fetch-then-update; **webhook-runtime**
fans a webhook out to consumers; **turn-context**, **specialists**,
**telemetry**, **traits**, **persona**, **dispatch**, **sdk**, **examples**,
**integration** assemble prompts, query, observe, validate, declare types and
demonstrate.

How they interact in the deployment the repository describes: a webhook passes
the ingress of `TurnQueue`; its consumer hands the turn to a `TurnExecutorDO`
(`TurnExecutor`), which runs a harness turn (`HarnessTurn`, or over the relay,
`RelayExecution`), with the guard (`CallGuard`) in front of its tools. A turn that
must wait becomes a continuation (`Continuation`), resumed by a later webhook or
by a wake-up. `AssistantRuntime` is the in-process alternative to the queue. A
product resolves the session first (`Sessions`), lets the coordinator run
specialists (`Coordination` with `Routing` and `Connectivity`), keeps memories
(`MemoryStore`) and clones (`CloneRequests`), and acts unasked through
`WatchRules`, `FollowUps`, `FollowUpBatch` and `NotifyChannel`.

## 2. Modules

An action is the code from one await to the next, or, in `Connectivity`, from one
callback to the next. Product code (hooks, handlers, tools, conditions,
callbacks, stores) is nondeterministic: it may return, throw, hang where nothing
stops it, and call back where it can. Variables marked "history" only record what
happened, for the properties.

| Module | Models | Run in | Proofs |
|---|---|---|---|
| `Continuation` | create, resume, stop, wake-ups, restarts | Components, Conversation, ContinuationReopened, ContinuationWakeExpires | `ContinuationProofs` |
| `ContinuationLifecycle` | abstract specification of a continuation | Conversation (refinement) | `ContinuationProofs` |
| `TurnExecutor` | chain of turns, store, index, alarm | Conversation | `CloudflareProofs` |
| `TurnQueue` | ingress, queue, consumer, execution context | TurnQueue, TurnWebhookLost | `CloudflareProofs` |
| `AssistantRuntime` | dispatch, slots, timeouts, start and stop | Assistant | `AssistantProofs` |
| `RelayExecution` | relayed turns, broker, worker | Assistant, RelayLeavesBroker | `HarnessProofs` |
| `HarnessTurn` | `runTurn` | HarnessTurn | `HarnessProofs` |
| `CallGuard` | idempotency guard | Components | `HarnessProofs` |
| `WatchRules` | watch rules and their scheduler | Proactive | `ProactiveProofs` |
| `FollowUpBatch` | inbox drain and bounded batch | Proactive | `ProactiveProofs` |
| `NotifyChannel` | channel preference, posts, replies | Proactive | `ProactiveProofs` |
| `FollowUps` | reminders across evaluations | Components | `ProactiveProofs` |
| `Sessions` | session store and resolution | Components | `StoreProofs` |
| `MemoryStore` | memory entries | Components, MemoryCrowdedOut | `StoreProofs` |
| `CloneRequests` | clone status, requests, cooldown | Components | `StoreProofs` |
| `Connectivity` | signals of one thread | Components, ConnectivityLosesSignals | `CoordinationProofs` |
| `Routing` | the router's decision and costs | Components, in `Coordination` | `CoordinationProofs` |
| `Coordination` | one coordinated turn | Components | `CoordinationProofs` |
| `SequenceLemmas` | facts about numbers, sequences and iterations the proofs share | | itself |

`MCComponents`, `MCConversation`, `MCAssistant`, `MCProactive` and `MCMemory` host
several modules in one run. They have a variable `part`: each behaviour is one of
a single part while the others keep their first state, so the parts do not
multiply. Outside its part nothing of a module has begun, so its fairness
conditions ask for nothing there. `MCTurnQueue` asks that the first of two interchangeable requests is
about an event with a key: those without share nothing at the ingress.

### Continuation

`rec` is the stored record; a caller `c` holds its own copy in `draft[c]`, its trigger
in `trigger[c]`, the `now` it read in `at[c]`, and the await it is in in `pc[c]`.
`Exclusive = TRUE` is a deployment that chains calls, as `TurnExecutorDO` does
(`TurnsStayApart` shows it); `FALSE` is the runtime called from independent handlers.
`Crash` forgets every local; a call that was restarted is not repeated. `CallRejects` is
any rejecting call of the store or the scheduler, before (`RejectedUndone`) or after
(`RejectedDone`) it took effect: it ends the operation, as nothing in the code catches
it, and nothing undoes the effect. `MaxLosses` bounds restarts and rejections together;
`lost` is history and tells whether a turn or a reply was cut off before its record was
stored. Simplified: one record, since operations on different ids share only the
scheduler; `bounds` overrides are limited to the time to live; the scheduler adapter
offers `cancelWake`; payloads and traces are dropped. `turns` and `posted` are history.
`ContinuationLifecycle` is the abstract specification: opened once, at most
`MaxAttempts` turns one after the other, at most one reply, closed for good;
`LifeRefined` maps `status`, `attempts` and `posted` to it.

### TurnExecutor

`chain` holds unanswered requests in order, `turn[r]` and `job[r]` where a request
and the promise it left to `waitUntil` are. `writes[a]` is the store call an actor
(a turn or a job) is in, as the list of writes left: each is an await that may
fail or be cut by a `Restart`. `record`, `listed` (storage), `index` (KV) and
`alarm` survive. `cut`, `wanted` and `users` are history. A trigger key names one
approval, operation or wake-up, so two continuations never share one. The
delivery adapter is left out.

### TurnQueue

A request looks its key up (`Check`), marks it (`Mark`) and sends its message (`Send`);
each may fail. A mark can be read at once only where stores are consistent: `Spread` is
the moment at which a look-up can no longer miss it. A consumer takes a batch and runs a
turn; the turn, and the promises themselves, may hand further promises to `waitUntil`;
`SettleNext` awaits them in order; `AckMessage` and `BatchFails` are the two ends.
External: keys do not expire within the platform's retries, an ack takes effect when it
is called, a batch that throws or whose consumer dies is delivered again without its
acked messages up to `MaxTries`.

### AssistantRuntime and RelayExecution

`queue`, `inFlight` and `lifecycle` are the variables of `createAssistant`;
`phase[m]` is where `executeDispatch` is for message `m`. Timers count down, and
time does not pass a timer that is due. A handler that timed out keeps running in
`bodies` but holds no slot. `emit`, the registry and `status` change none of this
state and are left out.

In `RelayExecution` every use of the broker is a call that first awaits `start()`:
`wait[c]` says what it waits for. `client`, `starting`, `stopping` and `closing`
are the adapter's fields, `alive` the processes. An attempt goes from `stage` to
`stage`; its publishing call is not awaited and may go on after it. The
negotiation of capabilities and the parsing of messages are left out.

### HarnessTurn and CallGuard

`at` names the await `runTurn` is in; a batch has a state, a run count and a
result per call. The time limit is the flag `late`, set at any moment; costs are
capped at the budget; `recent` holds what the redundant-loop detector compares.
Awaits that only emit events are merged with the step around them. Of the runtime
policy only what a decision does to the loop is modelled. `owed`, `unbilled`,
`abortedAt` and `threw` are history.

`CallGuard` has the caches by turn, the cache each call in flight holds, and the
ladder of hint, directive and abort. A cache that was pushed out still serves the
calls that hold it; two identical calls in parallel both run.

### Sessions, FollowUps, MemoryStore, CloneRequests

These write back to a store what they read before an await.

`Sessions` cuts each operation into its get, `Stamp` (the time-stamp and the patch)
and the adapter's update. The in-memory adapter merges the patch in one step; the
runtime adapter reads again (`Reread`) and later writes the whole (`Update`), so that
an older stamp can come last. `promised` is history: the sessions as calls one at a
time would leave them; `raced` are those written from an outdated copy or with a time
older than their own. `updateMetadata` and `delete` are not modelled.

`FollowUps` has evaluations that await evidence, take the time and walk the rules,
each with an awaited condition; registration, removal and reset go on meanwhile.
`sent` and `crossed` are history.

In `MemoryStore` what an entry's text says is abstracted to the facts it knows: a write
adds one, a promotion keeps them, a compaction keeps those of all sources and takes the
first of their expiries. `StoreUpdate` takes the adapter's inner get and its update as
one step: the content that is written comes from the patch, whatever that get returned.
`forgotten` and `overtaken` are history. The pruning of the in-memory adapter, tags and
`includeNarrower` are not modelled.

`CloneRequests` has the status cache, the cooldown mark in memory and in the store,
the service as an external job, and the calls of `ensureCloneFresh`. `basis` is
history. `statusForJob`, `lookupJobId` and `invalidate` are not modelled.

### WatchRules, FollowUpBatch, NotifyChannel

`rule[r]` is the status and binding of the `r`-th registration of one rule id: a
call that was under way when the rule is registered again keeps writing to the
object it holds. The scheduler is external: it fires a pending wake-up once, and
a scheduler call that throws may have been applied.

`FollowUpBatch` drains the inbox, puts aside what is beyond the cap and works off
the rest in a pool of workers. A limit or an abort only sets an item's signal: the
item is over when its function settles.

`NotifyChannel` reads and writes the preference in separate awaits. A post that finds no
preference discovers a channel (`found`): it counts, but never confirms. `prompted` and
`overruled` are history: which posts asked the user, and whether a post wrote over an
answer.

### Connectivity, Routing, Coordination

`Connectivity` is one thread; `stack` holds the calls under way, the innermost
first; outside code runs when the stack is empty or its top is inside a callback,
and may call any operation. A frame keeps the list and step that were read at
entry. Source, class and audience are merged into a key; the time-based window of
suppression, validation and queries are abstracted away.

`Routing.Decide` follows the code's order of precedence under the ceiling, with model
specs reduced to latencies; costs are kept by thread. `Coordination` calls it for each
step, awaits the specialist, and looks at the signals its thread got; while it awaits,
signals are raised and ended and the registry changes. The look for alarms lists the
newest `QueryLimit` of the specialist's live signals (50 in the code), the sweep at the
end the oldest `SweepLimit` that have not expired (500); as several signals may carry
one millisecond, and equal ones are listed in order of arrival, any clock that does not
run backwards is tried (`Clocks`). The synthesised text is reduced to its quality, which
a custom synthesizer chooses.

## 3. What is checked

Every property of a passing run is paired with a mutant, a plausible bug in a
mapped definition that makes TLC report that property.

| Run | Bounds | Properties |
|---|---|---|
| `Components` | per part, below | `DeliveryHonest`, `KeepsPromises`, `KnowledgeKept`, `RemindersKeepPolicy`, `StatusIsRecent`, `RepeatsAreBlocked`, `EveryoneHears`, `ExpiresOnTime`, `NoLiveDuplicates`, `EndedStaysEnded`, `UrgencyWins`, `AnswerIsEarned` |
| `Conversation` | 2 callers, 5 calls, clock to 2, 1 restart or rejection, 2 attempts, chained; object: 2 requests, 2 continuations, 2 keys, 2 store or scheduler calls | `AtMostOneReply`, `ReplyRecorded`, `LifeRefined`, `TurnSettles`; `TurnsStayApart`, `FindsWhatWaits`, `WakesAreKept`, `EveryRequestHasItsTurn` |
| `Assistant` | 4 messages, 2 slots, timeouts of 1; relay: 2 attempts at 1 turn, 2 configurations | `NoIdleSlot`, `FirstComeFirstServed`, `SlotIsFreed`, `StopGetsPastDrain`; `OneBroker`, `AbortIsHeard`, `ExecuteEnds` |
| `TurnQueue` | 2 requests, 2 events (one without key), 2 consumers, batches of 2, 2 tries, 2 promises | `TwiceOnlyIfRaced`, `AckMeansSettled`, `EventIsHandled` |
| `HarnessTurn` | 3 iterations, 3 tool calls, 2 invalid outputs, batches of 2, 1 retry, budget 3 | `LimitsHold`, `ModelSeesResults`, `CancelWins`, `NoCallOutlivesTurn`, `TurnEnds` |
| `Proactive` | 1 operator, 2 evaluations, 2 registrations, 2 wake-ups; 3 signals, 2 workers, cap 2; 3 posts, 2 channels, confirmation after 2, 1 reply | `ActiveIsWatched`, `StoppedFallsSilent`, `DuplicatesDieOut`; `RunAccountsForAll`; `UserSettlesChannel` |
| `ContinuationReopened` | 2 callers, 4 calls | violated: a stop is overwritten by the create it met |
| `ContinuationWakeExpires` | 2 callers, 4 calls | violated: a wake-up is always too late |
| `TurnWebhookLost` | 2 requests, 1 event, 1 consumer | violated: a failed send is not retried |
| `ConnectivityLosesSignals` | 3 signals, 1 step, nesting 2 | violated: a signal drops out of the log |
| `RelayLeavesBroker` | 2 attempts | violated: a broker is left running |
| `MemoryCrowdedOut` | 1 caller, 4 entries, 2 sessions | violated: a session's own entry is not found |

Bounds of `Components`: continuation 2 callers, 3 racing calls, 1 restart or rejection,
2 attempts; 2 callers of 2 sessions with 2 channels and 4 calls; 2 callers of 3 memory
entries, 2 facts and 1 day in a session's and a user's scope (together at most 4); 2
evaluations of 2 rules, of which one is not crossed, with 2 reminders and a cooldown of
1; 2 calls for a clone with a time to live and a cooldown of 1, ticks to 2; 3 tool calls
of 2 turns with 2 inputs, 1 turn remembered; 3 signals and 2 steps, together at most 3,
nesting 2; plans of up to 3 steps for a limit of 2, 2 raised signals or 1 and a missing
specialist, query and sweep limit 1, cost to 2, a custom synthesizer over one plan of
two steps.

Why the bounds are enough. A stale read needs one call that reads and one that
writes in between: two callers, or two evaluations. Five chained calls allow
a create, two resumes, a wake-up and a stop, or one of them on a terminal record; one
loss is a restart or a rejected call at any await of them. Two store
calls let one put replace another's key or overlap it, and a call of two to four
writes can be cut at each. Four messages over two slots leave two in the queue, so
that one can overtake another. Two attempts at one turn give a shutdown one of them
is still waiting for. Two tries reach redelivery and the dead letter; two promises
let one register the other. Batches of two with a third call left reach
`maxToolCalls` inside a batch and between batches. Two registrations give a
replaced rule that is still written to, two wake-ups a duplicate. Three signals
over a cap of two leave one behind. Three posts pass the confirming count while one
is held. Three memory entries are two sources and what is made of them. Three tool
calls in two turns, one remembered, push a cache out under a call in flight. Three
signals are a replaced one, its replacement and one of a callback; two steps let a
nested advance overtake an outer one. Two raised signals over a query limit of 1
push an alarm out of the list. Every bound is a constant in a guard.

Deadlock is not checked where the system really may stop: every call has returned
and the calls a run may make are used up. `ConnectivityLosesSignals` checks it, as
a callback can always be registered or removed.

### Properties worth a reader's attention

- `DeliveryHonest`: true even of racing calls, since every copy that is ever put
  already satisfies it.
- `ReplyRecorded`, `TurnSettles`: qualified by `lost`. A restart between the post and
  the final put, or a final put that rejects, leaves a reply no record knows of, and a
  stop then makes the record cancelled; either of them during a turn leaves the record
  in `resuming`, where every resume is rejected. No document says what becomes of a
  record then. Calls that are cut off anywhere else are held to the properties.
- `TurnsStayApart`: a job may run beside a later turn if its own turn rejected.
- `FindsWhatWaits`: excepts continuations on which a store call failed, was cut or
  met another: there is no transaction over record, list and index.
- `WakesAreKept`: `cancelWake` deletes the alarm whoever's it is; only a
  continuation that has the scheduler to itself is sure of its wake-up.
- `KeepsPromises`, `RemindersKeepPolicy`: name the exact races (an outdated copy
  written back, or an older time-stamp written last) in which a session or a reminder
  limit is not kept, and hold every other history to what the operations promise. The
  races themselves break what documents say (below).
- `UrgencyWins`: the reason tells of a cut by the ceiling just when what was wanted, by
  whoever decides (caller, capability, budget, escalations, latency or default), was
  deeper than what the ceiling allows.
- `AnswerIsEarned`: excepts alarms raised after the last required step of their
  specialist or hidden behind a blocker of an optional one (below), a specialist that
  raised more signals than a query lists, and signals beyond the limit of the sweep. What a custom synthesizer makes of partial or failed
  results is its own affair; an unresolved conflict degrades its answer too.
- `KnowledgeKept`: a fact is missing only if it was deleted, expired, or was added
  to an entry that a promotion, compaction or deletion had already read.
- `StatusIsRecent`: the age is counted from when the service was asked.
- `UserSettlesChannel`: the posts that asked are counted over all channels, since posts
  that discover different channels at once write one count. Excepts posts that were
  under way when the user answered: these may write over the answer.
- `RunAccountsForAll`: every drained signal is finished, aborted or put aside, once, and
  the result of an item says what happened to it, so far as the comments of
  `bounded-parallel.ts` and the code agree: of an item that still yields a value after
  its limit, or rejects by itself after the abort, they do not (below).
- `NoCallOutlivesTurn`: excepts a batch in which a call threw; `Promise.all` rejects
  at once while the other calls run on.
- `TwiceOnlyIfRaced` names the only ways past the de-duplication gate, a look-up before
  the other's mark was made or before it could be read;
  `EventIsHandled` excepts a request that claimed the key and then failed.
- `ActiveIsWatched`: excepts a rule one of whose calls threw; nothing requests its
  next wake-up.

### Fairness

- `Continuation`: `WF(Step(c))`, a call that was begun runs on. Nothing obliges
  anyone to begin a call, a wake-up to fire or the clock to move.
- `TurnExecutor`: a turn, a job and a write come to an end some time. Nothing in
  the object times them out; a chain whose head never settles does stall.
- `AssistantRuntime`: time passes, due timers fire, `stop` goes on after the drain.
  Hooks and handlers may hang for ever.
- `RelayExecution`: starts and shutdowns settle, calls of an attempt settle and its
  timer fires; the worker need not answer.
- `TurnQueue`: the platform runs handlers, and runs or stops consumers. Promises
  need not settle.
- `HarnessTurn`: `WF(Turn)`. Nothing in the loop times out the model or a tool, so
  a turn ends only if what it awaits does.
- `WatchRules`: the scheduler fires, the runtime delivers, conditions and scheduler
  calls settle. Operators do nothing unless they want to.
- All other modules: none, their properties are safety.

### Disagreements found

1. `ContinuationReopened`: a create with a wake-up puts its record a second time once
   the scheduler has answered; a stop that completes in between is overwritten. The
   package README draws terminal statuses as final.
2. `ContinuationWakeExpires`: the wake-up is scheduled for the instant of expiry,
   and expiry is checked first, so a wake-up on time never resumes anything.
3. `TurnWebhookLost`: the key is marked before the send, so the retry the ingress
   test counts on is answered as a duplicate.
4. `ConnectivityLosesSignals`: `emit` writes back a list it read before the
   callbacks ran; the spec says the log retains all signals.
5. `RelayLeavesBroker`: the un-awaited send of an attempt that timed out starts a
   broker after the adapter's last shutdown, whose comment promises that none is
   left unowned.
6. `MemoryCrowdedOut`: `retrieve` filters by scope only after it has cut the list to
   the newest entries of all scopes; the spec says an entry can be retrieved in the
   next turn.

Further disagreements between code and documents, which the models reproduce and the
properties except, without a run of their own:

- A touch that fetched a session before it was expired makes it active again;
  `docs/specs/v1-sessions-spec.md:56` says of `expired` that there are no further
  transitions. Of two touches on the runtime adapter the one stamped first may be
  written last, so `lastActivityAt`, by line 86 the time of the last inbound message,
  goes back.
- The `continue` for a failed optional step (`coordination.ts:391-398`) skips the look
  at interrupts behind it, and only the signals of the specialist whose step has just
  ended are looked at, so that an alarm it raises later halts nothing;
  `packages/coordination/README.md:152` says blockers and interrupts halt the turn.
- A conflict that was resolved still counts as unresolved in the synthesis
  (`coordination.ts:112`); line 153 of that README has unresolved ones degrade it.
- An item of a batch that ignores its limit and resolves is fulfilled, where
  `bounded-parallel.ts:14` and `:38-41` have it settle as a time-out; one that rejects
  by itself after the batch's abort counts as aborted, where `:46-49` says rejected.
- A post writes the channel preference it read back over a user's answer; the note at
  `notify-channel-prefs.ts:86-89` says the race at worst delays the automatic
  confirmation by one post.
- Two evaluations that await one rule's condition both fire, one reminder above what
  `proactive/src/types.ts:13` calls the maximum.

Met while modelling, too: the coordinator never passes `activeEscalations` to
`router.decide`, for which `docs/specs/v1-routing-spec.md:479` has them; a failed
optional step with a blocker is listed twice among the skipped steps; a clone request
that failed leaves its cooldown mark, so that the next caller is told the clone was
requested (`ensure-clone-fresh.ts:129-131`); a batch that uses up `maxToolCalls` ends
the turn at its first result, and the results behind it are not in the deferred
transcript.

## 4. What is proved

Every safety invariant a run checks is a theorem, and so are its action property
`EndedStaysEnded` and its refinement `LifeRefined`. All theorems hold for every value
of the constants, under the named assumption of their module (`ConstantsAssumption`,
`ExecutorConstants`, ...), which runs evaluate. Each rests on an inductive invariant;
where it has a theorem of its own its name ends in `Always`.

**Continuation** (`ContinuationProofs`). Without assumption on interleaving:
`TypeCorrect`, `AttemptsAreBounded`, `DeliveryIsHonest`. They are not inductive by
themselves, as a call may put a copy it read long ago; `SoundInv` asks them of every
copy of a record, stored or held. For chained calls, `ChainInv` has three parts: at most
one call is in flight (`Alone`), what a record satisfies in each status (`RecordInv`),
and how the copy of the call in flight relates to it (`CopyInv`).
`ChainedReplyIsUnique`, `ChainedImplementsLifecycle` (the refinement) and others read
their claims off it. `ChainedReplyRecorded` needs more (`ReplyInv`): until a reply is
lost to a restart or a rejected put, a record resumes with a reply out only while the
call that posted is about to put, so a chained stop never finds it so, and that call
says of the reply in the copy it will put.

**Durable object** (`CloudflareProofs`). `TurnsAlwaysApart`: the chain holds
unanswered requests once and in order, only its head runs, a job is pending only
while its turn runs or after it failed. `AlwaysFindsWhatWaits`: what the writes left
of a call do and what is stored lead to one outcome, whichever have been made
(`LeadsTo`); the writes of a call never touch a key twice, so each write keeps this.
`WakesAlwaysKept`: whoever has the scheduler to itself is the only user, by counting.

**Queue** (`CloudflareProofs`). `NeverTwiceUnlessRaced`: a request that got past the
look-up without racing found its key unmarked, while a mark that can no longer be missed
is never taken back, and whoever marked one that can has raced with a look-up that
missed it.
`AcksAreEarned`: batches of consumers are disjoint, and the promises of a current run
are fulfilled, awaited, or those of a consumer that has given up.

**Assistant** (`AssistantProofs`). `NeverAnIdleSlot`, `AlwaysFirstComeFirstServed`:
`inFlight` is the number of busy messages, all slots are used while messages wait in
a started runtime, the queue is in order of dispatch.

**Harness** (`HarnessProofs`). Relay: `AlwaysOneBroker`, as a start and the closing of
a broker exclude each other; `AbortAlwaysHeard`, as before an attempt is open nothing
was published. Turn: `ModelAlwaysSeesResults`, `NoCallEverOutlivesTurn`,
`CancelAlwaysWins`: while a batch is under way there are as many results as calls that
have returned, in a sequential batch only one call is begun and not returned, and an
abort leaves a turn only its end. `LimitsAlwaysHold` adds that a batch keeps room
under `maxToolCalls` for those of its calls that still wait and that a call in back-off
has a run left (`CallInv`), and that what was run but is not in the usage yet costs no
more than the results of the batch do (`BillInv`). The bill is a
recursive function over the results; what it returns after an append or for a tail is
proved by induction over the length, from the least-number principle (`NatLeast`).
Guard: `RepeatsAlwaysBlocked`, as a cache belongs to one turn, calls that began while
the turn was remembered hold its latest cache, and a cache has an entry for just what
one of its calls succeeded with.

**Proactive** (`ProactiveProofs`). `ActiveIsAlwaysWatched`: an active rule that has not
failed has a wake-up nobody is about to cancel, one that has fired, or a call at work
that will request one. `UserAlwaysSettlesChannel`: no stored or held count is ahead of
the posts that asked, and after a reply only posts that began before it may write.
`RemindersAlwaysKeepPolicy`: the state of a rule that was not crossed tallies with what
was sent (`Tallies`), and an evaluation that awaits a condition has found one more
reminder due (`Permits`). `RunsAccountForAll`: the fresh ones of the listed signals are
found or yet to be visited, and in the end in the pool or dropped (`DrainInv`); an item
is untaken, in the hands of one worker, or settled with what is said of it in the end
(`PoolInv`); an abort cuts short no more items than there are workers (`CutInv`); and of
an item that is still at work, its signal and the batch's abort agree (`Working`).

**Coordination** (`CoordinationProofs`). Router: `MostUrgentWins`, as what is picked
from the first escalations outvotes each of them, and hearing one more keeps this.
Coordinator: `AnswersAreEarned`, as all that happens to a signal is that it ends,
once, and an alarm was settled by each required step of its specialist that is behind,
unless it was crowded out of the query there (`Sound`): one that was not has stopped the
turn. Connectivity: `EveryoneIsTold`, `SignalsExpire`,
`DuplicatesAreSuppressed` and `EndsAreFinal` share `SignalInv`, which is stated for any
stack: each call under way stands for the subscribers it has not told yet, for a part
of the list without a twin of its input, or for signals that are due and not visited.
A step is split into what the top of the stack does to the signals and what it leaves
to the calls below, which hold lists and steps that are older but never wrong about
signals that have ended.

**Stores** (`StoreProofs`). `KnowledgeAlwaysKept`: a call knows what its sources know
except overtaken facts, and every fact told is in an entry no call is about to delete.
`PromisesAlwaysKept`: a call works on a session that was created and has not been
refused on its copy, and where what matters to it in the copy is still so, its patch
merged into the session is what the interface promises (`UpToDateKeepsPromise`), whether
it is merged at once or written after a second read.
`StatusAlwaysRecent`: a poll begins no later than the clone service is read, and a
cached status is kept no longer than the time to live from then.

**Shared lemmas** (`SequenceLemmas`): the least-number principle, from which every
induction here is made; what the community operators on sequences return
(`SetToSeq`, `RemoveAt`, `ToSet` of a concatenation, a split); and that an iteration
`f[0] = first, f[n] = step[n][f[n - 1]]` exists (`Iterates`), which gives a value to the
recursive functions of the models.

*Only model-checked.* Liveness in every module, which is out of the prover's reach:
`TurnSettles`, `EveryRequestHasItsTurn`, `SlotIsFreed`, `StopGetsPastDrain`,
`ExecuteEnds`, `EventIsHandled`, `TurnEnds`, `StoppedFallsSilent`, `DuplicatesDieOut`.
That calls are chained (`Exclusive`) is an assumption of the theorems named `Chained`;
`TurnsAlwaysApart` proves it of the object, but the two modules are not composed.

## 5. Not modelled

- Ids, texts, timestamps, traces and payloads, except where a property tells values
  apart.
- Model adapters, specialists, turn context, telemetry, traits, persona, dispatch,
  sdk, examples: requests, formats, sinks and types without a protocol of their own.
  They are most of the repository's lines, so the map covers a small share of it.
- The harness's registries: each call is one synchronous change of a map.
- How the runtime policy comes to a decision: a synchronous function of its counters
  and of the turn's, called just before the call is counted.
- Policy and webhook registry: one call does not interact with another. Inbox: the
  read-then-update pattern of `Sessions` with fewer operations.
- Of surfaces, everything but the de-duplication gate.

### Plan

- The runtime policy with its turn states, which a call of a parallel batch may make
  again after `reset` (`runtime-policy/index.ts`, `afterToolResult`), composed with
  `HarnessTurn`.
- Inbox and webhook registry as parts of `Components`.
- The composition of `TurnExecutor` with `Continuation`, to show `Exclusive` instead
  of assuming it, and a proof of that.
