---------------------------- MODULE Continuation ----------------------------
(***************************************************************************)
(* The continuation runtime: create, resume and stop on ONE stored record. *)
(*                                                                         *)
(* Every public operation is an async function that reads the record once, *)
(* keeps that copy, awaits the scheduler, the harness or the delivery      *)
(* adapter, and finally writes the whole record back; the store has no     *)
(* compare-and-swap.  One action stands for the code between two awaits.   *)
(*                                                                         *)
(* Exclusive = TRUE is the Cloudflare deployment, in which TurnExecutorDO  *)
(* chains the turns of a session on one promise; FALSE is the runtime      *)
(* called from independent handlers.  A caller makes one call at a time;   *)
(* MaxCalls bounds how many are made in all.                               *)
(***************************************************************************)
EXTENDS Naturals, FiniteSets

CONSTANTS
    Calls,        \* callers: handlers that may be inside the runtime at once
    Ids,          \* approval and operation identifiers
    NoId,         \* "no identifier"
    MaxAttempts,  \* bounds.maxResumeAttempts
    Ttls,         \* the time to live a configuration or an override may give
    MaxCalls,     \* bound on the calls made
    MaxTime,      \* bound on the clock
    MaxLosses,    \* bound on process restarts and on rejected calls, together
    HasDelivery,  \* a delivery adapter is configured
    Exclusive     \* calls are chained one after the other

ASSUME ConstantsAssumption ==
    /\ NoId \notin Ids
    /\ MaxAttempts \in Nat \ {0}
    /\ Ttls \subseteq Nat \ {0}
    /\ MaxCalls \in Nat
    /\ MaxTime \in Nat
    /\ MaxLosses \in Nat
    /\ HasDelivery \in BOOLEAN
    /\ Exclusive \in BOOLEAN

VARIABLES
    rec,      \* the record in the store
    clock,    \* config.clock
    alarms,   \* instants at which the scheduler will fire a wake-up
    pc,       \* where each call is
    trigger,  \* resume input of each call
    at,       \* `now`, read when the call was made
    draft,    \* the copy of the record a call works on and will put
    made,     \* calls made so far
    turns,    \* history: harness turns started under each resumed turn id
    posted,   \* history: replies that reached the user
    lost,     \* history: what calls that were cut off failed to store
    losses    \* restarts and rejected calls so far

store == <<rec, alarms>>
locals == <<pc, trigger, at, draft>>
history == <<turns, posted, lost>>
vars ==
    <<rec, clock, alarms, pc, trigger, at, draft, made, turns, posted, lost, losses>>

-----------------------------------------------------------------------------
(* Records, wait conditions and triggers *)

Terminal == {"completed", "cancelled", "expired", "superseded", "failed"}
Statuses == {"absent", "pending", "resuming"} \cup Terminal
DeliveryStatuses ==
    {"not_applicable", "pending_delivery", "delivered", "delivery_failed",
     "suppressed_superseded", "suppressed_expired", "suppressed_session_reengaged"}

Correlated == {"approval_resolution", "external_result"}

\* What deriveWaitCondition can return: a correlated wait always has an id.
WaitConditions ==
    [type : {"user_reply", "scheduled_wake"}, id : {NoId}]
        \cup [type : Correlated, id : Ids]

\* A stored wake wait may also carry the wake-up's id, here its instant.
StoredWaits == WaitConditions \cup [type : {"scheduled_wake"}, id : Nat]

Records ==
    [status : Statuses, wait : StoredWaits, delivery : DeliveryStatuses,
     attempts : Nat, expiresAt : Nat, origin : Nat]

UserReply == [type |-> "user_reply", id |-> NoId]
ScheduledWake == [type |-> "scheduled_wake", id |-> NoId]

NoRecord ==
    [status |-> "absent", wait |-> UserReply, delivery |-> "not_applicable",
     attempts |-> 0, expiresAt |-> 0, origin |-> 0]

Triggers == [wait : WaitConditions, denied : BOOLEAN, byAlarm : BOOLEAN]
NoTrigger == [wait |-> UserReply, denied |-> FALSE, byAlarm |-> FALSE]

\* validateTrigger: types agree, and ids too where both sides carry one.
\* The wakeUpId of a wake is not compared.
Matches(t, r) ==
    /\ t.wait.type = r.wait.type
    /\ t.wait.type \in Correlated => t.wait.id = r.wait.id

StopReasons ==
    {"completed", "cancelled_by_user", "cancelled_by_product", "approval_denied",
     "superseded_by_newer_turn", "expired_ttl", "resume_runtime_error",
     "session_no_longer_deliverable", "delivery_failed"}

CancelReasons == {"cancelled_by_user", "cancelled_by_product", "approval_denied"}

StatusForReason(reason) ==
    CASE reason = "completed" -> "completed"
      [] reason \in CancelReasons -> "cancelled"
      [] reason = "superseded_by_newer_turn" -> "superseded"
      [] reason = "expired_ttl" -> "expired"
      [] OTHER -> "failed"

DeliveryForReason(reason, current) ==
    IF current \in {"not_applicable", "delivered"} THEN current
    ELSE CASE reason = "superseded_by_newer_turn" -> "suppressed_superseded"
           [] reason = "expired_ttl" -> "suppressed_expired"
           [] reason = "session_no_longer_deliverable" -> "suppressed_session_reengaged"
           [] reason = "delivery_failed" -> "delivery_failed"
           [] OTHER -> current

Expired(r) ==
    [r EXCEPT !.status = "expired",
              !.delivery = IF @ = "not_applicable" THEN @ ELSE "suppressed_expired"]

Resuming(r) == [r EXCEPT !.status = "resuming", !.attempts = @ + 1]

\* Mutant: the status is left alone.
RependedStuck(r, wait, expiresAt) ==
    [r EXCEPT !.wait = wait, !.expiresAt = expiresAt, !.origin = r.attempts]

Repended(r, wait, expiresAt) ==
    [r EXCEPT !.status = "pending", !.wait = wait, !.expiresAt = expiresAt,
              !.origin = r.attempts]

Delivered(r) == [r EXCEPT !.delivery = "delivered"]

\* Mutant: a refusal counts as delivered.
RefusalDelivered(r) == [r EXCEPT !.delivery = "delivered"]

\* Mutant: a throwing adapter leaves no trace.
RefusalIgnored(r) == r

Refused(r) == [r EXCEPT !.delivery = "delivery_failed"]

Stopped(r, reason) ==
    [r EXCEPT !.status = StatusForReason(reason),
              !.delivery = DeliveryForReason(reason, @)]

-----------------------------------------------------------------------------
(* Calls *)

PCs ==
    {"idle", "createPut", "schedule", "wakePut",
     "resumeGet", "closePut", "resumingPut", "harness", "deliver", "finalPut",
     "stopGet", "cancelWake", "stopPut"}

TurnNumbers == 1..MaxAttempts

InFlight(c) == pc[c] # "idle"

\* Mutant: a turn is started without waiting for the tail.
BeginAtOnce(c, label) ==
    /\ pc[c] = "idle"
    /\ made < MaxCalls
    /\ pc' = [pc EXCEPT ![c] = label]
    /\ made' = made + 1

\* Where the executor chains turns, the next call waits for the last to settle.
BeginCall(c, label) ==
    /\ pc[c] = "idle"
    /\ made < MaxCalls
    /\ Exclusive => \A d \in Calls : ~InFlight(d)
    /\ pc' = [pc EXCEPT ![c] = label]
    /\ made' = made + 1

Goto(c, label) == pc' = [pc EXCEPT ![c] = label]

\* A call that returns keeps nothing.
Return(c) ==
    /\ Goto(c, "idle")
    /\ trigger' = [trigger EXCEPT ![c] = NoTrigger]
    /\ at' = [at EXCEPT ![c] = 0]
    /\ draft' = [draft EXCEPT ![c] = NoRecord]

Hold(c, r) == draft' = [draft EXCEPT ![c] = r]

Put(c) == rec' = draft[c]

Init ==
    /\ rec = NoRecord
    /\ clock = 0
    /\ alarms = {}
    /\ pc = [c \in Calls |-> "idle"]
    /\ trigger = [c \in Calls |-> NoTrigger]
    /\ at = [c \in Calls |-> 0]
    /\ draft = [c \in Calls |-> NoRecord]
    /\ turns = [k \in TurnNumbers |-> 0]
    /\ posted = 0
    /\ made = 0
    /\ lost = {}
    /\ losses = 0

-----------------------------------------------------------------------------
(* create *)

\* One continuation: create is not called twice for the same origin turn.
BeginCreate(c) ==
    /\ BeginCall(c, "createPut")
    /\ rec = NoRecord
    /\ \A d \in Calls : pc[d] \notin {"createPut", "schedule", "wakePut"}
    /\ \E wait \in WaitConditions, ttl \in Ttls :
          Hold(c, [status |-> "pending", wait |-> wait,
                   delivery |-> IF HasDelivery THEN "pending_delivery"
                                               ELSE "not_applicable",
                   attempts |-> 0, expiresAt |-> clock + ttl, origin |-> 0])
    /\ UNCHANGED <<store, clock, trigger, at, history, losses>>

CreatePut(c) ==
    /\ pc[c] = "createPut"
    /\ Put(c)
    /\ IF draft[c].wait.type = "scheduled_wake"
         THEN Goto(c, "schedule") /\ UNCHANGED <<trigger, at, draft>>
         ELSE Return(c)
    /\ UNCHANGED <<alarms, clock, made, history, losses>>

\* The wake-up is asked for at the instant the record expires.
Schedule(c) ==
    /\ pc[c] = "schedule"
    /\ alarms' = alarms \cup {draft[c].expiresAt}
    /\ Hold(c, [draft[c] EXCEPT
                   !.wait = [type |-> "scheduled_wake", id |-> draft[c].expiresAt]])
    /\ Goto(c, "wakePut")
    /\ UNCHANGED <<rec, clock, trigger, at, made, history, losses>>

\* The record of CreatePut is written again, now with the wake-up's id.
WakePut(c) ==
    /\ pc[c] = "wakePut"
    /\ Put(c)
    /\ Return(c)
    /\ UNCHANGED <<alarms, clock, made, history, losses>>

-----------------------------------------------------------------------------
(* resume *)

BeginResume(c) ==
    /\ BeginCall(c, "resumeGet")
    /\ \E wait \in WaitConditions, denied \in BOOLEAN :
          /\ denied => wait.type = "approval_resolution"
          /\ trigger' = [trigger EXCEPT ![c] =
                            [wait |-> wait, denied |-> denied, byAlarm |-> FALSE]]
    /\ at' = [at EXCEPT ![c] = clock]
    /\ UNCHANGED <<store, clock, draft, history, losses>>

\* The scheduler fires a wake-up, which resumes with a scheduled_wake trigger.
WakeFires(c) ==
    /\ BeginCall(c, "resumeGet")
    /\ \E w \in alarms :
          /\ w <= clock
          /\ alarms' = alarms \ {w}
    /\ trigger' = [trigger EXCEPT ![c] =
                      [wait |-> ScheduledWake, denied |-> FALSE, byAlarm |-> TRUE]]
    /\ at' = [at EXCEPT ![c] = clock]
    /\ UNCHANGED <<rec, clock, draft, history, losses>>

\* Mutant: a resume is only turned away from a terminal record.
OnlyTerminal == Terminal

\* Statuses from which nothing is resumed.
Unresumable == Terminal \cup {"resuming"}

Exhausted(r) == r.attempts >= MaxAttempts

\* What resume makes of the record it reads: the checks in the code's order.
Verdict(c, r) ==
    IF r.status = "absent" THEN "not found"
    ELSE IF r.status \in Unresumable THEN "rejected"
    ELSE IF at[c] >= r.expiresAt THEN "expired"
    ELSE IF Exhausted(r) THEN "exhausted"
    ELSE IF ~Matches(trigger[c], r) THEN "mismatch"
    ELSE IF trigger[c].denied THEN "denied"
    ELSE "admitted"

Reads(c, verdict) ==
    /\ pc[c] = "resumeGet"
    /\ Verdict(c, rec) = verdict
    /\ UNCHANGED <<store, clock, made, history, losses>>

ResumeReject(c) ==
    /\ \E verdict \in {"not found", "rejected", "mismatch"} : Reads(c, verdict)
    /\ Return(c)

ResumeExpire(c) ==
    /\ Reads(c, "expired")
    /\ Hold(c, Expired(rec))
    /\ Goto(c, "closePut")
    /\ UNCHANGED <<trigger, at>>

ResumeExhaust(c) ==
    /\ Reads(c, "exhausted")
    /\ Hold(c, [rec EXCEPT !.status = "failed"])
    /\ Goto(c, "closePut")
    /\ UNCHANGED <<trigger, at>>

ResumeDeny(c) ==
    /\ Reads(c, "denied")
    /\ Hold(c, [rec EXCEPT !.status = "cancelled"])
    /\ Goto(c, "closePut")
    /\ UNCHANGED <<trigger, at>>

ResumeAdmit(c) ==
    /\ Reads(c, "admitted")
    /\ Hold(c, Resuming(rec))
    /\ Goto(c, "resumingPut")
    /\ UNCHANGED <<trigger, at>>

\* The record closed by an expired, exhausted or denied resume is written.
ClosePut(c) ==
    /\ pc[c] = "closePut"
    /\ Put(c)
    /\ Return(c)
    /\ UNCHANGED <<alarms, clock, made, history, losses>>

\* Once the record is stored the turn `<id>:resume:<attempts>` is started.
ResumingPut(c) ==
    /\ pc[c] = "resumingPut"
    /\ Put(c)
    /\ turns' = [turns EXCEPT ![draft[c].attempts] = @ + 1]
    /\ Goto(c, "harness")
    /\ UNCHANGED <<alarms, clock, trigger, at, draft, made, posted, lost, losses>>

\* The harness turn comes back with r and the call goes on at label.
TurnReturns(c, r, label) ==
    /\ pc[c] = "harness"
    /\ Hold(c, r)
    /\ Goto(c, label)
    /\ UNCHANGED <<store, clock, trigger, at, made, history, losses>>

\* outcome completed or failed
TurnEnds(c) ==
    \E status \in {"completed", "failed"} :
        TurnReturns(c, [draft[c] EXCEPT !.status = status],
            IF HasDelivery /\ draft[c].delivery = "pending_delivery"
                THEN "deliver" ELSE "finalPut")

\* A resumable outcome with a payload: the same record waits again.  A wait
\* that cannot be derived falls back to user_reply, itself a WaitCondition.
TurnRepends(c) ==
    \E wait \in WaitConditions, ttl \in Ttls :
        TurnReturns(c, Repended(draft[c], wait, clock + ttl), "finalPut")

\* The harness throws, or its outcome is unknown or lacks a payload.
TurnBreaks(c) ==
    TurnReturns(c, [draft[c] EXCEPT !.status = "failed"], "finalPut")

\* The adapter posts the reply, or refuses or throws, the latter possibly
\* after the reply has gone out.
Deliver(c) ==
    /\ pc[c] = "deliver"
    /\ \/ /\ posted' = posted + 1
          /\ Hold(c, Delivered(draft[c]))
       \/ /\ posted' \in {posted, posted + 1}
          /\ Hold(c, Refused(draft[c]))
    /\ Goto(c, "finalPut")
    /\ UNCHANGED <<store, clock, trigger, at, made, turns, lost, losses>>

FinalPut(c) ==
    /\ pc[c] = "finalPut"
    /\ Put(c)
    /\ Return(c)
    /\ UNCHANGED <<alarms, clock, made, history, losses>>

-----------------------------------------------------------------------------
(* stop *)

BeginStop(c) ==
    /\ BeginCall(c, "stopGet")
    /\ UNCHANGED <<store, clock, trigger, at, draft, history, losses>>

StopKeep(c) ==
    /\ pc[c] = "stopGet"
    /\ rec.status \in Terminal \cup {"absent"}
    /\ Return(c)
    /\ UNCHANGED <<store, clock, made, history, losses>>

\* The reason is an input of the call that is first used here.
StopRead(c) ==
    /\ pc[c] = "stopGet"
    /\ rec.status \in {"pending", "resuming"}
    /\ \E reason \in StopReasons : Hold(c, Stopped(rec, reason))
    /\ Goto(c, IF rec.wait.type = "scheduled_wake" /\ rec.wait.id # NoId
                 THEN "cancelWake" ELSE "stopPut")
    /\ UNCHANGED <<store, clock, trigger, at, made, history, losses>>

CancelWake(c) ==
    /\ pc[c] = "cancelWake"
    /\ alarms' = alarms \ {draft[c].wait.id}
    /\ Goto(c, "stopPut")
    /\ UNCHANGED <<rec, clock, trigger, at, draft, made, history, losses>>

StopPut(c) ==
    /\ pc[c] = "stopPut"
    /\ Put(c)
    /\ Return(c)
    /\ UNCHANGED <<alarms, clock, made, history, losses>>

-----------------------------------------------------------------------------
(* environment *)

Tick ==
    /\ clock < MaxTime
    /\ clock' = clock + 1
    /\ UNCHANGED <<store, locals, made, history, losses>>

\* A turn that runs or is being answered.
Answering == {"harness", "deliver", "finalPut"}

\* What the store will never tell once the calls in C are gone: how the turn ended,
\* and that a reply went out.
Unstored(C) ==
    {"turn" : c \in {d \in C : pc[d] \in Answering}}
        \cup {"reply" : c \in {d \in C : pc[d] = "finalPut" /\ posted > 0}}

\* The process restarts: every call in flight is gone, what is stored stays.
Crash ==
    /\ losses < MaxLosses
    /\ \E c \in Calls : InFlight(c)
    /\ losses' = losses + 1
    /\ lost' = lost \cup Unstored(Calls)
    /\ pc' = [c \in Calls |-> "idle"]
    /\ trigger' = [c \in Calls |-> NoTrigger]
    /\ at' = [c \in Calls |-> 0]
    /\ draft' = [c \in Calls |-> NoRecord]
    /\ UNCHANGED <<store, clock, made, turns, posted>>

\* The awaits of the store and of the scheduler: no try surrounds them.
Puts == {"createPut", "wakePut", "closePut", "resumingPut", "finalPut", "stopPut"}
Unguarded == Puts \cup {"schedule", "resumeGet", "stopGet", "cancelWake"}

\* What is awaited there rejects and the call throws, as it does when the trace
\* sink throws before the put or after it.
Rejects(c) ==
    /\ losses < MaxLosses
    /\ losses' = losses + 1
    /\ Return(c)
    /\ UNCHANGED <<clock, made, turns, posted>>

RejectedUndone(c) ==
    /\ pc[c] \in Unguarded
    /\ Rejects(c)
    /\ lost' = lost \cup Unstored({c})
    /\ UNCHANGED store

\* The put went through all the same: a `resuming` record then starts no turn.
RejectedDone(c) ==
    /\ pc[c] \in Puts
    /\ Rejects(c)
    /\ Put(c)
    /\ lost' = IF pc[c] = "resumingPut" THEN lost \cup {"turn"} ELSE lost
    /\ UNCHANGED alarms

Begin(c) == BeginCreate(c) \/ BeginResume(c) \/ WakeFires(c) \/ BeginStop(c)

Step(c) ==
    \/ CreatePut(c) \/ Schedule(c) \/ WakePut(c)
    \/ ResumeReject(c) \/ ResumeExpire(c) \/ ResumeExhaust(c) \/ ResumeDeny(c)
    \/ ResumeAdmit(c) \/ ClosePut(c) \/ ResumingPut(c)
    \/ TurnEnds(c) \/ TurnRepends(c) \/ TurnBreaks(c)
    \/ Deliver(c) \/ FinalPut(c)
    \/ StopKeep(c) \/ StopRead(c) \/ CancelWake(c) \/ StopPut(c)

CallRejects(c) == RejectedUndone(c) \/ RejectedDone(c)

Next == Tick \/ Crash \/ \E c \in Calls : Begin(c) \/ Step(c) \/ CallRejects(c)

Spec == Init /\ [][Next]_vars

\* Storage, scheduler, harness and adapter promises settle, so a call runs on,
\* to its end or to the throw of CallRejects.
Fairness == \A c \in Calls : WF_vars(Step(c))

FairSpec == Spec /\ Fairness

-----------------------------------------------------------------------------
(* Properties *)

\* Every variable keeps to the shape of the TypeScript types it stands for.
TypeOK ==
    /\ rec \in Records
    /\ clock \in Nat
    /\ alarms \subseteq Nat
    /\ pc \in [Calls -> PCs]
    /\ trigger \in [Calls -> Triggers]
    /\ at \in [Calls -> Nat]
    /\ draft \in [Calls -> Records]
    /\ made \in Nat
    /\ turns \in [TurnNumbers -> Nat]
    /\ posted \in Nat
    /\ lost \subseteq {"turn", "reply"}
    /\ losses \in Nat

\* However calls interleave, no record is ever stored with more resume
\* attempts than its bound allows.
AttemptsBounded == rec.attempts <= MaxAttempts

\* However calls interleave, a record that says "delivered" has a reply behind
\* it.
DeliveryHonest == rec.delivery = "delivered" => posted > 0

\* A stored terminal record is never changed again, by a late resume, a second
\* stop or a wake-up: TERMINAL_STATUSES has no way out.
TerminalIsFinal == [][rec.status \in Terminal => UNCHANGED rec]_rec

\* No two harness turns run under the same resumed turn id, and none runs
\* under an id the record has not counted yet.
FreshTurnIds ==
    \A k \in TurnNumbers : turns[k] <= IF k <= rec.attempts THEN 1 ELSE 0

\* The user gets at most one reply out of one continuation.
AtMostOneReply == posted <= 1

\* A record that waits can still be answered, and its origin is the turn that
\* made it wait: what a resumed turn inherits is never half-updated.
WaitingIsWhole ==
    rec.status = "pending" =>
        /\ rec.origin = rec.attempts
        /\ rec.delivery = IF HasDelivery THEN "pending_delivery" ELSE "not_applicable"
        /\ posted = 0

\* The record and the reply agree, however calls are cut off, unless the one that
\* posted is, before its last put is through: a continuation ended by a stop or by
\* its TTL has posted nothing, and a reply is on record once the record is closed.
ReplyRecorded ==
    "reply" \notin lost =>
        /\ rec.status \in {"cancelled", "expired", "superseded"} => posted = 0
        /\ rec.status \in Terminal /\ posted > 0
            => rec.delivery \in {"delivered", "delivery_failed"}

\* A turn that was started is settled: no record stays `resuming`, where every
\* resume is rejected, unless its call is cut off, by a restart or a rejected put:
\* nothing recovers the record then.
TurnSettles == rec.status = "resuming" ~> rec.status # "resuming" \/ "turn" \in lost

\* A wake-up the scheduler fires finds its continuation alive.
WakeFindsLive == [][\A c \in Calls : trigger[c].byAlarm => ~ResumeExpire(c)]_vars

Life == INSTANCE ContinuationLifecycle WITH
            status <- rec.status, attempts <- rec.attempts

\* Chained calls implement the life of a record the README draws.
LifeRefined == Life!LifeSpec
=============================================================================
