----------------------------- MODULE TurnExecutor -----------------------------
(***************************************************************************)
(* The durable object of a conversation: its chain of turns, and the       *)
(* continuation store and wake-up scheduler the turns use.                 *)
(*                                                                         *)
(* A request waits for the turns before it, runs its turn and then awaits  *)
(* the promise the turn gave to waitUntil, its job.  Turns and jobs call   *)
(* put and delete of the store; such a call reads once and then makes its  *)
(* writes one after the other, each an await that may fail or be cut off   *)
(* by a restart.  Records live in the object's storage; the index from     *)
(* trigger keys to records is a KV namespace.                              *)
(*                                                                         *)
(* Trigger keys name one approval, operation or wake-up, so two            *)
(* continuations never share one: index says of each continuation which    *)
(* keys point to it.                                                       *)
(***************************************************************************)
EXTENDS Naturals, FiniteSets, Sequences, SequencesExt

CONSTANTS
    TurnRequests, \* messages sent to the object
    Conts,        \* continuations of the conversation
    TriggerKeys,  \* keys a continuation may wait on, one after the other
    MaxStoreCalls \* bound on the store and scheduler calls made

ASSUME ExecutorConstants ==
    /\ IsFiniteSet(TurnRequests)
    /\ {"absent", "unkeyed"} \cap TriggerKeys = {}
    /\ "none" \notin Conts
    /\ MaxStoreCalls \in Nat

VARIABLES
    chain,   \* requests not answered yet, in the order they came
    turn,    \* where each request is
    job,     \* the promise its turn gave to waitUntil
    writes,  \* of each turn and job: the store call it is in
    record,  \* storage: what each continuation waits on, if there is one
    listed,  \* storage: continuations with a session key
    index,   \* KV: the trigger keys that point to each continuation
    alarm,   \* the object's only alarm: the continuation it is set for
    calls,   \* calls made so far (bound)
    cut,     \* history: continuations with a store call that failed, was
             \* stopped by a restart, or ran beside another
    wanted,  \* history: continuations scheduled to wake, neither woken nor
             \* called off
    users    \* history: continuations the scheduler was called for

execVars ==
    <<chain, turn, job, writes, record, listed, index, alarm, calls, cut, wanted, users>>

Absent == "absent"      \* no record
NoKey == "unkeyed"    \* a record whose wait has no trigger key
NoAlarm == "none"

Actors == TurnRequests \X {"turn", "job"}
NoCall == [on |-> NoAlarm, todo |-> <<>>]

ExecInit ==
    /\ chain = <<>>
    /\ turn = [r \in TurnRequests |-> "new"]
    /\ job = [r \in TurnRequests |-> "none"]
    /\ writes = [a \in Actors |-> NoCall]
    /\ record = [c \in Conts |-> Absent]
    /\ listed = {}
    /\ index = [c \in Conts |-> {}]
    /\ alarm = NoAlarm
    /\ calls = 0
    /\ cut = {}
    /\ wanted = {}
    /\ users = {}

-----------------------------------------------------------------------------
(* TurnRequests *)

\* The turns before it have ended, one way or the other.
Next1(r) == chain # <<>> /\ Head(chain) = r

Running(r) == turn[r] \in {"running", "settling"}

\* Its turn, or its job, is running and not in a store call.
Free(a) ==
    /\ writes[a] = NoCall
    /\ IF a[2] = "turn" THEN turn[a[1]] = "running" ELSE job[a[1]] = "pending"

StoreUnchanged ==
    UNCHANGED <<writes, record, listed, index, alarm, calls, cut, wanted, users>>

\* fetch with a POST, or runSerialized.
Enqueue(r) ==
    /\ turn[r] = "new"
    /\ turn' = [turn EXCEPT ![r] = "queued"]
    /\ chain' = Append(chain, r)
    /\ UNCHANGED job
    /\ StoreUnchanged

StartTurn(r) ==
    /\ Next1(r)
    /\ turn[r] = "queued"
    /\ turn' = [turn EXCEPT ![r] = "running"]
    /\ UNCHANGED <<chain, job>>
    /\ StoreUnchanged

\* The turn hands a promise to waitUntil.
WaitUntil(r) ==
    /\ Free(<<r, "turn">>)
    /\ job[r] = "none"
    /\ job' = [job EXCEPT ![r] = "pending"]
    /\ UNCHANGED <<chain, turn>>
    /\ StoreUnchanged

\* Mutant: the promises are left to themselves.
SettledUnawaited(r) == TRUE

\* settleAll has nothing left to wait for.
PromiseSettled(r) == job[r] # "pending"

TurnFulfils(r) ==
    /\ Free(<<r, "turn">>)
    /\ turn' = [turn EXCEPT ![r] = "settling"]
    /\ UNCHANGED <<chain, job>>
    /\ StoreUnchanged

\* Mutant: a rejected run is left in the chain, and rejects those behind it.
RejectAll(r) ==
    /\ turn' = [s \in TurnRequests |->
                    IF turn[s] = "queued" \/ s = r THEN "failed" ELSE turn[s]]
    /\ chain' = <<>>

\* The caller gets the error; the chain goes on.
Reject(r) ==
    /\ turn' = [turn EXCEPT ![r] = "failed"]
    /\ chain' = Tail(chain)

\* settleAll is not called: the turn's job runs on by itself.
TurnRejects(r) ==
    /\ Free(<<r, "turn">>)
    /\ Reject(r)
    /\ UNCHANGED job
    /\ StoreUnchanged

SettleFails(r) ==
    /\ turn[r] = "settling"
    /\ job[r] = "rejected"
    /\ Reject(r)
    /\ UNCHANGED job
    /\ StoreUnchanged

SettleEnds(r) ==
    /\ turn[r] = "settling"
    /\ PromiseSettled(r)
    /\ job[r] # "rejected"
    /\ turn' = [turn EXCEPT ![r] = "done"]
    /\ chain' = Tail(chain)
    /\ UNCHANGED job
    /\ StoreUnchanged

PromiseEnds(r) ==
    /\ Free(<<r, "job">>)
    /\ \E outcome \in {"fulfilled", "rejected"} : job' = [job EXCEPT ![r] = outcome]
    /\ UNCHANGED <<chain, turn>>
    /\ StoreUnchanged

-----------------------------------------------------------------------------
(* The store *)

InCall(c) == {a \in Actors : writes[a].on = c}

\* The trigger keys under which a record is to be found.
KeysOf(w) == {w} \ {Absent, NoKey}

\* Mutant: the key of the record before is left in the index.
PutWritesOnly(prior, w) ==
    <<[put |-> "record", val |-> w], [put |-> "session", val |-> TRUE]>>
        \o SetToSeq({[put |-> "indexed", val |-> k] : k \in KeysOf(w)})

\* The writes of put, given the record it read before.
PutWrites(prior, w) ==
    LET stale == KeysOf(prior) \ KeysOf(w)
    IN  <<[put |-> "record", val |-> w], [put |-> "session", val |-> TRUE]>>
        \o SetToSeq({[put |-> "unindexed", val |-> k] : k \in stale})
        \o SetToSeq({[put |-> "indexed", val |-> k] : k \in KeysOf(w)})

BeginWrites(a, c, todo) ==
    /\ Free(a)
    /\ calls < MaxStoreCalls
    /\ calls' = calls + 1
    /\ writes' = [writes EXCEPT ![a] = [on |-> c, todo |-> todo]]
    /\ cut' = IF InCall(c) = {} THEN cut ELSE cut \cup {c}
    /\ UNCHANGED <<chain, turn, job, record, listed, index, alarm, wanted, users>>

PutRecord(a, c) ==
    \E w \in TriggerKeys \cup {NoKey} : BeginWrites(a, c, PutWrites(record[c], w))

DeleteWrites(existing) ==
    <<[put |-> "record", val |-> Absent]>>
        \o (IF existing = Absent THEN <<>> ELSE <<[put |-> "session", val |-> FALSE]>>)
        \o SetToSeq({[put |-> "unindexed", val |-> k] : k \in KeysOf(existing)})

Delete(a, c) == BeginWrites(a, c, DeleteWrites(record[c]))

\* One write of a store call takes effect.
Write(a) ==
    LET c == writes[a].on
        w == Head(writes[a].todo)
        rest == Tail(writes[a].todo)
    IN  /\ writes[a] # NoCall
        /\ record' = IF w.put = "record" THEN [record EXCEPT ![c] = w.val] ELSE record
        /\ listed' = IF w.put # "session" THEN listed
                     ELSE IF w.val THEN listed \cup {c} ELSE listed \ {c}
        /\ index' = [index EXCEPT ![c] =
                        CASE w.put = "indexed" -> @ \cup {w.val}
                          [] w.put = "unindexed" -> @ \ {w.val}
                          [] OTHER -> @]
        /\ writes' = [writes EXCEPT ![a] =
                        IF rest = <<>> THEN NoCall ELSE [@ EXCEPT !.todo = rest]]
        /\ UNCHANGED <<chain, turn, job, alarm, calls, cut, wanted, users>>

\* A write fails and the call throws.
WriteFails(a) ==
    /\ writes[a] # NoCall
    /\ writes' = [writes EXCEPT ![a] = NoCall]
    /\ cut' = cut \cup {writes[a].on}
    /\ UNCHANGED <<chain, turn, job, record, listed, index, alarm, calls, wanted, users>>

\* findByTrigger for a key of the continuation: the record it returns.
FindByTrigger(c, k) == IF k \in index[c] THEN record[c] ELSE Absent

ListBySession == {c \in listed : record[c] # Absent}

-----------------------------------------------------------------------------
(* The scheduler *)

SchedulerCall(a, c) ==
    /\ Free(a)
    /\ calls < MaxStoreCalls
    /\ calls' = calls + 1
    /\ users' = users \cup {c}
    /\ UNCHANGED <<chain, turn, job, writes, record, listed, index, cut>>

ScheduleWake(a, c) ==
    /\ SchedulerCall(a, c)
    /\ alarm' = c
    /\ wanted' = wanted \cup {c}

\* Mutant: the alarm is left to go off.
AlarmLeft == alarm

\* deleteAlarm, whatever the alarm is set for.
AlarmDeleted == NoAlarm

CancelAlarm(a, c) ==
    /\ SchedulerCall(a, c)
    /\ alarm' = AlarmDeleted
    /\ wanted' = wanted \ {c}

\* The alarm goes off; the resume it leads to is a request of its own.
AlarmFires ==
    /\ alarm # NoAlarm
    /\ alarm' = NoAlarm
    /\ wanted' = wanted \ {alarm}
    /\ UNCHANGED <<chain, turn, job, writes, record, listed, index, calls, cut, users>>

-----------------------------------------------------------------------------
(* A restart of the object: storage, KV and the alarm survive. *)

Restart ==
    /\ \E r \in TurnRequests : turn[r] \in {"queued", "running", "settling"}
    /\ turn' = [r \in TurnRequests |->
                    IF turn[r] \in {"queued", "running", "settling"} THEN "lost" ELSE turn[r]]
    /\ job' = [r \in TurnRequests |-> IF job[r] = "pending" THEN "lost" ELSE job[r]]
    /\ chain' = <<>>
    /\ writes' = [a \in Actors |-> NoCall]
    /\ cut' = cut \cup {c \in Conts : InCall(c) # {}}
    /\ UNCHANGED <<record, listed, index, alarm, calls, wanted, users>>

-----------------------------------------------------------------------------

Chained(r) ==
    \/ StartTurn(r) \/ TurnFulfils(r) \/ TurnRejects(r)
    \/ SettleFails(r) \/ SettleEnds(r) \/ PromiseEnds(r)

ExecNext ==
    \/ \E r \in TurnRequests : Enqueue(r) \/ WaitUntil(r) \/ Chained(r)
    \/ \E a \in Actors :
        \/ \E c \in Conts : \/ PutRecord(a, c) \/ Delete(a, c)
                             \/ ScheduleWake(a, c) \/ CancelAlarm(a, c)
        \/ Write(a)
        \/ WriteFails(a)
    \/ AlarmFires
    \/ Restart

\* A turn, a job and a write come to an end some time.
ExecFair ==
    /\ \A r \in TurnRequests : WF_execVars(Chained(r))
    /\ \A a \in Actors : WF_execVars(Write(a))

ExecSpec == ExecInit /\ [][ExecNext]_execVars /\ ExecFair

-----------------------------------------------------------------------------
(* Properties *)

ExecTypeOK ==
    /\ chain \in Seq(TurnRequests)
    /\ turn \in [TurnRequests ->
            {"new", "queued", "running", "settling", "done", "failed", "lost"}]
    /\ job \in [TurnRequests -> {"none", "pending", "fulfilled", "rejected", "lost"}]
    /\ record \in [Conts -> TriggerKeys \cup {Absent, NoKey}]
    /\ listed \subseteq Conts
    /\ index \in [Conts -> SUBSET TriggerKeys]
    /\ alarm \in Conts \cup {NoAlarm}
    /\ calls \in 0..MaxStoreCalls
    /\ cut \subseteq Conts
    /\ wanted \subseteq users /\ users \subseteq Conts

\* Turns of one conversation never overlap, and work that a turn left to
\* waitUntil runs beside a later turn only if its own turn rejected and the
\* caller was told so: enqueue chains the turn and settleAll together.
TurnsStayApart ==
    /\ ExecTypeOK
    /\ \A r, s \in TurnRequests :
        r # s /\ Running(r) => ~Running(s) /\ (job[s] = "pending" => turn[s] = "failed")

\* While no store call is under way on a continuation, and none has failed,
\* been cut off or overlapped another, its record is found by the trigger it
\* waits for and by no other, and is in its session's list.
FindsWhatWaits ==
    \A c \in Conts : InCall(c) = {} /\ c \notin cut =>
        /\ \A k \in TriggerKeys : FindByTrigger(c, k) # Absent <=> record[c] = k
        /\ c \in ListBySession <=> record[c] # Absent

\* Every request gets its turn, however the turns before it end, unless the
\* object restarts.
EveryRequestHasItsTurn ==
    \A r \in TurnRequests : turn[r] = "queued" ~> turn[r] \in {"running", "lost"}

\* The alarm never goes off for a continuation that was woken or called off,
\* and one that has the conversation's scheduler to itself keeps its alarm.
\* (Where two use it, each call takes the other's alarm away.)
WakesAreKept ==
    /\ alarm \in wanted \cup {NoAlarm}
    /\ Cardinality(users) <= 1 => wanted \subseteq {alarm}
=============================================================================
