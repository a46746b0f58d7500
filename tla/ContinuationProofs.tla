-------------------------- MODULE ContinuationProofs --------------------------
(***************************************************************************)
(* Theorems about Continuation, for every value of its constants.          *)
(*                                                                         *)
(* Two facts need no assumption on how calls interleave: the attempt bound *)
(* and the honesty of "delivered".  The others are about chained calls     *)
(* (Exclusive): there the copy a call holds agrees with the stored record  *)
(* until the call writes it, which is what ChainInv says label by label.   *)
(* Calls may be cut off at any await, by a restart or by a rejected call.  *)
(***************************************************************************)
EXTENDS Continuation, TLAPS

USE DEF TurnNumbers, store, locals, history, Unresumable, Exhausted, Delivered, Refused

LEMMA DefaultsTyped ==
    /\ NoRecord \in Records
    /\ NoTrigger \in Triggers
    /\ UserReply \in StoredWaits
    /\ ScheduledWake \in WaitConditions
  BY DEF NoRecord, Records, Statuses, Terminal, StoredWaits, WaitConditions,
         UserReply, DeliveryStatuses, NoTrigger, Triggers, ScheduledWake

\* The ways a call rewrites its copy of a record keep it a record.
LEMMA RewritesTyped ==
    ASSUME NEW r \in Records
    PROVE  /\ Expired(r) \in Records
           /\ Resuming(r) \in Records
           /\ \A reason \in StopReasons : Stopped(r, reason) \in Records
           /\ \A wait \in StoredWaits, e \in Nat : Repended(r, wait, e) \in Records
           /\ \A s \in Statuses : [r EXCEPT !.status = s] \in Records
           /\ \A d \in DeliveryStatuses : [r EXCEPT !.delivery = d] \in Records
           /\ \A wait \in StoredWaits : [r EXCEPT !.wait = wait] \in Records
  <1>1. Expired(r) \in Records
    BY DEF Expired, Records, Statuses, Terminal, DeliveryStatuses
  <1>2. Resuming(r) \in Records
    <2>1. r.attempts + 1 \in Nat /\ "resuming" \in Statuses
      BY DEF Records, Statuses
    <2>2. \A n \in Nat, s \in Statuses :
             [r EXCEPT !.status = s, !.attempts = n] \in Records
      BY DEF Records
    <2> QED BY <2>1, <2>2 DEF Resuming
  <1>3. ASSUME NEW reason \in StopReasons
        PROVE  Stopped(r, reason) \in Records
    <2>1. StatusForReason(reason) \in Statuses
      BY DEF StatusForReason, Statuses, Terminal
    <2>2. DeliveryForReason(reason, r.delivery) \in DeliveryStatuses
      BY DEF DeliveryForReason, DeliveryStatuses, Records
    <2> QED BY <2>1, <2>2 DEF Stopped, Records
  <1>4. ASSUME NEW wait \in StoredWaits, NEW e \in Nat
        PROVE  Repended(r, wait, e) \in Records
    BY <1>4 DEF Repended, Records, Statuses
  <1>5. \A s \in Statuses : [r EXCEPT !.status = s] \in Records
    BY DEF Records
  <1>6. \A d \in DeliveryStatuses : [r EXCEPT !.delivery = d] \in Records
    BY DEF Records
  <1>7. \A wait \in StoredWaits : [r EXCEPT !.wait = wait] \in Records
    BY DEF Records
  <1> QED BY <1>1, <1>2, <1>3, <1>4, <1>5, <1>6, <1>7

-----------------------------------------------------------------------------
(* Type correctness *)

LEMMA InitTyped == Init => TypeOK
  BY DefaultsTyped, ConstantsAssumption DEF Init, TypeOK, PCs

LEMMA BeginTyped ==
    ASSUME TypeOK, NEW c \in Calls, Begin(c)
    PROVE  TypeOK'
  <1> USE DEF TypeOK
  <1>1. CASE BeginCreate(c)
    <2>1. PICK wait \in WaitConditions, ttl \in Ttls :
             Hold(c, [status |-> "pending", wait |-> wait,
                      delivery |-> IF HasDelivery THEN "pending_delivery"
                                                  ELSE "not_applicable",
                      attempts |-> 0, expiresAt |-> clock + ttl, origin |-> 0])
      BY <1>1 DEF BeginCreate
    <2>2. clock + ttl \in Nat
      BY ConstantsAssumption
    <2>3. draft' \in [Calls -> Records]
      BY <2>1, <2>2 DEF Hold, Records, Statuses, StoredWaits, DeliveryStatuses
    <2>4. pc' \in [Calls -> PCs] /\ made' \in Nat
      BY <1>1 DEF BeginCreate, BeginCall, PCs
    <2> QED BY <1>1, <2>3, <2>4 DEF BeginCreate
  <1>2. CASE BeginResume(c)
    <2>1. trigger' \in [Calls -> Triggers]
      BY <1>2 DEF BeginResume, Triggers
    <2> QED BY <1>2, <2>1 DEF BeginResume, BeginCall, PCs
  <1>3. CASE WakeFires(c)
    <2>1. trigger' \in [Calls -> Triggers]
      BY <1>3, DefaultsTyped DEF WakeFires, Triggers
    <2>2. pc' \in [Calls -> PCs] /\ made' \in Nat
      BY <1>3 DEF WakeFires, BeginCall, PCs
    <2>3. alarms' \subseteq Nat /\ at' \in [Calls -> Nat]
      BY <1>3 DEF WakeFires
    <2> QED BY <1>3, <2>1, <2>2, <2>3 DEF WakeFires
  <1>4. CASE BeginStop(c)
    BY <1>4 DEF BeginStop, BeginCall, PCs
  <1> QED BY <1>1, <1>2, <1>3, <1>4 DEF Begin

\* What a call does to its own locals, whichever step it takes.
LEMMA LocalsTyped ==
    ASSUME TypeOK, NEW c \in Calls
    PROVE  /\ Return(c) => /\ pc' \in [Calls -> PCs]
                            /\ trigger' \in [Calls -> Triggers]
                            /\ at' \in [Calls -> Nat]
                            /\ draft' \in [Calls -> Records]
           /\ \A r \in Records : Hold(c, r) => draft' \in [Calls -> Records]
           /\ \A l \in PCs : Goto(c, l) => pc' \in [Calls -> PCs]
           /\ Put(c) => rec' \in Records
  <1> USE DEF TypeOK
  <1>1. \A l \in PCs : Goto(c, l) => pc' \in [Calls -> PCs]
    BY DEF Goto
  <1>2. \A r \in Records : Hold(c, r) => draft' \in [Calls -> Records]
    BY DEF Hold
  <1>3. Return(c) => /\ trigger' \in [Calls -> Triggers]
                     /\ at' \in [Calls -> Nat]
                     /\ draft' \in [Calls -> Records]
    BY DefaultsTyped DEF Return
  <1>4. Return(c) => pc' \in [Calls -> PCs]
    BY <1>1 DEF Return, PCs
  <1>5. Put(c) => rec' \in Records
    BY DEF Put
  <1> QED BY <1>1, <1>2, <1>3, <1>4, <1>5

LEMMA StepTyped ==
    ASSUME TypeOK, NEW c \in Calls, Step(c)
    PROVE  TypeOK'
  <1>0. /\ Return(c) => /\ pc' \in [Calls -> PCs]
                        /\ trigger' \in [Calls -> Triggers]
                        /\ at' \in [Calls -> Nat]
                        /\ draft' \in [Calls -> Records]
        /\ \A r \in Records : Hold(c, r) => draft' \in [Calls -> Records]
        /\ \A l \in PCs : Goto(c, l) => pc' \in [Calls -> PCs]
        /\ Put(c) => rec' \in Records
    BY LocalsTyped
  <1> USE <1>0 DEF TypeOK
  <1>a. draft[c] \in Records /\ draft[c].expiresAt \in Nat
    BY DEF Records
  <1>b. Terminal \subseteq Statuses /\ {"pending", "resuming"} \subseteq Statuses
    BY DEF Statuses, Terminal
  <1>c. WaitConditions \subseteq StoredWaits
    BY DEF StoredWaits
  <1>1. CASE CreatePut(c)
    BY <1>1 DEF CreatePut, PCs
  <1>2. CASE Schedule(c)
    <2>1. [type |-> "scheduled_wake", id |-> draft[c].expiresAt] \in StoredWaits
      BY <1>a DEF StoredWaits
    <2>2. [draft[c] EXCEPT !.wait =
              [type |-> "scheduled_wake", id |-> draft[c].expiresAt]] \in Records
      BY <1>a, <2>1, RewritesTyped
    <2>3. draft' \in [Calls -> Records]
      BY <1>2, <2>2 DEF Schedule
    <2> QED BY <1>2, <1>a, <2>3 DEF Schedule, PCs
  <1>3. CASE WakePut(c)
    BY <1>3 DEF WakePut
  <1>4. CASE ResumeReject(c)
    BY <1>4 DEF ResumeReject, Reads
  <1>5. CASE ResumeExpire(c)
    BY <1>5, RewritesTyped DEF ResumeExpire, Reads, PCs
  <1>6. CASE ResumeExhaust(c)
    <2>1. [rec EXCEPT !.status = "failed"] \in Records
      BY <1>b, RewritesTyped DEF Terminal
    <2> QED BY <1>6, <2>1 DEF ResumeExhaust, Reads, PCs
  <1>7. CASE ResumeDeny(c)
    <2>1. [rec EXCEPT !.status = "cancelled"] \in Records
      BY <1>b, RewritesTyped DEF Terminal
    <2> QED BY <1>7, <2>1 DEF ResumeDeny, Reads, PCs
  <1>8. CASE ResumeAdmit(c)
    BY <1>8, RewritesTyped DEF ResumeAdmit, Reads, PCs
  <1>9. CASE ClosePut(c)
    BY <1>9 DEF ClosePut
  <1>10. CASE ResumingPut(c)
    <2>1. turns' \in [TurnNumbers -> Nat]
      <3> DEFINE k == draft[c].attempts
      <3>1. turns' = [j \in TurnNumbers |-> IF j = k THEN turns[k] + 1 ELSE turns[j]]
        BY <1>10 DEF ResumingPut
      <3>2. \A j \in TurnNumbers : turns[j] \in Nat
        OBVIOUS
      <3> HIDE DEF k
      <3> QED BY <3>1, <3>2
    <2>2. pc' \in [Calls -> PCs] /\ rec' \in Records
      BY <1>10 DEF ResumingPut, PCs
    <2>3. UNCHANGED <<alarms, clock, trigger, at, draft, made, posted, lost, losses>>
      BY <1>10 DEF ResumingPut
    <2> QED BY <2>1, <2>2, <2>3
  <1>11. CASE TurnEnds(c)
    <2>1. PICK status \in {"completed", "failed"} :
             TurnReturns(c, [draft[c] EXCEPT !.status = status],
                IF HasDelivery /\ draft[c].delivery = "pending_delivery"
                    THEN "deliver" ELSE "finalPut")
      BY <1>11 DEF TurnEnds
    <2>2. [draft[c] EXCEPT !.status = status] \in Records
      BY <1>a, <1>b, RewritesTyped DEF Terminal
    <2> QED BY <2>1, <2>2 DEF TurnReturns, PCs
  <1>12. CASE TurnRepends(c)
    <2>1. PICK wait \in WaitConditions, ttl \in Ttls :
             TurnReturns(c, Repended(draft[c], wait, clock + ttl), "finalPut")
      BY <1>12 DEF TurnRepends
    <2>2. Repended(draft[c], wait, clock + ttl) \in Records
      <3>1. wait \in StoredWaits /\ clock + ttl \in Nat
        BY <1>c, ConstantsAssumption
      <3>2. \A w \in StoredWaits, e \in Nat : Repended(draft[c], w, e) \in Records
        BY <1>a, RewritesTyped
      <3> QED BY <3>1, <3>2
    <2> QED BY <2>1, <2>2 DEF TurnReturns, PCs
  <1>13. CASE TurnBreaks(c)
    <2>1. [draft[c] EXCEPT !.status = "failed"] \in Records
      BY <1>a, <1>b, RewritesTyped DEF Terminal
    <2> QED BY <1>13, <2>1 DEF TurnBreaks, TurnReturns, PCs
  <1>14. CASE Deliver(c)
    <2>1. \A d \in {"delivered", "delivery_failed"} :
             [draft[c] EXCEPT !.delivery = d] \in Records
      BY <1>a, RewritesTyped DEF DeliveryStatuses
    <2>2. draft' \in [Calls -> Records]
      BY <1>14, <2>1 DEF Deliver
    <2> QED BY <1>14, <2>2 DEF Deliver, PCs
  <1>15. CASE FinalPut(c)
    BY <1>15 DEF FinalPut
  <1>16. CASE StopKeep(c)
    BY <1>16 DEF StopKeep
  <1>17. CASE StopRead(c)
    <2>1. draft' \in [Calls -> Records]
      BY <1>17, RewritesTyped DEF StopRead
    <2> QED BY <1>17, <2>1 DEF StopRead, PCs
  <1>18. CASE CancelWake(c)
    BY <1>18 DEF CancelWake, PCs
  <1>19. CASE StopPut(c)
    BY <1>19 DEF StopPut
  <1> QED BY <1>1, <1>2, <1>3, <1>4, <1>5, <1>6, <1>7, <1>8, <1>9, <1>10, <1>11,
             <1>12, <1>13, <1>14, <1>15, <1>16, <1>17, <1>18, <1>19 DEF Step

LEMMA UnstoredTyped == \A C : Unstored(C) \subseteq {"turn", "reply"}
  BY DEF Unstored

\* A call that is cut off by a rejection leaves its locals empty.
LEMMA FailTyped ==
    ASSUME TypeOK, NEW c \in Calls, CallRejects(c)
    PROVE  TypeOK'
  <1>1. /\ Return(c) /\ losses' = losses + 1
        /\ UNCHANGED <<clock, made, turns, posted, alarms>>
        /\ Put(c) \/ UNCHANGED rec
        /\ lost' = lost \cup Unstored({c}) \/ lost' = lost \cup {"turn"} \/ lost' = lost
    BY DEF CallRejects, RejectedUndone, RejectedDone, Rejects
  <1>2. lost' \subseteq {"turn", "reply"}
    BY <1>1, UnstoredTyped DEF TypeOK
  <1>3. /\ pc' \in [Calls -> PCs] /\ trigger' \in [Calls -> Triggers]
        /\ at' \in [Calls -> Nat] /\ draft' \in [Calls -> Records]
        /\ rec' \in Records
    BY <1>1, LocalsTyped DEF TypeOK
  <1> QED BY <1>1, <1>2, <1>3 DEF TypeOK

\* The stored record, every call's copy of it and the bookkeeping around them
\* keep the types continuation/src/types.ts gives them.
THEOREM TypeCorrect == Spec => []TypeOK
  <1>1. ASSUME TypeOK, [Next]_vars
        PROVE  TypeOK'
    <2>1. CASE Tick
      BY <1>1, <2>1 DEF Tick, TypeOK
    <2>2. CASE Crash
      <3>1. lost' \subseteq {"turn", "reply"}
        BY <1>1, <2>2, UnstoredTyped DEF Crash, TypeOK
      <3> QED BY <1>1, <2>2, <3>1, DefaultsTyped DEF Crash, TypeOK, PCs
    <2>3. CASE \E c \in Calls : Begin(c) \/ Step(c)
      BY <1>1, <2>3, BeginTyped, StepTyped
    <2>4. CASE \E c \in Calls : CallRejects(c)
      BY <1>1, <2>4, FailTyped
    <2>5. CASE UNCHANGED vars
      BY <1>1, <2>5 DEF vars, TypeOK
    <2> QED BY <1>1, <2>1, <2>2, <2>3, <2>4, <2>5 DEF Next
  <1> QED BY InitTyped, <1>1, PTL DEF Spec

-----------------------------------------------------------------------------
(* What holds however calls interleave *)

\* A record within its bound whose "delivered" is backed by a reply.
Sound(r) ==
    /\ r.attempts <= MaxAttempts
    /\ r.delivery = "delivered" => posted > 0

\* The stored record is sound because every copy that may replace it is.
SoundInv == Sound(rec) /\ \A c \in Calls : Sound(draft[c])

LEMMA SoundStep ==
    ASSUME TypeOK, SoundInv, NEW c \in Calls, Begin(c) \/ Step(c)
    PROVE  SoundInv'
  <1> USE DEF SoundInv, Sound
  <1>a. Sound(NoRecord) /\ \A d \in Calls : draft[d] \in Records
    BY ConstantsAssumption DEF NoRecord, TypeOK
  <1>b. posted \in Nat /\ rec \in Records /\ MaxAttempts \in Nat /\ draft \in [Calls -> Records]
    BY ConstantsAssumption DEF TypeOK
  <1>c. posted' = posted => Sound(rec)' = Sound(rec')
    OBVIOUS
  \* A step that posts nothing and writes at most its own copy.
  <1>d. ASSUME NEW r, r.attempts <= MaxAttempts,
               r.delivery = "delivered" => posted > 0,
               Hold(c, r), UNCHANGED <<rec, posted>>
        PROVE  SoundInv'
    BY <1>b, <1>d DEF Hold
  <1>e. ASSUME Put(c), Return(c) \/ UNCHANGED draft, UNCHANGED posted
        PROVE  SoundInv'
    BY <1>a, <1>b, <1>e DEF Put, Return
  <1>f. ASSUME Return(c) \/ UNCHANGED draft, UNCHANGED <<rec, posted>>
        PROVE  SoundInv'
    BY <1>a, <1>b, <1>f DEF Return
  <1>1. CASE BeginCreate(c)
    <2>1. PICK wait \in WaitConditions, ttl \in Ttls :
             Hold(c, [status |-> "pending", wait |-> wait,
                      delivery |-> IF HasDelivery THEN "pending_delivery"
                                                  ELSE "not_applicable",
                      attempts |-> 0, expiresAt |-> clock + ttl, origin |-> 0])
      BY <1>1 DEF BeginCreate
    <2> QED BY <1>1, <1>b, <1>d, <2>1 DEF BeginCreate
  <1>2. CASE BeginResume(c) \/ WakeFires(c) \/ BeginStop(c)
    BY <1>2, <1>f DEF BeginResume, WakeFires, BeginStop
  <1>3. CASE CreatePut(c) \/ WakePut(c) \/ ClosePut(c) \/ FinalPut(c) \/ StopPut(c)
             \/ ResumingPut(c)
    BY <1>3, <1>e DEF CreatePut, WakePut, ClosePut, FinalPut, StopPut, ResumingPut
  <1>4. CASE Schedule(c)
    BY <1>4, <1>a, <1>b, <1>d DEF Schedule, Records
  <1>5. CASE ResumeReject(c) \/ StopKeep(c) \/ CancelWake(c)
    BY <1>5, <1>f DEF ResumeReject, Reads, StopKeep, CancelWake
  <1>6. CASE ResumeExpire(c)
    <2>1. Sound(Expired(rec))
      BY <1>b DEF Expired, Records
    <2> QED BY <1>6, <1>d, <2>1 DEF ResumeExpire, Reads
  <1>7. CASE ResumeExhaust(c) \/ ResumeDeny(c)
    <2>1. \A s : Sound([rec EXCEPT !.status = s])
      BY <1>b DEF Records
    <2> QED BY <1>7, <1>d, <2>1 DEF ResumeExhaust, ResumeDeny, Reads
  <1>8. CASE ResumeAdmit(c)
    <2>1. rec.attempts + 1 <= MaxAttempts
      BY <1>8, <1>b DEF ResumeAdmit, Reads, Verdict, Records
    <2>2. Sound(Resuming(rec))
      BY <1>b, <2>1 DEF Resuming, Records
    <2> QED BY <1>8, <1>d, <2>2 DEF ResumeAdmit, Reads
  <1>9. CASE TurnEnds(c) \/ TurnBreaks(c)
    <2>1. \A s : Sound([draft[c] EXCEPT !.status = s])
      BY <1>a DEF Records
    <2>2. \A r, l : TurnReturns(c, r, l) => Hold(c, r) /\ UNCHANGED <<rec, posted>>
      BY DEF TurnReturns
    <2> QED BY <1>9, <1>d, <2>1, <2>2 DEF TurnEnds, TurnBreaks
  <1>10. CASE TurnRepends(c)
    <2>1. \A wait, e : Sound(Repended(draft[c], wait, e))
      BY <1>a DEF Records, Repended
    <2>2. \A r, l : TurnReturns(c, r, l) => Hold(c, r) /\ UNCHANGED <<rec, posted>>
      BY DEF TurnReturns
    <2> QED BY <1>10, <1>d, <2>1, <2>2 DEF TurnRepends
  <1>11. CASE Deliver(c)
    <2>1. posted' \in Nat /\ posted' >= posted
      BY <1>11, <1>b DEF Deliver
    <2>2. Sound(draft[c])'
      <3>1. CASE /\ posted' = posted + 1
                 /\ Hold(c, [draft[c] EXCEPT !.delivery = "delivered"])
        BY <3>1, <1>a, <1>b DEF Hold, Records
      <3>2. CASE Hold(c, [draft[c] EXCEPT !.delivery = "delivery_failed"])
        BY <3>2, <1>a, <1>b DEF Hold, Records
      <3> QED BY <1>11, <3>1, <3>2 DEF Deliver
    <2>3. \A d \in Calls \ {c} : draft'[d] = draft[d]
      BY <1>11, <1>b DEF Deliver, Hold
    <2>4. \A d \in Calls \ {c} : Sound(draft[d])'
      BY <1>b, <2>1, <2>3
    <2>5. Sound(rec)'
      BY <1>11, <1>b, <2>1 DEF Deliver
    <2> QED BY <2>2, <2>4, <2>5
  <1>12. CASE StopRead(c)
    <2>1. \A reason \in StopReasons : Sound(Stopped(rec, reason))
      BY <1>b DEF Stopped, DeliveryForReason, Records
    <2> QED BY <1>12, <1>d, <2>1 DEF StopRead
  <1> QED BY <1>1, <1>2, <1>3, <1>4, <1>5, <1>6, <1>7, <1>8, <1>9, <1>10, <1>11,
             <1>12 DEF Begin, Step

THEOREM SoundAlways == Spec => []SoundInv
  <1>1. Init => SoundInv
    BY ConstantsAssumption DEF Init, SoundInv, Sound, NoRecord
  <1>2. ASSUME TypeOK, SoundInv, [Next]_vars
        PROVE  SoundInv'
    <2>1. CASE Tick \/ UNCHANGED vars
      BY <1>2, <2>1 DEF Tick, vars, SoundInv, Sound
    <2>2. CASE Crash
      BY <1>2, <2>2, ConstantsAssumption DEF Crash, SoundInv, Sound, NoRecord
    <2>3. CASE \E c \in Calls : Begin(c) \/ Step(c)
      BY <1>2, <2>3, SoundStep
    <2>4. CASE \E c \in Calls : CallRejects(c)
      <3>1. PICK c \in Calls : CallRejects(c)
        BY <2>4
      <3>2. posted' = posted /\ Return(c) /\ (Put(c) \/ UNCHANGED rec)
        BY <3>1 DEF CallRejects, RejectedUndone, RejectedDone, Rejects
      <3>3. Sound(NoRecord)
        BY ConstantsAssumption DEF Sound, NoRecord
      <3>4. \A d \in Calls : draft'[d] = draft[d] \/ draft'[d] = NoRecord
        BY <1>2, <3>2 DEF Return, TypeOK
      <3>5. rec' = rec \/ rec' = draft[c]
        BY <3>2 DEF Put
      <3> QED BY <1>2, <3>2, <3>3, <3>4, <3>5 DEF SoundInv, Sound
    <2> QED BY <1>2, <2>1, <2>2, <2>3, <2>4 DEF Next
  <1> QED BY <1>1, <1>2, TypeCorrect, PTL DEF Spec

\* No interleaving of create, resume, stop, wake-ups and restarts ever stores
\* more attempts than maxResumeAttempts.
THEOREM AttemptsAreBounded == Spec => []AttemptsBounded
  <1>1. SoundInv => AttemptsBounded
    BY DEF SoundInv, Sound, AttemptsBounded
  <1> QED BY <1>1, SoundAlways, PTL

\* No interleaving ever stores "delivered" for a reply nobody got.
THEOREM DeliveryIsHonest == Spec => []DeliveryHonest
  <1>1. SoundInv => DeliveryHonest
    BY DEF SoundInv, Sound, DeliveryHonest
  <1> QED BY <1>1, SoundAlways, PTL

-----------------------------------------------------------------------------
(* What holds when calls are chained *)

FirstDelivery == IF HasDelivery THEN "pending_delivery" ELSE "not_applicable"

Alone == \A c, d \in Calls : InFlight(c) /\ InFlight(d) => c = d

\* A copy that waits: it can still be answered and names the turn that left it.
Whole(r) ==
    /\ r.status = "pending"
    /\ r.origin = r.attempts
    /\ r.delivery = FirstDelivery

\* The stored record between calls, and while one is running.
RecordInv ==
    /\ rec.attempts <= MaxAttempts
    /\ rec.status = "absent" => rec.attempts = 0 /\ posted = 0
    /\ rec.status = "pending" => Whole(rec) /\ posted = 0
    /\ rec.status = "resuming" => rec.delivery = FirstDelivery
    /\ posted <= 1
    /\ FreshTurnIds

\* The call's copy closes the record it was read from.
Closes(c) == draft[c].status \in Terminal /\ draft[c].attempts = rec.attempts

\* How the copy of a running call relates to the stored record.
CopyInv(c) ==
    /\ pc[c] = "createPut" =>
          rec.status = "absent" /\ Whole(draft[c]) /\ draft[c].attempts = 0
    /\ pc[c] \in {"schedule", "wakePut"} =>
          rec.status = "pending" /\ rec.attempts = 0
             /\ Whole(draft[c]) /\ draft[c].attempts = 0
    /\ pc[c] = "closePut" => rec.status = "pending" /\ Closes(c)
    /\ pc[c] = "resumingPut" =>
          rec.status = "pending" /\ draft[c] = Resuming(rec)
             /\ rec.attempts < MaxAttempts
    /\ pc[c] = "harness" => rec.status = "resuming" /\ draft[c] = rec /\ posted = 0
    /\ pc[c] = "deliver" => rec.status = "resuming" /\ Closes(c) /\ posted = 0
    /\ pc[c] = "finalPut" =>
          /\ rec.status = "resuming"
          /\ \/ Closes(c)
             \/ Whole(draft[c]) /\ draft[c].attempts = rec.attempts /\ posted = 0
    /\ pc[c] \in {"cancelWake", "stopPut"} =>
          rec.status \in {"pending", "resuming"} /\ Closes(c)

ChainInv == Alone /\ RecordInv /\ \A c \in Calls : CopyInv(c)

\* What one step does to the stored record, seen from outside.
LifeStep == [Life!LifeNext]_Life!lifeVars
KeepsTerminal == rec.status \in Terminal => UNCHANGED rec

\* Only a pending record gets past the first two checks of resume.
LEMMA ReadPending ==
    ASSUME TypeOK, NEW c \in Calls,
           Verdict(c, rec) \in {"expired", "exhausted", "denied", "admitted"}
    PROVE  rec.status = "pending"
  <1>1. rec.status \in Statuses
    BY DEF TypeOK, Records
  <1>2. rec.status = "absent" => Verdict(c, rec) = "not found"
    BY DEF Verdict
  <1>3. rec.status \in Terminal \cup {"resuming"} => Verdict(c, rec) = "rejected"
    BY DEF Verdict, Terminal
  <1> QED BY <1>1, <1>2, <1>3 DEF Statuses

\* While a chained call runs, every other caller is idle.
LEMMA OthersIdle ==
    ASSUME Exclusive, TypeOK, Alone, NEW c \in Calls, Begin(c) \/ Step(c)
    PROVE  \A d \in Calls \ {c} : pc[d] = "idle" /\ pc'[d] = "idle"
  <1>1. CASE Begin(c)
    BY <1>1 DEF Begin, BeginCreate, BeginResume, WakeFires, BeginStop, BeginCall,
                InFlight, TypeOK
  <1>2. CASE Step(c)
    <2>1. InFlight(c)
      BY <1>2 DEF Step, CreatePut, Schedule, WakePut, ResumeReject, ResumeExpire,
           ResumeExhaust, ResumeDeny, ResumeAdmit, ClosePut, ResumingPut, TurnEnds,
           TurnRepends, TurnBreaks, TurnReturns, Reads, Deliver, FinalPut, StopKeep,
           StopRead, CancelWake, StopPut, InFlight
    <2>2. \E l : pc' = [pc EXCEPT ![c] = l]
      BY <1>2 DEF Step, CreatePut, Schedule, WakePut, ResumeReject, ResumeExpire,
           ResumeExhaust, ResumeDeny, ResumeAdmit, ClosePut, ResumingPut, TurnEnds,
           TurnRepends, TurnBreaks, TurnReturns, Reads, Deliver, FinalPut, StopKeep,
           StopRead, CancelWake, StopPut, Return, Goto
    <2> QED BY <2>1, <2>2 DEF Alone, InFlight, TypeOK
  <1> QED BY <1>1, <1>2

LEMMA ChainStep ==
    ASSUME Exclusive, TypeOK, ChainInv, NEW c \in Calls, Begin(c) \/ Step(c)
    PROVE  ChainInv' /\ LifeStep /\ KeepsTerminal
  <1>a. \A d \in Calls \ {c} : pc[d] = "idle" /\ pc'[d] = "idle"
    BY OthersIdle DEF ChainInv
  <1>b. SUFFICES RecordInv' /\ CopyInv(c)' /\ LifeStep /\ KeepsTerminal
    <2>1. Alone'
      BY <1>a DEF Alone, InFlight
    <2>2. \A d \in Calls \ {c} : CopyInv(d)'
      BY <1>a DEF CopyInv
    <2> QED BY <2>1, <2>2 DEF ChainInv
  <1>c. RecordInv /\ CopyInv(c)
    BY DEF ChainInv
  <1>d. /\ rec \in Records /\ draft[c] \in Records /\ posted \in Nat
        /\ pc \in [Calls -> PCs] /\ draft \in [Calls -> Records]
        /\ MaxAttempts \in Nat /\ turns \in [TurnNumbers -> Nat]
    BY ConstantsAssumption DEF TypeOK
  \* Steps that leave the record and the history alone.
  <1>e. ASSUME UNCHANGED <<rec, turns, posted>>, CopyInv(c)'
        PROVE  RecordInv' /\ CopyInv(c)' /\ LifeStep /\ KeepsTerminal
    <2>1. RecordInv'
      BY <1>c, <1>e DEF RecordInv, FreshTurnIds, Whole
    <2>2. UNCHANGED Life!lifeVars
      BY <1>e DEF Life!lifeVars
    <2> QED BY <1>e, <2>1, <2>2 DEF LifeStep, KeepsTerminal
  <1>f. ASSUME pc'[c] \in {"idle", "resumeGet", "stopGet"}
        PROVE  CopyInv(c)'
    BY <1>f DEF CopyInv
  \* The call writes a copy that closes the record, and returns.
  <1>g. ASSUME rec.status \in {"pending", "resuming"}, Closes(c), rec' = draft[c],
               UNCHANGED <<turns, posted>>
        PROVE  RecordInv' /\ LifeStep /\ KeepsTerminal
    <2>1. RecordInv'
      BY <1>c, <1>d, <1>g DEF RecordInv, Closes, Terminal, FreshTurnIds
    <2>2. LifeStep
      BY <1>g DEF LifeStep, Life!LifeNext, Life!Close, Life!Closed, Closes, Terminal
    <2>3. KeepsTerminal
      BY <1>g DEF KeepsTerminal, Terminal
    <2> QED BY <2>1, <2>2, <2>3
  <1>1. CASE BeginCreate(c)
    <2>1. PICK wait \in WaitConditions, ttl \in Ttls :
             Hold(c, [status |-> "pending", wait |-> wait,
                      delivery |-> IF HasDelivery THEN "pending_delivery"
                                                  ELSE "not_applicable",
                      attempts |-> 0, expiresAt |-> clock + ttl, origin |-> 0])
      BY <1>1 DEF BeginCreate
    <2>2. Whole(draft[c])' /\ draft'[c].attempts = 0
      BY <2>1, <1>d DEF Hold, Whole, FirstDelivery
    <2>3. pc'[c] = "createPut" /\ rec'.status = "absent"
      BY <1>1, <1>d DEF BeginCreate, BeginCall, NoRecord
    <2>4. CopyInv(c)'
      BY <2>2, <2>3 DEF CopyInv
    <2> QED BY <1>1, <1>e, <2>4 DEF BeginCreate
  <1>2. CASE BeginResume(c) \/ WakeFires(c) \/ BeginStop(c)
    BY <1>2, <1>d, <1>e, <1>f DEF BeginResume, WakeFires, BeginStop, BeginCall, store, history
  <1>3. CASE CreatePut(c)
    <2>1. rec.status = "absent" /\ Whole(draft[c]) /\ draft[c].attempts = 0
      BY <1>3, <1>c DEF CreatePut, CopyInv
    <2>2. rec' = draft[c] /\ UNCHANGED <<turns, posted>> /\ rec'.status = "pending"
      BY <1>3, <2>1 DEF CreatePut, Put, Whole
    <2>3. rec.attempts = 0 /\ posted = 0
      BY <1>c, <2>1 DEF RecordInv
    <2>4. RecordInv'
      BY <1>c, <1>d, <2>1, <2>2, <2>3 DEF RecordInv, FreshTurnIds, Whole
    <2>5. CopyInv(c)'
      <3>1. CASE draft[c].wait.type = "scheduled_wake"
        <4>1. pc'[c] = "schedule" /\ draft' = draft
          BY <1>3, <1>d, <3>1 DEF CreatePut, Goto
        <4> QED BY <4>1, <2>1, <2>2 DEF CopyInv, Whole
      <3>2. CASE draft[c].wait.type # "scheduled_wake"
        BY <1>3, <1>d, <1>f, <3>2 DEF CreatePut, Return, Goto
      <3> QED BY <3>1, <3>2
    <2>6. LifeStep
      BY <2>1, <2>2, <2>3 DEF LifeStep, Life!LifeNext, Life!Open
    <2>7. KeepsTerminal
      BY <2>1 DEF KeepsTerminal, Terminal
    <2> QED BY <2>4, <2>5, <2>6, <2>7
  <1>4. CASE Schedule(c)
    <2>1. /\ rec.status = "pending" /\ rec.attempts = 0
          /\ Whole(draft[c]) /\ draft[c].attempts = 0
      BY <1>4, <1>c DEF Schedule, CopyInv
    <2>2. pc'[c] = "wakePut" /\ rec' = rec
      BY <1>4, <1>d DEF Schedule, Goto
    <2>3. Whole(draft[c])' /\ draft'[c].attempts = 0
      BY <1>4, <1>d, <2>1 DEF Schedule, Hold, Whole, Records
    <2>4. CopyInv(c)'
      BY <2>1, <2>2, <2>3 DEF CopyInv
    <2> QED BY <1>4, <1>e, <2>4 DEF Schedule
  <1>5. CASE WakePut(c)
    <2>1. /\ rec.status = "pending" /\ rec.attempts = 0
          /\ Whole(draft[c]) /\ draft[c].attempts = 0
      BY <1>5, <1>c DEF WakePut, CopyInv
    <2>2. rec' = draft[c] /\ UNCHANGED <<turns, posted>> /\ pc'[c] = "idle"
      BY <1>5, <1>d DEF WakePut, Put, Return, Goto
    <2>3. posted = 0
      BY <1>c, <2>1 DEF RecordInv
    <2>4. RecordInv'
      BY <1>c, <1>d, <2>1, <2>2, <2>3 DEF RecordInv, FreshTurnIds, Whole
    <2>5. LifeStep
      BY <2>1, <2>2 DEF LifeStep, Life!lifeVars, Whole
    <2>6. KeepsTerminal
      BY <2>1 DEF KeepsTerminal, Terminal
    <2> QED BY <1>f, <2>2, <2>4, <2>5, <2>6
  <1>6. CASE ResumeReject(c) \/ StopKeep(c)
    BY <1>6, <1>d, <1>e, <1>f DEF ResumeReject, StopKeep, Reads, Return, Goto
  <1>7. CASE ResumeExpire(c)
    <2>1. rec.status = "pending" /\ UNCHANGED <<rec, turns, posted>>
      BY <1>7, ReadPending DEF ResumeExpire, Reads
    <2>2. draft'[c] = Expired(rec) /\ pc'[c] = "closePut"
      BY <1>7, <1>d DEF ResumeExpire, Hold, Goto
    <2>3. Closes(c)'
      BY <1>d, <2>1, <2>2 DEF Closes, Expired, Records, Terminal
    <2>4. CopyInv(c)'
      BY <2>1, <2>2, <2>3 DEF CopyInv
    <2> QED BY <1>e, <2>1, <2>4
  <1>8. CASE ResumeExhaust(c) \/ ResumeDeny(c)
    <2>1. rec.status = "pending" /\ UNCHANGED <<rec, turns, posted>>
      BY <1>8, ReadPending DEF ResumeExhaust, ResumeDeny, Reads
    <2>2. /\ \E s \in Terminal : draft'[c] = [rec EXCEPT !.status = s]
          /\ pc'[c] = "closePut"
      BY <1>8, <1>d DEF ResumeExhaust, ResumeDeny, Hold, Goto, Terminal
    <2>3. Closes(c)'
      BY <1>d, <2>1, <2>2 DEF Closes, Records
    <2>4. CopyInv(c)'
      BY <2>1, <2>2, <2>3 DEF CopyInv
    <2> QED BY <1>e, <2>1, <2>4
  <1>9. CASE ResumeAdmit(c)
    <2>1. /\ rec.status = "pending" /\ rec.attempts < MaxAttempts
          /\ UNCHANGED <<rec, turns, posted>>
      BY <1>9, <1>d, ReadPending DEF ResumeAdmit, Reads, Verdict, Records
    <2>2. draft'[c] = Resuming(rec) /\ pc'[c] = "resumingPut"
      BY <1>9, <1>d DEF ResumeAdmit, Hold, Goto
    <2>3. CopyInv(c)'
      BY <2>1, <2>2 DEF CopyInv, Resuming
    <2> QED BY <1>e, <2>1, <2>3
  <1>10. CASE ClosePut(c)
    <2>1. rec.status \in {"pending", "resuming"} /\ Closes(c)
      BY <1>10, <1>c DEF ClosePut, CopyInv
    <2>2. rec' = draft[c] /\ UNCHANGED <<turns, posted>> /\ pc'[c] = "idle"
      BY <1>10, <1>d DEF ClosePut, Put, Return, Goto
    <2> QED BY <1>f, <1>g, <2>1, <2>2
  <1>11. CASE ResumingPut(c)
    <2>1. /\ rec.status = "pending" /\ draft[c] = Resuming(rec)
          /\ rec.attempts < MaxAttempts
      BY <1>11, <1>c DEF ResumingPut, CopyInv
    <2>2. posted = 0 /\ Whole(rec)
      BY <1>c, <2>1 DEF RecordInv
    <2>3. /\ rec' = Resuming(rec) /\ pc'[c] = "harness" /\ draft' = draft
          /\ posted' = posted
      BY <1>11, <1>d, <2>1 DEF ResumingPut, Put, Goto
    <2>4. /\ rec'.status = "resuming" /\ rec'.attempts = rec.attempts + 1
          /\ rec'.delivery = FirstDelivery
      BY <1>d, <2>2, <2>3 DEF Resuming, Records, Whole
    <2>5. rec.attempts + 1 \in TurnNumbers /\ rec.attempts \in Nat
      BY <1>d, <2>1 DEF Records
    <2>6. turns' = [turns EXCEPT ![rec.attempts + 1] = @ + 1]
      BY <1>11, <2>1, <2>3, <2>4 DEF ResumingPut
    <2>7. FreshTurnIds'
      <3>1. \A k \in TurnNumbers : turns[k] <= IF k <= rec.attempts THEN 1 ELSE 0
        BY <1>c DEF RecordInv, FreshTurnIds
      <3>2. ASSUME NEW k \in TurnNumbers
            PROVE  turns'[k] <= IF k <= rec.attempts + 1 THEN 1 ELSE 0
        <4>1. CASE k = rec.attempts + 1
          BY <1>d, <2>5, <2>6, <3>1, <4>1
        <4>2. CASE k # rec.attempts + 1
          BY <1>d, <2>5, <2>6, <3>1, <4>2
        <4> QED BY <4>1, <4>2
      <3> QED BY <2>4, <3>2 DEF FreshTurnIds
    <2>8. RecordInv'
      BY <1>c, <1>d, <2>1, <2>2, <2>3, <2>4, <2>5, <2>7 DEF RecordInv
    <2>9. CopyInv(c)'
      BY <2>1, <2>2, <2>3, <2>4 DEF CopyInv
    <2>10. LifeStep
      BY <2>1, <2>3, <2>4 DEF LifeStep, Life!LifeNext, Life!StartTurn
    <2>11. KeepsTerminal
      BY <2>1 DEF KeepsTerminal, Terminal
    <2> QED BY <2>8, <2>9, <2>10, <2>11
  <1>12. CASE TurnEnds(c)
    <2>1. rec.status = "resuming" /\ draft[c] = rec /\ posted = 0
      BY <1>12, <1>c DEF TurnEnds, TurnReturns, CopyInv
    <2>2. /\ \E s \in Terminal : draft'[c] = [draft[c] EXCEPT !.status = s]
          /\ pc'[c] \in {"deliver", "finalPut"}
          /\ UNCHANGED <<rec, turns, posted>>
      BY <1>12, <1>d DEF TurnEnds, TurnReturns, Hold, Goto, Terminal
    <2>3. Closes(c)'
      BY <1>d, <2>1, <2>2 DEF Closes, Records
    <2>4. CopyInv(c)'
      BY <2>1, <2>2, <2>3 DEF CopyInv
    <2> QED BY <1>e, <2>2, <2>4
  <1>13. CASE TurnRepends(c)
    <2>1. rec.status = "resuming" /\ draft[c] = rec /\ posted = 0
      BY <1>13, <1>c DEF TurnRepends, TurnReturns, CopyInv
    <2>2. PICK wait \in WaitConditions, ttl \in Ttls :
             TurnReturns(c, Repended(draft[c], wait, clock + ttl), "finalPut")
      BY <1>13 DEF TurnRepends
    <2>3. /\ draft'[c] = Repended(rec, wait, clock + ttl) /\ pc'[c] = "finalPut"
          /\ UNCHANGED <<rec, turns, posted>>
      BY <1>d, <2>1, <2>2 DEF TurnReturns, Hold, Goto
    <2>4. rec.delivery = FirstDelivery
      BY <1>c, <2>1 DEF RecordInv
    <2>5. Whole(draft[c])' /\ draft'[c].attempts = rec.attempts
      BY <1>d, <2>3, <2>4 DEF Repended, Whole, Records, FirstDelivery
    <2>6. CopyInv(c)'
      BY <2>1, <2>3, <2>5 DEF CopyInv
    <2> QED BY <1>e, <2>3, <2>6
  <1>14. CASE TurnBreaks(c)
    <2>1. rec.status = "resuming" /\ draft[c] = rec
      BY <1>14, <1>c DEF TurnBreaks, TurnReturns, CopyInv
    <2>2. /\ draft'[c] = [draft[c] EXCEPT !.status = "failed"]
          /\ pc'[c] = "finalPut"
          /\ UNCHANGED <<rec, turns, posted>>
      BY <1>14, <1>d DEF TurnBreaks, TurnReturns, Hold, Goto
    <2>3. Closes(c)'
      BY <1>d, <2>1, <2>2 DEF Closes, Records, Terminal
    <2>4. CopyInv(c)'
      BY <2>1, <2>2, <2>3 DEF CopyInv
    <2> QED BY <1>e, <2>2, <2>4
  <1>15. CASE Deliver(c)
    <2>1. rec.status = "resuming" /\ Closes(c) /\ posted = 0
      BY <1>15, <1>c DEF Deliver, CopyInv
    <2>2. posted' \in {0, 1} /\ rec' = rec /\ turns' = turns
      BY <1>15, <2>1 DEF Deliver
    <2>3. pc'[c] = "finalPut" /\ \E d : draft'[c] = [draft[c] EXCEPT !.delivery = d]
      BY <1>15, <1>d DEF Deliver, Goto, Hold
    <2>4. Closes(c)'
      BY <1>d, <2>1, <2>2, <2>3 DEF Closes, Records
    <2>5. RecordInv'
      BY <1>c, <2>1, <2>2 DEF RecordInv, FreshTurnIds
    <2>6. CopyInv(c)'
      BY <2>1, <2>2, <2>3, <2>4 DEF CopyInv
    <2>7. LifeStep
      BY <2>1, <2>2 DEF LifeStep, Life!LifeNext, Life!PostReply, Life!lifeVars
    <2>8. KeepsTerminal
      BY <2>2 DEF KeepsTerminal
    <2> QED BY <2>5, <2>6, <2>7, <2>8
  <1>16. CASE FinalPut(c)
    <2>1. rec.status = "resuming"
      BY <1>16, <1>c DEF FinalPut, CopyInv
    <2>2. rec' = draft[c] /\ UNCHANGED <<turns, posted>> /\ pc'[c] = "idle"
      BY <1>16, <1>d DEF FinalPut, Put, Return, Goto
    <2>3. CASE Closes(c)
      BY <1>f, <1>g, <2>1, <2>2, <2>3
    <2>4. CASE Whole(draft[c]) /\ draft[c].attempts = rec.attempts /\ posted = 0
      <3>1. RecordInv'
        BY <1>c, <1>d, <2>1, <2>2, <2>4 DEF RecordInv, FreshTurnIds, Whole
      <3>2. LifeStep
        BY <2>1, <2>2, <2>4 DEF LifeStep, Life!LifeNext, Life!Repend, Whole
      <3>3. KeepsTerminal
        BY <2>1 DEF KeepsTerminal, Terminal
      <3> QED BY <1>f, <2>2, <3>1, <3>2, <3>3
    <2> QED BY <1>16, <1>c, <2>3, <2>4 DEF FinalPut, CopyInv
  <1>17. CASE StopRead(c)
    <2>1. rec.status \in {"pending", "resuming"} /\ UNCHANGED <<rec, turns, posted>>
      BY <1>17 DEF StopRead
    <2>2. /\ \E reason \in StopReasons : draft'[c] = Stopped(rec, reason)
          /\ pc'[c] \in {"cancelWake", "stopPut"}
      BY <1>17, <1>d DEF StopRead, Hold, Goto
    <2>3. Closes(c)'
      <3>1. \A reason : StatusForReason(reason) \in Terminal
        BY DEF StatusForReason, Terminal
      <3> QED BY <1>d, <2>1, <2>2, <3>1 DEF Closes, Stopped, Records
    <2>4. CopyInv(c)'
      BY <2>1, <2>2, <2>3 DEF CopyInv
    <2> QED BY <1>e, <2>1, <2>4
  <1>18. CASE CancelWake(c)
    <2>1. rec.status \in {"pending", "resuming"} /\ Closes(c)
      BY <1>18, <1>c DEF CancelWake, CopyInv
    <2>2. UNCHANGED <<rec, turns, posted, draft>> /\ pc'[c] = "stopPut"
      BY <1>18, <1>d DEF CancelWake, Goto
    <2>3. CopyInv(c)'
      BY <2>1, <2>2 DEF CopyInv, Closes
    <2> QED BY <1>e, <2>2, <2>3
  <1>19. CASE StopPut(c)
    <2>1. rec.status \in {"pending", "resuming"} /\ Closes(c)
      BY <1>19, <1>c DEF StopPut, CopyInv
    <2>2. rec' = draft[c] /\ UNCHANGED <<turns, posted>> /\ pc'[c] = "idle"
      BY <1>19, <1>d DEF StopPut, Put, Return, Goto
    <2> QED BY <1>f, <1>g, <2>1, <2>2
  <1> QED BY <1>1, <1>2, <1>3, <1>4, <1>5, <1>6, <1>7, <1>8, <1>9, <1>10, <1>11,
             <1>12, <1>13, <1>14, <1>15, <1>16, <1>17, <1>18, <1>19 DEF Begin, Step

\* A call alone that is cut off leaves no call in flight.
LEMMA FailAlone ==
    ASSUME TypeOK, Alone, NEW c \in Calls, CallRejects(c)
    PROVE  /\ \A d \in Calls : pc'[d] = "idle"
           /\ pc[c] \in Unguarded /\ UNCHANGED <<turns, posted>>
           /\ rec' = rec \/ (pc[c] \in Puts /\ rec' = draft[c])
  <1>1. Return(c) /\ InFlight(c) /\ UNCHANGED <<turns, posted>>
    BY DEF CallRejects, RejectedUndone, RejectedDone, Rejects, Unguarded, Puts, InFlight
  <1>2. \A d \in Calls : pc'[d] = "idle"
    BY <1>1 DEF Return, Goto, Alone, InFlight, TypeOK
  <1>3. pc[c] \in Unguarded /\ (rec' = rec \/ (pc[c] \in Puts /\ rec' = draft[c]))
    BY DEF CallRejects, RejectedUndone, RejectedDone, Put, Unguarded
  <1> QED BY <1>1, <1>2, <1>3

LEMMA ChainFail ==
    ASSUME Exclusive, TypeOK, ChainInv, NEW c \in Calls, CallRejects(c)
    PROVE  ChainInv' /\ LifeStep /\ KeepsTerminal
  <1>1. /\ \A d \in Calls : pc'[d] = "idle"
        /\ UNCHANGED <<turns, posted>>
        /\ rec' = rec \/ (pc[c] \in Puts /\ rec' = draft[c])
    BY FailAlone DEF ChainInv
  <1>2. SUFFICES RecordInv' /\ LifeStep /\ KeepsTerminal
    BY <1>1 DEF ChainInv, Alone, InFlight, CopyInv
  <1>3. RecordInv /\ CopyInv(c)
    BY DEF ChainInv
  <1>4. rec \in Records /\ posted \in Nat /\ MaxAttempts \in Nat /\ turns \in [TurnNumbers -> Nat]
    BY ConstantsAssumption DEF TypeOK
  <1>5. CASE rec' = rec
    BY <1>1, <1>3, <1>5 DEF RecordInv, FreshTurnIds, Whole, LifeStep, Life!lifeVars,
                            KeepsTerminal
  <1>6. CASE pc[c] \in {"createPut", "wakePut"} /\ rec' = draft[c]
    <2>1. /\ rec.status \in {"absent", "pending"} /\ rec.attempts = 0 /\ posted = 0
          /\ Whole(draft[c]) /\ draft[c].attempts = 0
      BY <1>3, <1>6 DEF CopyInv, RecordInv
    <2>2. RecordInv'
      BY <1>1, <1>3, <1>4, <1>6, <2>1 DEF RecordInv, FreshTurnIds, Whole
    <2>3. LifeStep
      BY <1>1, <1>6, <2>1 DEF LifeStep, Life!LifeNext, Life!Open, Life!lifeVars, Whole
    <2>4. KeepsTerminal
      BY <2>1 DEF KeepsTerminal, Terminal
    <2> QED BY <2>2, <2>3, <2>4
  <1>7. CASE pc[c] \in {"closePut", "stopPut", "finalPut"} /\ Closes(c) /\ rec' = draft[c]
    <2>1. rec.status \in {"pending", "resuming"}
      BY <1>3, <1>7 DEF CopyInv
    <2>2. RecordInv'
      BY <1>1, <1>3, <1>4, <1>7 DEF RecordInv, Closes, Terminal, FreshTurnIds
    <2>3. LifeStep
      BY <1>1, <1>7, <2>1 DEF LifeStep, Life!LifeNext, Life!Close, Life!Closed, Closes,
                              Terminal
    <2>4. KeepsTerminal
      BY <2>1 DEF KeepsTerminal, Terminal
    <2> QED BY <2>2, <2>3, <2>4
  <1>8. CASE pc[c] = "resumingPut" /\ rec' = draft[c]
    <2>1. /\ rec.status = "pending" /\ rec' = Resuming(rec) /\ rec.attempts < MaxAttempts
          /\ posted = 0 /\ Whole(rec)
      BY <1>3, <1>8 DEF CopyInv, RecordInv
    <2>2. /\ rec'.status = "resuming" /\ rec'.attempts = rec.attempts + 1
          /\ rec'.delivery = FirstDelivery /\ rec.attempts \in Nat
      BY <1>4, <2>1 DEF Resuming, Records, Whole
    <2>3. FreshTurnIds'
      BY <1>1, <1>3, <1>4, <2>2 DEF RecordInv, FreshTurnIds
    <2>4. RecordInv'
      BY <1>1, <1>4, <2>1, <2>2, <2>3 DEF RecordInv
    <2>5. LifeStep
      BY <1>1, <2>1, <2>2 DEF LifeStep, Life!LifeNext, Life!StartTurn
    <2>6. KeepsTerminal
      BY <2>1 DEF KeepsTerminal, Terminal
    <2> QED BY <2>4, <2>5, <2>6
  <1>9. CASE pc[c] = "finalPut" /\ ~Closes(c) /\ rec' = draft[c]
    <2>1. /\ rec.status = "resuming" /\ posted = 0
          /\ Whole(draft[c]) /\ draft[c].attempts = rec.attempts
      BY <1>3, <1>9 DEF CopyInv
    <2>2. RecordInv'
      BY <1>1, <1>3, <1>4, <1>9, <2>1 DEF RecordInv, FreshTurnIds, Whole
    <2>3. LifeStep
      BY <1>1, <1>9, <2>1 DEF LifeStep, Life!LifeNext, Life!Repend, Whole
    <2>4. KeepsTerminal
      BY <2>1 DEF KeepsTerminal, Terminal
    <2> QED BY <2>2, <2>3, <2>4
  <1> QED BY <1>1, <1>3, <1>5, <1>6, <1>7, <1>8, <1>9 DEF Puts, CopyInv

LEMMA ChainInit == Init => ChainInv /\ Life!LifeInit
  BY ConstantsAssumption
     DEF Init, ChainInv, Alone, InFlight, RecordInv, FreshTurnIds, CopyInv, NoRecord,
         Life!LifeInit

LEMMA ChainNext ==
    ASSUME Exclusive, TypeOK, ChainInv, [Next]_vars
    PROVE  ChainInv' /\ LifeStep /\ KeepsTerminal
  <1>1. CASE Tick \/ UNCHANGED vars
    BY <1>1 DEF Tick, vars, ChainInv, Alone, InFlight, RecordInv, FreshTurnIds, Whole,
                CopyInv, Closes, LifeStep, Life!lifeVars, KeepsTerminal
  <1>2. CASE Crash
    BY <1>2 DEF Crash, ChainInv, Alone, InFlight, RecordInv, FreshTurnIds, Whole,
                CopyInv, LifeStep, Life!lifeVars, KeepsTerminal
  <1>3. CASE \E c \in Calls : Begin(c) \/ Step(c)
    BY <1>3, ChainStep
  <1>4. CASE \E c \in Calls : CallRejects(c)
    BY <1>4, ChainFail
  <1> QED BY <1>1, <1>2, <1>3, <1>4 DEF Next

THEOREM ChainAlways == ASSUME Exclusive PROVE Spec => []ChainInv
  <1>1. TypeOK /\ ChainInv /\ [Next]_vars => ChainInv'
    BY ChainNext
  <1> QED BY <1>1, ChainInit, TypeCorrect, PTL DEF Spec

\* Chained calls never change a record once it is stored as terminal, whatever
\* the wake-ups, restarts and late triggers in between.
THEOREM ChainedTerminalIsFinal == ASSUME Exclusive PROVE Spec => TerminalIsFinal
  <1>1. TypeOK /\ ChainInv /\ [Next]_vars => [rec.status \in Terminal => UNCHANGED rec]_rec
    BY ChainNext DEF KeepsTerminal
  <1> QED BY <1>1, ChainAlways, TypeCorrect, PTL DEF Spec, TerminalIsFinal

\* Chained calls start at most one harness turn under each resumed turn id.
THEOREM ChainedTurnIdsAreFresh == ASSUME Exclusive PROVE Spec => []FreshTurnIds
  <1>1. ChainInv => FreshTurnIds
    BY DEF ChainInv, RecordInv
  <1> QED BY <1>1, ChainAlways, PTL

\* Chained calls post at most one reply, restarts included.
THEOREM ChainedReplyIsUnique == ASSUME Exclusive PROVE Spec => []AtMostOneReply
  <1>1. ChainInv => AtMostOneReply
    BY DEF ChainInv, RecordInv, AtMostOneReply
  <1> QED BY <1>1, ChainAlways, PTL

\* Chained calls never leave a waiting record half-updated.
THEOREM ChainedWaitingIsWhole == ASSUME Exclusive PROVE Spec => []WaitingIsWhole
  <1>1. ChainInv => WaitingIsWhole
    BY DEF ChainInv, RecordInv, WaitingIsWhole, Whole, FirstDelivery
  <1> QED BY <1>1, ChainAlways, PTL

\* Chained calls implement the lifecycle the package README draws.
THEOREM ChainedImplementsLifecycle == ASSUME Exclusive PROVE Spec => LifeRefined
  <1>1. TypeOK /\ ChainInv /\ [Next]_vars => [Life!LifeNext]_Life!lifeVars
    BY ChainNext DEF LifeStep
  <1> QED BY <1>1, ChainInit, ChainAlways, TypeCorrect, PTL
          DEF Spec, LifeRefined, Life!LifeSpec

-----------------------------------------------------------------------------
(* The record and the reply *)

\* How the reply is told on a record.
Recorded == {"delivered", "delivery_failed"}

\* The record agrees with the reply, as ReplyRecorded says.
Agrees ==
    /\ rec.status \in {"cancelled", "expired", "superseded"} => posted = 0
    /\ rec.status \in Terminal /\ posted > 0 => rec.delivery \in Recorded

\* The copy of a call: one that gives up a record has found it without a reply, and
\* the one that has posted says so in what it is about to put.
ReplyCopy(c) ==
    /\ pc[c] \in {"closePut", "cancelWake", "stopPut"} => posted = 0
    /\ pc[c] \in {"deliver", "finalPut"} =>
          draft[c].status \in {"pending", "completed", "failed"}
    /\ pc[c] = "finalPut" /\ posted > 0 => draft[c].delivery \in Recorded

\* Until a reply is lost, a record resumes with a reply out only while the call that
\* posted is about to put: a chained stop never finds it so.
ReplyInv ==
    "reply" \notin lost =>
        /\ Agrees
        /\ rec.status = "resuming" /\ posted > 0 => \E c \in Calls : pc[c] = "finalPut"
        /\ \A c \in Calls : ReplyCopy(c)

\* Cutting off a call whose reply is out loses it, and no other loses it.
LEMMA ReplyUnstored ==
    ASSUME TypeOK, NEW C \in SUBSET Calls
    PROVE  "reply" \in Unstored(C) <=> posted > 0 /\ \E c \in C : pc[c] = "finalPut"
  BY DEF Unstored

LEMMA ReplyFail ==
    ASSUME Exclusive, TypeOK, ChainInv, ReplyInv, "reply" \notin lost',
           NEW c \in Calls, CallRejects(c)
    PROVE  ReplyInv'
  <1>1. /\ \A d \in Calls : pc'[d] = "idle"
        /\ posted' = posted
        /\ rec' = rec \/ (pc[c] \in Puts /\ rec' = draft[c])
    BY FailAlone DEF ChainInv
  <1>2. "reply" \notin lost
    BY DEF CallRejects, RejectedUndone, RejectedDone
  <1>3. SUFFICES Agrees' /\ ~(rec'.status = "resuming" /\ posted > 0)
    BY <1>1 DEF ReplyInv, ReplyCopy
  <1>4. /\ Agrees /\ ReplyCopy(c) /\ RecordInv /\ CopyInv(c)
        /\ rec.status = "resuming" /\ posted > 0 => \E d \in Calls : pc[d] = "finalPut"
    BY <1>2 DEF ReplyInv, ChainInv
  <1>5. rec \in Records /\ draft[c] \in Records /\ posted \in Nat
    BY DEF TypeOK
  <1>6. CASE RejectedUndone(c)
    <2>1. rec' = rec /\ InFlight(c) /\ "reply" \notin Unstored({c})
      BY <1>6 DEF RejectedUndone, Unguarded, Puts, InFlight
    <2>2. \A d \in Calls : InFlight(d) => d = c
      BY <2>1 DEF ChainInv, Alone
    <2>3. posted > 0 => pc[c] # "finalPut"
      BY <2>1, ReplyUnstored
    <2>4. ~(rec.status = "resuming" /\ posted > 0)
      BY <1>4, <2>2, <2>3 DEF InFlight
    <2> QED BY <1>1, <1>4, <2>1, <2>4 DEF Agrees
  <1>7. CASE RejectedDone(c)
    <2>1. pc[c] \in Puts /\ rec' = draft[c]
      BY <1>7 DEF RejectedDone, Put
    <2>2. CASE pc[c] \in {"createPut", "wakePut"}
      <3>1. draft[c].status = "pending"
        BY <1>4, <2>2 DEF CopyInv, Whole
      <3> QED BY <2>1, <3>1 DEF Agrees, Terminal
    <2>3. CASE pc[c] \in {"closePut", "stopPut"}
      <3>1. posted = 0
        BY <1>4, <2>3 DEF ReplyCopy
      <3> QED BY <1>1, <3>1 DEF Agrees
    <2>4. CASE pc[c] = "resumingPut"
      <3>1. rec.status = "pending"
        BY <1>4, <2>4 DEF CopyInv
      <3>2. posted = 0
        BY <1>4, <3>1 DEF RecordInv
      <3> QED BY <1>1, <3>2 DEF Agrees
    <2>5. CASE pc[c] = "finalPut"
      <3>1. /\ draft[c].status \in {"pending", "completed", "failed"}
            /\ posted > 0 => draft[c].delivery \in Recorded
        BY <1>4, <2>5 DEF ReplyCopy
      <3> QED BY <1>1, <2>1, <3>1 DEF Agrees
    <2> QED BY <2>1, <2>2, <2>3, <2>4, <2>5 DEF Puts
  <1> QED BY <1>6, <1>7 DEF CallRejects

LEMMA ReplyStep ==
    ASSUME Exclusive, TypeOK, ChainInv, ReplyInv, "reply" \notin lost,
           NEW c \in Calls, Begin(c) \/ Step(c)
    PROVE  ReplyInv'
  <1>a. \A d \in Calls \ {c} : pc[d] = "idle" /\ pc'[d] = "idle"
    BY OthersIdle DEF ChainInv
  <1>b. /\ Agrees /\ ReplyCopy(c) /\ RecordInv /\ CopyInv(c)
        /\ rec.status = "resuming" /\ posted > 0 => pc[c] = "finalPut"
    BY <1>a DEF ReplyInv, ChainInv
  <1>c. SUFFICES /\ Agrees' /\ ReplyCopy(c)'
                 /\ rec'.status = "resuming" /\ posted' > 0 => pc'[c] = "finalPut"
    <2>1. \A d \in Calls \ {c} : ReplyCopy(d)'
      BY <1>a DEF ReplyCopy
    <2> QED BY <2>1 DEF ReplyInv
  <1>d. /\ rec \in Records /\ draft[c] \in Records /\ posted \in Nat
        /\ pc \in [Calls -> PCs] /\ draft \in [Calls -> Records]
    BY DEF TypeOK
  \* A waiting record has no reply, whatever closes it.
  <1>e. rec.status = "pending" => posted = 0
    BY <1>b DEF RecordInv
  \* Steps that leave the record and the reply alone.
  <1>f. ASSUME UNCHANGED <<rec, posted>>, pc[c] # "finalPut"
        PROVE  /\ Agrees'
               /\ rec'.status = "resuming" /\ posted' > 0 => pc'[c] = "finalPut"
    BY <1>b, <1>f DEF Agrees
  \* A call that has nothing in hand yet, or nothing more.
  <1>g. ASSUME pc'[c] \in {"idle", "createPut", "schedule", "wakePut", "resumeGet",
                           "resumingPut", "stopGet", "harness"}
        PROVE  ReplyCopy(c)'
    BY <1>g DEF ReplyCopy
  <1>1. CASE Begin(c)
    <2>1. pc[c] = "idle" /\ pc'[c] \in {"createPut", "resumeGet", "stopGet"}
      BY <1>1, <1>d DEF Begin, BeginCreate, BeginResume, WakeFires, BeginStop, BeginCall
    <2>2. UNCHANGED <<rec, posted>>
      BY <1>1 DEF Begin, BeginCreate, BeginResume, WakeFires, BeginStop, store, history
    <2> QED BY <1>f, <1>g, <2>1, <2>2
  <1>2. CASE CreatePut(c) \/ WakePut(c)
    <2>1. rec' = draft[c] /\ draft[c].status = "pending" /\ posted' = posted
      BY <1>2, <1>b DEF CreatePut, WakePut, Put, CopyInv, Whole, history
    <2>2. pc'[c] \in {"schedule", "idle"}
      BY <1>2, <1>d DEF CreatePut, WakePut, Return, Goto
    <2>3. Agrees'
      BY <2>1 DEF Agrees, Terminal
    <2> QED BY <1>g, <2>1, <2>2, <2>3
  <1>3. CASE Schedule(c) \/ ResumeAdmit(c)
    <2>1. pc[c] \in {"schedule", "resumeGet"} /\ pc'[c] \in {"wakePut", "resumingPut"}
      BY <1>3, <1>d DEF Schedule, ResumeAdmit, Reads, Goto
    <2>2. UNCHANGED <<rec, posted>>
      BY <1>3 DEF Schedule, ResumeAdmit, Reads, store, history
    <2> QED BY <1>f, <1>g, <2>1, <2>2
  <1>4. CASE ResumeReject(c) \/ StopKeep(c)
    <2>1. pc[c] \in {"resumeGet", "stopGet"} /\ pc'[c] = "idle"
      BY <1>4, <1>d DEF ResumeReject, StopKeep, Reads, Return, Goto
    <2>2. UNCHANGED <<rec, posted>>
      BY <1>4 DEF ResumeReject, StopKeep, Reads, store, history
    <2> QED BY <1>f, <1>g, <2>1, <2>2
  <1>5. CASE ResumeExpire(c) \/ ResumeExhaust(c) \/ ResumeDeny(c)
    <2>1. /\ rec.status = "pending" /\ UNCHANGED <<rec, posted>>
          /\ pc[c] = "resumeGet"
      BY <1>5, ReadPending DEF ResumeExpire, ResumeExhaust, ResumeDeny, Reads,
                               store, history
    <2>2. pc'[c] = "closePut"
      BY <1>5, <1>d DEF ResumeExpire, ResumeExhaust, ResumeDeny, Goto
    <2>3. ReplyCopy(c)'
      BY <1>e, <2>1, <2>2 DEF ReplyCopy
    <2> QED BY <1>f, <2>1, <2>3
  <1>6. CASE ClosePut(c) \/ StopPut(c)
    <2>1. posted = 0 /\ Closes(c)
      BY <1>6, <1>b DEF ClosePut, StopPut, ReplyCopy, CopyInv
    <2>2. rec' = draft[c] /\ posted' = posted /\ pc'[c] = "idle"
      BY <1>6, <1>d DEF ClosePut, StopPut, Put, Return, Goto, history
    <2>3. Agrees'
      BY <2>1, <2>2 DEF Agrees
    <2>4. rec'.status # "resuming"
      BY <2>1, <2>2 DEF Closes, Terminal
    <2> QED BY <1>g, <2>2, <2>3, <2>4
  <1>7. CASE ResumingPut(c)
    <2>1. /\ rec' = draft[c] /\ draft[c] = Resuming(rec) /\ posted' = posted
          /\ pc'[c] = "harness" /\ rec.status = "pending"
      BY <1>7, <1>b, <1>d DEF ResumingPut, CopyInv, Put, Goto
    <2>2. rec'.status = "resuming"
      BY <1>d, <2>1 DEF Resuming, Records
    <2>3. Agrees'
      BY <2>2 DEF Agrees, Terminal
    <2> QED BY <1>e, <1>g, <2>1, <2>3
  <1>8. CASE TurnEnds(c) \/ TurnRepends(c) \/ TurnBreaks(c)
    <2>1. pc[c] = "harness" /\ UNCHANGED <<rec, posted>>
      BY <1>8 DEF TurnEnds, TurnRepends, TurnBreaks, TurnReturns, store, history
    <2>2. posted = 0
      BY <1>b, <2>1 DEF CopyInv
    <2>3. pc'[c] \in {"deliver", "finalPut"}
      BY <1>8, <1>d DEF TurnEnds, TurnRepends, TurnBreaks, TurnReturns, Goto
    <2>4. draft'[c].status \in {"pending", "completed", "failed"}
      <3>1. CASE TurnRepends(c)
        <4>1. PICK wait \in WaitConditions, ttl \in Ttls :
                 draft'[c] = Repended(draft[c], wait, clock + ttl)
          BY <1>d, <3>1 DEF TurnRepends, TurnReturns, Hold
        <4> QED BY <1>d, <4>1 DEF Repended, Records
      <3>2. CASE TurnEnds(c) \/ TurnBreaks(c)
        <4>1. PICK s \in {"completed", "failed"} :
                 draft'[c] = [draft[c] EXCEPT !.status = s]
          BY <1>d, <3>2 DEF TurnEnds, TurnBreaks, TurnReturns, Hold
        <4> QED BY <1>d, <4>1 DEF Records
      <3> QED BY <1>8, <3>1, <3>2
    <2>5. ReplyCopy(c)'
      BY <1>d, <2>1, <2>2, <2>3, <2>4 DEF ReplyCopy
    <2> QED BY <1>f, <2>1, <2>5
  <1>9. CASE Deliver(c)
    <2>1. rec' = rec /\ posted = 0 /\ pc'[c] = "finalPut" /\ rec.status = "resuming"
      BY <1>9, <1>b, <1>d DEF Deliver, CopyInv, Goto, store
    <2>2. draft[c].status \in {"pending", "completed", "failed"}
      BY <1>9, <1>b DEF Deliver, ReplyCopy
    <2>3. PICK told \in Recorded : draft'[c] = [draft[c] EXCEPT !.delivery = told]
      BY <1>9, <1>d DEF Deliver, Hold, Delivered, Refused, Recorded
    <2>4. draft'[c].status = draft[c].status /\ draft'[c].delivery \in Recorded
      BY <1>d, <2>3 DEF Records
    <2>5. ReplyCopy(c)'
      BY <2>1, <2>2, <2>4 DEF ReplyCopy
    <2>6. Agrees'
      BY <2>1 DEF Agrees, Terminal
    <2> QED BY <2>1, <2>5, <2>6
  <1>10. CASE FinalPut(c)
    <2>1. /\ draft[c].status \in {"pending", "completed", "failed"}
          /\ posted > 0 => draft[c].delivery \in Recorded
      BY <1>10, <1>b DEF FinalPut, ReplyCopy
    <2>2. rec' = draft[c] /\ posted' = posted /\ pc'[c] = "idle"
      BY <1>10, <1>d DEF FinalPut, Put, Return, Goto, history
    <2>3. Agrees'
      BY <2>1, <2>2 DEF Agrees
    <2> QED BY <1>g, <2>1, <2>2, <2>3
  <1>11. CASE StopRead(c) \/ CancelWake(c)
    <2>1. pc[c] \in {"stopGet", "cancelWake"} /\ UNCHANGED <<rec, posted>>
      BY <1>11 DEF StopRead, CancelWake, store, history
    <2>2. posted = 0
      <3>1. CASE CancelWake(c)
        BY <3>1, <1>b DEF CancelWake, ReplyCopy
      <3>2. CASE StopRead(c)
        BY <3>2, <1>b, <1>d, <1>e DEF StopRead
      <3> QED BY <1>11, <3>1, <3>2
    <2>3. pc'[c] \in {"cancelWake", "stopPut"}
      BY <1>11, <1>d DEF StopRead, CancelWake, Goto
    <2>4. ReplyCopy(c)'
      BY <2>1, <2>2, <2>3 DEF ReplyCopy
    <2> QED BY <1>f, <2>1, <2>4
  <1> QED BY <1>1, <1>2, <1>3, <1>4, <1>5, <1>6, <1>7, <1>8, <1>9, <1>10, <1>11
          DEF Step

\* Chained calls leave the record and the reply in agreement, wherever restarts and
\* rejected calls cut them off, short of losing the put that follows a reply: a
\* continuation that was stopped, denied or ran out of time has posted nothing, and
\* the record of a closed one tells of the reply that went out.
THEOREM ChainedReplyRecorded == ASSUME Exclusive PROVE Spec => []ReplyRecorded
  <1>1. Init => ReplyInv
    BY DEF Init, ReplyInv, Agrees, ReplyCopy, NoRecord, Terminal
  <1>2. TypeOK /\ ChainInv /\ ReplyInv /\ [Next]_vars => ReplyInv'
    <2> SUFFICES ASSUME TypeOK, ChainInv, ReplyInv, [Next]_vars, "reply" \notin lost'
                 PROVE  ReplyInv'
      BY DEF ReplyInv
    <2>2. CASE Tick \/ UNCHANGED vars
      BY <2>2 DEF Tick, vars, store, locals, history, ReplyInv, Agrees, ReplyCopy
    <2>3. CASE Crash
      <3>1. /\ "reply" \notin lost /\ "reply" \notin Unstored(Calls)
            /\ \A c \in Calls : pc'[c] = "idle"
            /\ UNCHANGED <<rec, posted>>
        BY <2>3 DEF Crash
      <3>2. ~(posted > 0 /\ \E c \in Calls : pc[c] = "finalPut")
        BY <3>1, ReplyUnstored
      <3> QED BY <3>1, <3>2 DEF ReplyInv, Agrees, ReplyCopy
    <2>4. CASE \E c \in Calls : Begin(c) \/ Step(c)
      <3>1. PICK c \in Calls : Begin(c) \/ Step(c)
        BY <2>4
      <3>2. lost' = lost
        BY <3>1 DEF Begin, BeginCreate, BeginResume, WakeFires, BeginStop,
             Step, CreatePut, Schedule, WakePut, ResumeReject, ResumeExpire,
             ResumeExhaust, ResumeDeny, ResumeAdmit, ClosePut, ResumingPut, TurnEnds,
             TurnRepends, TurnBreaks, TurnReturns, Reads, Deliver, FinalPut, StopKeep,
             StopRead, CancelWake, StopPut
      <3> QED BY <3>1, <3>2, ReplyStep
    <2>5. CASE \E c \in Calls : CallRejects(c)
      BY <2>5, ReplyFail
    <2> QED BY <2>2, <2>3, <2>4, <2>5 DEF Next
  <1>3. ReplyInv => ReplyRecorded
    BY DEF ReplyInv, ReplyRecorded, Agrees, Recorded
  <1> QED BY <1>1, <1>2, <1>3, ChainAlways, TypeCorrect, PTL DEF Spec
===============================================================================
