--------------------------- MODULE ProactiveProofs ---------------------------
(***************************************************************************)
(* Theorems about what an assistant does unasked: the watch rules, for any *)
(* operators, evaluations and registrations; the channel its notices go    *)
(* to, for any posts, channels and any number of posts after which a       *)
(* channel is confirmed by itself; the follow-ups, for any rules, limits   *)
(* and cooldowns; and the batch run, for any signals, workers and caps.    *)
(*                                                                         *)
(* Watch rules: a call on a registration that has been replaced may still  *)
(* cancel the wake-up it or that registration holds.  An active rule stays *)
(* watched because some wake-up is none of those: a fresh number is held   *)
(* by nobody, and the calls of the current registration that take a        *)
(* wake-up away go on to request another or to cancel the rule.            *)
(*                                                                         *)
(* Notify channel: the count of a preference is read and written in        *)
(* separate awaits, so it may count fewer posts than asked, but no count,  *)
(* stored or held by a post, is ahead of them: a post that has not written *)
(* yet is not among those that asked.  After a reply, only posts that were *)
(* under way when it came can still write.                                 *)
(*                                                                         *)
(* Follow-ups: an evaluation that awaits a condition holds a reminder      *)
(* state, taken before the await, that permits one more reminder.          *)
(*                                                                         *)
(* Batch run: of the listed signals those that are fresh have been found   *)
(* or are yet to be visited, and an item is untaken, worked on by one      *)
(* worker, or settled with what is said of it in the end.                  *)
(***************************************************************************)
EXTENDS WatchRules, NotifyChannel, FollowUps, FollowUpBatch, SequenceLemmas

-----------------------------------------------------------------------------
(* Watch rules *)

Statuses == {"none", "active", "paused", "cancelled"}

RuleRecords == [status : Statuses, binding : Wakes \cup {NoWake}]

CallRecords ==
    {Idle} \cup [at : {"condition", "request"}, on : 1..MaxRecords, wake : {NoWake}]
           \cup [at : {"replace", "cancel", "store"}, on : 1..MaxRecords, wake : Wakes]

WatchTypes ==
    /\ current \in 0..MaxRecords
    /\ rule \in [1..MaxRecords -> RuleRecords]
    /\ pending \subseteq Wakes
    /\ fired \in Nat
    /\ failed \in BOOLEAN
    /\ call \in [Calls -> CallRecords]

\* No registration before the current one, and no call on it, holds the wake-up w.
Clear(w) ==
    /\ \A r \in 1..MaxRecords \ {current} : rule[r].binding # w
    /\ \A k \in Calls : call[k].on # current => call[k].wake # w

\* A call of the current registration will request a wake-up or cancel the rule.
AtWork == \E k \in Calls : call[k].on = current /\ call[k].at # "store"

WatchInv ==
    Status = "active" /\ ~failed =>
        (\E w \in pending : Clear(w)) \/ fired > 0 \/ AtWork

\* What is known of a call from where it is.
LEMMA CallFacts ==
    ASSUME WatchTypes, NEW k \in Calls
    PROVE  /\ call[k] \in CallRecords
           /\ call[k].at \in {"condition", "request"} =>
                 call[k].on \in 1..MaxRecords /\ call[k].wake = NoWake
           /\ call[k].at \in {"replace", "cancel", "store"} =>
                 call[k].on \in 1..MaxRecords /\ call[k].wake \in Wakes
           /\ call[k].at = "idle" => call[k] = Idle
  BY DEF WatchTypes, CallRecords, Idle

LEMMA WakesAreNumbers == \A w \in Wakes : w # NoWake
  BY DEF Wakes, NoWake

\* Where a rule is usable there is a current registration.
LEMMA UsableIsRegistered == ASSUME WatchTypes, Usable PROVE current \in 1..MaxRecords
  BY DEF Usable, Status, WatchTypes

-----------------------------------------------------------------------------
(* Types *)

LEMMA WatchTypesInit == Init => WatchTypes
  <1> SUFFICES ASSUME Init PROVE WatchTypes
    OBVIOUS
  <1>1. MaxRecords \in Nat
    BY ConstantsAssumption
  <1>2. rule \in [1..MaxRecords -> RuleRecords]
    BY DEF Init, Unregistered, RuleRecords, Statuses
  <1>3. call \in [Calls -> CallRecords]
    BY DEF Init, CallRecords
  <1>4. current \in 0..MaxRecords /\ pending \subseteq Wakes /\ fired \in Nat
    BY <1>1 DEF Init
  <1>5. failed \in BOOLEAN
    BY DEF Init
  <1> QED BY <1>2, <1>3, <1>4, <1>5 DEF WatchTypes

\* A call that goes on to another place, or returns.
LEMMA CallMoves ==
    ASSUME WatchTypes, NEW k \in Calls, NEW c \in CallRecords, call' = [call EXCEPT ![k] = c]
    PROVE  call' \in [Calls -> CallRecords]
  BY DEF WatchTypes, CallRecords

LEMMA WatchTypesOperator ==
    ASSUME WatchTypes, NEW k \in Operators, Register(k) \/ Resume(k) \/ Cancel(k)
    PROVE  WatchTypes'
  <1>1. k \in Calls
    BY DEF Calls
  <1>2. MaxRecords \in Nat
    BY ConstantsAssumption
  <1>3. CASE Register(k)
    <2>1. current' \in 1..MaxRecords
      BY <1>2, <1>3 DEF Register, WatchTypes
    <2>2. rule' \in [1..MaxRecords -> RuleRecords]
      BY <1>3 DEF Register, WatchTypes, RuleRecords, Statuses
    <2>3. call' \in [Calls -> CallRecords]
      <3> DEFINE c == [at |-> "request", on |-> current', wake |-> NoWake]
      <3>1. c \in CallRecords
        BY <2>1 DEF CallRecords
      <3>2. call' = [call EXCEPT ![k] = c]
        BY <1>3 DEF Register
      <3> HIDE DEF c
      <3> QED BY <1>1, <3>1, <3>2, CallMoves
    <2>4. current' \in 0..MaxRecords /\ pending' \subseteq Wakes /\ fired' \in Nat
      BY <1>2, <1>3, <2>1 DEF Register, WatchTypes
    <2>5. failed' \in BOOLEAN
      BY <1>3 DEF Register
    <2> QED BY <2>2, <2>3, <2>4, <2>5 DEF WatchTypes
  <1>4. CASE Resume(k)
    <2>1. current \in 1..MaxRecords
      BY <1>4, UsableIsRegistered DEF Resume
    <2>2. rule' \in [1..MaxRecords -> RuleRecords]
      BY <1>4, <2>1 DEF Resume, WatchTypes, RuleRecords, Statuses
    <2>3. call' \in [Calls -> CallRecords]
      <3> DEFINE c == [at |-> "request", on |-> current, wake |-> NoWake]
      <3>1. c \in CallRecords
        BY <2>1 DEF CallRecords
      <3>2. call' = [call EXCEPT ![k] = c]
        BY <1>4 DEF Resume
      <3> HIDE DEF c
      <3> QED BY <1>1, <3>1, <3>2, CallMoves
    <2> QED BY <1>4, <2>2, <2>3 DEF Resume, WatchTypes
  <1>5. CASE Cancel(k)
    <2>1. current \in 1..MaxRecords
      BY <1>5, UsableIsRegistered DEF Cancel
    <2>2. rule' \in [1..MaxRecords -> RuleRecords]
      BY <1>5, <2>1 DEF Cancel, WatchTypes, RuleRecords, Statuses
    <2>3. call' \in [Calls -> CallRecords]
      <3> DEFINE c == [at |-> "cancel", on |-> current, wake |-> rule[current].binding]
      <3>1. CASE UNCHANGED call
        BY <3>1 DEF WatchTypes, CallRecords
      <3>2. CASE rule[current].binding # NoWake /\ call' = [call EXCEPT ![k] = c]
        <4>1. rule[current].binding \in Wakes
          BY <2>1, <3>2 DEF WatchTypes, RuleRecords
        <4>2. c \in CallRecords
          BY <2>1, <4>1 DEF CallRecords
        <4> HIDE DEF c
        <4> QED BY <1>1, <3>2, <4>2, CallMoves
      <3> QED BY <1>5, <3>1, <3>2 DEF Cancel
    <2> QED BY <1>5, <2>2, <2>3 DEF Cancel, WatchTypes
  <1> QED BY <1>3, <1>4, <1>5

LEMMA WatchTypesEvaluate ==
    ASSUME WatchTypes, NEW k \in Evaluators, Evaluate(k)
    PROVE  WatchTypes'
  <1>1. k \in Calls
    BY DEF Calls
  <1>2. call' \in [Calls -> CallRecords]
    <2>1. CASE UNCHANGED call
      BY <2>1 DEF WatchTypes, CallRecords
    <2>2. CASE /\ Evaluable
               /\ call' = [call EXCEPT ![k] =
                               [at |-> "condition", on |-> current, wake |-> NoWake]]
      <3> DEFINE c == [at |-> "condition", on |-> current, wake |-> NoWake]
      <3>1. current \in 1..MaxRecords
        BY <2>2, UsableIsRegistered DEF Evaluable, Usable
      <3>2. c \in CallRecords
        BY <3>1 DEF CallRecords
      <3>3. call' = [call EXCEPT ![k] = c]
        BY <2>2
      <3> HIDE DEF c
      <3> QED BY <1>1, <3>2, <3>3, CallMoves
    <2> QED BY <2>1, <2>2 DEF Evaluate
  <1>3. fired' \in Nat
    BY DEF Evaluate, WatchTypes
  <1> QED BY <1>2, <1>3 DEF Evaluate, WatchTypes

LEMMA WatchTypesStep ==
    ASSUME WatchTypes, NEW k \in Calls, Step(k)
    PROVE  WatchTypes'
  <1>1. call' \in [Calls -> CallRecords]
    <2>1. \E c \in CallRecords : call' = [call EXCEPT ![k] = c]
      <3>1. CASE Return(k)
        BY <3>1 DEF Return, CallRecords
      <3>2. CASE call[k].at = "condition" /\ Replace(k)
        <4>1. call[k].on \in 1..MaxRecords /\ call[k].wake = NoWake /\ call[k] \in CallRecords
          BY <3>2, CallFacts
        <4>2. CASE Tracked(k) # NoWake
          <5> DEFINE c == [at |-> "replace", on |-> call[k].on, wake |-> Tracked(k)]
          <5>1. Tracked(k) \in Wakes
            BY <4>1, <4>2 DEF Tracked, WatchTypes, RuleRecords
          <5>2. c \in CallRecords
            BY <4>1, <5>1 DEF CallRecords
          <5>3. call' = [call EXCEPT ![k] = c]
            BY <3>2, <4>1, <4>2 DEF Replace, CallRecords, Idle
          <5> QED BY <5>2, <5>3
        <4>3. CASE Tracked(k) = NoWake
          <5> DEFINE c == [at |-> "request", on |-> call[k].on, wake |-> NoWake]
          <5>1. c \in CallRecords
            BY <4>1 DEF CallRecords
          <5>2. call' = [call EXCEPT ![k] = c]
            BY <3>2, <4>1, <4>3 DEF Replace, Goto, CallRecords, Idle
          <5> QED BY <5>1, <5>2
        <4> QED BY <4>2, <4>3
      <3>3. CASE /\ call[k].at = "replace"
                 /\ call' = [call EXCEPT ![k].at = AfterReplace, ![k].wake = NoWake]
        <4>1. call[k] \in [at : {"replace", "cancel", "store"}, on : 1..MaxRecords, wake : Wakes]
          BY <3>3, CallFacts DEF CallRecords, Idle
        <4>2. [call[k] EXCEPT !.at = "request", !.wake = NoWake]
                \in [at : {"condition", "request"}, on : 1..MaxRecords, wake : {NoWake}]
          BY <4>1
        <4>3. call' = [call EXCEPT ![k] = [call[k] EXCEPT !.at = "request", !.wake = NoWake]]
          BY <3>3 DEF AfterReplace, WatchTypes
        <4> QED BY <4>2, <4>3 DEF CallRecords
      <3>4. ASSUME NEW w \in Unused, call[k].at = "request",
                   call' = [call EXCEPT ![k].at = "store", ![k].wake = w]
            PROVE  \E c \in CallRecords : call' = [call EXCEPT ![k] = c]
        <4>1. call[k] \in [at : {"condition", "request"}, on : 1..MaxRecords, wake : {NoWake}]
          BY <3>4, CallFacts DEF CallRecords, Idle
        <4>2. [call[k] EXCEPT !.at = "store", !.wake = w]
                \in [at : {"replace", "cancel", "store"}, on : 1..MaxRecords, wake : Wakes]
          BY <4>1 DEF Unused
        <4>3. call' = [call EXCEPT ![k] = [call[k] EXCEPT !.at = "store", !.wake = w]]
          BY <3>4 DEF WatchTypes
        <4> QED BY <4>2, <4>3 DEF CallRecords
      <3> QED BY <3>1, <3>2, <3>3, <3>4 DEF Step, Condition, CancelWakeUp, RequestWakeUp, Store
    <2> QED BY <2>1, CallMoves
  <1>2. rule' \in [1..MaxRecords -> RuleRecords]
    <2>1. CASE UNCHANGED rule
      BY <2>1 DEF WatchTypes, RuleRecords, Statuses
    <2>2. CASE CancelWakeUp(k) /\ rule' # rule
      <3>1. call[k].on \in 1..MaxRecords
        BY <2>2, CallFacts DEF CancelWakeUp
      <3> QED BY <2>2, <3>1 DEF CancelWakeUp, WatchTypes, RuleRecords, Statuses
    <2>3. CASE Store(k)
      <3>1. call[k].on \in 1..MaxRecords /\ call[k].wake \in Wakes
        BY <2>3, CallFacts DEF Store
      <3> QED BY <2>3, <3>1 DEF Store, WatchTypes, RuleRecords, Statuses
    <2> QED BY <2>1, <2>2, <2>3 DEF Step, Condition, CancelWakeUp, RequestWakeUp
  <1>3. pending' \subseteq Wakes /\ failed' \in BOOLEAN /\ UNCHANGED <<current, fired>>
    <2>1. pending' \subseteq Wakes /\ UNCHANGED <<current, fired>>
      BY DEF Step, Condition, CancelWakeUp, RequestWakeUp, Store, Unused, WatchTypes
    <2>2. failed' \in BOOLEAN
      BY DEF Step, Condition, CancelWakeUp, RequestWakeUp, Store, Succeed, Fail, WatchTypes
    <2> QED BY <2>1, <2>2
  <1> QED BY <1>1, <1>2, <1>3 DEF WatchTypes

LEMMA WatchTypesNext == WatchTypes /\ [Next]_vars => WatchTypes'
  <1> SUFFICES ASSUME WatchTypes, [Next]_vars PROVE WatchTypes'
    OBVIOUS
  <1>1. CASE UNCHANGED vars
    BY <1>1 DEF vars, WatchTypes
  <1>2. CASE Pause
    <2>1. current \in 1..MaxRecords
      BY <1>2, UsableIsRegistered DEF Pause
    <2>2. rule' \in [1..MaxRecords -> RuleRecords]
      BY <1>2, <2>1 DEF Pause, WatchTypes, RuleRecords, Statuses
    <2> QED BY <1>2, <2>2 DEF Pause, WatchTypes
  <1>3. ASSUME NEW w \in Wakes, Fire(w) PROVE WatchTypes'
    BY <1>3 DEF Fire, WatchTypes
  <1> QED BY <1>1, <1>2, <1>3, WatchTypesOperator, WatchTypesEvaluate, WatchTypesStep DEF Next

-----------------------------------------------------------------------------
(* Active rules are watched *)

\* A step that takes none of the clear wake-ups away and ends no call that matters.
LEMMA WatchKept ==
    ASSUME WatchInv, Status' = "active" => Status = "active", failed => failed',
           \A w \in pending : Clear(w) => w \in pending' /\ Clear(w)',
           fired > 0 => fired' > 0, AtWork => AtWork'
    PROVE  WatchInv'
  BY DEF WatchInv

\* A call at another place of the same registration, or returned: the others matter
\* as before if it was not on the current registration.
LEMMA OthersAtWork ==
    ASSUME WatchTypes, NEW k \in Calls, call[k].on # current \/ call[k].at = "store",
           UNCHANGED current, \A j \in Calls \ {k} : call'[j] = call[j]
    PROVE  AtWork => AtWork'
  BY DEF AtWork

LEMMA WatchOperator ==
    ASSUME WatchTypes, WatchInv, NEW k \in Operators, Register(k) \/ Resume(k) \/ Cancel(k)
    PROVE  WatchInv'
  <1>1. k \in Calls
    BY DEF Calls
  <1>2. CASE Register(k) \/ Resume(k)
    <2>1. call'[k].on = current' /\ call'[k].at = "request"
      BY <1>1, <1>2 DEF Register, Resume, WatchTypes
    <2> QED BY <1>1, <2>1 DEF WatchInv, AtWork
  <1>3. CASE Cancel(k)
    <2>1. current \in 1..MaxRecords
      BY <1>3, UsableIsRegistered DEF Cancel
    <2>2. CASE /\ call' = [call EXCEPT ![k] =
                               [at |-> "cancel", on |-> current, wake |-> rule[current].binding]]
               /\ UNCHANGED current
      <3>1. call'[k].on = current' /\ call'[k].at = "cancel"
        BY <1>1, <2>2 DEF WatchTypes
      <3> QED BY <1>1, <3>1 DEF WatchInv, AtWork
    <2>3. CASE rule' = [rule EXCEPT ![current].status = "cancelled"] /\ UNCHANGED current
      <3>1. Status' = "cancelled"
        BY <2>1, <2>3 DEF Status, WatchTypes
      <3> QED BY <3>1 DEF WatchInv
    <2> QED BY <1>3, <2>2, <2>3 DEF Cancel
  <1> QED BY <1>2, <1>3

LEMMA WatchEvaluate ==
    ASSUME WatchTypes, WatchInv, NEW k \in Evaluators, Evaluate(k)
    PROVE  WatchInv'
  <1>1. k \in Calls
    BY DEF Calls
  <1>2. CASE Evaluable
    <2>1. call'[k].on = current' /\ call'[k].at = "condition"
      BY <1>1, <1>2 DEF Evaluate, WatchTypes
    <2> QED BY <1>1, <2>1 DEF WatchInv, AtWork
  <1>3. CASE ~ Evaluable
    BY <1>3 DEF Evaluate, Evaluable, WatchInv, Status
  <1> QED BY <1>2, <1>3

\* A call that returns holds nothing any more.
LEMMA Returned ==
    ASSUME WatchTypes, NEW k \in Calls, Return(k)
    PROVE  /\ call'[k].on = 0 /\ call'[k].wake = NoWake /\ call'[k].at = "idle"
           /\ \A j \in Calls \ {k} : call'[j] = call[j]
  BY DEF Return, Idle, WatchTypes

LEMMA WatchCondition ==
    ASSUME WatchTypes, WatchInv, NEW k \in Calls, Condition(k)
    PROVE  WatchInv'
  <1>1. /\ call[k].at = "condition" /\ call[k].on \in 1..MaxRecords
        /\ UNCHANGED <<current, rule, pending, fired>> /\ Status' = Status
    BY CallFacts DEF Condition, Status
  <1>2. CASE Replace(k) /\ UNCHANGED failed
    <2>1. /\ call'[k].on = call[k].on /\ call'[k].at \in {"replace", "request"}
          /\ call'[k].wake \in {call[k].wake, rule[call[k].on].binding}
          /\ \A j \in Calls \ {k} : call'[j] = call[j]
      BY <1>1, <1>2, CallFacts DEF Replace, Goto, Tracked, WatchTypes, CallRecords, Idle
    <2>2. CASE call[k].on = current
      BY <1>1, <2>1, <2>2 DEF WatchInv, AtWork
    <2>3. CASE call[k].on # current
      <3>1. \A w \in pending : Clear(w) => Clear(w)'
        BY <1>1, <2>1, <2>3 DEF Clear
      <3>2. AtWork => AtWork'
        BY <1>1, <2>1, <2>3, OthersAtWork
      <3> QED BY <1>1, <1>2, <3>1, <3>2, WatchKept
    <2> QED BY <2>2, <2>3
  <1>3. CASE Return(k) /\ Fail(k)
    <2>1. CASE call[k].on = current
      BY <1>3, <2>1 DEF Fail, WatchInv
    <2>2. CASE call[k].on # current
      <3>1. /\ call'[k].on = 0 /\ call'[k].wake = NoWake
            /\ \A j \in Calls \ {k} : call'[j] = call[j]
        BY <1>3, Returned
      <3>2. \A w \in pending : Clear(w) => Clear(w)'
        BY <1>1, <3>1, WakesAreNumbers DEF Clear, WatchTypes
      <3>3. AtWork => AtWork'
        BY <1>1, <2>2, <3>1, OthersAtWork
      <3>4. failed => failed'
        BY <1>3 DEF Fail
      <3> QED BY <1>1, <3>2, <3>3, <3>4, WatchKept
    <2> QED BY <2>1, <2>2
  <1> QED BY <1>2, <1>3 DEF Condition

LEMMA WatchCancelWakeUp ==
    ASSUME WatchTypes, WatchInv, NEW k \in Calls, CancelWakeUp(k)
    PROVE  WatchInv'
  <1>1. /\ call[k].at \in {"replace", "cancel"} /\ call[k].on \in 1..MaxRecords
        /\ UNCHANGED <<current, fired>> /\ call[k] \in CallRecords
    BY CallFacts DEF CancelWakeUp
  <1>2. CASE call[k].on = current
    <2>1. CASE /\ call[k].at = "replace"
               /\ call' = [call EXCEPT ![k].at = AfterReplace, ![k].wake = NoWake]
      <3>1. call'[k].on = current' /\ call'[k].at = "request"
        BY <1>1, <1>2, <2>1 DEF AfterReplace, WatchTypes, CallRecords, Idle
      <3> QED BY <3>1 DEF WatchInv, AtWork
    <2>2. CASE rule' = [rule EXCEPT ![call[k].on] = [status |-> "cancelled", binding |-> NoWake]]
      <3>1. Status' = "cancelled"
        BY <1>1, <1>2, <2>2 DEF Status, WatchTypes
      <3> QED BY <3>1 DEF WatchInv
    <2>3. CASE Fail(k)
      BY <1>2, <2>3 DEF Fail, WatchInv
    <2> QED BY <2>1, <2>2, <2>3 DEF CancelWakeUp
  <1>3. CASE call[k].on # current
    <2>1. failed' = failed
      BY <1>3 DEF CancelWakeUp, Fail, WatchTypes
    <2>2. \A w \in pending : w # call[k].wake => w \in pending'
      BY DEF CancelWakeUp
    <2>3. /\ call'[k].wake = NoWake /\ \A j \in Calls \ {k} : call'[j] = call[j]
      <3>1. CASE call' = [call EXCEPT ![k].at = AfterReplace, ![k].wake = NoWake]
        BY <1>1, <3>1 DEF WatchTypes, CallRecords, Idle
      <3>2. CASE Return(k)
        BY <3>2, Returned
      <3> QED BY <3>1, <3>2 DEF CancelWakeUp
    <2>4. /\ \A r \in 1..MaxRecords : rule'[r].binding \in {rule[r].binding, NoWake}
          /\ \A r \in 1..MaxRecords \ {call[k].on} : rule'[r] = rule[r]
      <3>1. CASE UNCHANGED rule
        BY <3>1
      <3>2. CASE rule' = [rule EXCEPT ![call[k].on].binding = NoWake]
        BY <1>1, <3>2 DEF WatchTypes, RuleRecords
      <3>3. CASE rule' = [rule EXCEPT ![call[k].on] = [status |-> "cancelled", binding |-> NoWake]]
        BY <1>1, <3>3 DEF WatchTypes, RuleRecords
      <3> QED BY <3>1, <3>2, <3>3 DEF CancelWakeUp
    <2>5. \A w \in pending : Clear(w) => w \in pending' /\ Clear(w)'
      BY <1>1, <1>3, <2>2, <2>3, <2>4, WakesAreNumbers DEF Clear, WatchTypes
    <2>6. AtWork => AtWork'
      BY <1>1, <1>3, <2>3, OthersAtWork
    <2>7. Status' = Status
      BY <1>1, <1>3, <2>4 DEF Status, WatchTypes
    <2> QED BY <1>1, <2>1, <2>5, <2>6, <2>7, WatchKept
  <1> QED BY <1>2, <1>3

LEMMA WatchRequestWakeUp ==
    ASSUME WatchTypes, WatchInv, NEW k \in Calls, RequestWakeUp(k)
    PROVE  WatchInv'
  <1>1. /\ call[k].at = "request" /\ call[k].on \in 1..MaxRecords
        /\ UNCHANGED <<current, rule, fired>> /\ Status' = Status /\ call[k] \in CallRecords
    BY CallFacts DEF RequestWakeUp, Status
  <1>2. PICK w \in Unused :
            \/ /\ pending' = pending \cup {w}
               /\ call' = [call EXCEPT ![k].at = "store", ![k].wake = w]
               /\ Succeed(k)
            \/ /\ pending' \in {pending, pending \cup {w}}
               /\ Return(k)
               /\ Fail(k)
    BY DEF RequestWakeUp
  <1>3. /\ w \notin pending /\ \A j \in Calls : call[j].wake # w
        /\ \A r \in 1..MaxRecords : rule[r].binding # w
    BY DEF Unused
  <1>4. CASE /\ pending' = pending \cup {w}
             /\ call' = [call EXCEPT ![k].at = "store", ![k].wake = w]
             /\ Succeed(k)
    <2>1. /\ call'[k].on = call[k].on /\ call'[k].wake = w
          /\ \A j \in Calls \ {k} : call'[j] = call[j]
      BY <1>1, <1>4 DEF WatchTypes, CallRecords, Idle
    <2>2. CASE call[k].on = current
      <3>1. Clear(w)'
        BY <1>1, <1>3, <2>1, <2>2 DEF Clear
      <3> QED BY <1>4, <3>1 DEF WatchInv
    <2>3. CASE call[k].on # current
      <3>1. \A v \in pending : Clear(v) => v \in pending' /\ Clear(v)'
        BY <1>1, <1>3, <1>4, <2>1 DEF Clear
      <3>2. AtWork => AtWork'
        BY <1>1, <2>1, <2>3, OthersAtWork
      <3>3. failed => failed'
        BY <1>4, <2>3 DEF Succeed
      <3> QED BY <1>1, <3>1, <3>2, <3>3, WatchKept
    <2> QED BY <2>2, <2>3
  <1>5. CASE pending' \in {pending, pending \cup {w}} /\ Return(k) /\ Fail(k)
    <2>1. CASE call[k].on = current
      BY <1>5, <2>1 DEF Fail, WatchInv
    <2>2. CASE call[k].on # current
      <3>1. /\ call'[k].on = 0 /\ call'[k].wake = NoWake
            /\ \A j \in Calls \ {k} : call'[j] = call[j]
        BY <1>5, Returned
      <3>2. \A v \in pending : Clear(v) => v \in pending' /\ Clear(v)'
        BY <1>1, <1>5, <3>1, WakesAreNumbers DEF Clear, WatchTypes
      <3>3. AtWork => AtWork'
        BY <1>1, <2>2, <3>1, OthersAtWork
      <3>4. failed => failed'
        BY <1>5 DEF Fail
      <3> QED BY <1>1, <3>2, <3>3, <3>4, WatchKept
    <2> QED BY <2>1, <2>2
  <1> QED BY <1>2, <1>4, <1>5

LEMMA WatchStore ==
    ASSUME WatchTypes, WatchInv, NEW k \in Calls, Store(k)
    PROVE  WatchInv'
  <1>1. /\ call[k].at = "store" /\ call[k].on \in 1..MaxRecords
        /\ UNCHANGED <<current, pending, fired, failed>>
        /\ rule' = [rule EXCEPT ![call[k].on].binding = call[k].wake]
    BY CallFacts DEF Store
  <1>2. /\ call'[k].wake = NoWake /\ \A j \in Calls \ {k} : call'[j] = call[j]
    BY Returned DEF Store
  <1>3. /\ \A r \in 1..MaxRecords : rule'[r].status = rule[r].status
        /\ \A r \in 1..MaxRecords : rule'[r].binding =
                IF r = call[k].on THEN call[k].wake ELSE rule[r].binding
    BY <1>1 DEF WatchTypes, RuleRecords
  <1>4. \A w \in pending : Clear(w) => Clear(w)'
    BY <1>1, <1>2, <1>3, WakesAreNumbers DEF Clear, WatchTypes
  <1>5. Status' = Status
    BY <1>1, <1>3 DEF Status, WatchTypes
  <1>6. AtWork => AtWork'
    BY <1>1, <1>2, OthersAtWork
  <1> QED BY <1>1, <1>4, <1>5, <1>6, WatchKept

LEMMA WatchNext == WatchTypes /\ WatchInv /\ [Next]_vars => WatchInv'
  <1> SUFFICES ASSUME WatchTypes, WatchInv, [Next]_vars PROVE WatchInv'
    OBVIOUS
  <1>1. CASE UNCHANGED vars
    BY <1>1 DEF vars, WatchInv, Clear, AtWork, Status
  <1>2. CASE Pause
    <2>1. Status' = "paused"
      <3>1. current \in 1..MaxRecords
        BY <1>2, UsableIsRegistered DEF Pause
      <3> QED BY <1>2, <3>1 DEF Pause, Status, WatchTypes
    <2> QED BY <2>1 DEF WatchInv
  <1>3. ASSUME NEW w \in Wakes, Fire(w) PROVE WatchInv'
    <2>1. fired' > 0
      BY <1>3 DEF Fire, WatchTypes
    <2> QED BY <2>1 DEF WatchInv
  <1> QED BY <1>1, <1>2, <1>3, WatchOperator, WatchEvaluate, WatchCondition, WatchCancelWakeUp,
             WatchRequestWakeUp, WatchStore DEF Next, Step

\* The inductive invariant.
THEOREM WatchAlways == Spec => [](WatchTypes /\ WatchInv)
  <1>1. Init => WatchInv
    BY DEF Init, WatchInv, Status
  <1> QED BY <1>1, WatchTypesInit, WatchTypesNext, WatchNext, PTL DEF Spec

\* An active rule never goes dead unless one of its calls threw, whatever calls
\* overlap.
THEOREM ActiveIsAlwaysWatched == Spec => []ActiveIsWatched
  <1>1. WatchTypes => TypeOK
    BY DEF WatchTypes, TypeOK, RuleRecords, CallRecords, Statuses
  <1>2. WatchInv /\ TypeOK => ActiveIsWatched
    BY DEF WatchInv, AtWork, ActiveIsWatched
  <1> QED BY <1>1, <1>2, WatchAlways, PTL

-----------------------------------------------------------------------------
(* The notify channel *)

Prefs == [channel: BotChannels \cup {NoChannel}, confirmed: BOOLEAN, unconfirmedPosts: Nat]

Places == {"new", "discover", "increment", "write", "confirm", "done"}

PostRecords ==
    [at: Places, channel: BotChannels \cup {NoChannel}, read: Prefs, found: BOOLEAN, early: BOOLEAN]

NotifyTypes ==
    /\ pref \in Prefs
    /\ post \in [Posts -> PostRecords]
    /\ replies \in 0..MaxReplies
    /\ said \in BotChannels \cup {NoChannel}
    /\ prompted \in [BotChannels -> SUBSET Posts]
    /\ overruled \in BOOLEAN

\* The posts that asked for some channel to be confirmed.
Asked == UNION {prompted[c] : c \in BotChannels}

Unsaid == said = NoChannel
UserDecided == said # NoChannel /\ ~overruled

\* A count is not ahead of the posts that asked, and unless a user has spoken a
\* confirmation means that enough of them did.
CountInv(v) ==
    /\ v.unconfirmedPosts <= Cardinality(Asked)
    /\ Unsaid /\ v.confirmed => Cardinality(Asked) >= AutoConfirmAfter

PostInv(p) ==
    /\ CountInv(post[p].read)
    /\ post[p].at \in {"increment", "write", "confirm"} => post[p].channel \in BotChannels
    /\ post[p].at \in {"new", "discover", "increment", "write"} => p \notin Asked
    /\ post[p].at = "confirm" => Cardinality(Asked) >= AutoConfirmAfter
    /\ UserDecided => post[p].at \in {"new", "done"} \/ post[p].early

NotifyInv ==
    /\ IsFiniteSet(Asked)
    /\ CountInv(pref)
    /\ UserDecided => pref.confirmed /\ pref.channel = said
    /\ \A p \in Posts : PostInv(p)

LEMMA AskedCount == ASSUME NotifyInv PROVE Cardinality(Asked) \in Nat
  BY FS_CardinalityType DEF NotifyInv

LEMMA NotifyInitOK == NotifyInit => NotifyTypes /\ NotifyInv
  <1> SUFFICES ASSUME NotifyInit PROVE NotifyTypes /\ NotifyInv
    OBVIOUS
  <1> USE NotifyConstants
  <1>1. NotifyTypes
    <2>1. NoPref \in Prefs
      BY DEF NoPref, Prefs
    <2>2. NoPost \in PostRecords
      BY <2>1 DEF NoPost, PostRecords, Places
    <2>3. replies \in 0..MaxReplies
      BY DEF NotifyInit
    <2>4. post \in [Posts -> PostRecords] /\ prompted \in [BotChannels -> SUBSET Posts]
      BY <2>2 DEF NotifyInit
    <2> QED BY <2>1, <2>3, <2>4 DEF NotifyInit, NotifyTypes
  <1>2. Asked = {}
    BY DEF NotifyInit, Asked
  <1>3. IsFiniteSet(Asked) /\ Cardinality(Asked) = 0
    BY <1>2, FS_EmptySet
  <1>4. CountInv(NoPref) /\ ~UserDecided
    BY <1>3 DEF NotifyInit, CountInv, NoPref, UserDecided
  <1>5. \A p \in Posts : PostInv(p)
    BY <1>2, <1>3, <1>4 DEF NotifyInit, PostInv, NoPost
  <1> QED BY <1>1, <1>3, <1>4, <1>5 DEF NotifyInit, NotifyInv

-----------------------------------------------------------------------------
(* One step *)

LEMMA ReadsKeep ==
    ASSUME NotifyTypes, NotifyInv, NEW p \in Posts, ReadPref(p) \/ DiscoveryFails(p) \/ ReadCount(p)
    PROVE  NotifyTypes' /\ NotifyInv'
  <1> USE NotifyConstants
  <1>1. UNCHANGED <<pref, overruled, replies, said, prompted>>
    BY DEF ReadPref, DiscoveryFails, ReadCount, OnlyPost
  <1>2. Asked' = Asked /\ (UserDecided' <=> UserDecided) /\ (Unsaid' <=> Unsaid)
    BY <1>1 DEF Asked, UserDecided, Unsaid
  <1>3. \A v : CountInv(v)' <=> CountInv(v)
    BY <1>2 DEF CountInv
  <1>4. Cardinality(Asked) \in Nat
    BY AskedCount
  <1>5. post' \in [Posts -> PostRecords]
    <2>1. CASE ReadPref(p)
      <3>1. /\ \A at \in Places, c \in BotChannels \cup {NoChannel} :
                  [post[p] EXCEPT !.channel = c, !.at = at] \in PostRecords
            /\ pref.channel \in BotChannels \cup {NoChannel}
        BY DEF NotifyTypes, PostRecords, Prefs
      <3>2. PICK at \in Places :
              post' = [post EXCEPT ![p] = [post[p] EXCEPT !.channel = pref.channel, !.at = at]]
        BY <2>1 DEF ReadPref, NotifyTypes, Places
      <3>3. [post[p] EXCEPT !.channel = pref.channel, !.at = at] \in PostRecords
        BY <3>1
      <3> QED BY <3>2, <3>3 DEF NotifyTypes
    <2>2. CASE DiscoveryFails(p)
      BY <2>2 DEF DiscoveryFails, Move, NotifyTypes, PostRecords, Places
    <2>3. CASE ReadCount(p)
      <3>1. [post[p] EXCEPT !.at = "write", !.read = pref] \in PostRecords
        BY DEF NotifyTypes, PostRecords, Places
      <3> QED BY <2>3, <3>1 DEF ReadCount, NotifyTypes
    <2> QED BY <2>1, <2>2, <2>3
  <1>6. \A q \in Posts \ {p} : post'[q] = post[q]
    BY DEF ReadPref, DiscoveryFails, ReadCount, Move, NotifyTypes
  <1>7. CountInv(post'[p].read)
    <2>1. post'[p].read \in {post[p].read, pref}
      BY DEF ReadPref, DiscoveryFails, ReadCount, Move, NotifyTypes, PostRecords
    <2> QED BY <2>1 DEF NotifyInv, PostInv
  <1>8. PostInv(p)'
    <2>1. CASE ReadPref(p)
      <3>1. /\ post[p].at = "new"
            /\ post'[p].channel = pref.channel
            /\ post'[p].at = IF pref.channel = NoChannel THEN "discover"
                   ELSE IF pref.confirmed THEN "done"
                   ELSE IF pref.unconfirmedPosts < AutoConfirmAfter THEN "increment"
                   ELSE "confirm"
        BY <2>1 DEF ReadPref, At, NotifyTypes, PostRecords
      <3>2. pref.channel # NoChannel => pref.channel \in BotChannels
        BY DEF NotifyTypes, Prefs
      <3>3. pref.unconfirmedPosts \in Nat /\ pref.unconfirmedPosts <= Cardinality(Asked)
        BY DEF NotifyTypes, Prefs, NotifyInv, CountInv
      <3>4. UserDecided => pref.confirmed /\ pref.channel # NoChannel
        BY DEF NotifyInv, UserDecided
      <3>5. p \notin Asked
        BY <3>1 DEF NotifyInv, PostInv
      <3> QED BY <1>2, <1>3, <1>4, <1>7, <3>1, <3>2, <3>3, <3>4, <3>5 DEF PostInv
    <2>2. CASE DiscoveryFails(p)
      BY <1>2, <1>3, <1>7, <2>2 DEF DiscoveryFails, Move, NotifyTypes, PostInv, PostRecords
    <2>3. CASE ReadCount(p)
      <3>1. /\ post[p].at = "increment" /\ post'[p].at = "write"
            /\ post'[p].channel = post[p].channel /\ post'[p].early = post[p].early
        BY <2>3 DEF ReadCount, At, NotifyTypes, PostRecords
      <3> QED BY <1>2, <1>3, <1>7, <3>1 DEF NotifyInv, PostInv
    <2> QED BY <2>1, <2>2, <2>3
  <1>9. \A q \in Posts : PostInv(q)'
    BY <1>2, <1>3, <1>6, <1>8 DEF NotifyInv, PostInv
  <1>10. CountInv(pref)'
    BY <1>1, <1>3 DEF NotifyInv, CountInv
  <1> QED BY <1>1, <1>2, <1>5, <1>9, <1>10 DEF NotifyTypes, NotifyInv

\* What a resolution writes: a preference whose count is not ahead, by a post
\* that is under way.
LEMMA WritesKeep ==
    ASSUME NotifyTypes, NotifyInv, NEW p \in Posts, Discover(p) \/ AutoConfirm(p)
    PROVE  NotifyTypes' /\ NotifyInv'
  <1> USE NotifyConstants
  <1>1. UNCHANGED <<replies, said, prompted>> /\ overruled' = (overruled \/ post[p].early)
    BY DEF Discover, AutoConfirm, Wrote
  <1>2. Asked' = Asked /\ (Unsaid' <=> Unsaid)
    BY <1>1 DEF Asked, Unsaid
  <1>3. \A v : CountInv(v)' <=> CountInv(v)
    BY <1>2 DEF CountInv
  <1>4. Cardinality(Asked) \in Nat
    BY AskedCount
  <1>5. post[p].at \in {"discover", "confirm"}
    BY DEF Discover, AutoConfirm, At
  <1>6. overruled' \in BOOLEAN /\ ~UserDecided'
    BY <1>1, <1>5 DEF NotifyInv, PostInv, UserDecided, NotifyTypes, PostRecords
  <1>7. /\ pref' \in Prefs /\ pref'.unconfirmedPosts = 0
        /\ pref'.confirmed => AutoConfirm(p)
        /\ post' \in [Posts -> PostRecords]
        /\ \A q \in Posts \ {p} : post'[q] = post[q]
        /\ post'[p].read = post[p].read
        /\ \/ post'[p].at = "increment" /\ post'[p].channel \in BotChannels /\ Discover(p)
           \/ post'[p].at = "done"
    <2>1. CASE Discover(p)
      <3>1. PICK c \in BotChannels :
              /\ SetPref(c, FALSE)
              /\ post' = [post EXCEPT ![p] =
                    [@ EXCEPT !.channel = c, !.found = TRUE, !.at = "increment"]]
        BY <2>1 DEF Discover
      <3> QED BY <2>1, <3>1 DEF SetPref, NotifyTypes, PostRecords, Places, Prefs
    <2>2. CASE AutoConfirm(p)
      <3>1. post[p].channel \in BotChannels
        BY <2>2 DEF AutoConfirm, At, NotifyInv, PostInv
      <3> QED BY <2>2, <3>1 DEF AutoConfirm, SetPref, Move, NotifyTypes, PostRecords, Places, Prefs
    <2> QED BY <2>1, <2>2
  <1>8. AutoConfirm(p) => Cardinality(Asked) >= AutoConfirmAfter
    BY DEF AutoConfirm, At, NotifyInv, PostInv
  <1>9. CountInv(pref)'
    <2>1. CountInv(pref')
      BY <1>4, <1>7, <1>8 DEF CountInv
    <2> QED BY <1>3, <2>1 DEF CountInv
  <1>10. Discover(p) => p \notin Asked
    BY DEF Discover, At, NotifyInv, PostInv
  <1>11. \A q \in Posts : PostInv(q)'
    BY <1>2, <1>3, <1>6, <1>7, <1>10 DEF NotifyInv, PostInv
  <1> QED BY <1>1, <1>2, <1>6, <1>7, <1>9, <1>11 DEF NotifyTypes, NotifyInv

LEMMA WriteCountKeeps ==
    ASSUME NotifyTypes, NotifyInv, NEW p \in Posts, WriteCount(p)
    PROVE  NotifyTypes' /\ NotifyInv'
  <1> USE NotifyConstants
  <1> DEFINE count == post[p].read.unconfirmedPosts + 1
             N == Cardinality(Asked)
  <1>1. N \in Nat
    BY AskedCount
  <1>2. /\ post[p].at = "write" /\ post[p].channel \in BotChannels /\ p \notin Asked
        /\ post[p].read \in Prefs /\ CountInv(post[p].read)
    BY DEF WriteCount, At, NotifyInv, PostInv, NotifyTypes, PostRecords
  <1>3. prompted' = [prompted EXCEPT ![post[p].channel] = @ \cup {p}]
    BY DEF WriteCount
  <1>4. Asked' = Asked \cup {p} /\ prompted' \in [BotChannels -> SUBSET Posts]
    BY <1>2, <1>3 DEF Asked, NotifyTypes
  <1>5. IsFiniteSet(Asked)' /\ Cardinality(Asked)' = N + 1
    BY <1>2, <1>4, FS_AddElement DEF NotifyInv
  <1>6. count \in Nat /\ count <= N + 1
    BY <1>1, <1>2 DEF CountInv, Prefs
  <1>7. /\ pref' \in Prefs /\ pref'.unconfirmedPosts = count
        /\ pref'.confirmed = post[p].read.confirmed
    BY <1>2, <1>6 DEF WriteCount, Prefs
  <1>8. /\ UNCHANGED <<replies, said>>
        /\ overruled' = (overruled \/ post[p].early)
    BY DEF WriteCount, Wrote
  <1>9. overruled' \in BOOLEAN /\ ~UserDecided' /\ (Unsaid' <=> Unsaid)
    BY <1>2, <1>8 DEF NotifyInv, PostInv, UserDecided, Unsaid, NotifyTypes, PostRecords
  <1>10. /\ post' \in [Posts -> PostRecords]
         /\ \A q \in Posts \ {p} : post'[q] = post[q]
         /\ post'[p].read = post[p].read /\ post'[p].channel = post[p].channel
         /\ post'[p].at \in {"confirm", "done"}
         /\ post'[p].at = "confirm" => count >= AutoConfirmAfter
    BY DEF WriteCount, Move, Enough, NotifyTypes, PostRecords, Places
  <1>11. \A v \in Prefs : CountInv(v) => CountInv(v)'
    BY <1>1, <1>5, <1>9 DEF CountInv, Prefs
  <1>12. CountInv(pref)'
    BY <1>1, <1>2, <1>5, <1>6, <1>7, <1>9 DEF CountInv
  <1>13. PostInv(p)'
    BY <1>1, <1>2, <1>5, <1>6, <1>9, <1>10, <1>11 DEF PostInv
  <1>14. ASSUME NEW q \in Posts \ {p}
         PROVE  PostInv(q)'
    <2>1. PostInv(q) /\ post[q].read \in Prefs /\ post'[q] = post[q]
      BY <1>10 DEF NotifyInv, NotifyTypes, PostRecords
    <2> QED BY <1>1, <1>4, <1>5, <1>9, <1>11, <2>1 DEF PostInv
  <1> QED BY <1>4, <1>5, <1>7, <1>8, <1>9, <1>10, <1>12, <1>13, <1>14 DEF NotifyTypes, NotifyInv

LEMMA ReplyKeeps ==
    ASSUME NotifyTypes, NotifyInv, Reply
    PROVE  NotifyTypes' /\ NotifyInv'
  <1> USE NotifyConstants
  <1>1. PICK c \in BotChannels : SetPref(c, TRUE) /\ said' = c
    BY DEF Reply
  <1>2. /\ Asked' = Asked /\ ~Unsaid' /\ replies' \in 0..MaxReplies
        /\ prompted' \in [BotChannels -> SUBSET Posts] /\ overruled' = FALSE
    BY <1>1 DEF Reply, Asked, Unsaid, NoChannel, NotifyTypes
  <1>3. /\ pref' \in Prefs /\ pref'.unconfirmedPosts = 0
        /\ pref'.confirmed /\ pref'.channel = said'
    BY <1>1 DEF SetPref, Prefs
  <1>4. Cardinality(Asked) \in Nat
    BY AskedCount
  <1>5. /\ post' \in [Posts -> PostRecords]
        /\ \A p \in Posts : /\ post'[p].at = post[p].at
                            /\ post'[p].channel = post[p].channel
                            /\ post'[p].read = post[p].read
                            /\ post'[p].early = (post[p].at # "new")
    BY DEF Reply, At, NotifyTypes, PostRecords
  <1>6. CountInv(pref)'
    BY <1>2, <1>3, <1>4 DEF CountInv
  <1>7. \A v : CountInv(v) => CountInv(v)'
    BY <1>2 DEF CountInv
  <1>8. \A p \in Posts : PostInv(p)'
    BY <1>2, <1>5, <1>7 DEF NotifyInv, PostInv
  <1> QED BY <1>1, <1>2, <1>3, <1>5, <1>6, <1>8 DEF NotifyTypes, NotifyInv

LEMMA NotifyStep == NotifyTypes /\ NotifyInv /\ [NotifyNext]_notifyVars => NotifyTypes' /\ NotifyInv'
  <1> SUFFICES ASSUME NotifyTypes, NotifyInv, [NotifyNext]_notifyVars
               PROVE  NotifyTypes' /\ NotifyInv'
    OBVIOUS
  <1>1. CASE UNCHANGED notifyVars
    BY <1>1 DEF notifyVars, NotifyTypes, NotifyInv, PostInv, CountInv, Asked, UserDecided, Unsaid
  <1>2. CASE NotifyNext
    BY <1>2, ReadsKeep, WritesKeep, WriteCountKeeps, ReplyKeeps DEF NotifyNext
  <1> QED BY <1>1, <1>2

THEOREM NotifyAlways == NotifySpec => [](NotifyTypes /\ NotifyInv)
  BY NotifyInitOK, NotifyStep, PTL DEF NotifySpec

\* Users settle the channel: it is not confirmed for them before enough posts
\* asked, and what they said stays but for posts that were under way.
THEOREM UserAlwaysSettlesChannel == NotifySpec => []UserSettlesChannel
  <1>1. NotifyTypes => NotifyTypeOK
    BY DEF NotifyTypes, NotifyTypeOK, Prefs, PostRecords, Places
  <1>2. NotifyTypes /\ NotifyInv /\ NotifyTypeOK => UserSettlesChannel
    BY DEF NotifyInv, CountInv, Asked, Unsaid, UserDecided, UserSettlesChannel
  <1> QED BY <1>1, <1>2, NotifyAlways, PTL

-----------------------------------------------------------------------------
(* Follow-ups *)

Counts == [count : Nat, last : 0..NeverSent]
EvalRecords ==
    [at : {"idle", "evidence", "walking", "condition"}, active : BOOLEAN,
     now : 0..LastInstant, seen : Nat, on : Rules \cup {"none"}, state : Counts]

\* An evaluation that awaits a condition has found that one more reminder is due.
Permits(v) ==
    v.at = "condition" =>
        /\ v.on \in Rules
        /\ v.state.count < MaxReminders
        /\ v.state.last # NeverSent => v.now - v.state.last >= ReminderCooldown

Walks ==
    /\ rules \in Seq(Rules) /\ IsInjective(rules)
    /\ eval \in [Evaluations -> EvalRecords]
    /\ \A e \in Evaluations : eval[e].seen <= Len(rules) /\ Permits(eval[e])

\* The state of a rule tells how many reminders went out and when the last one did.
Tallies(s, list) ==
    /\ s.count = Len(list)
    /\ s.last = IF list = <<>> THEN NeverSent ELSE list[Len(list)]
    /\ Len(list) <= MaxReminders
    /\ \A i \in 1..Len(list) - 1 : list[i + 1] - list[i] >= ReminderCooldown

Counting ==
    /\ reminders \in [Rules -> Counts]
    /\ sent \in [Rules -> Seq(0..LastInstant)]
    /\ crossed \subseteq Rules
    /\ \A r \in Rules \ crossed : Tallies(reminders[r], sent[r])

FollowInv == Walks /\ Counting /\ time \in 0..LastInstant

LEMMA FollowFacts ==
    /\ MaxReminders \in Nat /\ ReminderCooldown \in Nat /\ LastInstant \in Nat
    /\ NeverSent \in Nat /\ NeverSent = LastInstant + 1
    /\ Unsent \in Counts /\ Unsent.count = 0 /\ Unsent.last = NeverSent
    /\ NoEval \in EvalRecords /\ NoEval.at = "idle" /\ NoEval.seen = 0
  <1>1. /\ MaxReminders \in Nat /\ ReminderCooldown \in Nat /\ LastInstant \in Nat
        /\ NeverSent \in Nat /\ NeverSent = LastInstant + 1
    BY FollowUpConstants DEF NeverSent
  <1>2. Unsent \in Counts /\ Unsent.count = 0 /\ Unsent.last = NeverSent
    BY <1>1 DEF Unsent, Counts
  <1>3. NoEval \in EvalRecords /\ NoEval.at = "idle" /\ NoEval.seen = 0
    BY <1>1, <1>2 DEF NoEval, EvalRecords
  <1> QED BY <1>1, <1>2, <1>3

LEMMA NoneTallied == Tallies(Unsent, <<>>)
  BY FollowFacts DEF Tallies

\* One more reminder, when the last one is long enough ago.
LEMMA OneMoreTallied ==
    ASSUME NEW s \in Counts, NEW list \in Seq(0..LastInstant), Tallies(s, list),
           NEW now \in 0..LastInstant, s.count < MaxReminders,
           s.last # NeverSent => now - s.last >= ReminderCooldown
    PROVE  Counted(s, now) \in Counts /\ Tallies(Counted(s, now), Append(list, now))
  <1>1. /\ MaxReminders \in Nat /\ ReminderCooldown \in Nat /\ LastInstant \in Nat
        /\ NeverSent \in Nat /\ NeverSent = LastInstant + 1
    BY FollowFacts
  <1>2. PICK new : new = Append(list, now)
    OBVIOUS
  <1>3. PICK n \in Nat : n = Len(list)
    BY LenProperties
  <1>4. /\ new \in Seq(0..LastInstant) /\ Len(new) = n + 1 /\ new[n + 1] = now /\ new # <<>>
        /\ \A i \in 1..n : new[i] = list[i]
    BY <1>2, <1>3, AppendProperties
  <1>5. \A i \in 1..n : list[i] \in 0..LastInstant
    BY <1>3, ElementOfSeq
  <1>6. Counted(s, now) = [count |-> s.count + 1, last |-> now]
    BY DEF Counted
  <1>7. Counted(s, now) \in Counts
    BY <1>1, <1>6 DEF Counts
  <1>8. ASSUME NEW i \in 1..n PROVE new[i + 1] - new[i] >= ReminderCooldown
    <2>1. CASE i = n
      <3>1. list # <<>> /\ s.last = list[n] /\ s.last # NeverSent
        BY <1>1, <1>3, <1>5, <2>1 DEF Tallies
      <3> QED BY <1>4, <2>1, <3>1
    <2>2. CASE i # n
      <3>1. i \in 1..n - 1 /\ i + 1 \in 1..n
        BY <2>2
      <3>2. list[i + 1] - list[i] >= ReminderCooldown
        BY <1>3, <3>1 DEF Tallies
      <3> QED BY <1>4, <3>1, <3>2
    <2> QED BY <2>1, <2>2
  <1>9. Tallies(Counted(s, now), new)
    BY <1>1, <1>3, <1>4, <1>6, <1>8 DEF Tallies, Counts
  <1> QED BY <1>2, <1>7, <1>9

LEMMA FollowStart == FollowInit => FollowInv
  <1> SUFFICES ASSUME FollowInit PROVE FollowInv
    OBVIOUS
  <1>1. rules \in Seq(Rules) /\ IsInjective(rules) /\ Len(rules) = 0
    BY DEF FollowInit, IsInjective
  <1>2. Walks
    BY <1>1, FollowFacts DEF FollowInit, Walks, Permits
  <1>3. Counting
    BY FollowFacts, NoneTallied DEF FollowInit, Counting
  <1>4. time \in 0..LastInstant
    BY FollowFacts DEF FollowInit
  <1> QED BY <1>2, <1>3, <1>4 DEF FollowInv

\* An evaluation moves on, and nothing else happens.
LEMMA EvaluationMoves ==
    ASSUME FollowInv, NEW e \in Evaluations, NEW v \in EvalRecords,
           eval' = [eval EXCEPT ![e] = v], v.seen <= Len(rules), Permits(v),
           UNCHANGED <<rules, reminders, time, sent, crossed>>
    PROVE  FollowInv'
  <1>1. Walks'
    BY DEF FollowInv, Walks
  <1>2. Counting'
    BY DEF FollowInv, Counting
  <1> QED BY <1>1, <1>2 DEF FollowInv

LEMMA EvaluationFits ==
    ASSUME FollowInv, NEW e \in Evaluations
    PROVE  /\ eval[e] \in EvalRecords /\ Permits(eval[e])
           /\ eval[e].seen \in Nat /\ eval[e].seen <= Len(rules) /\ Len(rules) \in Nat
  BY LenProperties DEF FollowInv, Walks, EvalRecords

LEMMA BeginsWell ==
    ASSUME FollowInv, NEW e \in Evaluations, BeginEvaluation(e)
    PROVE  FollowInv'
  <1>1. PICK active \in BOOLEAN :
            eval' = [eval EXCEPT ![e] = [NoEval EXCEPT !.at = "evidence", !.active = active]]
    BY DEF BeginEvaluation
  <1>2. PICK v : v = [NoEval EXCEPT !.at = "evidence", !.active = active]
    OBVIOUS
  <1>3. v = [at |-> "evidence", active |-> active, now |-> 0, seen |-> 0, on |-> "none",
             state |-> Unsent]
    BY <1>2 DEF NoEval
  <1>4. v \in EvalRecords /\ v.seen <= Len(rules) /\ Permits(v)
    BY <1>3, FollowFacts, EvaluationFits DEF EvalRecords, Permits
  <1> QED BY <1>1, <1>2, <1>4, EvaluationMoves DEF BeginEvaluation

LEMMA EvidenceFits ==
    ASSUME FollowInv, NEW e \in Evaluations, EvidenceArrives(e)
    PROVE  FollowInv'
  <1>1. PICK u \in EvalRecords : u = eval[e]
    BY EvaluationFits
  <1>2. PICK v : v = [u EXCEPT !.at = "walking", !.now = time]
    OBVIOUS
  <1>3. v = [at |-> "walking", active |-> u.active, now |-> time, seen |-> u.seen, on |-> u.on,
             state |-> u.state]
    BY <1>2 DEF EvalRecords
  <1>4. v \in EvalRecords /\ v.seen <= Len(rules) /\ Permits(v)
    BY <1>1, <1>3, EvaluationFits DEF FollowInv, EvalRecords, Permits
  <1>5. eval' = [eval EXCEPT ![e] = v] /\ UNCHANGED <<rules, reminders, time, sent, crossed>>
    BY <1>1, <1>2 DEF EvidenceArrives, FollowInv, Walks
  <1> QED BY <1>4, <1>5, EvaluationMoves

LEMMA VisitsWell ==
    ASSUME FollowInv, NEW e \in Evaluations, VisitRule(e)
    PROVE  FollowInv'
  <1>1. PICK u \in EvalRecords : u = eval[e]
    BY EvaluationFits
  <1>2. u.at = "walking" /\ u.seen \in Nat /\ u.seen < Len(rules) /\ Len(rules) \in Nat
    BY <1>1, EvaluationFits DEF VisitRule, Ended
  <1>3. PICK r \in Rules : r = Here(e)
    BY <1>1, <1>2, ElementOfSeq DEF FollowInv, Walks, Here
  <1>4. PICK s \in Counts : s = reminders[r]
    BY DEF FollowInv, Counting
  <1>5. reminders[Here(e)] = s /\ eval[e] = u /\ e \in DOMAIN eval
    BY <1>1, <1>3, <1>4 DEF FollowInv, Walks
  <1>6. UNCHANGED <<rules, reminders, time, sent, crossed>>
    BY DEF VisitRule
  <1>7. CASE /\ ReminderSuppressed(e, s)
             /\ eval' = [eval EXCEPT ![e].seen = @ + 1]
    <2>1. PICK v : v = [u EXCEPT !.seen = @ + 1]
      OBVIOUS
    <2>2. v = [at |-> u.at, active |-> u.active, now |-> u.now, seen |-> u.seen + 1, on |-> u.on,
               state |-> u.state]
      BY <2>1 DEF EvalRecords
    <2>3. v \in EvalRecords /\ v.seen <= Len(rules) /\ Permits(v)
      BY <1>2, <2>2 DEF EvalRecords, Permits
    <2>4. eval' = [eval EXCEPT ![e] = v]
      BY <1>5, <1>7, <2>1
    <2> QED BY <1>6, <2>3, <2>4, EvaluationMoves
  <1>8. CASE /\ ~ReminderSuppressed(e, s)
             /\ eval' = [eval EXCEPT ![e].at = "condition", ![e].seen = @ + 1,
                                     ![e].on = r, ![e].state = s]
    <2>1. PICK v : v = [u EXCEPT !.at = "condition", !.seen = @ + 1, !.on = r, !.state = s]
      OBVIOUS
    <2>2. v = [at |-> "condition", active |-> u.active, now |-> u.now, seen |-> u.seen + 1,
               on |-> r, state |-> s]
      BY <2>1 DEF EvalRecords
    <2>3. /\ s.count < MaxReminders
          /\ s.last # NeverSent => u.now - s.last >= ReminderCooldown
      <3>1. s.count \in Nat /\ s.last \in Nat /\ u.now \in Nat
        BY FollowFacts DEF Counts, EvalRecords
      <3>2. MaxReminders \in Nat /\ ReminderCooldown \in Nat
        BY FollowFacts
      <3> QED BY <1>1, <1>8, <3>1, <3>2 DEF ReminderSuppressed
    <2>4. v \in EvalRecords /\ v.seen <= Len(rules) /\ Permits(v)
      BY <1>2, <2>2, <2>3 DEF EvalRecords, Permits
    <2>5. eval' = [eval EXCEPT ![e] = v]
      BY <1>5, <1>8, <2>1
    <2> QED BY <1>6, <2>4, <2>5, EvaluationMoves
  <1> QED BY <1>3, <1>4, <1>7, <1>8 DEF VisitRule

\* An evaluation that no longer awaits a condition.
LEMMA WalksOn ==
    ASSUME NEW u \in EvalRecords
    PROVE  LET v == [u EXCEPT !.at = "walking", !.on = "none", !.state = Unsent]
           IN  v \in EvalRecords /\ v.seen = u.seen /\ Permits(v)
  <1>1. PICK v : v = [u EXCEPT !.at = "walking", !.on = "none", !.state = Unsent]
    OBVIOUS
  <1>2. v = [at |-> "walking", active |-> u.active, now |-> u.now, seen |-> u.seen, on |-> "none",
             state |-> Unsent]
    BY <1>1 DEF EvalRecords
  <1>3. v \in EvalRecords /\ v.seen = u.seen /\ Permits(v)
    BY <1>2, FollowFacts DEF EvalRecords, Permits
  <1> QED BY <1>1, <1>3

LEMMA FailsWell ==
    ASSUME FollowInv, NEW e \in Evaluations, ConditionFails(e)
    PROVE  FollowInv'
  <1>1. PICK u \in EvalRecords : u = eval[e]
    BY EvaluationFits
  <1>2. PICK v : v = [u EXCEPT !.at = "walking", !.on = "none", !.state = Unsent]
    OBVIOUS
  <1>3. v \in EvalRecords /\ v.seen <= Len(rules) /\ Permits(v)
    BY <1>1, <1>2, WalksOn, EvaluationFits
  <1>4. eval' = [eval EXCEPT ![e] = v] /\ UNCHANGED <<rules, reminders, time, sent, crossed>>
    BY <1>1, <1>2 DEF ConditionFails, FollowInv, Walks
  <1> QED BY <1>3, <1>4, EvaluationMoves

\* A rule's state is written from what was read before its condition was awaited.
LEMMA FiresWell ==
    ASSUME FollowInv, NEW e \in Evaluations, FireFollowUp(e)
    PROVE  FollowInv'
  <1>1. PICK u \in EvalRecords : u = eval[e]
    BY EvaluationFits
  <1>2. PICK r, v : /\ r = u.on
                    /\ v = [u EXCEPT !.at = "walking", !.on = "none", !.state = Unsent]
    OBVIOUS
  <1>3. v \in EvalRecords /\ v.seen <= Len(rules) /\ Permits(v)
    BY <1>1, <1>2, WalksOn, EvaluationFits
  <1>4. /\ eval' = [eval EXCEPT ![e] = v] /\ UNCHANGED <<rules, time>>
        /\ reminders' = [reminders EXCEPT ![r] = Counted(u.state, u.now)]
        /\ sent' = [sent EXCEPT ![r] = Append(@, u.now)]
        /\ crossed' = IF u.state = reminders[r] /\ r \in Range(rules)
                      THEN crossed ELSE crossed \cup {r}
    BY <1>1, <1>2 DEF FireFollowUp, FollowInv, Walks
  <1>5. /\ r \in Rules /\ u.state.count < MaxReminders
        /\ u.state.last # NeverSent => u.now - u.state.last >= ReminderCooldown
    BY <1>1, <1>2, EvaluationFits DEF FireFollowUp, Permits
  <1>6. /\ reminders \in [Rules -> Counts] /\ sent \in [Rules -> Seq(0..LastInstant)]
        /\ crossed \subseteq Rules
        /\ \A t \in Rules \ crossed : Tallies(reminders[t], sent[t])
        /\ u.state \in Counts /\ u.now \in 0..LastInstant
    BY DEF FollowInv, Counting, EvalRecords
  <1>7. Walks'
    BY <1>3, <1>4 DEF FollowInv, Walks
  <1>8. Counted(u.state, u.now) \in Counts
    BY <1>6, FollowFacts DEF Counted, Counts
  <1>9. Append(sent[r], u.now) \in Seq(0..LastInstant)
    BY <1>5, <1>6, AppendProperties
  <1>10. ASSUME NEW t \in Rules \ crossed' PROVE Tallies(reminders'[t], sent'[t])
    <2>1. t \notin crossed
      BY <1>4
    <2>2. CASE t = r
      <3>1. u.state = reminders[r] /\ Tallies(reminders[r], sent[r]) /\ sent[r] \in Seq(0..LastInstant)
        BY <1>4, <1>5, <1>6, <1>10, <2>1, <2>2
      <3>2. Tallies(Counted(u.state, u.now), Append(sent[r], u.now))
        BY <1>5, <1>6, <3>1, OneMoreTallied
      <3> QED BY <1>4, <1>5, <1>6, <2>2, <3>2
    <2>3. CASE t # r
      BY <1>4, <1>6, <2>1, <2>3
    <2> QED BY <2>2, <2>3
  <1>11. Counting'
    BY <1>4, <1>5, <1>6, <1>8, <1>9, <1>10 DEF Counting
  <1> QED BY <1>4, <1>7, <1>11 DEF FollowInv

LEMMA EvaluationEnds ==
    ASSUME FollowInv, NEW e \in Evaluations, EndEvaluation(e) \/ EvaluationThrows(e)
    PROVE  FollowInv'
  <1>1. eval' = [eval EXCEPT ![e] = NoEval] /\ UNCHANGED <<rules, reminders, time, sent, crossed>>
    BY DEF EndEvaluation, EvaluationThrows
  <1>2. NoEval \in EvalRecords /\ NoEval.seen <= Len(rules) /\ Permits(NoEval)
    BY FollowFacts, EvaluationFits DEF Permits
  <1> QED BY <1>1, <1>2, EvaluationMoves

LEMMA RegisterWell ==
    ASSUME FollowInv, NEW r \in Rules, RegisterFollowUpRule(r)
    PROVE  FollowInv'
  <1>1. /\ rules \in Seq(Rules) /\ IsInjective(rules) /\ r \notin ToSet(rules)
        /\ rules' = Append(rules, r) /\ UNCHANGED <<reminders, eval, time, sent, crossed>>
    BY DEF FollowInv, Walks, RegisterFollowUpRule, Range, ToSet
  <1>2. /\ rules' \in Seq(Rules) /\ IsInjective(rules') /\ Len(rules') = Len(rules) + 1
        /\ Len(rules) \in Nat
    BY <1>1, AppendProperties, AppendInjectively, LenProperties
  <1>3. \A e \in Evaluations : eval[e].seen <= Len(rules')
    BY <1>2, EvaluationFits
  <1>4. Walks'
    BY <1>1, <1>2, <1>3 DEF FollowInv, Walks
  <1>5. Counting'
    BY <1>1 DEF FollowInv, Counting
  <1> QED BY <1>1, <1>4, <1>5 DEF FollowInv

LEMMA ForgetsWell ==
    ASSUME FollowInv, NEW rs \in SUBSET Rules, Forget(rs)
    PROVE  Counting'
  <1>1. /\ reminders' = [r \in Rules |-> IF r \in rs THEN Unsent ELSE reminders[r]]
        /\ sent' = [r \in Rules |-> IF r \in rs THEN <<>> ELSE sent[r]]
        /\ crossed' = crossed \ rs
    BY DEF Forget
  <1>2. /\ reminders \in [Rules -> Counts] /\ sent \in [Rules -> Seq(0..LastInstant)]
        /\ crossed \subseteq Rules
        /\ \A r \in Rules \ crossed : Tallies(reminders[r], sent[r])
    BY DEF FollowInv, Counting
  <1>3. Unsent \in Counts /\ <<>> \in Seq(0..LastInstant)
    BY FollowFacts
  <1>4. ASSUME NEW r \in Rules \ crossed' PROVE Tallies(reminders'[r], sent'[r])
    <2>1. CASE r \in rs
      BY <1>1, <2>1, NoneTallied
    <2>2. CASE r \notin rs
      BY <1>1, <1>2, <1>4, <2>2
    <2> QED BY <2>1, <2>2
  <1>5. /\ reminders' \in [Rules -> Counts] /\ sent' \in [Rules -> Seq(0..LastInstant)]
        /\ crossed' \subseteq Rules
    BY <1>1, <1>2, <1>3
  <1> QED BY <1>4, <1>5 DEF Counting

LEMMA RemovesWell ==
    ASSUME FollowInv, NEW r \in Rules, RemoveFollowUpRule(r)
    PROVE  FollowInv'
  <1>1. rules \in Seq(Rules) /\ IsInjective(rules) /\ Len(rules) \in Nat
    BY LenProperties DEF FollowInv, Walks
  <1>2. PICK i \in 1..Len(rules) :
            /\ rules' = RemoveAt(rules, i)
            /\ eval' = [e \in Evaluations |->
                  IF i <= eval[e].seen THEN [eval[e] EXCEPT !.seen = @ - 1] ELSE eval[e]]
    BY <1>1, LenProperties DEF RemoveFollowUpRule
  <1>3. rules' \in Seq(Rules) /\ IsInjective(rules') /\ Len(rules') = Len(rules) - 1
    BY <1>1, <1>2, RemoveAtProperties, RemoveAtInjective
  <1>4. ASSUME NEW e \in Evaluations
        PROVE  eval'[e] \in EvalRecords /\ eval'[e].seen <= Len(rules') /\ Permits(eval'[e])
    <2>1. PICK u \in EvalRecords : u = eval[e]
      BY EvaluationFits
    <2>2. Permits(u) /\ u.seen \in Nat /\ u.seen <= Len(rules)
      BY <2>1, EvaluationFits
    <2>3. CASE i <= u.seen
      <3>1. PICK v : v = [u EXCEPT !.seen = @ - 1]
        OBVIOUS
      <3>2. v = [at |-> u.at, active |-> u.active, now |-> u.now, seen |-> u.seen - 1, on |-> u.on,
                 state |-> u.state]
        BY <3>1 DEF EvalRecords
      <3>3. u.seen - 1 \in Nat /\ u.seen - 1 <= Len(rules')
        BY <1>1, <1>3, <2>2, <2>3
      <3>4. v \in EvalRecords /\ v.seen <= Len(rules') /\ Permits(v)
        BY <2>2, <3>2, <3>3 DEF EvalRecords, Permits
      <3> QED BY <1>2, <2>1, <2>3, <3>1, <3>4
    <2>4. CASE ~(i <= u.seen)
      <3>1. u.seen <= Len(rules')
        BY <1>1, <1>3, <2>2, <2>4
      <3> QED BY <1>2, <2>1, <2>2, <2>4, <3>1
    <2> QED BY <2>3, <2>4
  <1>5. Walks'
    BY <1>2, <1>3, <1>4 DEF Walks
  <1>6. Counting'
    BY ForgetsWell DEF RemoveFollowUpRule
  <1>7. time' \in 0..LastInstant
    BY DEF FollowInv, RemoveFollowUpRule
  <1> QED BY <1>5, <1>6, <1>7 DEF FollowInv

LEMMA FollowStep == FollowInv /\ [FollowNext]_followVars => FollowInv'
  <1> SUFFICES ASSUME FollowInv, [FollowNext]_followVars PROVE FollowInv'
    OBVIOUS
  <1>1. ASSUME NEW r \in Rules, RegisterFollowUpRule(r) PROVE FollowInv'
    BY <1>1, RegisterWell
  <1>2. ASSUME NEW r \in Rules, RemoveFollowUpRule(r) PROVE FollowInv'
    BY <1>2, RemovesWell
  <1>3. CASE ResetReminderState
    <2>1. PICK rs \in SUBSET Rules : Forget(rs)
      BY <1>3 DEF ResetReminderState
    <2>2. Counting'
      BY <2>1, ForgetsWell
    <2>3. Walks' /\ time' \in 0..LastInstant
      BY <1>3 DEF ResetReminderState, FollowInv, Walks
    <2> QED BY <2>2, <2>3 DEF FollowInv
  <1>4. ASSUME NEW e \in Evaluations,
               \/ BeginEvaluation(e) \/ EvidenceArrives(e) \/ VisitRule(e)
               \/ ConditionFails(e) \/ FireFollowUp(e) \/ EndEvaluation(e) \/ EvaluationThrows(e)
        PROVE  FollowInv'
    BY <1>4, BeginsWell, EvidenceFits, VisitsWell, FailsWell, FiresWell, EvaluationEnds
  <1>5. CASE InstantPasses
    <2>1. time' \in 0..LastInstant
      BY <1>5, FollowFacts DEF InstantPasses, FollowInv
    <2>2. Walks' /\ Counting'
      BY <1>5 DEF InstantPasses, FollowInv, Walks, Counting
    <2> QED BY <2>1, <2>2 DEF FollowInv
  <1>6. CASE UNCHANGED followVars
    <2>1. Walks' /\ Counting' /\ time' = time
      BY <1>6 DEF followVars, FollowInv, Walks, Counting
    <2> QED BY <2>1 DEF FollowInv
  <1> QED BY <1>1, <1>2, <1>3, <1>4, <1>5, <1>6 DEF FollowNext

\* The reminders of a rule keep to its policy, however evaluations, registrations,
\* removals and resets interleave, as long as no evaluation writes the rule's state
\* from an outdated copy.
THEOREM RemindersAlwaysKeepPolicy == FollowSpec => []RemindersKeepPolicy
  <1>1. FollowInv => RemindersKeepPolicy
    <2> SUFFICES ASSUME FollowInv PROVE RemindersKeepPolicy
      OBVIOUS
    <2>1. rules \in Seq(Rules)
      BY DEF FollowInv, Walks
    <2>2. Range(rules) \subseteq Rules
      BY <2>1, ElementOfSeq, LenProperties DEF Range
    <2>3. ASSUME NEW e \in Evaluations
          PROVE  /\ eval[e].at \in {"idle", "evidence", "walking", "condition"}
                 /\ eval[e].seen \in 0..Len(rules)
                 /\ eval[e].state \in Counts
      BY EvaluationFits DEF EvalRecords
    <2>4. FollowTypeOK
      BY <2>2, <2>3 DEF FollowTypeOK, FollowInv, Walks, Counting, Counts
    <2> QED BY <2>4 DEF RemindersKeepPolicy, FollowInv, Counting, Tallies
  <1>2. FollowSpec => []FollowInv
    BY FollowStart, FollowStep, PTL DEF FollowSpec
  <1> QED BY <1>1, <1>2, PTL

-----------------------------------------------------------------------------
(* The batch run *)

Reasons == {NoResult, "timeout", "aborted"}
BatchResults == {NoResult, "fulfilled", "rejected", "aborted", "timeout"}
Goings == Hows \cup {NoResult, "running"}

BatchTypes ==
    /\ hour \in 0..LastHour
    /\ expiresAt \in [Signals -> Nat]
    /\ inbox \subseteq Signals /\ IsFiniteSet(inbox)
    /\ drain \in [now : Nat, rest : Seq(Signals), active : Seq(Signals)]
    /\ queue \in Seq(Signals) /\ dropped \in Seq(Signals)
    /\ nextIndex \in 0..Len(queue)
    /\ busy \in [Workers -> Nat]
    /\ abortedBy \in [1..Len(queue) -> Reasons]
    /\ outcome \in [1..Len(queue) -> BatchResults]
    /\ called \in [1..Len(queue) -> Goings]
    /\ batch \in {"idle", "listing", "draining", "running", "done"}
    /\ cancelled \in BOOLEAN
    /\ listed \subseteq Signals

\* The signals the run is about.
Fresh == {s \in listed : ~Expired(s)}

\* A signal in the store, or listed, has come in; what is fresh of the list is found, or
\* has yet to be visited; and in the end it is in the pool or dropped.
DrainInv ==
    /\ \A s \in inbox \cup listed : expiresAt[s] # Unborn
    /\ batch \in {"idle", "listing"} => drain.active = <<>>
    /\ batch \in {"idle", "listing", "draining"} => queue = <<>>
    /\ batch = "draining" =>
          /\ IsInjective(drain.rest) /\ IsInjective(drain.active)
          /\ ToSet(drain.rest) \cap ToSet(drain.active) = {}
          /\ ToSet(drain.rest) \subseteq listed
          /\ Fresh = ToSet(drain.active) \cup {s \in ToSet(drain.rest) : ~Expired(s)}
    /\ batch \in {"running", "done"} =>
          /\ IsInjective(queue \o dropped)
          /\ Fresh = ToSet(queue) \cup ToSet(dropped)

\* What is said of an item at the end of a run.
Settled(i) ==
    /\ outcome[i] # NoResult
    /\ outcome[i] = "fulfilled" => called[i] = "value"
    /\ abortedBy[i] = NoResult =>
          /\ called[i] = "value" => outcome[i] = "fulfilled"
          /\ called[i] = "error" => outcome[i] = "rejected"
    /\ called[i] = NoResult => outcome[i] = "aborted" /\ cancelled
    /\ outcome[i] = "aborted" => cancelled
    /\ abortedBy[i] = "aborted" => outcome[i] # "timeout"
    /\ outcome[i] = "timeout" => abortedBy[i] = "timeout" \/ called[i] = "abortError"

\* An item nobody has taken, or whose function is running: an abort of the batch has
\* reached its signal.
Untaken(i) == outcome[i] = NoResult /\ called[i] = NoResult /\ abortedBy[i] = NoResult
Working(i) ==
    /\ outcome[i] = NoResult /\ called[i] = "running"
    /\ cancelled => abortedBy[i] # NoResult

PoolInv ==
    /\ \A w, v \in Workers : busy[w] = busy[v] /\ busy[w] # 0 => w = v
    /\ \A w \in Workers : busy[w] # 0 => batch = "running" /\ busy[w] \in 1..nextIndex
    /\ \A i \in 1..Len(queue) :
          /\ i \in Underway => Working(i)
          /\ i \notin Underway /\ (i <= nextIndex \/ batch # "running") => Settled(i)
          /\ i > nextIndex /\ batch = "running" => Untaken(i)
          /\ abortedBy[i] = "aborted" => cancelled

CutShort == {i \in DOMAIN queue : abortedBy[i] = "aborted"}
CutInv == Cardinality(CutShort) <= Cardinality(Workers)

BatchRunInv == BatchTypes /\ DrainInv /\ PoolInv /\ CutInv

LEMMA UnbornIsNat == Unborn \in Nat /\ \A h \in 0..LastHour : h + Ttl \in Nat /\ h + Ttl # Unborn
  <1>1. LastHour \in Nat /\ Ttl \in Nat
    BY BatchConstants
  <1> QED BY <1>1 DEF Unborn

LEMMA BatchStart == BatchInit => BatchRunInv
  <1> SUFFICES ASSUME BatchInit PROVE BatchRunInv
    OBVIOUS
  <1>1. /\ inbox = {} /\ expiresAt = [s \in Signals |-> Unborn]
        /\ drain = [now |-> 0, rest |-> <<>>, active |-> <<>>]
        /\ queue = <<>> /\ dropped = <<>> /\ busy = [w \in Workers |-> 0]
        /\ abortedBy = <<>> /\ outcome = <<>> /\ called = <<>>
        /\ batch = "idle" /\ listed = {}
    BY DEF BatchInit
  <1>2. hour = 0 /\ nextIndex = 0 /\ cancelled \in BOOLEAN
    BY DEF BatchInit
  <1>3. /\ <<>> \in Seq(Signals) /\ Len(<<>>) = 0 /\ DOMAIN <<>> = {} /\ 1..0 = {}
    BY EmptySeq
  <1>4. /\ abortedBy \in [1..Len(queue) -> Reasons] /\ outcome \in [1..Len(queue) -> BatchResults]
        /\ called \in [1..Len(queue) -> Goings]
    <2>1. PICK e : e = <<>>
      OBVIOUS
    <2>2. \A T : e \in [{} -> T]
      BY <1>3, <2>1
    <2>3. 1..Len(queue) = {}
      BY <1>1, <1>3
    <2>4. abortedBy = e /\ outcome = e /\ called = e
      BY <1>1, <2>1
    <2> QED BY <2>2, <2>3, <2>4
  <1>5. /\ drain \in [now : Nat, rest : Seq(Signals), active : Seq(Signals)]
        /\ drain.active = <<>>
    BY <1>1, <1>3
  <1>6. BatchTypes
    <2>1. hour \in 0..LastHour
      BY <1>2, BatchConstants
    <2>2. expiresAt \in [Signals -> Nat] /\ busy \in [Workers -> Nat]
      BY <1>1, UnbornIsNat
    <2>3. IsFiniteSet(inbox)
      BY <1>1, FS_EmptySet
    <2>4. queue \in Seq(Signals) /\ dropped \in Seq(Signals) /\ nextIndex \in 0..Len(queue)
      BY <1>1, <1>2, <1>3
    <2> QED BY <1>1, <1>2, <1>4, <1>5, <2>1, <2>2, <2>3, <2>4 DEF BatchTypes
  <1>7. DrainInv
    BY <1>1, <1>5 DEF DrainInv
  <1>8. PoolInv
    <2>1. 1..Len(queue) = {} /\ \A w \in Workers : busy[w] = 0
      BY <1>1, <1>3
    <2> QED BY <2>1 DEF PoolInv
  <1>9. CutInv
    <2>1. CutShort = {}
      BY <1>1, <1>3 DEF CutShort
    <2>2. Cardinality(Workers) \in Nat /\ Cardinality({}) = 0
      BY BatchConstants, FS_CardinalityType, FS_EmptySet
    <2> QED BY <2>1, <2>2 DEF CutInv
  <1> QED BY <1>6, <1>7, <1>8, <1>9 DEF BatchRunInv

-----------------------------------------------------------------------------
(* The batch run: draining *)

\* What has come in keeps its expiry, and with it what is fresh.
LEMMA FreshStays ==
    ASSUME BatchTypes, UNCHANGED <<drain, listed>>,
           \A s \in listed : expiresAt'[s] = expiresAt[s]
    PROVE  /\ Fresh' = Fresh
           /\ \A s \in listed : Expired(s)' <=> Expired(s)
  <1>1. \A s \in listed : Expired(s)' <=> Expired(s)
    BY DEF Expired
  <1> QED BY <1>1 DEF Fresh

LEMMA DrainStays ==
    ASSUME BatchTypes, DrainInv, UNCHANGED <<drain, listed, queue, dropped>>,
           \A s \in listed : expiresAt'[s] = expiresAt[s],
           \A s \in inbox' \cup listed : expiresAt'[s] # Unborn,
           batch' = batch \/ (batch = "running" /\ batch' = "done")
                          \/ (batch = "idle" /\ batch' = "listing")
    PROVE  DrainInv'
  <1>1. Fresh' = Fresh /\ \A s \in listed : Expired(s)' <=> Expired(s)
    BY FreshStays
  <1>2. CASE batch' = "draining"
    <2>1. batch = "draining"
      BY <1>2
    <2>2. {s \in ToSet(drain.rest) : ~Expired(s)'} = {s \in ToSet(drain.rest) : ~Expired(s)}
      BY <1>1, <2>1 DEF DrainInv
    <2> QED BY <1>1, <1>2, <2>1, <2>2 DEF DrainInv
  <1>3. CASE batch' # "draining"
    BY <1>1, <1>3 DEF DrainInv
  <1> QED BY <1>2, <1>3

LEMMA RecordKeeps ==
    ASSUME BatchTypes, DrainInv, NEW s \in Signals, RecordSignal(s)
    PROVE  /\ DrainInv' /\ inbox' \subseteq Signals /\ IsFiniteSet(inbox')
           /\ expiresAt' \in [Signals -> Nat]
  <1>1. /\ expiresAt[s] = Unborn /\ expiresAt' = [expiresAt EXCEPT ![s] = hour + Ttl]
        /\ inbox' = inbox \cup {s} /\ UNCHANGED <<drain, queue, dropped, batch, listed>>
    BY DEF RecordSignal
  <1>2. hour + Ttl \in Nat /\ hour + Ttl # Unborn
    BY UnbornIsNat DEF BatchTypes
  <1>3. expiresAt \in [Signals -> Nat] /\ inbox \subseteq Signals /\ listed \subseteq Signals
        /\ IsFiniteSet(inbox)
    BY DEF BatchTypes
  <1>4. /\ expiresAt' \in [Signals -> Nat] /\ expiresAt'[s] # Unborn
        /\ \A x \in Signals \ {s} : expiresAt'[x] = expiresAt[x]
    BY <1>1, <1>2, <1>3
  <1>5. s \notin listed
    BY <1>1 DEF DrainInv
  <1>6. \A x \in listed : expiresAt'[x] = expiresAt[x]
    BY <1>3, <1>4, <1>5
  <1>7. \A x \in inbox' \cup listed : expiresAt'[x] # Unborn
    BY <1>1, <1>3, <1>4 DEF DrainInv
  <1>8. IsFiniteSet(inbox')
    BY <1>1, <1>3, FS_AddElement
  <1> QED BY <1>1, <1>3, <1>4, <1>6, <1>7, <1>8, DrainStays

LEMMA ListKeeps ==
    ASSUME BatchTypes, DrainInv, List
    PROVE  /\ DrainInv' /\ listed' \subseteq Signals
           /\ drain' \in [now : Nat, rest : Seq(Signals), active : Seq(Signals)]
  <1>1. /\ batch = "listing" /\ batch' = "draining" /\ listed' = inbox
        /\ drain' = [drain EXCEPT !.rest = SetToSeq(inbox)]
        /\ UNCHANGED <<inbox, expiresAt, queue>>
    BY DEF List
  <1>2. PICK q : q = SetToSeq(inbox)
    OBVIOUS
  <1>3. q \in Seq(inbox) /\ ToSet(q) = inbox /\ IsInjective(q)
    BY <1>2, SetToSeqProperties DEF BatchTypes
  <1>4. q \in Seq(Signals)
    <2>1. inbox \subseteq Signals
      BY DEF BatchTypes
    <2> QED BY <1>3, <2>1
  <1>5. drain' = [now |-> drain.now, rest |-> q, active |-> drain.active]
    BY <1>1, <1>2 DEF BatchTypes
  <1>6. drain.active = <<>> /\ drain.now \in Nat /\ drain.active \in Seq(Signals)
    BY <1>1 DEF DrainInv, BatchTypes
  <1>7. drain'.rest = q /\ drain'.active = <<>>
    BY <1>5, <1>6
  <1>8. ToSet(<<>>) = {} /\ IsInjective(<<>>)
    BY ToSetOfEmpty, EmptySeq DEF IsInjective
  <1>9. Fresh' = {x \in ToSet(q) : ~Expired(x)'}
    BY <1>1, <1>3 DEF Fresh
  <1>10. DrainInv'
    <2>1. \A x \in inbox' \cup listed' : expiresAt'[x] # Unborn
      BY <1>1 DEF DrainInv
    <2>2. /\ IsInjective(drain'.rest) /\ IsInjective(drain'.active)
          /\ ToSet(drain'.rest) \cap ToSet(drain'.active) = {}
          /\ ToSet(drain'.rest) \subseteq listed'
      BY <1>1, <1>3, <1>7, <1>8
    <2>3. Fresh' = ToSet(drain'.active) \cup {x \in ToSet(drain'.rest) : ~Expired(x)'}
      BY <1>7, <1>8, <1>9
    <2> QED BY <1>1, <2>1, <2>2, <2>3 DEF DrainInv
  <1>11. drain' \in [now : Nat, rest : Seq(Signals), active : Seq(Signals)]
    BY <1>4, <1>5, <1>6
  <1>12. listed' \subseteq Signals
    BY <1>1 DEF BatchTypes
  <1> QED BY <1>10, <1>11, <1>12

LEMMA VisitKeeps ==
    ASSUME BatchTypes, DrainInv, Visit
    PROVE  /\ DrainInv' /\ inbox' \subseteq Signals /\ IsFiniteSet(inbox')
           /\ drain' \in [now : Nat, rest : Seq(Signals), active : Seq(Signals)]
  <1>1. PICK s : s = Head(drain.rest)
    OBVIOUS
  <1>2. PICK rest, active : rest = drain.rest /\ active = drain.active
    OBVIOUS
  <1>3. /\ batch = "draining" /\ batch' = batch /\ rest # <<>>
        /\ inbox' \in {inbox, inbox \ {s}}
        /\ drain' = [drain EXCEPT !.rest = Tail(rest),
                                  !.active = IF Expired(s) THEN active ELSE Append(active, s)]
        /\ UNCHANGED <<expiresAt, listed, queue, dropped>>
    BY <1>1, <1>2 DEF Visit
  <1>4. /\ rest \in Seq(Signals) /\ active \in Seq(Signals) /\ drain.now \in Nat
        /\ drain = [now |-> drain.now, rest |-> rest, active |-> active]
    BY <1>2 DEF BatchTypes
  <1>5. PICK found : found = IF Expired(s) THEN active ELSE Append(active, s)
    OBVIOUS
  <1>6. drain' = [now |-> drain.now, rest |-> Tail(rest), active |-> found]
    BY <1>3, <1>4, <1>5
  <1>7. /\ IsInjective(rest) /\ IsInjective(active) /\ ToSet(rest) \cap ToSet(active) = {}
        /\ ToSet(rest) \subseteq listed
        /\ Fresh = ToSet(active) \cup {x \in ToSet(rest) : ~Expired(x)}
    BY <1>2, <1>3 DEF DrainInv
  <1>8. \A i, j \in 1..Len(rest) : rest[i] = rest[j] => i = j
    BY <1>4, <1>7, LenProperties DEF IsInjective
  <1>9. /\ s \in Signals /\ Tail(rest) \in Seq(Signals) /\ s \notin ToSet(Tail(rest))
        /\ ToSet(rest) = ToSet(Tail(rest)) \cup {s}
        /\ \A i, j \in 1..Len(Tail(rest)) : Tail(rest)[i] = Tail(rest)[j] => i = j
    BY <1>1, <1>2, <1>3, <1>4, <1>8, ToSetOfTail
  <1>10. IsInjective(Tail(rest))
    BY <1>9, LenProperties DEF IsInjective
  <1>11. /\ found \in Seq(Signals) /\ IsInjective(found)
         /\ ToSet(found) = ToSet(active) \cup (IF Expired(s) THEN {} ELSE {s})
    <2>1. CASE Expired(s)
      BY <1>4, <1>5, <1>7, <2>1
    <2>2. CASE ~Expired(s)
      <3>1. s \notin ToSet(active)
        BY <1>7, <1>9
      <3>2. /\ IsInjective(Append(active, s)) /\ ToSet(Append(active, s)) = ToSet(active) \cup {s}
            /\ Append(active, s) \in Seq(Signals)
        BY <1>4, <1>7, <1>9, <3>1, AppendInjectively, ToSetOfAppend, AppendProperties
      <3> QED BY <1>5, <2>2, <3>2
    <2> QED BY <2>1, <2>2
  <1>12. drain'.now = drain.now /\ drain'.rest = Tail(rest) /\ drain'.active = found
    BY <1>6
  <1>13. \A x : Expired(x)' <=> Expired(x)
    BY <1>3, <1>12 DEF Expired
  <1>14. Fresh' = Fresh
    BY <1>3, <1>13 DEF Fresh
  <1>15. Fresh = ToSet(found) \cup {x \in ToSet(Tail(rest)) : ~Expired(x)}
    BY <1>7, <1>9, <1>11
  <1>16. ToSet(Tail(rest)) \cap ToSet(found) = {} /\ ToSet(Tail(rest)) \subseteq listed
    BY <1>7, <1>9, <1>11
  <1>17. DrainInv'
    <2>1. \A x \in inbox' \cup listed' : expiresAt'[x] # Unborn
      BY <1>3 DEF DrainInv
    <2>2. /\ IsInjective(drain'.rest) /\ IsInjective(drain'.active)
          /\ ToSet(drain'.rest) \cap ToSet(drain'.active) = {}
          /\ ToSet(drain'.rest) \subseteq listed'
      BY <1>3, <1>10, <1>11, <1>12, <1>16
    <2>3. Fresh' = ToSet(drain'.active) \cup {x \in ToSet(drain'.rest) : ~Expired(x)'}
      BY <1>12, <1>13, <1>14, <1>15
    <2> QED BY <1>3, <2>1, <2>2, <2>3 DEF DrainInv
  <1>18. inbox' \subseteq Signals /\ IsFiniteSet(inbox')
    <2>1. IsFiniteSet(inbox \ {s}) /\ IsFiniteSet(inbox) /\ inbox \subseteq Signals
      BY FS_RemoveElement DEF BatchTypes
    <2> QED BY <1>3, <2>1
  <1>19. drain' \in [now : Nat, rest : Seq(Signals), active : Seq(Signals)]
    BY <1>4, <1>6, <1>9, <1>11
  <1> QED BY <1>17, <1>18, <1>19

\* The candidates go to the pool or are dropped.
LEMMA StartDivides ==
    ASSUME BatchTypes, DrainInv, StartBatch
    PROVE  /\ DrainInv'
           /\ queue' \in Seq(Signals) /\ dropped' \in Seq(Signals) /\ Len(queue') = Cap
           /\ Cap \in Nat
  <1>1. PICK active : active = drain.active
    OBVIOUS
  <1>2. PICK cap : cap = Cap
    OBVIOUS
  <1>3. /\ batch = "draining" /\ drain.rest = <<>> /\ batch' \in {"running", "done"}
        /\ queue' = SubSeq(active, 1, cap)
        /\ dropped' = SubSeq(active, cap + 1, Len(active))
        /\ UNCHANGED <<inbox, expiresAt, drain, listed>>
    BY <1>1, <1>2 DEF StartBatch
  <1>4. active \in Seq(Signals) /\ Len(active) \in Nat
    BY <1>1, LenProperties DEF BatchTypes
  <1>5. cap \in 0..Len(active)
    BY <1>1, <1>2, <1>4, BatchConstants DEF Cap
  <1>6. /\ queue' \in Seq(Signals) /\ dropped' \in Seq(Signals) /\ Len(queue') = cap
        /\ queue' \o dropped' = active
    BY <1>3, <1>4, <1>5, SplitProperties
  <1>7. ToSet(active) = ToSet(queue') \cup ToSet(dropped')
    <2>1. PICK q, d : q = queue' /\ d = dropped'
      OBVIOUS
    <2>2. ToSet(q \o d) = ToSet(q) \cup ToSet(d)
      BY <1>6, <2>1, ToSetOfConcat
    <2> QED BY <1>6, <2>1, <2>2
  <1>8. IsInjective(active) /\ Fresh = ToSet(active)
    BY <1>1, <1>3, ToSetOfEmpty DEF DrainInv
  <1>9. Fresh' = Fresh
    BY <1>3, FreshStays
  <1>10. DrainInv'
    <2>1. \A x \in inbox' \cup listed' : expiresAt'[x] # Unborn
      BY <1>3 DEF DrainInv
    <2>2. IsInjective(queue' \o dropped') /\ Fresh' = ToSet(queue') \cup ToSet(dropped')
      BY <1>6, <1>7, <1>8, <1>9
    <2> QED BY <1>3, <2>1, <2>2 DEF DrainInv
  <1> QED BY <1>2, <1>5, <1>6, <1>10

-----------------------------------------------------------------------------
(* The batch run: the pool *)

\* Neither the items nor who works on them are disturbed.
LEMMA PoolStays ==
    ASSUME PoolInv, CutInv,
           UNCHANGED <<queue, nextIndex, busy, abortedBy, outcome, cancelled, called>>,
           batch = batch' \/ (batch # "running" /\ batch' # "running")
    PROVE  PoolInv' /\ CutInv'
  <1>1. Underway' = Underway /\ CutShort' = CutShort
    BY DEF Underway, CutShort
  <1>2. \A i : /\ Settled(i)' <=> Settled(i)
               /\ Untaken(i)' <=> Untaken(i)
               /\ Working(i)' <=> Working(i)
    BY DEF Settled, Untaken, Working
  <1>3. CutInv'
    BY <1>1 DEF CutInv
  <1> QED BY <1>1, <1>2, <1>3 DEF PoolInv

LEMMA PoolStarts ==
    ASSUME BatchTypes, DrainInv, PoolInv, CutInv, StartBatch
    PROVE  /\ PoolInv' /\ CutInv'
           /\ abortedBy' \in [1..Len(queue') -> Reasons]
           /\ outcome' \in [1..Len(queue') -> BatchResults]
           /\ called' \in [1..Len(queue') -> Goings]
           /\ nextIndex' \in 0..Len(queue') /\ nextIndex' = 0
  <1>1. PICK cap : cap = Cap
    OBVIOUS
  <1>2. /\ abortedBy' = [i \in 1..cap |-> NoResult] /\ called' = [i \in 1..cap |-> NoResult]
        /\ outcome' = [i \in 1..cap |-> IF cancelled THEN "aborted" ELSE NoResult]
        /\ batch' = IF cap = 0 \/ cancelled THEN "done" ELSE "running"
        /\ batch = "draining" /\ UNCHANGED <<nextIndex, busy, cancelled>>
    BY <1>1 DEF StartBatch
  <1>3. Len(queue') = cap /\ cap \in Nat /\ queue' \in Seq(Signals)
    BY <1>1, StartDivides
  <1>4. \A w \in Workers : busy[w] = 0
    BY <1>2 DEF PoolInv
  <1>5. Underway' = {}
    BY <1>2, <1>4 DEF Underway
  <1>6. /\ abortedBy' \in [1..Len(queue') -> Reasons]
        /\ outcome' \in [1..Len(queue') -> BatchResults]
        /\ called' \in [1..Len(queue') -> Goings]
    BY <1>2, <1>3 DEF Reasons, BatchResults, Goings
  <1>7. DOMAIN queue' = 1..cap
    BY <1>3, LenProperties
  <1>8. CutShort' = {}
    BY <1>2, <1>7 DEF CutShort, NoResult
  <1>9. CutInv'
    <2>1. Cardinality(Workers) \in Nat /\ Cardinality({}) = 0
      BY BatchConstants, FS_CardinalityType, FS_EmptySet
    <2> QED BY <1>8, <2>1 DEF CutInv
  <1>10. nextIndex = 0
    <2>1. queue = <<>> /\ nextIndex \in 0..Len(queue) /\ Len(<<>>) = 0
      BY <1>2, EmptySeq DEF BatchTypes, DrainInv
    <2> QED BY <2>1
  <1>11. ASSUME NEW i \in 1..cap
         PROVE  /\ batch' # "running" => Settled(i)'
                /\ batch' = "running" => Untaken(i)'
                /\ abortedBy'[i] # "aborted"
    <2>1. /\ abortedBy'[i] = NoResult /\ called'[i] = NoResult
          /\ outcome'[i] = IF cancelled THEN "aborted" ELSE NoResult
      BY <1>2
    <2>2. cap # 0
      BY <1>3
    <2> QED BY <1>2, <2>1, <2>2 DEF Settled, Untaken, NoResult
  <1>12. PoolInv'
    <2>1. \A i \in 1..cap : i > 0 /\ ~ i <= 0
      BY <1>3
    <2> QED BY <1>2, <1>3, <1>4, <1>5, <1>10, <1>11, <2>1 DEF PoolInv
  <1>13. nextIndex' \in 0..Len(queue') /\ nextIndex' = 0
    BY <1>2, <1>3, <1>10
  <1> QED BY <1>6, <1>9, <1>12, <1>13

LEMMA PoolFacts ==
    ASSUME BatchTypes, PoolInv
    PROVE  /\ Len(queue) \in Nat /\ nextIndex \in Nat /\ nextIndex <= Len(queue)
           /\ DOMAIN queue = 1..Len(queue)
           /\ Underway \subseteq 1..nextIndex /\ 1..nextIndex \subseteq 1..Len(queue)
           /\ \A i : i \in Underway <=> \E w \in Workers : busy[w] = i /\ i # 0
  <1>1. Len(queue) \in Nat /\ DOMAIN queue = 1..Len(queue)
    BY LenProperties DEF BatchTypes
  <1>2. nextIndex \in Nat /\ nextIndex <= Len(queue)
    BY <1>1 DEF BatchTypes
  <1>3. \A i : i \in Underway <=> \E w \in Workers : busy[w] = i /\ i # 0
    BY DEF Underway
  <1>4. Underway \subseteq 1..nextIndex
    BY <1>3 DEF PoolInv
  <1> QED BY <1>1, <1>2, <1>3, <1>4

LEMMA TakeKeeps ==
    ASSUME BatchTypes, PoolInv, CutInv, NEW w \in Workers, Take(w)
    PROVE  /\ PoolInv' /\ CutInv' /\ nextIndex' \in 0..Len(queue)
           /\ busy' \in [Workers -> Nat]
           /\ outcome' \in [1..Len(queue) -> BatchResults]
           /\ called' \in [1..Len(queue) -> Goings]
  <1>1. PICK n : n = nextIndex + 1
    OBVIOUS
  <1>2. /\ batch = "running" /\ busy[w] = 0 /\ nextIndex < Len(queue) /\ nextIndex' = n
        /\ UNCHANGED <<queue, abortedBy, batch, cancelled>>
    BY <1>1 DEF Take
  <1>3. n \in 1..Len(queue) /\ n \notin Underway /\ nextIndex' \in 0..Len(queue) /\ n # 0
    BY <1>1, <1>2, PoolFacts
  <1>4. CutInv'
    BY <1>2 DEF CutInv, CutShort
  <1>5. Untaken(n)
    BY <1>1, <1>2, <1>3, PoolFacts DEF PoolInv
  <1>6. /\ outcome \in [1..Len(queue) -> BatchResults] /\ called \in [1..Len(queue) -> Goings]
        /\ busy \in [Workers -> Nat]
    BY DEF BatchTypes
  <1>7. \A i \in 1..Len(queue) : /\ i <= n <=> i <= nextIndex \/ i = n
                                 /\ i > n => i > nextIndex /\ i # n
    BY <1>1, PoolFacts
  <1>8. CASE cancelled
    <2>1. outcome' = [outcome EXCEPT ![n] = "aborted"] /\ UNCHANGED <<busy, called>>
      BY <1>1, <1>8 DEF Take
    <2>2. /\ outcome' \in [1..Len(queue) -> BatchResults] /\ outcome'[n] = "aborted"
          /\ \A i \in 1..Len(queue) : i # n => outcome'[i] = outcome[i]
      BY <1>3, <1>6, <2>1 DEF BatchResults
    <2>3. Underway' = Underway
      BY <2>1 DEF Underway
    <2>4. Settled(n)'
      BY <1>2, <1>5, <1>8, <2>1, <2>2 DEF Untaken, Settled, NoResult
    <2>5. PoolInv'
      <3>1. \A u \in Workers : busy'[u] # 0 => batch' = "running" /\ busy'[u] \in 1..nextIndex'
        BY <1>1, <1>2, <2>1, PoolFacts DEF PoolInv
      <3>2. ASSUME NEW i \in 1..Len(queue)
            PROVE  /\ i \in Underway' => Working(i)'
                   /\ i \notin Underway' /\ (i <= nextIndex' \/ batch' # "running") => Settled(i)'
                   /\ i > nextIndex' /\ batch' = "running" => Untaken(i)'
                   /\ abortedBy'[i] = "aborted" => cancelled'
        <4>1. /\ i \in Underway => Working(i)
              /\ i \notin Underway /\ (i <= nextIndex \/ batch # "running") => Settled(i)
              /\ i > nextIndex /\ batch = "running" => Untaken(i)
              /\ abortedBy[i] = "aborted" => cancelled
          BY DEF PoolInv
        <4>2. CASE i = n
          <5>1. ~ i > n
            BY <1>3, <4>2
          <5> QED BY <1>2, <1>3, <2>3, <2>4, <4>1, <4>2, <5>1
        <4>3. CASE i # n
          <5>1. (i <= n <=> i <= nextIndex) /\ (i > n => i > nextIndex)
            BY <1>7, <4>3
          <5>2. /\ outcome'[i] = outcome[i] /\ called'[i] = called[i] /\ abortedBy'[i] = abortedBy[i]
                /\ cancelled' = cancelled
            BY <1>2, <2>1, <2>2, <4>3
          <5>3. /\ Settled(i) => Settled(i)'
                /\ Untaken(i) => Untaken(i)'
                /\ Working(i) => Working(i)'
            BY <5>2 DEF Settled, Untaken, Working
          <5> QED BY <1>2, <2>3, <4>1, <4>3, <5>1, <5>3
        <4> QED BY <4>2, <4>3
      <3> QED BY <1>2, <2>1, <3>1, <3>2 DEF PoolInv
    <2> QED BY <1>3, <1>4, <1>6, <2>1, <2>2, <2>5
  <1>9. CASE ~cancelled
    <2>1. /\ busy' = [busy EXCEPT ![w] = n] /\ called' = [called EXCEPT ![n] = "running"]
          /\ outcome' = outcome
      BY <1>1, <1>9 DEF Take
    <2>2. /\ called' \in [1..Len(queue) -> Goings] /\ called'[n] = "running"
          /\ \A i \in 1..Len(queue) : i # n => called'[i] = called[i]
      BY <1>3, <1>6, <2>1 DEF Goings
    <2>3. /\ busy' \in [Workers -> Nat] /\ busy'[w] = n
          /\ \A u \in Workers : u # w => busy'[u] = busy[u]
      BY <1>3, <1>6, <2>1
    <2>4. Underway' = Underway \cup {n}
      <3>1. \A i : i \in Underway' <=> \E u \in Workers : busy'[u] = i /\ i # 0
        BY DEF Underway
      <3>2. \A i : i \in Underway' <=> i \in Underway \/ i = n
        BY <1>2, <1>3, <2>3, <3>1, PoolFacts
      <3> QED BY <3>2
    <2>5. Working(n)'
      BY <1>2, <1>5, <1>9, <2>1, <2>2 DEF Untaken, Working
    <2>6. PoolInv'
      <3>1. \A u \in Workers : busy'[u] # 0 => batch' = "running" /\ busy'[u] \in 1..nextIndex'
        <4>1. \A u \in Workers : busy[u] # 0 => busy[u] \in 1..n
          BY <1>1, PoolFacts DEF PoolInv
        <4>2. n \in 1..n
          BY <1>3, PoolFacts
        <4> QED BY <1>2, <2>3, <4>1, <4>2
      <3>2. \A u, v \in Workers : busy'[u] = busy'[v] /\ busy'[u] # 0 => u = v
        <4>1. \A u \in Workers : busy[u] # n
          BY <1>3, PoolFacts
        <4> QED BY <2>3, <4>1 DEF PoolInv
      <3>3. ASSUME NEW i \in 1..Len(queue)
            PROVE  /\ i \in Underway' => Working(i)'
                   /\ i \notin Underway' /\ (i <= nextIndex' \/ batch' # "running") => Settled(i)'
                   /\ i > nextIndex' /\ batch' = "running" => Untaken(i)'
                   /\ abortedBy'[i] = "aborted" => cancelled'
        <4>1. /\ i \in Underway => Working(i)
              /\ i \notin Underway /\ (i <= nextIndex \/ batch # "running") => Settled(i)
              /\ i > nextIndex /\ batch = "running" => Untaken(i)
              /\ abortedBy[i] = "aborted" => cancelled
          BY DEF PoolInv
        <4>2. CASE i = n
          <5>1. ~ i > n
            BY <1>3, <4>2
          <5> QED BY <1>2, <1>3, <2>4, <2>5, <4>1, <4>2, <5>1
        <4>3. CASE i # n
          <5>1. (i <= n <=> i <= nextIndex) /\ (i > n => i > nextIndex)
            BY <1>7, <4>3
          <5>2. /\ outcome'[i] = outcome[i] /\ called'[i] = called[i] /\ abortedBy'[i] = abortedBy[i]
                /\ cancelled' = cancelled
            BY <1>2, <2>1, <2>2, <4>3
          <5>3. /\ Settled(i) => Settled(i)'
                /\ Untaken(i) => Untaken(i)'
                /\ Working(i) => Working(i)'
            BY <5>2 DEF Settled, Untaken, Working
          <5> QED BY <1>2, <2>4, <4>1, <4>3, <5>1, <5>3
        <4> QED BY <4>2, <4>3
      <3> QED BY <1>2, <3>1, <3>2, <3>3 DEF PoolInv
    <2> QED BY <1>3, <1>4, <1>6, <2>1, <2>2, <2>3, <2>6
  <1> QED BY <1>8, <1>9

LEMMA SettleKeeps ==
    ASSUME BatchTypes, PoolInv, CutInv, NEW w \in Workers, NEW how \in Hows, Settle(w, how)
    PROVE  /\ PoolInv' /\ CutInv'
           /\ busy' \in [Workers -> Nat]
           /\ outcome' \in [1..Len(queue) -> BatchResults]
           /\ called' \in [1..Len(queue) -> Goings]
  <1>1. PICK n : n = busy[w]
    OBVIOUS
  <1>2. /\ n # 0 /\ outcome' = [outcome EXCEPT ![n] = SettleAfter(n, how)]
        /\ called' = [called EXCEPT ![n] = how] /\ busy' = [busy EXCEPT ![w] = 0]
        /\ UNCHANGED <<queue, nextIndex, abortedBy, batch, cancelled>>
    BY <1>1 DEF Settle
  <1>3. /\ n \in 1..nextIndex /\ n \in 1..Len(queue) /\ n \in Underway /\ batch = "running"
    <2>1. n \in 1..nextIndex /\ batch = "running"
      BY <1>1, <1>2 DEF PoolInv
    <2> QED BY <1>1, <1>2, <2>1, PoolFacts
  <1>4. PICK o : o = SettleAfter(n, how)
    OBVIOUS
  <1>5. /\ o \in {"fulfilled", "aborted", "rejected", "timeout"}
        /\ o = "fulfilled" <=> how = "value"
        /\ o = "aborted" => cancelled
        /\ cancelled => o \in {"aborted", "fulfilled"}
        /\ o = "timeout" => how = "abortError"
    BY <1>4 DEF SettleAfter, Hows
  <1>6. /\ outcome' \in [1..Len(queue) -> BatchResults] /\ called' \in [1..Len(queue) -> Goings]
        /\ busy' \in [Workers -> Nat]
        /\ outcome'[n] = o /\ called'[n] = how /\ busy'[w] = 0
        /\ \A i \in 1..Len(queue) : i # n => outcome'[i] = outcome[i] /\ called'[i] = called[i]
        /\ \A u \in Workers : u # w => busy'[u] = busy[u]
    <2>1. o \in BatchResults /\ how \in Goings
      BY <1>5 DEF BatchResults, Goings
    <2>2. /\ outcome' \in [1..Len(queue) -> BatchResults] /\ outcome'[n] = o
          /\ \A i \in 1..Len(queue) : i # n => outcome'[i] = outcome[i]
      BY <1>2, <1>3, <1>4, <2>1 DEF BatchTypes
    <2>3. /\ called' \in [1..Len(queue) -> Goings] /\ called'[n] = how
          /\ \A i \in 1..Len(queue) : i # n => called'[i] = called[i]
      BY <1>2, <1>3, <2>1 DEF BatchTypes
    <2>4. /\ busy' \in [Workers -> Nat] /\ busy'[w] = 0
          /\ \A u \in Workers : u # w => busy'[u] = busy[u]
      BY <1>2 DEF BatchTypes
    <2> QED BY <2>2, <2>3, <2>4
  <1>7. Settled(n)'
    <2>1. abortedBy[n] = "aborted" => cancelled
      BY <1>3 DEF PoolInv
    <2>2. cancelled => abortedBy[n] # NoResult
      BY <1>3 DEF PoolInv, Working
    <2>3. abortedBy[n] = NoResult =>
              /\ how = "value" => o = "fulfilled"
              /\ how = "error" => o = "rejected"
      BY <1>4, <2>2 DEF SettleAfter
    <2> QED BY <1>2, <1>5, <1>6, <2>1, <2>3 DEF Settled, NoResult, Hows
  <1>8. Underway' = Underway \ {n}
    <2>1. \A i : i \in Underway' <=> \E u \in Workers : busy'[u] = i /\ i # 0
      BY DEF Underway
    <2>2. \A u \in Workers : u # w => busy[u] # n
      BY <1>1, <1>2 DEF PoolInv
    <2>3. \A i : i \in Underway' <=> i \in Underway /\ i # n
      BY <1>1, <1>2, <1>6, <2>1, <2>2, PoolFacts
    <2> QED BY <2>3
  <1>9. CutInv'
    BY <1>2 DEF CutInv, CutShort
  <1>10. PoolInv'
    <2>1. \A u \in Workers : busy'[u] # 0 => batch' = "running" /\ busy'[u] \in 1..nextIndex'
      BY <1>2, <1>6 DEF PoolInv
    <2>2. \A u, v \in Workers : busy'[u] = busy'[v] /\ busy'[u] # 0 => u = v
      BY <1>6 DEF PoolInv
    <2>3. ASSUME NEW i \in 1..Len(queue)
          PROVE  /\ i \in Underway' => Working(i)'
                 /\ i \notin Underway' /\ (i <= nextIndex' \/ batch' # "running") => Settled(i)'
                 /\ i > nextIndex' /\ batch' = "running" => Untaken(i)'
                 /\ abortedBy'[i] = "aborted" => cancelled'
      <3>1. n <= nextIndex /\ ~ n > nextIndex
        BY <1>3, PoolFacts
      <3>2. /\ i \in Underway => Working(i)
            /\ i \notin Underway /\ (i <= nextIndex \/ batch # "running") => Settled(i)
            /\ i > nextIndex /\ batch = "running" => Untaken(i)
            /\ abortedBy[i] = "aborted" => cancelled
        BY DEF PoolInv
      <3>3. CASE i = n
        BY <1>2, <1>3, <1>7, <1>8, <3>1, <3>2, <3>3
      <3>4. CASE i # n
        <4>1. /\ outcome'[i] = outcome[i] /\ called'[i] = called[i] /\ abortedBy'[i] = abortedBy[i]
              /\ cancelled' = cancelled
          BY <1>2, <1>6, <3>4
        <4>2. /\ Settled(i) => Settled(i)'
              /\ Untaken(i) => Untaken(i)'
              /\ Working(i) => Working(i)'
          BY <4>1 DEF Settled, Untaken, Working
        <4> QED BY <1>2, <1>8, <3>2, <3>4, <4>2
      <3> QED BY <3>3, <3>4
    <2> QED BY <1>2, <2>1, <2>2, <2>3 DEF PoolInv
  <1> QED BY <1>6, <1>9, <1>10

\* The signals of items under way are aborted.
LEMMA AbortingKeeps ==
    ASSUME BatchTypes, PoolInv, NEW items, items \subseteq Underway, NEW reason \in {"timeout", "aborted"},
           abortedBy' = Aborting(items, reason),
           UNCHANGED <<queue, nextIndex, busy, outcome, batch, called>>,
           cancelled => cancelled', reason = "aborted" => cancelled',
           cancelled' => cancelled \/ items = Underway
    PROVE  PoolInv' /\ abortedBy' \in [1..Len(queue) -> Reasons]
  <1>1. /\ abortedBy \in [1..Len(queue) -> Reasons]
        /\ abortedBy' = [i \in DOMAIN abortedBy |->
              IF i \in items /\ abortedBy[i] = NoResult THEN reason ELSE abortedBy[i]]
    BY DEF BatchTypes, Aborting
  <1>2. /\ abortedBy' \in [1..Len(queue) -> Reasons]
        /\ \A i \in 1..Len(queue) : /\ abortedBy'[i] \in {abortedBy[i], reason}
                                    /\ i \notin items => abortedBy'[i] = abortedBy[i]
    BY <1>1 DEF Reasons
  <1>3. Underway' = Underway
    BY DEF Underway
  <1>4. ASSUME NEW i \in 1..Len(queue)
        PROVE  /\ i \in Underway' => Working(i)'
               /\ i \notin Underway' /\ (i <= nextIndex' \/ batch' # "running") => Settled(i)'
               /\ i > nextIndex' /\ batch' = "running" => Untaken(i)'
               /\ abortedBy'[i] = "aborted" => cancelled'
    <2>1. CASE i \in Underway
      <3>1. ~ i > nextIndex
        BY <2>1, PoolFacts
      <3>2. Working(i)'
        <4>1. Working(i)
          BY <2>1 DEF PoolInv
        <4>2. /\ abortedBy[i] # NoResult => abortedBy'[i] # NoResult
              /\ i \in items => abortedBy'[i] # NoResult
          BY <1>1 DEF NoResult
        <4> QED BY <2>1, <4>1, <4>2 DEF Working
      <3> QED BY <1>2, <1>3, <2>1, <3>1, <3>2 DEF PoolInv
    <2>2. CASE i \notin Underway
      <3>1. abortedBy'[i] = abortedBy[i]
        BY <1>2, <2>2
      <3>2. (Settled(i) => Settled(i)') /\ (Untaken(i) => Untaken(i)')
        <4>1. outcome'[i] = outcome[i] /\ called'[i] = called[i]
          OBVIOUS
        <4> QED BY <3>1, <4>1 DEF Settled, Untaken
      <3> QED BY <1>3, <2>2, <3>1, <3>2 DEF PoolInv
    <2> QED BY <2>1, <2>2
  <1> QED BY <1>2, <1>4 DEF PoolInv

\* An abort of the batch reaches no more items than there are workers.
LEMMA CutIsBounded ==
    ASSUME BatchTypes, PoolInv
    PROVE  IsFiniteSet(Underway) /\ Cardinality(Underway) <= Cardinality(Workers)
  <1>1. PICK atWork : atWork = {w \in Workers : busy[w] # 0}
    OBVIOUS
  <1>2. IsFiniteSet(atWork) /\ Cardinality(atWork) <= Cardinality(Workers)
    BY <1>1, BatchConstants, FS_Subset
  <1>3. PICK f : f = [w \in atWork |-> busy[w]]
    OBVIOUS
  <1>4. f \in Surjection(atWork, Underway)
    BY <1>1, <1>3, PoolFacts DEF Surjection
  <1>5. IsFiniteSet(Underway) /\ Cardinality(Underway) <= Cardinality(atWork)
    BY <1>2, <1>4, FS_Surjection
  <1>6. /\ Cardinality(Underway) \in Nat /\ Cardinality(atWork) \in Nat
        /\ Cardinality(Workers) \in Nat
    BY <1>2, <1>5, BatchConstants, FS_CardinalityType
  <1> QED BY <1>2, <1>5, <1>6

LEMMA TimeLimitKeeps ==
    ASSUME BatchTypes, PoolInv, CutInv, NEW i, TimeLimit(i)
    PROVE  PoolInv' /\ CutInv' /\ abortedBy' \in [1..Len(queue) -> Reasons]
  <1>1. /\ i \in Underway /\ abortedBy[i] = NoResult
        /\ abortedBy' = Aborting({i}, "timeout")
        /\ UNCHANGED <<queue, nextIndex, busy, outcome, batch, cancelled, called>>
    BY DEF TimeLimit
  <1>2. PoolInv' /\ abortedBy' \in [1..Len(queue) -> Reasons]
    BY <1>1, AbortingKeeps
  <1>3. CutShort' = CutShort
    <2>1. DOMAIN abortedBy = DOMAIN queue
      BY PoolFacts DEF BatchTypes
    <2> QED BY <1>1, <2>1 DEF CutShort, Aborting, NoResult
  <1> QED BY <1>2, <1>3 DEF CutInv

LEMMA CancelKeeps ==
    ASSUME BatchTypes, PoolInv, CutInv, CancelRun
    PROVE  PoolInv' /\ CutInv' /\ abortedBy' \in [1..Len(queue) -> Reasons]
  <1>1. /\ ~cancelled /\ cancelled' = TRUE /\ abortedBy' = Aborting(Underway, "aborted")
        /\ UNCHANGED <<queue, nextIndex, busy, outcome, batch, called>>
    BY DEF CancelRun
  <1>2. PoolInv' /\ abortedBy' \in [1..Len(queue) -> Reasons]
    BY <1>1, AbortingKeeps
  <1>3. CutShort' \subseteq Underway
    <2>1. \A i \in DOMAIN queue : abortedBy[i] # "aborted"
      BY <1>1, PoolFacts DEF PoolInv
    <2>2. DOMAIN abortedBy = DOMAIN queue
      BY PoolFacts DEF BatchTypes
    <2> QED BY <1>1, <2>1, <2>2 DEF CutShort, Aborting
  <1>4. /\ IsFiniteSet(CutShort') /\ Cardinality(CutShort') <= Cardinality(Underway)
        /\ IsFiniteSet(Underway) /\ Cardinality(Underway) <= Cardinality(Workers)
    BY <1>3, CutIsBounded, FS_Subset
  <1>5. CutInv'
    <2>1. /\ Cardinality(CutShort') \in Nat /\ Cardinality(Underway) \in Nat
          /\ Cardinality(Workers) \in Nat
      BY <1>4, BatchConstants, FS_CardinalityType
    <2> QED BY <1>4, <2>1 DEF CutInv
  <1> QED BY <1>2, <1>5

LEMMA EndKeeps ==
    ASSUME BatchTypes, PoolInv, CutInv, EndBatch
    PROVE  PoolInv' /\ CutInv'
  <1>1. /\ batch = "running" /\ batch' = "done" /\ nextIndex = Len(queue) /\ Underway = {}
        /\ UNCHANGED <<queue, nextIndex, busy, abortedBy, outcome, cancelled, called>>
    BY DEF EndBatch
  <1>2. Underway' = Underway /\ CutShort' = CutShort
    BY <1>1 DEF Underway, CutShort
  <1>3. \A i \in 1..Len(queue) : Settled(i)'
    <2>1. \A i \in 1..Len(queue) : i <= nextIndex
      BY <1>1, PoolFacts
    <2>2. \A i \in 1..Len(queue) : Settled(i)
      BY <1>1, <2>1 DEF PoolInv
    <2>3. ASSUME NEW i \in 1..Len(queue) PROVE Settled(i)'
      <3>1. /\ outcome'[i] = outcome[i] /\ called'[i] = called[i] /\ abortedBy'[i] = abortedBy[i]
            /\ cancelled => cancelled'
        BY <1>1
      <3> QED BY <2>2, <3>1 DEF Settled
    <2> QED BY <1>1, <2>3
  <1>4. \A w \in Workers : busy[w] = 0
    BY <1>1 DEF Underway
  <1>5. PoolInv'
    BY <1>1, <1>2, <1>3, <1>4 DEF PoolInv
  <1> QED BY <1>2, <1>5 DEF CutInv

LEMMA BatchRunStep == BatchRunInv /\ [BatchNext]_batchVars => BatchRunInv'
  <1> SUFFICES ASSUME BatchRunInv, [BatchNext]_batchVars PROVE BatchRunInv'
    OBVIOUS
  <1>1. BatchTypes /\ DrainInv /\ PoolInv /\ CutInv
    BY DEF BatchRunInv
  <1>2. ASSUME NEW s \in Signals, RecordSignal(s) PROVE BatchRunInv'
    <2>1. UNCHANGED <<hour, drain, queue, dropped, nextIndex, busy, abortedBy, outcome, batch,
                      cancelled, listed, called>>
      BY <1>2 DEF RecordSignal
    <2>2. BatchTypes'
      BY <1>1, <1>2, <2>1, RecordKeeps DEF BatchTypes
    <2> QED BY <1>1, <1>2, <2>1, <2>2, RecordKeeps, PoolStays DEF BatchRunInv
  <1>3. CASE Drain
    <2>1. /\ batch = "idle" /\ batch' = "listing" /\ drain' = [drain EXCEPT !.now = hour]
          /\ UNCHANGED <<hour, inbox, expiresAt, queue, dropped, nextIndex, busy, abortedBy,
                         outcome, cancelled, listed, called>>
      BY <1>3 DEF Drain
    <2>2. /\ drain' = [now |-> hour, rest |-> drain.rest, active |-> drain.active]
          /\ hour \in Nat /\ drain.rest \in Seq(Signals) /\ drain.active \in Seq(Signals)
      <3>1. hour \in Nat
        BY <1>1, BatchConstants DEF BatchTypes
      <3> QED BY <1>1, <2>1, <3>1 DEF BatchTypes
    <2>3. /\ drain' \in [now : Nat, rest : Seq(Signals), active : Seq(Signals)]
          /\ drain'.active = drain.active
      BY <2>2
    <2>4. BatchTypes'
      BY <1>1, <2>1, <2>3 DEF BatchTypes
    <2>5. DrainInv'
      BY <1>1, <2>1, <2>3 DEF DrainInv
    <2> QED BY <1>1, <2>1, <2>4, <2>5, PoolStays DEF BatchRunInv
  <1>4. CASE List
    <2>1. /\ batch = "listing" /\ batch' = "draining"
          /\ UNCHANGED <<hour, inbox, expiresAt, queue, dropped, nextIndex, busy, abortedBy,
                         outcome, cancelled, called>>
      BY <1>4 DEF List
    <2>2. BatchTypes'
      BY <1>1, <1>4, <2>1, ListKeeps DEF BatchTypes
    <2> QED BY <1>1, <1>4, <2>1, <2>2, ListKeeps, PoolStays DEF BatchRunInv
  <1>5. CASE Visit
    <2>1. UNCHANGED <<hour, expiresAt, queue, dropped, nextIndex, busy, abortedBy, outcome,
                      batch, cancelled, listed, called>>
      BY <1>5 DEF Visit
    <2>2. BatchTypes'
      BY <1>1, <1>5, <2>1, VisitKeeps DEF BatchTypes
    <2> QED BY <1>1, <1>5, <2>1, <2>2, VisitKeeps, PoolStays DEF BatchRunInv
  <1>6. CASE StartBatch
    <2>1. /\ UNCHANGED <<hour, inbox, expiresAt, drain, nextIndex, busy, cancelled, listed>>
          /\ batch' \in {"running", "done"}
      BY <1>6 DEF StartBatch
    <2>2. BatchTypes'
      BY <1>1, <1>6, <2>1, StartDivides, PoolStarts DEF BatchTypes
    <2> QED BY <1>1, <1>6, <2>2, StartDivides, PoolStarts DEF BatchRunInv
  <1>7. ASSUME UNCHANGED <<hour, inbox, expiresAt, drain, queue, dropped, listed>>,
               batch' = batch \/ (batch = "running" /\ batch' = "done"),
               nextIndex' \in 0..Len(queue), busy' \in [Workers -> Nat],
               abortedBy' \in [1..Len(queue) -> Reasons],
               outcome' \in [1..Len(queue) -> BatchResults],
               called' \in [1..Len(queue) -> Goings],
               cancelled' \in BOOLEAN, PoolInv' /\ CutInv'
        PROVE  BatchRunInv'
    <2>1. BatchTypes'
      BY <1>1, <1>7 DEF BatchTypes
    <2>2. DrainInv'
      <3>1. \A s \in inbox' \cup listed : expiresAt'[s] # Unborn
        BY <1>1, <1>7 DEF DrainInv
      <3> QED BY <1>1, <1>7, <3>1, DrainStays
    <2> QED BY <1>7, <2>1, <2>2 DEF BatchRunInv
  <1>8. ASSUME NEW w \in Workers, Take(w) PROVE BatchRunInv'
    BY <1>1, <1>7, <1>8, TakeKeeps DEF Take, BatchTypes
  <1>9. ASSUME NEW w \in Workers, NEW how \in Hows, Settle(w, how) PROVE BatchRunInv'
    BY <1>1, <1>7, <1>9, SettleKeeps DEF Settle, BatchTypes
  <1>10. ASSUME NEW i, TimeLimit(i) PROVE BatchRunInv'
    BY <1>1, <1>7, <1>10, TimeLimitKeeps DEF TimeLimit, BatchTypes
  <1>11. CASE CancelRun
    BY <1>1, <1>7, <1>11, CancelKeeps DEF CancelRun, BatchTypes
  <1>12. CASE EndBatch
    BY <1>1, <1>7, <1>12, EndKeeps DEF EndBatch, BatchTypes
  <1>13. CASE HourPasses \/ UNCHANGED batchVars
    <2>1. /\ UNCHANGED <<inbox, expiresAt, drain, queue, dropped, nextIndex, busy, abortedBy,
                         outcome, batch, cancelled, listed, called>>
          /\ hour' \in 0..LastHour
      <3>1. UNCHANGED <<inbox, expiresAt, drain, queue, dropped, nextIndex, busy, abortedBy,
                        outcome, batch, cancelled, listed, called>>
        BY <1>13 DEF HourPasses, batchVars
      <3>2. hour' = hour \/ (hour < LastHour /\ hour' = hour + 1)
        BY <1>13 DEF HourPasses, batchVars
      <3>3. hour' \in 0..LastHour
        BY <1>1, <3>2, BatchConstants DEF BatchTypes
      <3> QED BY <3>1, <3>3
    <2>2. BatchTypes'
      BY <1>1, <2>1 DEF BatchTypes
    <2>3. DrainInv'
      <3>1. \A s \in inbox' \cup listed : expiresAt'[s] # Unborn
        BY <1>1, <2>1 DEF DrainInv
      <3> QED BY <1>1, <2>1, <3>1, DrainStays
    <2> QED BY <1>1, <2>1, <2>2, <2>3, PoolStays DEF BatchRunInv
  <1> QED BY <1>2, <1>3, <1>4, <1>5, <1>6, <1>8, <1>9, <1>10, <1>11, <1>12, <1>13 DEF BatchNext

\* Every signal that was listed and fresh is handed to the pool or dropped, once, and
\* every item of the pool gets its own result, which says what happened to it, for any
\* signals, workers and cap, and whenever the caller aborts (drainSignals,
\* runFollowUpBatch, boundedParallel).
THEOREM RunsAccountForAll == BatchSpec => []RunAccountsForAll
  <1>1. BatchRunInv => RunAccountsForAll
    <2> SUFFICES ASSUME BatchRunInv, batch = "done" PROVE RunAccountsForAll
      BY DEF RunAccountsForAll
    <2>1. BatchTypes /\ DrainInv /\ PoolInv /\ CutInv
      BY DEF BatchRunInv
    <2>2. Range(queue) = ToSet(queue) /\ Range(dropped) = ToSet(dropped)
      BY DEF Range, ToSet
    <2>3. Range(queue) \cup Range(dropped) = Fresh /\ IsInjective(queue \o dropped)
      BY <2>1, <2>2 DEF DrainInv
    <2>4. \A i \in DOMAIN queue : Settled(i)
      <3>1. Underway = {}
        BY <2>1 DEF PoolInv, Underway
      <3> QED BY <2>1, <3>1, PoolFacts DEF PoolInv
    <2> QED BY <2>1, <2>3, <2>4 DEF RunAccountsForAll, Fresh, Settled, CutInv, CutShort
  <1> QED BY <1>1, BatchStart, BatchRunStep, PTL DEF BatchSpec
===============================================================================
