---------------------------- MODULE AssistantProofs ----------------------------
(***************************************************************************)
(* Theorems about AssistantRuntime, for any number of messages and slots   *)
(* and any time limits.                                                    *)
(*                                                                         *)
(* inFlight is the number of dispatches executing, and while messages wait *)
(* in a started runtime it is the number of slots.  Hence runNext, called  *)
(* for one message more or one slot less in use, takes one message at      *)
(* most, and the queue is in the order of dispatch.                        *)
(***************************************************************************)
EXTENDS AssistantRuntime, FiniteSetTheorems, SequenceTheorems, TLAPS

Busy(phases) == {m \in Messages : phases[m] \in {"hook", "handler"}}

\* The queue holds the queued messages in the order in which they came, and
\* none came after one that is still idle, or was served after one that waits.
InOrder(q, phases) ==
    /\ \A i, j \in 1..Len(q) : i < j => q[i] < q[j]
    /\ \A m \in Messages : phases[m] = "queued" <=> \E i \in 1..Len(q) : q[i] = m
    /\ \A m, later \in Messages : m < later /\ phases[m] = "idle" => phases[later] = "idle"
    /\ \A m, later \in Messages :
            m < later /\ phases[m] = "queued" => phases[later] \in {"idle", "queued"}

QueueInv == InOrder(queue, phase)

SlotInv ==
    /\ inFlight = Cardinality(Busy(phase))
    /\ inFlight <= MaxConcurrent
    /\ lifecycle = "started" => queue = <<>> \/ inFlight = MaxConcurrent

LifeInv ==
    /\ lifecycle = "created" => queue = <<>> /\ inFlight = 0
    /\ stop # "none" => lifecycle = "stopped"
    /\ stop \in {"drained", "onStop", "returned"} => inFlight = 0

AssistantInv == TypeOK /\ QueueInv /\ SlotInv /\ LifeInv

\* What runNext does with the messages q and k slots in use, where it takes one
\* at most.
TakesNone(q, k, phases) ==
    /\ queue' = q /\ inFlight' = k /\ phase' = phases
    /\ lifecycle = "started" => q = <<>> \/ k = MaxConcurrent

TakesOne(q, k, phases) ==
    /\ lifecycle = "started" /\ q # <<>> /\ k < MaxConcurrent
    /\ queue' = Tail(q) /\ inFlight' = k + 1
    /\ phase' = [phases EXCEPT ![Head(q)] = "hook"]
    /\ Tail(q) # <<>> => k + 1 = MaxConcurrent

LEMMA RunNextTakesOne ==
    ASSUME NEW q \in Seq(Messages), NEW k \in Nat, NEW phases \in [Messages -> Phases],
           k <= MaxConcurrent,
           lifecycle = "started" => Len(q) <= 1 \/ k >= MaxConcurrent - 1,
           RunNext(q, k, phases)
    PROVE  TakesNone(q, k, phases) \/ TakesOne(q, k, phases)
  <1> DEFINE n == Takes(q, k)
  <1>1. MaxConcurrent \in Nat \ {0} /\ Len(q) \in Nat
    BY ConstantsAssumption, LenProperties
  <1>2. q = <<>> <=> Len(q) = 0
    BY EmptySeq, LenProperties
  <1>3. n \in {0, 1} /\ (n = 1 <=> lifecycle = "started" /\ q # <<>> /\ k < MaxConcurrent)
    <2>1. CASE lifecycle = "started" /\ q # <<>> /\ k < MaxConcurrent
      <3>1. Len(q) >= 1 /\ MaxConcurrent - k >= 1 /\ (Len(q) = 1 \/ MaxConcurrent - k = 1)
        <4>1. Len(q) # 0 /\ (Len(q) <= 1 \/ k >= MaxConcurrent - 1)
          BY <1>2, <2>1
        <4>2. ASSUME NEW l \in Nat, NEW x \in Nat, NEW y \in Nat, l # 0, x < y,
                     l <= 1 \/ x >= y - 1
              PROVE  l >= 1 /\ y - x >= 1 /\ (l = 1 \/ y - x = 1)
          BY <4>2
        <4> QED BY <1>1, <2>1, <4>1, <4>2
      <3>2. n = 1
        BY <1>1, <2>1, <3>1 DEF Takes
      <3> QED BY <2>1, <3>2
    <2>2. CASE ~ (lifecycle = "started" /\ q # <<>> /\ k < MaxConcurrent)
      <3>1. n = 0
        BY <1>1, <1>2, <2>2 DEF Takes
      <3> QED BY <2>2, <3>1
    <2> QED BY <2>1, <2>2
  <1>4. CASE n = 0
    <2>1. SubSeq(q, 1, 0) = <<>> /\ SubSeq(q, 1, Len(q)) = q
      BY <1>1, SubSeqEmpty, SubSeqFull
    <2>2. ToSet(SubSeq(q, 1, 0)) = {}
      BY <2>1 DEF ToSet
    <2>3. phase' = phases /\ queue' = q /\ inFlight' = k
      BY <1>4, <2>1, <2>2 DEF RunNext
    <2>4. lifecycle = "started" => q = <<>> \/ k = MaxConcurrent
      BY <1>1, <1>3, <1>4
    <2> QED BY <2>3, <2>4 DEF TakesNone
  <1>5. CASE n = 1
    <2>1. q # <<>> /\ lifecycle = "started" /\ k < MaxConcurrent
      BY <1>3, <1>5
    <2>2. SubSeq(q, 2, Len(q)) = Tail(q) /\ Len(Tail(q)) = Len(q) - 1 /\ Tail(q) \in Seq(Messages)
          /\ Head(q) \in Messages
      BY <2>1, TailIsSubSeq, HeadTailProperties
    <2>3. ToSet(SubSeq(q, 1, 1)) = {Head(q)}
      <3>1. Len(SubSeq(q, 1, 1)) = 1 /\ SubSeq(q, 1, 1) \in Seq(Messages)
            /\ SubSeq(q, 1, 1)[1] = q[1]
        <4>1. \A i \in 1..1 : q[i] \in Messages
          BY <1>1, <1>2, <2>1, ElementOfSeq
        <4> QED BY <4>1, SubSeqProperties
      <3>2. DOMAIN SubSeq(q, 1, 1) = 1..1
        BY <3>1, LenProperties
      <3>3. Head(q) = q[1]
        BY <2>1
      <3> QED BY <3>1, <3>2, <3>3 DEF ToSet
    <2>4. queue' = Tail(q) /\ inFlight' = k + 1
      BY <1>5, <2>2 DEF RunNext
    <2>5. phase' = [phases EXCEPT ![Head(q)] = "hook"]
      <3>1. phase' = [m \in Messages |-> IF m \in {Head(q)} THEN "hook" ELSE phases[m]]
        BY <1>5, <2>3 DEF RunNext
      <3> QED BY <2>2, <3>1
    <2>6. Tail(q) # <<>> => k + 1 = MaxConcurrent
      <3>1. Tail(q) # <<>> => Len(Tail(q)) # 0
        BY <2>2, EmptySeq
      <3> QED BY <1>1, <2>1, <2>2, <3>1
    <2> QED BY <2>1, <2>4, <2>5, <2>6 DEF TakesOne
  <1> QED BY <1>3, <1>4, <1>5

LEMMA BusyIsFinite ==
    ASSUME NEW phases
    PROVE  IsFiniteSet(Busy(phases)) /\ Cardinality(Busy(phases)) \in Nat
  <1>1. MaxMessages \in Nat
    BY ConstantsAssumption
  <1>2. IsFiniteSet(Messages)
    BY <1>1, FS_Interval DEF Messages
  <1>3. Busy(phases) \in SUBSET Messages
    BY DEF Busy
  <1> QED BY <1>2, <1>3, FS_Subset, FS_CardinalityType

\* Order and count survive runNext.
LEMMA RunNextKeeps ==
    ASSUME NEW q \in Seq(Messages), NEW phases \in [Messages -> Phases],
           InOrder(q, phases), Cardinality(Busy(phases)) <= MaxConcurrent,
           lifecycle = "started" =>
                Len(q) <= 1 \/ Cardinality(Busy(phases)) >= MaxConcurrent - 1,
           RunNext(q, Cardinality(Busy(phases)), phases), UNCHANGED lifecycle
    PROVE  /\ queue' \in Seq(Messages) /\ phase' \in [Messages -> Phases] /\ inFlight' \in Nat
           /\ QueueInv' /\ SlotInv'
           /\ lifecycle # "started" =>
                queue' = q /\ inFlight' = Cardinality(Busy(phases)) /\ phase' = phases
  <1> DEFINE k == Cardinality(Busy(phases))
  <1>1. k \in Nat /\ IsFiniteSet(Busy(phases)) /\ MaxConcurrent \in Nat \ {0}
    BY BusyIsFinite, ConstantsAssumption
  <1>2. TakesNone(q, k, phases) \/ TakesOne(q, k, phases)
    BY <1>1, RunNextTakesOne
  <1>3. CASE TakesNone(q, k, phases)
    BY <1>1, <1>3 DEF TakesNone, QueueInv, SlotInv
  <1>4. CASE TakesOne(q, k, phases)
    <2>1. /\ queue' = Tail(q) /\ inFlight' = k + 1 /\ k < MaxConcurrent
          /\ phase' = [phases EXCEPT ![Head(q)] = "hook"]
          /\ lifecycle = "started" /\ q # <<>>
          /\ Tail(q) # <<>> => k + 1 = MaxConcurrent
      BY <1>4 DEF TakesOne
    <2>2. /\ Head(q) \in Messages /\ Tail(q) \in Seq(Messages) /\ Len(q) \in Nat \ {0}
          /\ Len(Tail(q)) = Len(q) - 1 /\ Head(q) = q[1]
          /\ \A i \in 1..Len(Tail(q)) : Tail(q)[i] = q[i + 1]
      BY <2>1, HeadTailProperties, LenProperties, EmptySeq
    <2>3. phases[Head(q)] = "queued"
      BY <2>2 DEF InOrder
    <2>4. /\ phase' \in [Messages -> Phases] /\ phase'[Head(q)] = "hook"
          /\ \A m \in Messages \ {Head(q)} : phase'[m] = phases[m]
      BY <2>1, <2>2 DEF Phases
    <2>5. Busy(phase') = Busy(phases) \cup {Head(q)} /\ Head(q) \notin Busy(phases)
      BY <2>2, <2>3, <2>4 DEF Busy
    <2>6. Cardinality(Busy(phase')) = k + 1
      BY <1>1, <2>5, FS_AddElement
    <2>7. SlotInv'
      BY <1>1, <2>1, <2>6 DEF SlotInv
    <2>8. InOrder(Tail(q), phase')
      <3>1. \A i, j \in 1..Len(Tail(q)) : i < j => Tail(q)[i] < Tail(q)[j]
        <4> SUFFICES ASSUME NEW i \in 1..Len(Tail(q)), NEW j \in 1..Len(Tail(q)), i < j
                     PROVE  Tail(q)[i] < Tail(q)[j]
          OBVIOUS
        <4>1. i + 1 \in 1..Len(q) /\ j + 1 \in 1..Len(q) /\ i + 1 < j + 1
          BY <2>2
        <4> QED BY <2>2, <4>1 DEF InOrder
      <3>2. ASSUME NEW m \in Messages
            PROVE  (\E i \in 1..Len(Tail(q)) : Tail(q)[i] = m)
                        <=> phases[m] = "queued" /\ m > Head(q)
        <4>1. ASSUME NEW i \in 1..Len(Tail(q)), Tail(q)[i] = m
              PROVE  phases[m] = "queued" /\ m > Head(q)
          <5>1. i + 1 \in 1..Len(q) /\ q[i + 1] = m /\ 1 \in 1..Len(q) /\ 1 < i + 1
            BY <2>2, <4>1
          <5>2. phases[m] = "queued"
            BY <5>1 DEF InOrder
          <5>3. q[1] < q[i + 1]
            BY <5>1 DEF InOrder
          <5> QED BY <2>2, <5>1, <5>2, <5>3 DEF Messages
        <4>2. ASSUME phases[m] = "queued", m > Head(q)
              PROVE  \E i \in 1..Len(Tail(q)) : Tail(q)[i] = m
          <5>1. PICK i \in 1..Len(q) : q[i] = m
            BY <4>2 DEF InOrder
          <5>2. i # 1
            BY <2>2, <4>2, <5>1 DEF Messages
          <5>3. i - 1 \in 1..Len(Tail(q)) /\ Tail(q)[i - 1] = m
            BY <2>2, <5>1, <5>2
          <5> QED BY <5>3
        <4> QED BY <4>1, <4>2
      <3>3. \A m \in Messages : phases[m] = "queued" => m = Head(q) \/ m > Head(q)
        <4> SUFFICES ASSUME NEW m \in Messages, phases[m] = "queued"
                     PROVE  m = Head(q) \/ m > Head(q)
          OBVIOUS
        <4>1. PICK i \in 1..Len(q) : q[i] = m
          BY DEF InOrder
        <4>2. CASE i = 1
          BY <2>2, <4>1, <4>2
        <4>3. CASE 1 < i
          <5>1. q[1] < q[i]
            BY <2>2, <4>3 DEF InOrder
          <5> QED BY <2>2, <4>1, <5>1 DEF Messages
        <4> QED BY <4>2, <4>3
      <3>4. \A m \in Messages : phase'[m] = "queued" <=> phases[m] = "queued" /\ m > Head(q)
        BY <2>2, <2>4, <3>3 DEF Messages
      <3>5. \A m \in Messages : phase'[m] = "idle" <=> phases[m] = "idle"
        BY <2>3, <2>4
      <3>6. \A m, later \in Messages :
                m < later /\ phase'[m] = "queued" => phase'[later] \in {"idle", "queued"}
        <4> SUFFICES ASSUME NEW m \in Messages, NEW later \in Messages,
                            m < later, phase'[m] = "queued"
                     PROVE  phase'[later] \in {"idle", "queued"}
          OBVIOUS
        <4>1. phases[m] = "queued" /\ m > Head(q)
          BY <3>4
        <4>2. later # Head(q)
          BY <2>2, <4>1 DEF Messages
        <4>3. phases[later] \in {"idle", "queued"}
          BY <4>1 DEF InOrder
        <4> QED BY <2>4, <4>2, <4>3
      <3>7. \A m, later \in Messages : m < later /\ phase'[m] = "idle" => phase'[later] = "idle"
        BY <3>5 DEF InOrder
      <3> QED BY <3>1, <3>2, <3>4, <3>6, <3>7 DEF InOrder
    <2> QED BY <2>1, <2>2, <2>4, <2>7, <2>8, <1>1 DEF QueueInv
  <1> QED BY <1>2, <1>3, <1>4

-----------------------------------------------------------------------------
(* Dispatching and settling *)

LEMMA DispatchKeeps ==
    ASSUME AssistantInv, NEW m \in Messages, Dispatch(m)
    PROVE  AssistantInv'
  <1> USE DEF AssistantInv
  <1> DEFINE q == Append(queue, m)
             phases == [phase EXCEPT ![m] = "queued"]
  <1>1. /\ lifecycle = "started" /\ phase[m] = "idle"
        /\ UNCHANGED <<lifecycle, stop, settled, bodies, timers>>
        /\ RunNext(q, inFlight, phases)
    BY DEF Dispatch
  <1>2. /\ queue \in Seq(Messages) /\ phase \in [Messages -> Phases]
        /\ MaxConcurrent \in Nat \ {0} /\ Len(queue) \in Nat /\ MaxMessages \in Nat
    BY ConstantsAssumption, LenProperties DEF TypeOK
  <1>3. \A earlier \in Messages : earlier < m => phase[earlier] # "idle"
    BY <1>2 DEF Dispatch, Messages
  <1>4. /\ q \in Seq(Messages) /\ Len(q) = Len(queue) + 1 /\ q[Len(queue) + 1] = m
        /\ \A i \in 1..Len(queue) : q[i] = queue[i]
    BY <1>2, AppendProperties
  <1>5. /\ phases \in [Messages -> Phases] /\ phases[m] = "queued"
        /\ \A x \in Messages \ {m} : phases[x] = phase[x]
    BY <1>2 DEF Phases
  <1>6. /\ inFlight = Cardinality(Busy(phases)) /\ inFlight <= MaxConcurrent
        /\ Len(q) <= 1 \/ Cardinality(Busy(phases)) >= MaxConcurrent - 1
    <2>1. Busy(phases) = Busy(phase)
      BY <1>1, <1>5 DEF Busy
    <2>2. queue = <<>> \/ inFlight = MaxConcurrent
      BY <1>1 DEF SlotInv
    <2>3. CASE queue = <<>>
      BY <1>4, <2>1, <2>3, EmptySeq DEF SlotInv
    <2>4. CASE inFlight = MaxConcurrent
      <3>1. inFlight = Cardinality(Busy(phases)) /\ inFlight <= MaxConcurrent
        BY <2>1 DEF SlotInv
      <3>2. MaxConcurrent >= MaxConcurrent - 1
        BY <1>2
      <3> QED BY <2>4, <3>1, <3>2
    <2> QED BY <2>2, <2>3, <2>4
  <1> HIDE DEF q, phases
  <1>7. InOrder(q, phases)
    <2>1. ASSUME NEW i \in 1..Len(queue)
          PROVE  queue[i] \in Messages /\ phase[queue[i]] = "queued" /\ queue[i] < m
      <3>1. queue[i] \in Messages
        BY <1>2, ElementOfSeq
      <3>2. phase[queue[i]] = "queued"
        BY <3>1 DEF QueueInv, InOrder
      <3>3. ~ (m < queue[i])
        BY <1>1, <3>1, <3>2 DEF QueueInv, InOrder
      <3> QED BY <1>1, <3>1, <3>2, <3>3 DEF Messages
    <2>2. \A i, j \in 1..Len(q) : i < j => q[i] < q[j]
      <3> SUFFICES ASSUME NEW i \in 1..Len(q), NEW j \in 1..Len(q), i < j
                   PROVE  q[i] < q[j]
        OBVIOUS
      <3>1. i \in 1..Len(queue) /\ q[i] = queue[i]
        BY <1>2, <1>4
      <3>2. CASE j \in 1..Len(queue)
        BY <1>4, <3>1, <3>2 DEF QueueInv, InOrder
      <3>3. CASE j = Len(queue) + 1
        BY <1>4, <2>1, <3>1, <3>3
      <3> QED BY <1>2, <1>4, <3>2, <3>3
    <2>3. ASSUME NEW x \in Messages
          PROVE  phases[x] = "queued" <=> \E i \in 1..Len(q) : q[i] = x
      <3>1. CASE x = m
        BY <1>2, <1>4, <1>5, <3>1
      <3>2. CASE x # m
        <4>1. (\E i \in 1..Len(q) : q[i] = x) <=> \E i \in 1..Len(queue) : queue[i] = x
          BY <1>2, <1>4, <3>2
        <4> QED BY <1>5, <3>2, <4>1 DEF QueueInv, InOrder
      <3> QED BY <3>1, <3>2
    <2>4. \A x, later \in Messages : x < later /\ phases[x] = "idle" => phases[later] = "idle"
      BY <1>3, <1>5 DEF QueueInv, InOrder
    <2>5. \A x, later \in Messages :
              x < later /\ phases[x] = "queued" => phases[later] \in {"idle", "queued"}
      BY <1>1, <1>5 DEF QueueInv, InOrder
    <2> QED BY <2>2, <2>3, <2>4, <2>5 DEF InOrder
  <1>8. /\ queue' \in Seq(Messages) /\ phase' \in [Messages -> Phases] /\ inFlight' \in Nat
        /\ QueueInv' /\ SlotInv'
    BY <1>1, <1>4, <1>5, <1>6, <1>7, RunNextKeeps
  <1>9. TypeOK'
    BY <1>1, <1>8 DEF TypeOK, timers
  <1>10. LifeInv'
    BY <1>1 DEF LifeInv
  <1> QED BY <1>8, <1>9, <1>10

LEMMA SettleKeeps ==
    ASSUME AssistantInv, NEW m \in Messages, phase[m] \in {"hook", "handler"},
           NEW how \in Outcomes, Settle(m, how), bodies' \subseteq Messages
    PROVE  AssistantInv'
  <1> USE DEF AssistantInv
  <1> DEFINE phases == [phase EXCEPT ![m] = "done"]
  <1>1. /\ RunNext(queue, inFlight - 1, phases) /\ UNCHANGED <<lifecycle, timers>>
        /\ settled' = [settled EXCEPT ![m] = how]
        /\ stop' = IF stop = "draining" /\ Drained(inFlight - 1) THEN "drained" ELSE stop
    BY DEF Settle
  <1>2. /\ queue \in Seq(Messages) /\ phase \in [Messages -> Phases]
        /\ MaxConcurrent \in Nat \ {0} /\ Len(queue) \in Nat
    BY ConstantsAssumption, LenProperties DEF TypeOK
  <1>3. /\ phases \in [Messages -> Phases] /\ phases[m] = "done"
        /\ \A x \in Messages \ {m} : phases[x] = phase[x]
    BY <1>2 DEF Phases
  <1>4. /\ inFlight - 1 = Cardinality(Busy(phases)) /\ Cardinality(Busy(phases)) \in Nat
        /\ inFlight \in Nat /\ inFlight <= MaxConcurrent
    <2>1. Busy(phases) = Busy(phase) \ {m} /\ m \in Busy(phase)
      BY <1>3 DEF Busy
    <2>2. Cardinality(Busy(phases)) = Cardinality(Busy(phase)) - 1
      BY <2>1, BusyIsFinite, FS_RemoveElement
    <2> QED BY <2>2, BusyIsFinite DEF SlotInv
  <1>5. lifecycle = "started" =>
            Len(queue) <= 1 \/ Cardinality(Busy(phases)) >= MaxConcurrent - 1
    <2>1. CASE queue = <<>>
      BY <2>1, EmptySeq
    <2>2. CASE inFlight = MaxConcurrent
      BY <1>2, <1>4, <2>2
    <2> QED BY <2>1, <2>2 DEF SlotInv
  <1> HIDE DEF phases
  <1>6. InOrder(queue, phases)
    BY <1>3 DEF QueueInv, InOrder
  <1>7. /\ queue' \in Seq(Messages) /\ phase' \in [Messages -> Phases] /\ inFlight' \in Nat
        /\ QueueInv' /\ SlotInv'
        /\ lifecycle # "started" => inFlight' = inFlight - 1
    <2>1. Cardinality(Busy(phases)) <= MaxConcurrent
      BY <1>2, <1>4
    <2> QED BY <1>1, <1>2, <1>3, <1>4, <1>5, <1>6, <2>1, RunNextKeeps
  <1>8. TypeOK'
    <2>1. stop' \in StopStates
      BY <1>1 DEF TypeOK, StopStates
    <2>2. settled' \in [Messages -> Outcomes]
      BY <1>1 DEF TypeOK
    <2> QED BY <1>1, <1>7, <2>1, <2>2 DEF TypeOK, timers
  <1>9. LifeInv'
    <2>1. lifecycle # "created" /\ stop \notin {"drained", "onStop", "returned"}
      BY <1>4 DEF LifeInv
    <2> QED BY <1>1, <1>4, <1>7, <2>1 DEF LifeInv, Drained
  <1> QED BY <1>7, <1>8, <1>9

LEMMA EndsKeep ==
    ASSUME AssistantInv, NEW m \in Messages,
           HookDrops(m) \/ HookThrows(m) \/ NoCapability(m) \/ HandlerEnds(m)
             \/ HandlerTimesOut(m)
    PROVE  AssistantInv'
  <1>1. phase[m] \in {"hook", "handler"}
    BY DEF HookDrops, HookThrows, NoCapability, HandlerEnds, HandlerReturns, HandlerThrows,
           HandlerTimesOut
  <1>2. bodies' \subseteq Messages
    BY DEF HookDrops, HookThrows, NoCapability, HandlerEnds, HandlerReturns, HandlerThrows,
           HandlerTimesOut, AssistantInv, TypeOK
  <1>3. \E how \in Outcomes : Settle(m, how)
    BY DEF HookDrops, HookThrows, NoCapability, HandlerEnds, HandlerReturns, HandlerThrows,
           HandlerTimesOut, AfterHandlerError, AfterHookError, Outcomes
  <1> QED BY <1>1, <1>2, <1>3, SettleKeeps

LEMMA HookPassesKeeps ==
    ASSUME AssistantInv, NEW m \in Messages, HookPasses(m)
    PROVE  AssistantInv'
  <1> USE DEF AssistantInv
  <1>1. /\ phase[m] = "hook" /\ phase' = [phase EXCEPT ![m] = "handler"]
        /\ bodies' = bodies \cup {m} /\ timeLeft' = [timeLeft EXCEPT ![m] = HandlerTimeout]
        /\ UNCHANGED <<lifecycle, stop, queue, inFlight, settled, drainLeft>>
    BY DEF HookPasses
  <1>2. /\ phase' \in [Messages -> Phases] /\ phase'[m] = "handler"
        /\ \A x \in Messages \ {m} : phase'[x] = phase[x]
    BY <1>1 DEF TypeOK, Phases
  <1>3. timeLeft' \in [Messages -> 0..HandlerTimeout]
    <2>1. HandlerTimeout \in 0..HandlerTimeout
      BY ConstantsAssumption
    <2> QED BY <1>1, <2>1 DEF TypeOK
  <1>4. TypeOK'
    BY <1>1, <1>2, <1>3 DEF TypeOK
  <1>5. QueueInv'
    BY <1>1, <1>2 DEF QueueInv, InOrder
  <1>6. SlotInv'
    <2>1. Busy(phase') = Busy(phase)
      BY <1>1, <1>2 DEF Busy
    <2> QED BY <1>1, <2>1 DEF SlotInv
  <1> QED BY <1>1, <1>4, <1>5, <1>6 DEF LifeInv

-----------------------------------------------------------------------------
(* Starting, stopping and time *)

LEMMA LifecycleKeeps ==
    ASSUME AssistantInv, UNCHANGED slots, TypeOK', LifeInv',
           lifecycle' = "started" => lifecycle = "started" \/ queue = <<>>
    PROVE  AssistantInv'
  BY DEF AssistantInv, slots, QueueInv, SlotInv

LEMMA StopKeeps ==
    ASSUME AssistantInv, Start \/ StopNeverStarted \/ Stop \/ StopRunsHook \/ OnStopEnds
                           \/ DrainTimesOut
    PROVE  AssistantInv'
  <1>1. UNCHANGED slots /\ (lifecycle' = "started" => lifecycle = "started" \/ queue = <<>>)
    BY DEF Start, StopNeverStarted, Stop, StopRunsHook, OnStopEnds, DrainTimesOut,
           AssistantInv, LifeInv
  <1>2. TypeOK'
    <2>1. DrainTimeout \in 0..(HandlerTimeout + DrainMargin)
      BY ConstantsAssumption DEF DrainTimeout
    <2>2. /\ lifecycle' \in {"created", "started", "stopped"} /\ stop' \in StopStates
          /\ UNCHANGED <<bodies, timeLeft>> /\ drainLeft' \in {drainLeft, DrainTimeout}
      BY DEF Start, StopNeverStarted, Stop, StopRunsHook, OnStopEnds, DrainTimesOut,
             AssistantInv, TypeOK, StopStates, timers
    <2> QED BY <1>1, <2>1, <2>2 DEF AssistantInv, TypeOK, slots
  <1>3. LifeInv'
    BY <1>1 DEF Start, StopNeverStarted, Stop, StopRunsHook, OnStopEnds, DrainTimesOut,
           AssistantInv, LifeInv, Drained, slots
  <1> QED BY <1>1, <1>2, <1>3, LifecycleKeeps

LEMMA TimeKeeps ==
    ASSUME AssistantInv, Tick \/ \E m \in Messages : AbandonedEnds(m)
    PROVE  AssistantInv'
  <1>1. CASE Tick
    <2>1. UNCHANGED <<lifecycle, stop, slots, bodies>>
      BY <1>1 DEF Tick
    <2>2. timeLeft' \in [Messages -> 0..HandlerTimeout]
      <3>1. \A m \in Messages : HandlerTimer(m) => timeLeft[m] - 1 \in 0..HandlerTimeout
        BY <1>1, ConstantsAssumption DEF Tick, AssistantInv, TypeOK
      <3> QED BY <1>1, <3>1 DEF Tick, AssistantInv, TypeOK
    <2>3. drainLeft' \in 0..(HandlerTimeout + DrainMargin)
      BY <1>1, ConstantsAssumption DEF Tick, AssistantInv, TypeOK
    <2>4. TypeOK' /\ LifeInv'
      BY <2>1, <2>2, <2>3 DEF AssistantInv, TypeOK, LifeInv, slots
    <2> QED BY <2>1, <2>4, LifecycleKeeps
  <1>2. CASE \E m \in Messages : AbandonedEnds(m)
    <2>1. UNCHANGED <<lifecycle, stop, slots, timers>> /\ bodies' \subseteq bodies
      BY <1>2 DEF AbandonedEnds
    <2>2. TypeOK' /\ LifeInv'
      BY <2>1 DEF AssistantInv, TypeOK, LifeInv, slots, timers
    <2> QED BY <2>1, <2>2, LifecycleKeeps
  <1> QED BY <1>1, <1>2

-----------------------------------------------------------------------------

LEMMA AssistantInitOK == Init => AssistantInv
  <1> SUFFICES ASSUME Init PROVE AssistantInv
    OBVIOUS
  <1>1. TypeOK
    BY ConstantsAssumption, EmptySeq
       DEF Init, TypeOK, Phases, Outcomes, StopStates
  <1>2. Busy(phase) = {}
    BY DEF Init, Busy
  <1>3. inFlight = Cardinality(Busy(phase)) /\ inFlight <= MaxConcurrent
    BY <1>2, FS_EmptySet, ConstantsAssumption DEF Init
  <1>4. QueueInv
    BY EmptySeq DEF Init, QueueInv, InOrder
  <1> QED BY <1>1, <1>3, <1>4 DEF Init, AssistantInv, SlotInv, LifeInv

LEMMA AssistantStep == AssistantInv /\ [Next]_vars => AssistantInv'
  <1> SUFFICES ASSUME AssistantInv, [Next]_vars PROVE AssistantInv'
    OBVIOUS
  <1>1. CASE UNCHANGED vars
    BY <1>1 DEF vars, AssistantInv, TypeOK, QueueInv, SlotInv, LifeInv
  <1>2. CASE Next
    BY <1>2, DispatchKeeps, EndsKeep, HookPassesKeeps, StopKeeps, TimeKeeps
       DEF Next, HookEnds
  <1> QED BY <1>1, <1>2

\* The inductive invariant.
THEOREM AssistantAlways == Spec => []AssistantInv
  BY AssistantInitOK, AssistantStep, PTL DEF Spec

\* No message waits for a slot that is free, and once onStop is reached nothing
\* holds one.
THEOREM NeverAnIdleSlot == Spec => []NoIdleSlot
  <1>1. Busy(phase) = Executing
    BY DEF Busy, Executing
  <1>2. Cardinality(Executing) = 0 => Executing = {}
    BY <1>1, BusyIsFinite, FS_EmptySet
  <1>3. AssistantInv => NoIdleSlot
    BY <1>1, <1>2 DEF AssistantInv, SlotInv, LifeInv, NoIdleSlot
  <1> QED BY <1>3, AssistantAlways, PTL

\* Messages get their slots in the order in which dispatch took them.
THEOREM AlwaysFirstComeFirstServed == Spec => []FirstComeFirstServed
  <1>1. AssistantInv => FirstComeFirstServed
    <2> SUFFICES ASSUME AssistantInv, NEW m \in Messages, phase[m] = "queued",
                        NEW later \in (m + 1)..MaxMessages
                 PROVE  phase[later] \in {"idle", "queued"}
      BY DEF FirstComeFirstServed
    <2>1. later \in Messages /\ m < later
      BY ConstantsAssumption DEF Messages
    <2> QED BY <2>1 DEF AssistantInv, QueueInv, InOrder
  <1> QED BY <1>1, AssistantAlways, PTL

================================================================================
