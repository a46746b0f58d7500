--------------------------- MODULE CloudflareProofs ---------------------------
(***************************************************************************)
(* Theorems about TurnQueue and TurnExecutor, for any requests, events,    *)
(* consumers, continuations, keys and bounds.                              *)
(*                                                                         *)
(* Enqueued twice: whoever got past the look-up of a key without racing    *)
(* found the key unmarked, so nobody before it had come to the send.       *)
(*                                                                         *)
(* Acks are earned: a message handed out is held by one consumer, and the  *)
(* promises of its current run are there only while it is the first of     *)
(* the batch.  They are fulfilled, or the consumer still has to wait for   *)
(* them, or it has given up and will not ack.                              *)
(*                                                                         *)
(* The chain: a request that has not been answered stands in it once, and  *)
(* only the first of them runs; a job is pending only while its turn runs  *)
(* or is awaited, or after the turn has rejected.                          *)
(*                                                                         *)
(* The store: what the writes left of a call do and what is stored already *)
(* add up to one outcome, whichever of them have been made: the writes of  *)
(* a call never touch a key twice, so their order does not matter.         *)
(***************************************************************************)
EXTENDS TurnQueue, TurnExecutor, SequenceLemmas

Places == {"idle", "turn", "settle", "broken"}

IngressTypes ==
    /\ event \in [Deliveries -> Events \cup {NoEvent}]
    /\ request \in [Deliveries -> Requests]
    /\ spread \subseteq marked /\ marked \subseteq Events \ Unkeyed
    /\ raced \subseteq Deliveries

QueueTypes ==
    /\ message \in [Deliveries -> Messages]
    /\ tries \in [Deliveries -> 0..MaxTries]
    /\ batch \in [Consumers -> Seq(Deliveries)]
    /\ at \in [Consumers -> Places]
    /\ pending \in [Consumers -> Seq(DOMAIN jobs)]
    /\ jobs \in Seq(Promises)

Keyed(e) == e \in Events \ Unkeyed

\* Requests that have looked their key up and did not find it.
Passed == {"mark", "send", "enqueued", "unsent"}

KeyInv ==
    /\ \A d \in Deliveries : request[d] \in {"check", "mark"} => Keyed(event[d])
    /\ \A d \in Deliveries :
            request[d] \in Passed \ {"mark"} /\ Keyed(event[d]) => event[d] \in marked
    /\ \A c, d \in Deliveries :
            c # d /\ event[c] = event[d] /\ Keyed(event[c])
            /\ request[c] \in Passed /\ request[d] \in Passed
            => c \in raced \/ d \in raced

\* What the queue knows fits what the ingress and the consumers are doing.
MessageInv ==
    \A d \in Deliveries :
        /\ message[d] # "none" => request[d] \in {"enqueued", "unsent"}
        /\ message[d] = "none" => tries[d] = 0
        /\ message[d] = "queued" => tries[d] < MaxTries
        /\ message[d] = "taken" => tries[d] > 0 /\ \E k \in Consumers : d \in ToSet(batch[k])

BatchInv ==
    \A k \in Consumers :
        /\ \A d \in ToSet(batch[k]) : message[d] = "taken"
        /\ \A l \in Consumers \ {k} : ToSet(batch[k]) \cap ToSet(batch[l]) = {}
        /\ at[k] = "idle" <=> batch[k] = <<>>
        /\ \A i, j \in 1..Len(batch[k]) : batch[k][i] = batch[k][j] => i = j

Current(j) == jobs[j].try = tries[jobs[j].of]

JobInv ==
    \A j \in DOMAIN jobs :
        /\ jobs[j].try <= tries[jobs[j].of]
        /\ message[jobs[j].of] = "acked" /\ Current(j) => jobs[j].state = "fulfilled"
        /\ \A k \in Consumers : jobs[j].of \in ToSet(batch[k]) /\ Current(j) =>
              /\ jobs[j].of = Head(batch[k])
              /\ \/ jobs[j].state = "fulfilled"
                 \/ at[k] = "broken"
                 \/ j \in ToSet(pending[k])

IngressInv == IngressTypes /\ KeyInv
QueueInv == QueueTypes /\ MessageInv /\ BatchInv /\ JobInv

-----------------------------------------------------------------------------
(* Ingress *)

LEMMA IngressInitOK == Init => IngressInv
  BY ConstantsAssumption
     DEF Init, IngressInv, IngressTypes, KeyInv, Requests, Passed, Keyed

LEMMA ReceiveKeeps ==
    ASSUME IngressInv, NEW d \in Deliveries, Receive(d)
    PROVE  IngressInv'
  <1> USE DEF IngressInv
  <1>1. request[d] = "idle" /\ UNCHANGED <<marked, spread, raced>>
    BY DEF Receive
  <1>2. PICK e \in Events, r \in {"answered", "send", "check"} :
            /\ event' = [event EXCEPT ![d] = e] /\ request' = [request EXCEPT ![d] = r]
            /\ r = "check" => Keyed(e)
            /\ r = "send" => ~ Keyed(e)
    BY DEF Receive, Answer, Dispatched, Keyed
  <1>3. IngressTypes'
    BY <1>1, <1>2 DEF IngressTypes, Requests
  <1>4. /\ event'[d] = e /\ request'[d] = r
        /\ \A c \in Deliveries \ {d} : event'[c] = event[c] /\ request'[c] = request[c]
    BY <1>2 DEF IngressTypes
  <1>5. KeyInv'
    BY <1>1, <1>2, <1>4 DEF KeyInv, Passed, Keyed
  <1> QED BY <1>3, <1>5

LEMMA CheckKeeps ==
    ASSUME IngressInv, NEW d \in Deliveries, Check(d)
    PROVE  IngressInv'
  <1> USE DEF IngressInv
  <1>1. /\ request[d] = "check" /\ UNCHANGED <<event, marked, spread>>
        /\ raced' = IF Racing(d) THEN raced \cup {d} ELSE raced
    BY DEF Check
  <1>2. PICK r \in {"duplicate", "mark", "failed"} :
            request' = [request EXCEPT ![d] = r] /\ (r = "mark" => event[d] \notin spread)
    BY DEF Check, Answer, Seen
  <1>3. IngressTypes'
    BY <1>1, <1>2 DEF IngressTypes, Requests
  <1>4. request'[d] = r /\ \A c \in Deliveries \ {d} : request'[c] = request[c]
    BY <1>2 DEF IngressTypes
  <1>5. \A c \in Deliveries \ {d} :
            event[c] = event[d] /\ Keyed(event[d]) /\ request[c] \in Passed /\ r = "mark"
                => d \in raced'
    BY <1>1, <1>2 DEF Racing, KeyInv, Passed
  <1>6. KeyInv'
    <2>1. \A c \in Deliveries : request'[c] \in {"check", "mark"} => Keyed(event'[c])
      BY <1>1, <1>4 DEF KeyInv
    <2>2. \A c \in Deliveries :
              request'[c] \in Passed \ {"mark"} /\ Keyed(event'[c]) => event'[c] \in marked'
      BY <1>1, <1>4 DEF KeyInv, Passed
    <2>3. ASSUME NEW b \in Deliveries, NEW c \in Deliveries,
                 b # c, event[b] = event[c], Keyed(event[b]),
                 request'[b] \in Passed, request'[c] \in Passed
          PROVE  b \in raced' \/ c \in raced'
      <3>1. CASE b = d
        BY <1>4, <1>5, <2>3, <3>1 DEF Passed
      <3>2. CASE c = d
        BY <1>4, <1>5, <2>3, <3>2 DEF Passed
      <3>3. CASE b # d /\ c # d
        BY <1>1, <1>4, <2>3, <3>3 DEF KeyInv
      <3> QED BY <3>1, <3>2, <3>3
    <2> QED BY <1>1, <2>1, <2>2, <2>3 DEF KeyInv, Keyed
  <1> QED BY <1>3, <1>6

LEMMA MarkAndSendKeep ==
    ASSUME IngressInv, NEW d \in Deliveries, Mark(d) \/ Send(d)
    PROVE  IngressInv'
  <1> USE DEF IngressInv
  <1>1. UNCHANGED <<event, spread, raced>>
        /\ marked \subseteq marked' /\ marked' \subseteq Events \ Unkeyed
        /\ request[d] \in {"mark", "send"}
    BY DEF Mark, Send, KeyInv, Keyed, IngressTypes
  <1>2. PICK r \in {"send", "failed", "enqueued", "unsent"} :
            /\ request' = [request EXCEPT ![d] = r]
            /\ r # "failed" => request[d] = "send" \/ event[d] \in marked'
    BY DEF Mark, Send, Answer
  <1>3. IngressTypes'
    BY <1>1, <1>2 DEF IngressTypes, Requests
  <1>4. request'[d] = r /\ \A c \in Deliveries \ {d} : request'[c] = request[c]
    BY <1>2 DEF IngressTypes
  <1>5. KeyInv'
    BY <1>1, <1>2, <1>4 DEF KeyInv, Passed, Keyed
  <1> QED BY <1>3, <1>5

LEMMA SpreadKeeps ==
    ASSUME IngressInv, NEW e \in Events, Spread(e)
    PROVE  IngressInv'
  <1>1. /\ spread' = spread \cup {e} /\ e \in marked
        /\ UNCHANGED <<event, request, marked, raced>>
    BY DEF Spread
  <1>2. IngressTypes'
    BY <1>1 DEF IngressInv, IngressTypes
  <1>3. KeyInv'
    BY <1>1 DEF IngressInv, KeyInv
  <1> QED BY <1>2, <1>3 DEF IngressInv

\* What Receive, Check, Mark and Spread leave of the queue's invariant: everything.
LEMMA QueueFrame ==
    ASSUME QueueInv, UNCHANGED <<message, tries, consumer, jobs>>,
           \A d \in Deliveries : request[d] \in {"enqueued", "unsent"} => request'[d] = request[d]
    PROVE  QueueInv'
  <1>1. UNCHANGED <<batch, at, pending>>
    BY DEF consumer
  <1>2. QueueTypes' /\ BatchInv'
    <2>1. QueueTypes'
      BY <1>1 DEF QueueInv, QueueTypes
    <2>2. BatchInv'
      BY <1>1 DEF QueueInv, BatchInv
    <2> QED BY <2>1, <2>2
  <1>3. MessageInv'
    BY <1>1 DEF QueueInv, MessageInv
  <1>4. JobInv'
    BY <1>1 DEF QueueInv, JobInv, Current
  <1> QED BY <1>2, <1>3, <1>4 DEF QueueInv

LEMMA IngressKeepsQueue ==
    ASSUME IngressInv, QueueInv, NEW d \in Deliveries, Ingress(d)
    PROVE  QueueInv'
  <1>1. request \in [Deliveries -> Requests]
    BY DEF IngressInv, IngressTypes
  <1>2. CASE Receive(d) \/ Check(d) \/ Mark(d)
    <2>1. /\ UNCHANGED <<message, tries, consumer, jobs>>
          /\ request[d] \in {"idle", "check", "mark"}
          /\ \E r \in {"answered", "check", "send", "duplicate", "mark", "failed"} :
                request' = [request EXCEPT ![d] = r]
      BY <1>2 DEF Receive, Check, Mark, Answer, Dispatched
    <2> QED BY <1>1, <2>1, QueueFrame
  <1>3. CASE Send(d)
    <2>1. /\ UNCHANGED <<tries, batch, at, pending, jobs>>
          /\ request[d] = "send"
          /\ \E r \in {"enqueued", "unsent"} : request' = [request EXCEPT ![d] = r]
          /\ message' \in {message, [message EXCEPT ![d] = "queued"]}
      BY <1>3 DEF Send, Answer, consumer
    <2>2. CASE message' = message
      <3>1. \A c \in Deliveries :
                request[c] \in {"enqueued", "unsent"} => request'[c] = request[c]
        BY <1>1, <2>1
      <3> QED BY <2>1, <2>2, <3>1, QueueFrame DEF consumer
    <2>3. CASE message' = [message EXCEPT ![d] = "queued"]
      <3>1. message[d] = "none" /\ message \in [Deliveries -> Messages]
        BY <2>1 DEF QueueInv, QueueTypes, MessageInv
      <3>2. message'[d] = "queued" /\ \A c \in Deliveries \ {d} : message'[c] = message[c]
        BY <2>3, <3>1
      <3>3. QueueTypes'
        BY <2>1, <2>3 DEF QueueInv, QueueTypes, Messages
      <3>4. request'[d] \in {"enqueued", "unsent"}
            /\ \A c \in Deliveries \ {d} : request'[c] = request[c]
        BY <1>1, <2>1
      <3>5. tries'[d] < MaxTries
        <4>1. tries[d] = 0 /\ tries' = tries
          BY <2>1, <3>1 DEF QueueInv, MessageInv
        <4> QED BY <4>1, ConstantsAssumption
      <3>6. MessageInv'
        BY <2>1, <3>2, <3>4, <3>5 DEF QueueInv, MessageInv
      <3>7. BatchInv'
        <4>1. \A k \in Consumers : \A c \in ToSet(batch[k]) : c \in Deliveries
          BY ToSetProperties DEF QueueInv, QueueTypes
        <4> QED BY <2>1, <3>1, <3>2, <4>1 DEF QueueInv, BatchInv
      <3>8. JobInv'
        <4>1. \A j \in DOMAIN jobs : jobs[j].of \in Deliveries
          <5>1. DOMAIN jobs = 1..Len(jobs) /\ \A j \in 1..Len(jobs) : jobs[j] \in Promises
            BY LenProperties, ElementOfSeq DEF QueueInv, QueueTypes
          <5> QED BY <5>1 DEF Promises
        <4>2. \A j \in DOMAIN jobs :
                  message'[jobs[j].of] = "acked" => message[jobs[j].of] = "acked"
          BY <3>2, <4>1
        <4> QED BY <2>1, <4>2 DEF QueueInv, JobInv, Current
      <3> QED BY <3>3, <3>6, <3>7, <3>8 DEF QueueInv
    <2> QED BY <2>1, <2>2, <2>3
  <1> QED BY <1>2, <1>3 DEF Ingress

-----------------------------------------------------------------------------
(* Consumers and promises *)

\* Facts about the queue's state that every step needs.
LEMMA QueueFacts ==
    ASSUME QueueInv
    PROVE  /\ \A k \in Consumers : /\ ToSet(batch[k]) \subseteq Deliveries
                                   /\ at[k] # "idle" => Head(batch[k]) \in ToSet(batch[k])
                                   /\ ToSet(pending[k]) \subseteq DOMAIN jobs
           /\ \A d \in Deliveries, k, l \in Consumers :
                  d \in ToSet(batch[k]) /\ d \in ToSet(batch[l]) => k = l
           /\ DOMAIN jobs = 1..Len(jobs) /\ Len(jobs) \in Nat
           /\ \A j \in DOMAIN jobs : jobs[j] \in Promises
           /\ tries \in [Deliveries -> Nat]
  <1> USE DEF QueueInv
  <1>1. \A k \in Consumers : /\ ToSet(batch[k]) \subseteq Deliveries
                             /\ ToSet(pending[k]) \subseteq DOMAIN jobs
    BY ToSetProperties DEF QueueTypes
  <1>2. ASSUME NEW k \in Consumers, at[k] # "idle" PROVE Head(batch[k]) \in ToSet(batch[k])
    <2>1. batch[k] \in Seq(Deliveries) /\ batch[k] # <<>>
      BY <1>2 DEF QueueTypes, BatchInv
    <2> QED BY <2>1, ToSetOfTail
  <1>3. \A d \in Deliveries, k, l \in Consumers :
            d \in ToSet(batch[k]) /\ d \in ToSet(batch[l]) => k = l
    BY DEF BatchInv
  <1>4. /\ DOMAIN jobs = 1..Len(jobs) /\ Len(jobs) \in Nat
        /\ \A j \in DOMAIN jobs : jobs[j] \in Promises
    BY LenProperties, ElementOfSeq DEF QueueTypes
  <1>5. tries \in [Deliveries -> Nat]
    BY ConstantsAssumption DEF QueueTypes
  <1> QED BY <1>1, <1>2, <1>3, <1>4, <1>5

\* A batch handed out starts a new try of each of its messages, of which there are
\* no promises yet.
LEMMA TakeBatchKeeps ==
    ASSUME IngressInv, QueueInv, NEW k \in Consumers, TakeBatch(k)
    PROVE  QueueInv'
  <1> USE DEF QueueInv
  <1>1. at[k] = "idle" /\ UNCHANGED <<ingress, jobs>>
    BY DEF TakeBatch
  <1>2. PICK b \in Batches :
            /\ batch' = [batch EXCEPT ![k] = b]
            /\ message' = [d \in Deliveries |-> IF d \in ToSet(b) THEN "taken" ELSE message[d]]
            /\ tries' = [d \in Deliveries |->
                              IF d \in ToSet(b) THEN tries[d] + 1 ELSE tries[d]]
            /\ at' = [at EXCEPT ![k] = "turn"]
            /\ pending' = [pending EXCEPT ![k] = <<>>]
    BY DEF TakeBatch
  <1>3. b \in Seq({d \in Deliveries : message[d] = "queued"}) /\ b # <<>> /\ IsInjective(b)
    BY <1>2, SeqDef, ConstantsAssumption DEF Batches, SeqOf
  <1>4. /\ b \in Seq(Deliveries)
        /\ ToSet(b) \subseteq {d \in Deliveries : message[d] = "queued"}
        /\ \A i, j \in 1..Len(b) : b[i] = b[j] => i = j
    BY <1>3, SeqMonotonic, ToSetProperties, LenProperties DEF IsInjective
  <1>5. /\ batch'[k] = b /\ at'[k] = "turn" /\ pending'[k] = <<>>
        /\ \A l \in Consumers \ {k} :
              batch'[l] = batch[l] /\ at'[l] = at[l] /\ pending'[l] = pending[l]
    BY <1>2 DEF QueueTypes
  <1>6. \A l \in Consumers : ToSet(batch[l]) \cap ToSet(b) = {}
    BY <1>4 DEF BatchInv
  <1>7. QueueTypes'
    <2>1. message' \in [Deliveries -> Messages]
      BY <1>2 DEF QueueTypes, Messages
    <2>2. tries' \in [Deliveries -> 0..MaxTries]
      <3>1. ASSUME NEW d \in Deliveries PROVE tries'[d] \in 0..MaxTries
        <4>1. tries[d] \in 0..MaxTries
          BY DEF QueueTypes
        <4>2. d \in ToSet(b) => tries[d] < MaxTries
          BY <1>4 DEF MessageInv
        <4>3. tries'[d] = IF d \in ToSet(b) THEN tries[d] + 1 ELSE tries[d]
          BY <1>2
        <4> QED BY <4>1, <4>2, <4>3, ConstantsAssumption
      <3> QED BY <1>2, <3>1
    <2>3. /\ batch' \in [Consumers -> Seq(Deliveries)]
          /\ at' \in [Consumers -> Places]
      BY <1>2, <1>4 DEF QueueTypes, Places
    <2>4. pending' \in [Consumers -> Seq(DOMAIN jobs)]
      BY <1>2, EmptySeq DEF QueueTypes
    <2> QED BY <1>1, <2>1, <2>2, <2>3, <2>4 DEF QueueTypes
  <1>8. MessageInv'
    <2>1. \A d \in ToSet(b) : tries'[d] > 0 /\ message'[d] = "taken"
      BY <1>2, <1>4, QueueFacts
    <2>2. \A d \in Deliveries \ ToSet(b) : tries'[d] = tries[d] /\ message'[d] = message[d]
      BY <1>2
    <2>3. \A d \in ToSet(b) : message[d] = "queued" /\ request[d] \in {"enqueued", "unsent"}
      BY <1>4 DEF MessageInv
    <2>4. \A d \in Deliveries : (\E l \in Consumers : d \in ToSet(batch[l]))
                                    => \E l \in Consumers : d \in ToSet(batch'[l])
      <3>1. batch[k] = <<>>
        BY <1>1 DEF BatchInv
      <3>2. ToSet(batch[k]) = {}
        BY <3>1, ToSetOfEmpty
      <3> QED BY <1>5, <3>2
    <2>5. request' = request
      BY <1>1 DEF ingress
    <2>6. ASSUME NEW d \in Deliveries, d \in ToSet(b)
          PROVE  /\ message'[d] = "taken" /\ request'[d] \in {"enqueued", "unsent"}
                 /\ tries'[d] > 0 /\ \E l \in Consumers : d \in ToSet(batch'[l])
      BY <1>5, <2>1, <2>3, <2>5, <2>6
    <2>7. ASSUME NEW d \in Deliveries, d \notin ToSet(b)
          PROVE  /\ message'[d] = message[d] /\ request'[d] = request[d] /\ tries'[d] = tries[d]
                 /\ (\E l \in Consumers : d \in ToSet(batch[l]))
                                    => \E l \in Consumers : d \in ToSet(batch'[l])
      BY <2>2, <2>4, <2>5, <2>7
    <2> QED BY <2>6, <2>7 DEF MessageInv
  <1>9. BatchInv'
    <2>1. ASSUME NEW l \in Consumers, NEW d \in ToSet(batch'[l]) PROVE message'[d] = "taken"
      <3>1. CASE l = k
        BY <1>2, <1>4, <1>5, <2>1, <3>1
      <3>2. CASE l # k
        <4>1. d \in ToSet(batch[l]) /\ d \in Deliveries
          BY <1>5, <2>1, <3>2, QueueFacts
        <4> QED BY <1>2, <4>1 DEF BatchInv
      <3> QED BY <3>1, <3>2
    <2>2. ASSUME NEW l \in Consumers, NEW m \in Consumers \ {l}
          PROVE  ToSet(batch'[l]) \cap ToSet(batch'[m]) = {}
      BY <1>5, <1>6 DEF BatchInv
    <2>3. ASSUME NEW l \in Consumers
          PROVE  /\ at'[l] = "idle" <=> batch'[l] = <<>>
                 /\ \A i, j \in 1..Len(batch'[l]) : batch'[l][i] = batch'[l][j] => i = j
      BY <1>3, <1>4, <1>5 DEF BatchInv
    <2> QED BY <2>1, <2>2, <2>3 DEF BatchInv
  <1>10. JobInv'
    <2>1. ASSUME NEW j \in DOMAIN jobs
          PROVE  /\ jobs[j].try <= tries'[jobs[j].of]
                 /\ message'[jobs[j].of] = "acked" /\ jobs[j].try = tries'[jobs[j].of]
                        => jobs[j].state = "fulfilled"
                 /\ \A l \in Consumers :
                      jobs[j].of \in ToSet(batch'[l]) /\ jobs[j].try = tries'[jobs[j].of] =>
                        /\ jobs[j].of = Head(batch'[l])
                        /\ \/ jobs[j].state = "fulfilled"
                           \/ at'[l] = "broken"
                           \/ j \in ToSet(pending'[l])
      <3>1. jobs[j].of \in Deliveries /\ jobs[j].try \in Nat
        BY QueueFacts, ConstantsAssumption DEF Promises
      <3>2. jobs[j].try <= tries[jobs[j].of] /\ tries[jobs[j].of] \in Nat
        BY <3>1, QueueFacts DEF JobInv
      <3>3. CASE jobs[j].of \in ToSet(b)
        <4>1. tries'[jobs[j].of] = tries[jobs[j].of] + 1
          BY <1>2, <3>1, <3>3
        <4>2. jobs[j].try < tries'[jobs[j].of]
          BY <3>1, <3>2, <4>1
        <4> QED BY <3>1, <3>2, <4>1, <4>2
      <3>4. CASE jobs[j].of \notin ToSet(b)
        <4>1. tries'[jobs[j].of] = tries[jobs[j].of] /\ message'[jobs[j].of] = message[jobs[j].of]
          BY <1>2, <3>1, <3>4
        <4> QED BY <1>5, <3>2, <3>4, <4>1 DEF JobInv, Current
      <3> QED BY <3>3, <3>4
    <2> QED BY <1>1, <2>1 DEF JobInv, Current
  <1> QED BY <1>7, <1>8, <1>9, <1>10

\* A promise more, which someone awaits if its run goes on.
LEMMA PromiseKeeps ==
    ASSUME QueueInv, NEW p \in Promises, jobs' = Append(jobs, p),
           UNCHANGED <<request, message, tries, batch, at>>,
           p.state = "running",
           p.try <= tries[p.of],
           message[p.of] = "acked" => p.try # tries[p.of],
           pending' \in [Consumers -> Seq(DOMAIN jobs')],
           \A k \in Consumers : ToSet(pending[k]) \subseteq ToSet(pending'[k]),
           \A k \in Consumers : p.of \in ToSet(batch[k]) /\ p.try = tries[p.of] =>
                /\ p.of = Head(batch[k])
                /\ at[k] = "broken" \/ Len(jobs) + 1 \in ToSet(pending'[k])
    PROVE  QueueInv'
  <1> USE DEF QueueInv
  <1>1. /\ jobs' \in Seq(Promises) /\ jobs'[Len(jobs) + 1] = p /\ Len(jobs') = Len(jobs) + 1
        /\ \A j \in DOMAIN jobs : jobs'[j] = jobs[j]
        /\ DOMAIN jobs' = (DOMAIN jobs) \cup {Len(jobs) + 1}
    <2>1. jobs \in Seq(Promises)
      BY DEF QueueTypes
    <2>2. /\ jobs' \in Seq(Promises) /\ jobs'[Len(jobs) + 1] = p /\ Len(jobs') = Len(jobs) + 1
          /\ \A j \in 1..Len(jobs) : jobs'[j] = jobs[j]
      BY <2>1, AppendProperties
    <2>3. DOMAIN jobs = 1..Len(jobs) /\ DOMAIN jobs' = 1..Len(jobs') /\ Len(jobs) \in Nat
      BY <2>1, <2>2, LenProperties
    <2>4. 1..(Len(jobs) + 1) = (1..Len(jobs)) \cup {Len(jobs) + 1}
      BY <2>3
    <2> QED BY <2>2, <2>3, <2>4
  <1>2. QueueTypes'
    BY <1>1 DEF QueueTypes
  <1>3. MessageInv'
    BY DEF MessageInv
  <1>4. BatchInv'
    BY DEF BatchInv
  <1>5. JobInv'
    <2>1. ASSUME NEW j \in DOMAIN jobs
          PROVE  /\ jobs'[j].try <= tries'[jobs'[j].of]
                 /\ message'[jobs'[j].of] = "acked" /\ Current(j)' => jobs'[j].state = "fulfilled"
                 /\ \A k \in Consumers : jobs'[j].of \in ToSet(batch'[k]) /\ Current(j)' =>
                        /\ jobs'[j].of = Head(batch'[k])
                        /\ \/ jobs'[j].state = "fulfilled"
                           \/ at'[k] = "broken"
                           \/ j \in ToSet(pending'[k])
      <3>1. jobs'[j] = jobs[j] /\ (Current(j)' <=> Current(j))
        BY <1>1 DEF Current
      <3> QED BY <3>1 DEF JobInv
    <2>2. ASSUME NEW j, j = Len(jobs) + 1
          PROVE  /\ jobs'[j].try <= tries'[jobs'[j].of]
                 /\ message'[jobs'[j].of] = "acked" /\ Current(j)' => jobs'[j].state = "fulfilled"
                 /\ \A k \in Consumers : jobs'[j].of \in ToSet(batch'[k]) /\ Current(j)' =>
                        /\ jobs'[j].of = Head(batch'[k])
                        /\ \/ jobs'[j].state = "fulfilled"
                           \/ at'[k] = "broken"
                           \/ j \in ToSet(pending'[k])
      <3>1. jobs'[j] = p /\ (Current(j)' <=> p.try = tries[p.of])
        BY <1>1, <2>2 DEF Current
      <3> QED BY <2>2, <3>1
    <2> QED BY <1>1, <2>1, <2>2 DEF JobInv
  <1> QED BY <1>2, <1>3, <1>4, <1>5

LEMMA TurnWaitsUntilKeeps ==
    ASSUME QueueInv, NEW k \in Consumers, TurnWaitsUntil(k)
    PROVE  QueueInv'
  <1> DEFINE h == Head(batch[k])
             p == [of |-> h, try |-> tries[h], state |-> "running"]
  <1>1. /\ at[k] = "turn" /\ UNCHANGED <<ingress, message, tries, batch, at>>
        /\ jobs' = Append(jobs, p)
        /\ pending' = [pending EXCEPT ![k] = Append(@, Len(jobs) + 1)]
    BY DEF TurnWaitsUntil
  <1>2. h \in Deliveries /\ h \in ToSet(batch[k]) /\ message[h] = "taken"
        /\ \A l \in Consumers : h \in ToSet(batch[l]) => l = k
    BY <1>1, QueueFacts DEF QueueInv, BatchInv
  <1>3. tries[h] \in 1..MaxTries
    <2>1. tries[h] \in 0..MaxTries /\ tries[h] > 0
      BY <1>2 DEF QueueInv, QueueTypes, MessageInv
    <2> QED BY <2>1, ConstantsAssumption
  <1>4. p \in Promises
    BY <1>2, <1>3 DEF Promises
  <1>5. /\ p.of = h /\ p.try = tries[h] /\ p.state = "running"
        /\ p.try <= tries[p.of]
    BY <1>3, ConstantsAssumption
  <1> HIDE DEF p, h
  <1>6. /\ DOMAIN jobs \subseteq DOMAIN jobs' /\ Len(jobs) + 1 \in DOMAIN jobs'
    <2>1. jobs \in Seq(Promises)
      BY DEF QueueInv, QueueTypes
    <2>2. jobs' \in Seq(Promises) /\ Len(jobs') = Len(jobs) + 1
      BY <1>1, <1>4, <2>1, AppendProperties
    <2>3. DOMAIN jobs = 1..Len(jobs) /\ DOMAIN jobs' = 1..Len(jobs') /\ Len(jobs) \in Nat
      BY <2>1, <2>2, LenProperties
    <2> QED BY <2>2, <2>3
  <1>7. \A l \in Consumers : pending[l] \in Seq(DOMAIN jobs')
    BY <1>6, SeqMonotonic DEF QueueInv, QueueTypes
  <1>8. Append(pending[k], Len(jobs) + 1) \in Seq(DOMAIN jobs')
        /\ ToSet(Append(pending[k], Len(jobs) + 1)) = ToSet(pending[k]) \cup {Len(jobs) + 1}
    BY <1>6, <1>7, AppendProperties, ToSetOfAppend
  <1>9. pending' \in [Consumers -> Seq(DOMAIN jobs')]
        /\ pending'[k] = Append(pending[k], Len(jobs) + 1)
        /\ \A l \in Consumers \ {k} : pending'[l] = pending[l]
    BY <1>1, <1>7, <1>8 DEF QueueInv, QueueTypes
  <1>10. \A l \in Consumers : ToSet(pending[l]) \subseteq ToSet(pending'[l])
    BY <1>8, <1>9
  <1>11. \A l \in Consumers : p.of \in ToSet(batch[l]) =>
              p.of = Head(batch[l]) /\ Len(jobs) + 1 \in ToSet(pending'[l])
    BY <1>2, <1>5, <1>8, <1>9 DEF h
  <1>12. message[p.of] # "acked" /\ request' = request
    BY <1>1, <1>2, <1>5 DEF ingress
  <1> QED BY <1>1, <1>4, <1>5, <1>9, <1>10, <1>11, <1>12, PromiseKeeps

LEMMA JobWaitsUntilKeeps ==
    ASSUME QueueInv, NEW j \in DOMAIN jobs, JobWaitsUntil(j)
    PROVE  QueueInv'
  <1> DEFINE p == jobs[j]
  <1>1. /\ p.state = "running" /\ UNCHANGED <<ingress, message, tries, batch, at>>
        /\ jobs' = Append(jobs, p)
        /\ pending' = [k \in Consumers |->
                IF InRun(k, j) THEN Append(pending[k], Len(jobs) + 1) ELSE pending[k]]
    BY DEF JobWaitsUntil
  <1>2. p \in Promises
    BY QueueFacts
  <1>3. /\ p.try <= tries[p.of]
        /\ message[p.of] = "acked" => p.try # tries[p.of]
    BY <1>1 DEF QueueInv, JobInv, Current
  <1>4. DOMAIN jobs \subseteq DOMAIN jobs' /\ Len(jobs) + 1 \in DOMAIN jobs'
    <2>1. jobs \in Seq(Promises)
      BY DEF QueueInv, QueueTypes
    <2>2. jobs' \in Seq(Promises) /\ Len(jobs') = Len(jobs) + 1
      BY <1>1, <1>2, <2>1, AppendProperties
    <2>3. DOMAIN jobs = 1..Len(jobs) /\ DOMAIN jobs' = 1..Len(jobs') /\ Len(jobs) \in Nat
      BY <2>1, <2>2, LenProperties
    <2> QED BY <2>2, <2>3
  <1>5. ASSUME NEW k \in Consumers
        PROVE  /\ pending'[k] \in Seq(DOMAIN jobs')
               /\ ToSet(pending[k]) \subseteq ToSet(pending'[k])
               /\ InRun(k, j) => Len(jobs) + 1 \in ToSet(pending'[k])
    <2>1. pending[k] \in Seq(DOMAIN jobs')
      BY <1>4, SeqMonotonic DEF QueueInv, QueueTypes
    <2>2. /\ Append(pending[k], Len(jobs) + 1) \in Seq(DOMAIN jobs')
          /\ ToSet(Append(pending[k], Len(jobs) + 1)) = ToSet(pending[k]) \cup {Len(jobs) + 1}
      BY <1>4, <2>1, AppendProperties, ToSetOfAppend
    <2> QED BY <1>1, <2>1, <2>2
  <1>6. pending' \in [Consumers -> Seq(DOMAIN jobs')]
    BY <1>1, <1>5
  <1>7. ASSUME NEW k \in Consumers, p.of \in ToSet(batch[k]), p.try = tries[p.of]
        PROVE  p.of = Head(batch[k]) /\ (at[k] = "broken" \/ Len(jobs) + 1 \in ToSet(pending'[k]))
    <2>1. p.of = Head(batch[k])
      BY <1>7 DEF QueueInv, JobInv, Current
    <2>2. batch[k] # <<>>
      BY <1>7, ToSetOfEmpty
    <2>3. InRun(k, j)
      BY <1>7, <2>1, <2>2 DEF InRun, QueueInv, BatchInv
    <2> QED BY <1>5, <2>1, <2>3
  <1>8. request' = request
    BY <1>1 DEF ingress
  <1> HIDE DEF p
  <1> QED BY <1>1, <1>2, <1>3, <1>5, <1>6, <1>7, <1>8, PromiseKeeps

LEMMA JobEndsKeeps ==
    ASSUME QueueInv, NEW j \in DOMAIN jobs, JobEnds(j)
    PROVE  QueueInv'
  <1> USE DEF QueueInv
  <1>1. /\ jobs[j].state = "running"
        /\ UNCHANGED <<request, message, tries, batch, at, pending>>
    BY DEF JobEnds, ingress, consumer
  <1>2. PICK state \in {"fulfilled", "rejected"} : jobs' = [jobs EXCEPT ![j].state = state]
    BY DEF JobEnds
  <1>3. jobs[j] \in Promises /\ [jobs[j] EXCEPT !.state = state] \in Promises
    BY QueueFacts DEF Promises
  <1>4. jobs \in Seq(Promises) /\ j \in 1..Len(jobs)
    BY QueueFacts DEF QueueTypes
  <1>5. jobs' = [jobs EXCEPT ![j] = [jobs[j] EXCEPT !.state = state]]
    BY <1>2
  <1>6. /\ jobs' \in Seq(Promises) /\ DOMAIN jobs' = DOMAIN jobs
        /\ jobs'[j] = [jobs[j] EXCEPT !.state = state]
        /\ \A i \in DOMAIN jobs : i # j => jobs'[i] = jobs[i]
    <2>1. jobs' \in Seq(Promises) /\ Len(jobs') = Len(jobs)
      BY <1>3, <1>4, <1>5, ExceptSeq
    <2> QED BY <1>4, <1>5, <2>1, LenProperties
  <1>7. jobs'[j].of = jobs[j].of /\ jobs'[j].try = jobs[j].try
    BY <1>3, <1>6 DEF Promises
  <1>8. QueueTypes'
    BY <1>1, <1>6 DEF QueueTypes
  <1>9. MessageInv' /\ BatchInv'
    <2>1. MessageInv'
      BY <1>1 DEF MessageInv
    <2>2. BatchInv'
      BY <1>1 DEF BatchInv
    <2> QED BY <2>1, <2>2
  <1>10. JobInv'
    <2>1. ASSUME NEW i \in DOMAIN jobs
          PROVE  /\ jobs'[i].of = jobs[i].of /\ jobs'[i].try = jobs[i].try
                 /\ (Current(i)' <=> Current(i))
                 /\ i # j => jobs'[i].state = jobs[i].state
      BY <1>1, <1>6, <1>7 DEF Current
    <2> QED BY <1>1, <1>6, <2>1 DEF JobInv
  <1> QED BY <1>8, <1>9, <1>10

\* runTurn ends: nothing the promises depend on changes but for the better.
LEMMA TurnEndsKeeps ==
    ASSUME QueueInv, NEW k \in Consumers, TurnEnds(k)
    PROVE  QueueInv'
  <1> USE DEF QueueInv
  <1>1. /\ at[k] = "turn" /\ UNCHANGED <<request, message, tries, batch, pending, jobs>>
        /\ \E next \in {"settle", "broken"} : at' = [at EXCEPT ![k] = next]
    BY DEF TurnEnds, ingress
  <1>2. /\ at' \in [Consumers -> Places] /\ at'[k] \in {"settle", "broken"}
        /\ \A l \in Consumers \ {k} : at'[l] = at[l]
    BY <1>1 DEF QueueTypes, Places
  <1>3. QueueTypes'
    BY <1>1, <1>2 DEF QueueTypes
  <1>4. MessageInv'
    BY <1>1 DEF MessageInv
  <1>5. BatchInv'
    BY <1>1, <1>2 DEF BatchInv
  <1>6. JobInv'
    <2>1. \A l \in Consumers : at[l] = "broken" => at'[l] = "broken"
      BY <1>1, <1>2
    <2> QED BY <1>1, <2>1 DEF JobInv, Current
  <1> QED BY <1>3, <1>4, <1>5, <1>6

\* The promise awaited was fulfilled, or the consumer gives up.
LEMMA SettleNextKeeps ==
    ASSUME QueueInv, NEW k \in Consumers, SettleNext(k)
    PROVE  QueueInv'
  <1> USE DEF QueueInv
  <1> DEFINE h == Head(pending[k])
  <1>1. /\ at[k] = "settle" /\ pending[k] # <<>> /\ jobs[h].state # "running"
        /\ at' = IF jobs[h].state = "fulfilled" THEN at ELSE [at EXCEPT ![k] = "broken"]
        /\ pending' = [pending EXCEPT ![k] = Tail(@)]
        /\ UNCHANGED <<request, message, tries, batch, jobs>>
    BY DEF SettleNext, ingress
  <1>2. /\ h \in DOMAIN jobs /\ Tail(pending[k]) \in Seq(DOMAIN jobs)
        /\ ToSet(pending[k]) = ToSet(Tail(pending[k])) \cup {h}
    BY <1>1, ToSetOfTail DEF QueueTypes
  <1> HIDE DEF h
  <1>3. /\ pending' \in [Consumers -> Seq(DOMAIN jobs)] /\ pending'[k] = Tail(pending[k])
        /\ \A l \in Consumers \ {k} : pending'[l] = pending[l]
    BY <1>1, <1>2 DEF QueueTypes
  <1>4. /\ at' \in [Consumers -> Places]
        /\ at'[k] = IF jobs[h].state = "fulfilled" THEN "settle" ELSE "broken"
        /\ \A l \in Consumers \ {k} : at'[l] = at[l]
    BY <1>1 DEF QueueTypes, Places
  <1>5. QueueTypes'
    BY <1>1, <1>3, <1>4 DEF QueueTypes
  <1>6. MessageInv'
    BY <1>1 DEF MessageInv
  <1>7. BatchInv'
    <2>1. \A l \in Consumers : at'[l] = "idle" <=> at[l] = "idle"
      BY <1>1, <1>4
    <2> QED BY <1>1, <2>1 DEF BatchInv
  <1>8. JobInv'
    <2>1. ASSUME NEW i \in DOMAIN jobs, NEW l \in Consumers,
                 \/ jobs[i].state = "fulfilled" \/ at[l] = "broken" \/ i \in ToSet(pending[l])
          PROVE  \/ jobs[i].state = "fulfilled" \/ at'[l] = "broken" \/ i \in ToSet(pending'[l])
      <3>1. CASE l = k
        BY <1>1, <1>2, <1>3, <1>4, <2>1, <3>1
      <3>2. CASE l # k
        BY <1>3, <1>4, <2>1, <3>2
      <3> QED BY <3>1, <3>2
    <2> QED BY <1>1, <2>1 DEF JobInv, Current
  <1> QED BY <1>5, <1>6, <1>7, <1>8

\* Nothing of the acked run is left to wait for, so all of it was fulfilled; the
\* messages behind it have no promises of their current try.
LEMMA AckMessageKeeps ==
    ASSUME QueueInv, NEW k \in Consumers, AckMessage(k)
    PROVE  QueueInv'
  <1> USE DEF QueueInv
  <1> DEFINE h == Head(batch[k])
             t == Tail(batch[k])
  <1>1. /\ at[k] = "settle" /\ pending[k] = <<>>
        /\ message' = [message EXCEPT ![h] = "acked"]
        /\ batch' = [batch EXCEPT ![k] = t]
        /\ at' = [at EXCEPT ![k] = IF Len(batch[k]) > 1 THEN "turn" ELSE "idle"]
        /\ pending' = [pending EXCEPT ![k] = <<>>]
        /\ UNCHANGED <<request, tries, jobs>>
    BY DEF AckMessage, Settled, ingress
  <1>2. /\ h \in Deliveries /\ t \in Seq(Deliveries) /\ ToSet(batch[k]) = ToSet(t) \cup {h}
        /\ h \notin ToSet(t) /\ (t = <<>> <=> ~ Len(batch[k]) > 1)
        /\ \A i, j \in 1..Len(t) : t[i] = t[j] => i = j
    <2>1. batch[k] \in Seq(Deliveries) /\ batch[k] # <<>>
      BY <1>1 DEF QueueTypes, BatchInv
    <2>2. \A i, j \in 1..Len(batch[k]) : batch[k][i] = batch[k][j] => i = j
      BY DEF BatchInv
    <2> QED BY <2>1, <2>2, ToSetOfTail
  <1> HIDE DEF h, t
  <1>3. /\ message'[h] = "acked" /\ message[h] = "taken"
        /\ message' \in [Deliveries -> Messages]
        /\ \A d \in Deliveries \ {h} : message'[d] = message[d]
    BY <1>1, <1>2 DEF QueueTypes, Messages, BatchInv
  <1>4. /\ batch'[k] = t /\ batch' \in [Consumers -> Seq(Deliveries)]
        /\ \A l \in Consumers \ {k} : batch'[l] = batch[l]
    BY <1>1, <1>2 DEF QueueTypes
  <1>5. /\ at' \in [Consumers -> Places] /\ (at'[k] = "idle" <=> t = <<>>) /\ at'[k] # "broken"
        /\ \A l \in Consumers \ {k} : at'[l] = at[l]
    BY <1>1, <1>2 DEF QueueTypes, Places
  <1>6. /\ pending' \in [Consumers -> Seq(DOMAIN jobs)]
        /\ \A l \in Consumers \ {k} : pending'[l] = pending[l]
    BY <1>1, EmptySeq DEF QueueTypes
  <1>7. \A l \in Consumers \ {k} : h \notin ToSet(batch[l])
    BY <1>2 DEF BatchInv
  <1>8. \A l \in Consumers : ToSet(batch'[l]) = ToSet(batch[l]) \ {h}
    BY <1>2, <1>4, <1>7
  <1>9. QueueTypes'
    BY <1>1, <1>3, <1>4, <1>5, <1>6 DEF QueueTypes
  <1>10. MessageInv'
    BY <1>1, <1>3, <1>8 DEF MessageInv
  <1>11. BatchInv'
    <2>1. ASSUME NEW l \in Consumers, NEW d \in ToSet(batch'[l]) PROVE message'[d] = "taken"
      <3>1. d \in ToSet(batch[l]) /\ d # h
        BY <1>8, <2>1
      <3>2. d \in Deliveries /\ message[d] = "taken"
        BY <3>1, QueueFacts DEF BatchInv
      <3> QED BY <1>3, <3>1, <3>2
    <2>2. \A l \in Consumers : \A m \in Consumers \ {l} :
              ToSet(batch'[l]) \cap ToSet(batch'[m]) = {}
      BY <1>8 DEF BatchInv
    <2>3. ASSUME NEW l \in Consumers
          PROVE  /\ at'[l] = "idle" <=> batch'[l] = <<>>
                 /\ \A i, j \in 1..Len(batch'[l]) : batch'[l][i] = batch'[l][j] => i = j
      BY <1>2, <1>4, <1>5 DEF BatchInv
    <2> QED BY <2>1, <2>2, <2>3 DEF BatchInv
  <1>12. JobInv'
    <2>1. ASSUME NEW j \in DOMAIN jobs
          PROVE  /\ message'[jobs[j].of] = "acked" /\ Current(j) => jobs[j].state = "fulfilled"
                 /\ \A l \in Consumers : jobs[j].of \in ToSet(batch'[l]) /\ Current(j) =>
                        /\ jobs[j].of = Head(batch'[l])
                        /\ \/ jobs[j].state = "fulfilled"
                           \/ at'[l] = "broken"
                           \/ j \in ToSet(pending'[l])
      <3>1. jobs[j].of \in Deliveries
        BY QueueFacts DEF Promises
      <3>2. CASE jobs[j].of = h
        <4>1. Current(j) => jobs[j].state = "fulfilled"
          BY <1>1, <1>2, <3>2, ToSetOfEmpty DEF JobInv
        <4> QED BY <1>8, <3>2, <4>1
      <3>3. CASE jobs[j].of # h
        <4>1. \A l \in Consumers : jobs[j].of \in ToSet(batch'[l]) /\ Current(j) => l # k
          BY <1>2, <1>8, <3>3 DEF JobInv, h
        <4> QED BY <1>3, <1>4, <1>5, <1>6, <3>1, <3>3, <4>1 DEF JobInv
      <3> QED BY <3>2, <3>3
    <2>2. \A j \in DOMAIN jobs : Current(j)' <=> Current(j)
      BY <1>1 DEF Current
    <2> QED BY <1>1, <2>1, <2>2 DEF JobInv
  <1> QED BY <1>9, <1>10, <1>11, <1>12

\* A consumer that fails gives its whole batch back, whatever becomes of the
\* promises of the run it breaks off.
LEMMA AbandonKeeps ==
    ASSUME QueueInv, NEW k \in Consumers, at[k] # "idle", Abandon(k),
           BatchFails(k) \/ ConsumerDies(k)
    PROVE  QueueInv'
  <1> USE DEF QueueInv
  <1> DEFINE B == ToSet(batch[k])
  <1>1. /\ message' = [d \in Deliveries |->
                IF d \notin B THEN message[d]
                ELSE IF tries[d] < MaxTries THEN "queued" ELSE "dead"]
        /\ batch' = [batch EXCEPT ![k] = <<>>]
        /\ at' = [at EXCEPT ![k] = "idle"]
        /\ pending' = [pending EXCEPT ![k] = <<>>]
        /\ UNCHANGED <<request, tries>>
    BY DEF Abandon, GivenBack, ingress
  <1>2. B \subseteq Deliveries /\ \A d \in B : message[d] = "taken"
    BY QueueFacts DEF BatchInv
  <1>3. \A l \in Consumers \ {k} : ToSet(batch[l]) \cap B = {}
    BY DEF BatchInv
  <1> HIDE DEF B
  <1>4. /\ message' \in [Deliveries -> Messages]
        /\ \A d \in B : message'[d] \in {"queued", "dead"}
        /\ \A d \in B : message'[d] = "queued" => tries[d] < MaxTries
        /\ \A d \in Deliveries \ B : message'[d] = message[d]
    BY <1>1, <1>2 DEF QueueTypes, Messages
  <1>5. /\ batch' \in [Consumers -> Seq(Deliveries)] /\ batch'[k] = <<>>
        /\ \A l \in Consumers \ {k} : batch'[l] = batch[l]
    BY <1>1, EmptySeq DEF QueueTypes
  <1>6. /\ at' \in [Consumers -> Places] /\ at'[k] = "idle"
        /\ \A l \in Consumers \ {k} : at'[l] = at[l]
    BY <1>1 DEF QueueTypes, Places
  <1>7. ToSet(batch'[k]) = {}
    BY <1>5, ToSetOfEmpty
  <1>8. /\ jobs' \in Seq(Promises) /\ DOMAIN jobs' = DOMAIN jobs
        /\ \A j \in DOMAIN jobs :
              /\ jobs'[j].of = jobs[j].of /\ jobs'[j].try = jobs[j].try
              /\ jobs'[j].state = jobs[j].state
                    \/ (jobs[j].state = "running" /\ jobs[j].of \in B)
    <2>1. CASE BatchFails(k)
      BY <2>1 DEF BatchFails, QueueTypes
    <2>2. CASE ConsumerDies(k)
      <3>1. jobs' = [j \in DOMAIN jobs |->
                IF InRun(k, j) /\ jobs[j].state = "running"
                  THEN [jobs[j] EXCEPT !.state = "rejected"] ELSE jobs[j]]
        BY <2>2 DEF ConsumerDies
      <3>2. DOMAIN jobs = 1..Len(jobs) /\ Len(jobs) \in Nat
            /\ \A j \in DOMAIN jobs : jobs[j] \in Promises
        BY QueueFacts
      <3>3. ASSUME NEW j \in DOMAIN jobs
            PROVE  /\ jobs'[j] \in Promises
                   /\ jobs'[j].of = jobs[j].of /\ jobs'[j].try = jobs[j].try
                   /\ jobs'[j].state = jobs[j].state
                        \/ (jobs[j].state = "running" /\ jobs[j].of \in B)
        <4>1. jobs[j] \in Promises
          BY <3>2
        <4>2. CASE InRun(k, j) /\ jobs[j].state = "running"
          <5>1. jobs'[j] = [jobs[j] EXCEPT !.state = "rejected"]
            BY <3>1, <4>2
          <5>2. jobs[j].of \in B
            BY <4>2, QueueFacts DEF InRun, B
          <5> QED BY <4>1, <4>2, <5>1, <5>2 DEF Promises
        <4>3. CASE ~ (InRun(k, j) /\ jobs[j].state = "running")
          BY <3>1, <4>1, <4>3
        <4> QED BY <4>2, <4>3
      <3>4. jobs' \in [1..Len(jobs) -> Promises]
        BY <3>1, <3>2, <3>3
      <3> QED BY <3>1, <3>2, <3>3, <3>4, SeqDef
    <2> QED BY <2>1, <2>2
  <1>9. QueueTypes'
    <2>1. pending' \in [Consumers -> Seq(DOMAIN jobs')]
      BY <1>1, <1>8, EmptySeq DEF QueueTypes
    <2> QED BY <1>1, <1>4, <1>5, <1>6, <1>8, <2>1 DEF QueueTypes
  <1>10. MessageInv'
    <2>1. ASSUME NEW d \in Deliveries, d \in B
          PROVE  /\ request'[d] \in {"enqueued", "unsent"}
                 /\ message'[d] \in {"queued", "dead"}
                 /\ message'[d] = "queued" => tries'[d] < MaxTries
      <3>1. request[d] \in {"enqueued", "unsent"}
        BY <1>2, <2>1 DEF MessageInv
      <3> QED BY <1>1, <1>4, <2>1, <3>1
    <2>2. ASSUME NEW d \in Deliveries, d \notin B
          PROVE  /\ message'[d] = message[d] /\ request'[d] = request[d] /\ tries'[d] = tries[d]
                 /\ \A l \in Consumers : d \in ToSet(batch[l]) => d \in ToSet(batch'[l])
      <3>1. d \notin ToSet(batch[k])
        BY <2>2 DEF B
      <3> QED BY <1>1, <1>4, <1>5, <2>2, <3>1
    <2> QED BY <2>1, <2>2 DEF MessageInv
  <1>11. BatchInv'
    <2>1. ASSUME NEW l \in Consumers, NEW d \in ToSet(batch'[l]) PROVE message'[d] = "taken"
      <3>1. l # k
        BY <1>7, <2>1
      <3>2. d \in ToSet(batch[l]) /\ d \in Deliveries /\ d \notin B
        BY <1>3, <1>5, <2>1, <3>1, QueueFacts
      <3> QED BY <1>4, <3>2 DEF BatchInv
    <2>2. ASSUME NEW l \in Consumers, NEW m \in Consumers \ {l}
          PROVE  ToSet(batch'[l]) \cap ToSet(batch'[m]) = {}
      BY <1>5, <1>7 DEF BatchInv
    <2>3. ASSUME NEW l \in Consumers
          PROVE  /\ at'[l] = "idle" <=> batch'[l] = <<>>
                 /\ \A i, j \in 1..Len(batch'[l]) : batch'[l][i] = batch'[l][j] => i = j
      <3>1. CASE l = k
        BY <1>5, <1>6, <3>1, EmptySeq
      <3>2. CASE l # k
        BY <1>5, <1>6, <3>2 DEF BatchInv
      <3> QED BY <3>1, <3>2
    <2> QED BY <2>1, <2>2, <2>3 DEF BatchInv
  <1>12. JobInv'
    <2>1. ASSUME NEW j \in DOMAIN jobs
          PROVE  /\ jobs'[j].try <= tries'[jobs'[j].of]
                 /\ message'[jobs'[j].of] = "acked" /\ Current(j)' => jobs'[j].state = "fulfilled"
                 /\ \A l \in Consumers : jobs'[j].of \in ToSet(batch'[l]) /\ Current(j)' =>
                        /\ jobs'[j].of = Head(batch'[l])
                        /\ \/ jobs'[j].state = "fulfilled"
                           \/ at'[l] = "broken"
                           \/ j \in ToSet(pending'[l])
      <3>1. /\ jobs[j].of \in Deliveries /\ (Current(j)' <=> Current(j))
            /\ jobs[j].try <= tries[jobs[j].of]
        BY <1>1, <1>8, QueueFacts DEF Promises, Current, JobInv
      <3>2. CASE jobs[j].of \in B
        <4>1. message'[jobs'[j].of] # "acked"
          BY <1>4, <1>8, <3>2
        <4>2. \A l \in Consumers : jobs'[j].of \notin ToSet(batch'[l])
          BY <1>3, <1>5, <1>7, <1>8, <3>2
        <4> QED BY <1>1, <1>8, <3>1, <4>1, <4>2
      <3>3. CASE jobs[j].of \notin B
        <4>1. jobs'[j].state = jobs[j].state /\ message'[jobs'[j].of] = message[jobs[j].of]
          BY <1>4, <1>8, <3>1, <3>3
        <4>2. ASSUME NEW l \in Consumers, jobs'[j].of \in ToSet(batch'[l])
              PROVE  /\ l # k /\ batch'[l] = batch[l] /\ at'[l] = at[l]
                     /\ pending'[l] = pending[l]
          <5>1. l # k
            BY <1>7, <4>2
          <5> QED BY <1>1, <1>5, <1>6, <5>1 DEF QueueTypes
        <4>3. message'[jobs'[j].of] = "acked" /\ Current(j)' => jobs'[j].state = "fulfilled"
          BY <3>1, <4>1 DEF JobInv
        <4>4. ASSUME NEW l \in Consumers, jobs'[j].of \in ToSet(batch'[l]), Current(j)'
              PROVE  /\ jobs'[j].of = Head(batch'[l])
                     /\ \/ jobs'[j].state = "fulfilled"
                        \/ at'[l] = "broken"
                        \/ j \in ToSet(pending'[l])
          BY <1>8, <3>1, <4>1, <4>2, <4>4 DEF JobInv
        <4> QED BY <1>1, <1>8, <3>1, <4>3, <4>4
      <3> QED BY <3>2, <3>3
    <2> QED BY <1>8, <2>1 DEF JobInv
  <1> QED BY <1>9, <1>10, <1>11, <1>12

-----------------------------------------------------------------------------
(* Theorems *)

LEMMA QueueInitOK == Init => QueueInv
  <1> SUFFICES ASSUME Init PROVE QueueInv
    OBVIOUS
  <1>1. jobs = <<>> /\ DOMAIN jobs = {}
    BY DEF Init
  <1>2. QueueTypes
    BY ConstantsAssumption, EmptySeq DEF Init, QueueTypes, Messages, Places
  <1>3. MessageInv
    BY DEF Init, MessageInv
  <1>4. BatchInv
    <2>1. ToSet(<<>>) = {} /\ Len(<<>>) = 0
      BY ToSetOfEmpty, EmptySeq
    <2> QED BY <2>1 DEF Init, BatchInv
  <1>5. JobInv
    BY <1>1 DEF JobInv
  <1> QED BY <1>2, <1>3, <1>4, <1>5 DEF QueueInv

LEMMA StepKeeps ==
    ASSUME IngressInv, QueueInv, [Next]_vars
    PROVE  IngressInv' /\ QueueInv'
  <1>1. ASSUME UNCHANGED ingress PROVE IngressInv'
    BY <1>1 DEF ingress, IngressInv, IngressTypes, KeyInv
  <1>2. ASSUME NEW d \in Deliveries, Ingress(d) PROVE IngressInv' /\ QueueInv'
    BY <1>2, ReceiveKeeps, CheckKeeps, MarkAndSendKeep, IngressKeepsQueue DEF Ingress
  <1>3. ASSUME NEW e \in Events, Spread(e) PROVE IngressInv' /\ QueueInv'
    <2>1. UNCHANGED <<message, tries, consumer, jobs>> /\ request' = request
      BY <1>3 DEF Spread
    <2> QED BY <1>3, <2>1, SpreadKeeps, QueueFrame
  <1>4. ASSUME NEW k \in Consumers, Consume(k) \/ ConsumerDies(k) \/ TurnWaitsUntil(k)
        PROVE  IngressInv' /\ QueueInv'
    <2>1. UNCHANGED ingress
      BY <1>4 DEF Consume, TakeBatch, TurnEnds, SettleNext, AckMessage, BatchFails,
                  ConsumerDies, TurnWaitsUntil, Abandon
    <2>2. CASE TakeBatch(k)
      BY <1>1, <2>1, <2>2, TakeBatchKeeps
    <2>3. CASE TurnEnds(k)
      BY <1>1, <2>1, <2>3, TurnEndsKeeps
    <2>4. CASE SettleNext(k)
      BY <1>1, <2>1, <2>4, SettleNextKeeps
    <2>5. CASE AckMessage(k)
      BY <1>1, <2>1, <2>5, AckMessageKeeps
    <2>6. CASE BatchFails(k) \/ ConsumerDies(k)
      <3>1. at[k] # "idle" /\ Abandon(k)
        BY <2>6 DEF BatchFails, ConsumerDies
      <3> QED BY <1>1, <2>1, <2>6, <3>1, AbandonKeeps
    <2>7. CASE TurnWaitsUntil(k)
      BY <1>1, <2>1, <2>7, TurnWaitsUntilKeeps
    <2> QED BY <1>4, <2>2, <2>3, <2>4, <2>5, <2>6, <2>7 DEF Consume
  <1>5. ASSUME NEW j \in DOMAIN jobs, JobEnds(j) \/ JobWaitsUntil(j)
        PROVE  IngressInv' /\ QueueInv'
    <2>1. UNCHANGED ingress
      BY <1>5 DEF JobEnds, JobWaitsUntil
    <2> QED BY <1>1, <1>5, <2>1, JobEndsKeeps, JobWaitsUntilKeeps
  <1>6. CASE UNCHANGED vars
    <2>1. UNCHANGED ingress /\ UNCHANGED <<message, tries, consumer, jobs>> /\ request' = request
      BY <1>6 DEF vars, ingress, consumer
    <2> QED BY <1>1, <2>1, QueueFrame
  <1> QED BY <1>2, <1>3, <1>4, <1>5, <1>6 DEF Next

\* The inductive invariant of the pipeline: keys that were claimed are marked,
\* messages are held by one consumer, and the promises of a current run are
\* fulfilled, awaited, or those of a consumer that has given up.
THEOREM TurnQueueAlways == Spec => [](IngressInv /\ QueueInv)
  <1>1. Init => IngressInv /\ QueueInv
    BY IngressInitOK, QueueInitOK
  <1>2. IngressInv /\ QueueInv /\ [Next]_vars => (IngressInv /\ QueueInv)'
    BY StepKeeps
  <1> QED BY <1>1, <1>2, PTL DEF Spec

\* However many requests bring one event, it is put on the turn queue twice only
\* by requests of which one looked the key up while a mark of it was about to be
\* written or had not reached every look-up (SlackEventDedupGate.claim).
THEOREM NeverTwiceUnlessRaced == Spec => []TwiceOnlyIfRaced
  <1>1. IngressInv /\ QueueInv => TwiceOnlyIfRaced
    BY DEF IngressInv, KeyInv, QueueInv, MessageInv, TwiceOnlyIfRaced, Passed, Keyed
  <1> QED BY <1>1, TurnQueueAlways, PTL

\* Whatever dies or is delivered again, a message is acked only when every promise
\* its run handed to waitUntil was fulfilled (settleAll before msg.ack).
THEOREM AcksAreEarned == Spec => []AckMeansSettled
  <1>1. ASSUME IngressInv, QueueInv PROVE AckMeansSettled
    <2>1. ASSUME NEW d \in Deliveries
          PROVE  LET holders == {k \in Consumers : d \in ToSet(batch[k])}
                 IN  IF message[d] = "taken" THEN \E k \in Consumers : holders = {k}
                                             ELSE holders = {}
      <3>1. CASE message[d] = "taken"
        <4>1. PICK k \in Consumers : d \in ToSet(batch[k])
          BY <1>1, <3>1 DEF QueueInv, MessageInv
        <4>2. {l \in Consumers : d \in ToSet(batch[l])} = {k}
          BY <1>1, <4>1, QueueFacts
        <4> QED BY <3>1, <4>2
      <3>2. CASE message[d] # "taken"
        BY <1>1, <3>2 DEF QueueInv, BatchInv
      <3> QED BY <3>1, <3>2
    <2>2. TypeOK
      BY <1>1, <2>1 DEF TypeOK, IngressInv, IngressTypes, QueueInv, QueueTypes, Places
    <2> QED BY <1>1, <2>2 DEF AckMeansSettled, QueueInv, JobInv, Current
  <1> QED BY <1>1, TurnQueueAlways, PTL

-----------------------------------------------------------------------------
(* The durable object *)

TurnStates == {"new", "queued", "running", "settling", "done", "failed", "lost"}
JobStates == {"none", "pending", "fulfilled", "rejected", "lost"}
Unanswered == {"queued", "running", "settling"}

\* A call waits for the turns before it, and a job outlives its turn only if the
\* turn rejected.
ChainInv ==
    /\ chain \in Seq(TurnRequests)
    /\ turn \in [TurnRequests -> TurnStates]
    /\ job \in [TurnRequests -> JobStates]
    /\ \A i, j \in 1..Len(chain) : chain[i] = chain[j] => i = j
    /\ \A r \in TurnRequests :
        /\ turn[r] \in Unanswered <=> r \in ToSet(chain)
        /\ Running(r) => r = Head(chain)
        /\ job[r] = "pending" => Running(r) \/ turn[r] = "failed"

Waits == TriggerKeys \cup {Absent, NoKey}

\* Writes of a call on one continuation.
StoreWrites ==
    [put : {"record"}, val : Waits]
        \cup [put : {"session"}, val : BOOLEAN]
        \cup [put : {"indexed", "unindexed"}, val : TriggerKeys]

CallTypes ==
    /\ writes \in [Actors -> {NoCall} \cup [on : Conts, todo : Seq(StoreWrites) \ {<<>>}]]
    /\ record \in [Conts -> Waits]
    /\ listed \subseteq Conts
    /\ index \in [Conts -> SUBSET TriggerKeys]

\* A continuation stored with the wait old, in its session's list or not, and found
\* under keys, comes by the writes W to the wait w with all that belongs to it.
LeadsTo(old, inList, keys, W, w) ==
    /\ \A v \in W : v.put = "record" => v.val = w
    /\ old # w => [put |-> "record", val |-> w] \in W
    /\ \A v \in W : v.put = "session" => v.val = (w # Absent)
    /\ inList # (w # Absent) => [put |-> "session", val |-> (w # Absent)] \in W
    /\ \A k \in TriggerKeys :
        /\ k = w => /\ [put |-> "unindexed", val |-> k] \notin W
                    /\ k \notin keys => [put |-> "indexed", val |-> k] \in W
        /\ k # w => /\ [put |-> "indexed", val |-> k] \notin W
                    /\ k \in keys => [put |-> "unindexed", val |-> k] \in W

StoreInv ==
    \A c \in Conts \ cut :
        /\ InCall(c) = {} => LeadsTo(record[c], c \in listed, index[c], {}, record[c])
        /\ \A a \in InCall(c) :
              /\ InCall(c) = {a}
              /\ \E w \in Waits :
                    LeadsTo(record[c], c \in listed, index[c], ToSet(writes[a].todo), w)

AlarmInv ==
    /\ alarm \in Conts \cup {NoAlarm}
    /\ calls \in 0..MaxStoreCalls
    /\ cut \subseteq Conts
    /\ wanted \subseteq users /\ users \subseteq Conts
    /\ IsFiniteSet(users)
    /\ alarm \in wanted \cup {NoAlarm}
    /\ Cardinality(users) <= 1 => wanted \subseteq {alarm}

-----------------------------------------------------------------------------
(* The alarm *)

LEMMA AlarmInitOK == ExecInit => AlarmInv
  BY FS_EmptySet, ExecutorConstants DEF ExecInit, AlarmInv

\* Whoever has the scheduler to itself is the only user.
LEMMA OnlyUser ==
    ASSUME NEW U, IsFiniteSet(U), NEW c, Cardinality(U \cup {c}) <= 1
    PROVE  U \subseteq {c}
  <1>1. IsFiniteSet({c}) /\ Cardinality({c}) = 1 /\ IsFiniteSet(U \cup {c})
    BY FS_Singleton, FS_AddElement
  <1>2. Cardinality(U \cup {c}) \in Nat
    BY <1>1, FS_CardinalityType
  <1>3. SUFFICES ASSUME NEW d \in U, d # c PROVE FALSE
    OBVIOUS
  <1>4. Cardinality({c} \cup {d}) = Cardinality({c}) + 1 /\ IsFiniteSet({c} \cup {d})
    BY <1>1, <1>3, FS_AddElement
  <1>5. Cardinality({c} \cup {d}) <= Cardinality(U \cup {c})
    BY <1>1, <1>3, FS_Subset
  <1> QED BY <1>1, <1>2, <1>4, <1>5

LEMMA SchedulerKeeps ==
    ASSUME AlarmInv, NEW a \in Actors, NEW c \in Conts, ScheduleWake(a, c) \/ CancelAlarm(a, c)
    PROVE  AlarmInv'
  <1>1. /\ users' = users \cup {c} /\ calls' = calls + 1 /\ calls < MaxStoreCalls /\ cut' = cut
        /\ \/ alarm' = c /\ wanted' = wanted \cup {c}
           \/ alarm' = NoAlarm /\ wanted' = wanted \ {c}
    BY DEF ScheduleWake, CancelAlarm, SchedulerCall, AlarmDeleted
  <1>2. IsFiniteSet(users')
    BY <1>1, FS_AddElement DEF AlarmInv
  <1>3. Cardinality(users') <= 1 => wanted' \subseteq {alarm'}
    BY <1>1, OnlyUser DEF AlarmInv
  <1>4. calls' \in 0..MaxStoreCalls
    BY <1>1, ExecutorConstants DEF AlarmInv
  <1> QED BY <1>1, <1>2, <1>3, <1>4 DEF AlarmInv

LEMMA AlarmKeeps ==
    ASSUME AlarmInv, CallTypes, [ExecNext]_execVars
    PROVE  AlarmInv'
  <1>1. ASSUME UNCHANGED <<alarm, calls, wanted, users>>, cut' \subseteq Conts PROVE AlarmInv'
    BY <1>1 DEF AlarmInv
  <1>2. ASSUME NEW r \in TurnRequests, Enqueue(r) \/ WaitUntil(r) \/ Chained(r) PROVE AlarmInv'
    BY <1>1, <1>2 DEF AlarmInv, StoreUnchanged, Enqueue, WaitUntil, Chained, StartTurn,
         TurnFulfils, TurnRejects, SettleFails, SettleEnds, PromiseEnds
  <1>3. ASSUME NEW a \in Actors, NEW c \in Conts, PutRecord(a, c) \/ Delete(a, c)
        PROVE  AlarmInv'
    <2>1. /\ calls' = calls + 1 /\ calls < MaxStoreCalls
          /\ cut' \in {cut, cut \cup {c}}
          /\ UNCHANGED <<alarm, wanted, users>>
      BY <1>3 DEF PutRecord, Delete, BeginWrites
    <2>2. calls' \in 0..MaxStoreCalls
      BY <2>1, ExecutorConstants DEF AlarmInv
    <2> QED BY <2>1, <2>2 DEF AlarmInv
  <1>4. ASSUME NEW a \in Actors, Write(a) \/ WriteFails(a) PROVE AlarmInv'
    <2>1. writes[a] # NoCall /\ writes[a] \in {NoCall} \cup [on : Conts, todo : Seq(StoreWrites) \ {<<>>}]
      BY <1>4 DEF Write, WriteFails, CallTypes
    <2>2. writes[a].on \in Conts
      BY <2>1
    <2> QED BY <1>1, <1>4, <2>2 DEF Write, WriteFails, AlarmInv
  <1>5. CASE AlarmFires
    BY <1>5 DEF AlarmFires, AlarmInv
  <1>6. CASE Restart
    BY <1>1, <1>6 DEF Restart, AlarmInv
  <1>7. CASE UNCHANGED execVars
    BY <1>1, <1>7 DEF execVars, AlarmInv
  <1> QED BY <1>2, <1>3, <1>4, <1>5, <1>6, <1>7, SchedulerKeeps DEF ExecNext

-----------------------------------------------------------------------------
(* The chain *)

LEMMA ChainInitOK == ExecInit => ChainInv
  <1> SUFFICES ASSUME ExecInit PROVE ChainInv
    OBVIOUS
  <1>1. ToSet(<<>>) = {} /\ Len(<<>>) = 0 /\ <<>> \in Seq(TurnRequests)
    BY ToSetOfEmpty, EmptySeq
  <1> QED BY <1>1 DEF ExecInit, ChainInv, TurnStates, JobStates, Unanswered, Running

LEMMA EnqueueKeeps ==
    ASSUME ChainInv, NEW r \in TurnRequests, Enqueue(r)
    PROVE  ChainInv'
  <1>1. /\ turn[r] = "new" /\ turn' = [turn EXCEPT ![r] = "queued"]
        /\ chain' = Append(chain, r) /\ job' = job /\ chain \in Seq(TurnRequests)
    BY DEF Enqueue, ChainInv
  <1>2. r \notin ToSet(chain)
    BY <1>1 DEF ChainInv, Unanswered
  <1>3. /\ chain' \in Seq(TurnRequests) /\ Len(chain') = Len(chain) + 1 /\ chain'[Len(chain) + 1] = r
        /\ \A i \in 1..Len(chain) : chain'[i] = chain[i]
    BY <1>1, AppendProperties
  <1>4. /\ ToSet(chain') = ToSet(chain) \cup {r}
        /\ ToSet(chain) = {chain[i] : i \in 1..Len(chain)} /\ Len(chain) \in Nat
    BY <1>1, ToSetOfAppend, ToSetProperties
  <1>5. \A i, j \in 1..Len(chain') : chain'[i] = chain'[j] => i = j
    <2>1. \A i \in 1..Len(chain) : chain'[i] # r
      BY <1>2, <1>3, <1>4
    <2>2. 1..Len(chain') = (1..Len(chain)) \cup {Len(chain) + 1}
      BY <1>3, <1>4
    <2> QED BY <1>3, <2>1, <2>2 DEF ChainInv
  <1>6. chain # <<>> => Head(chain') = Head(chain)
    <2>1. ASSUME chain # <<>> PROVE 1 \in 1..Len(chain)
      BY <1>1, <2>1, EmptySeq
    <2>2. chain # <<>> => Head(chain) = chain[1] /\ Head(chain') = chain'[1]
      BY <1>1, <1>3, <1>4, <2>1, HeadTailProperties, EmptySeq
    <2> QED BY <1>3, <2>1, <2>2
  <1>7. turn' \in [TurnRequests -> TurnStates] /\ turn'[r] = "queued"
        /\ \A s \in TurnRequests \ {r} : turn'[s] = turn[s]
    BY <1>1 DEF ChainInv, TurnStates
  <1>8. ASSUME NEW s \in TurnRequests
        PROVE  /\ turn'[s] \in Unanswered <=> s \in ToSet(chain')
               /\ Running(s)' => s = Head(chain')
               /\ job'[s] = "pending" => Running(s)' \/ turn'[s] = "failed"
    <2>1. CASE s = r
      BY <1>1, <1>4, <1>7, <2>1 DEF ChainInv, Running, Unanswered
    <2>2. CASE s # r
      <3>1. Running(s) => chain # <<>>
        BY ToSetOfEmpty DEF ChainInv, Running, Unanswered
      <3> QED BY <1>1, <1>4, <1>6, <1>7, <2>2, <3>1 DEF ChainInv, Running
    <2> QED BY <2>1, <2>2
  <1> QED BY <1>1, <1>3, <1>5, <1>7, <1>8 DEF ChainInv

\* The request that runs is the first of the chain, and the only one to run.
LEMMA StartTurnKeeps ==
    ASSUME ChainInv, NEW r \in TurnRequests, StartTurn(r)
    PROVE  ChainInv'
  <1>1. /\ turn[r] = "queued" /\ r = Head(chain)
        /\ turn' = [turn EXCEPT ![r] = "running"] /\ UNCHANGED <<chain, job>>
    BY DEF StartTurn, Next1
  <1>2. turn' \in [TurnRequests -> TurnStates] /\ turn'[r] = "running"
        /\ \A s \in TurnRequests \ {r} : turn'[s] = turn[s]
    BY <1>1 DEF ChainInv, TurnStates
  <1> QED BY <1>1, <1>2 DEF ChainInv, Running, Unanswered

\* The turn goes on, or gets a job that it will await unless it rejects.
LEMMA TurnGoesOn ==
    ASSUME ChainInv, NEW r \in TurnRequests, WaitUntil(r) \/ TurnFulfils(r) \/ PromiseEnds(r)
    PROVE  ChainInv'
  <1>1. CASE WaitUntil(r)
    <2>1. /\ turn[r] = "running" /\ job' = [job EXCEPT ![r] = "pending"] /\ UNCHANGED <<chain, turn>>
      BY <1>1 DEF WaitUntil, Free
    <2> QED BY <2>1 DEF ChainInv, JobStates, Running
  <1>2. CASE TurnFulfils(r)
    <2>1. /\ turn[r] = "running" /\ turn' = [turn EXCEPT ![r] = "settling"]
          /\ UNCHANGED <<chain, job>>
      BY <1>2 DEF TurnFulfils, Free
    <2>2. turn' \in [TurnRequests -> TurnStates] /\ turn'[r] = "settling"
          /\ \A s \in TurnRequests \ {r} : turn'[s] = turn[s]
      BY <2>1 DEF ChainInv, TurnStates
    <2> QED BY <2>1, <2>2 DEF ChainInv, Running, Unanswered
  <1>3. CASE PromiseEnds(r)
    <2>1. PICK o \in {"fulfilled", "rejected"} : job' = [job EXCEPT ![r] = o]
      BY <1>3 DEF PromiseEnds
    <2>2. UNCHANGED <<chain, turn>>
      BY <1>3 DEF PromiseEnds
    <2> QED BY <2>1, <2>2 DEF ChainInv, JobStates, Running
  <1> QED BY <1>1, <1>2, <1>3

\* The first of the chain is answered; its job is over, or it has rejected.
LEMMA AnswerKeepsChain ==
    ASSUME ChainInv, NEW r \in TurnRequests, NEW t \in {"done", "failed"},
           Running(r), chain' = Tail(chain), turn' = [turn EXCEPT ![r] = t], job' = job,
           t = "failed" \/ job[r] # "pending"
    PROVE  ChainInv'
  <1>1. r = Head(chain) /\ chain \in Seq(TurnRequests) /\ chain # <<>>
    BY ToSetOfEmpty DEF ChainInv, Running, Unanswered
  <1>2. \A i, j \in 1..Len(chain) : chain[i] = chain[j] => i = j
    BY DEF ChainInv
  <1>3. /\ ToSet(chain) = ToSet(chain') \cup {r} /\ r \notin ToSet(chain')
        /\ \A i, j \in 1..Len(chain') : chain'[i] = chain'[j] => i = j
        /\ chain' \in Seq(TurnRequests)
    BY <1>1, <1>2, ToSetOfTail
  <1>4. turn' \in [TurnRequests -> TurnStates] /\ turn'[r] = t
        /\ \A s \in TurnRequests \ {r} : turn'[s] = turn[s]
    BY DEF ChainInv, TurnStates
  <1>5. \A s \in TurnRequests \ {r} : ~ Running(s)
    BY <1>1 DEF ChainInv
  <1>6. ASSUME NEW s \in TurnRequests
        PROVE  /\ turn'[s] \in Unanswered <=> s \in ToSet(chain')
               /\ ~ Running(s)'
               /\ job'[s] = "pending" => turn'[s] = "failed"
    <2>1. CASE s = r
      BY <1>3, <1>4, <2>1 DEF Running, Unanswered
    <2>2. CASE s # r
      BY <1>3, <1>4, <1>5, <2>2 DEF ChainInv, Running
    <2> QED BY <2>1, <2>2
  <1> QED BY <1>3, <1>4, <1>6 DEF ChainInv

LEMMA RestartEmptiesChain ==
    ASSUME ChainInv, Restart
    PROVE  ChainInv'
  <1>1. /\ turn' = [r \in TurnRequests |-> IF turn[r] \in Unanswered THEN "lost" ELSE turn[r]]
        /\ job' = [r \in TurnRequests |-> IF job[r] = "pending" THEN "lost" ELSE job[r]]
        /\ chain' = <<>>
    BY DEF Restart, Unanswered
  <1>2. ToSet(chain') = {} /\ Len(chain') = 0 /\ chain' \in Seq(TurnRequests)
    BY <1>1, ToSetOfEmpty, EmptySeq
  <1>3. /\ turn' \in [TurnRequests -> TurnStates] /\ job' \in [TurnRequests -> JobStates]
        /\ \A r \in TurnRequests : turn'[r] \notin Unanswered /\ job'[r] # "pending"
    BY <1>1 DEF ChainInv, TurnStates, JobStates, Unanswered
  <1> QED BY <1>2, <1>3 DEF ChainInv, Running, Unanswered

LEMMA ChainKeeps ==
    ASSUME ChainInv, [ExecNext]_execVars
    PROVE  ChainInv'
  <1>1. ASSUME UNCHANGED <<chain, turn, job>> PROVE ChainInv'
    BY <1>1 DEF ChainInv, Running
  <1>2. ASSUME NEW r \in TurnRequests, Enqueue(r) \/ WaitUntil(r) \/ Chained(r) PROVE ChainInv'
    <2>1. CASE TurnRejects(r)
      BY <2>1, AnswerKeepsChain DEF TurnRejects, Reject, Free, Running
    <2>2. CASE SettleFails(r)
      BY <2>2, AnswerKeepsChain DEF SettleFails, Reject, Running
    <2>3. CASE SettleEnds(r)
      BY <2>3, AnswerKeepsChain DEF SettleEnds, PromiseSettled, Running
    <2> QED BY <1>2, <2>1, <2>2, <2>3, EnqueueKeeps, StartTurnKeeps, TurnGoesOn DEF Chained
  <1>3. ASSUME NEW a \in Actors, NEW c \in Conts,
               PutRecord(a, c) \/ Delete(a, c) \/ ScheduleWake(a, c) \/ CancelAlarm(a, c)
        PROVE  ChainInv'
    BY <1>1, <1>3 DEF PutRecord, Delete, BeginWrites, ScheduleWake, CancelAlarm, SchedulerCall
  <1>4. ASSUME NEW a \in Actors, Write(a) \/ WriteFails(a) PROVE ChainInv'
    BY <1>1, <1>4 DEF Write, WriteFails
  <1>5. CASE AlarmFires \/ UNCHANGED execVars
    BY <1>1, <1>5 DEF AlarmFires, execVars
  <1> QED BY <1>2, <1>3, <1>4, <1>5, RestartEmptiesChain DEF ExecNext

-----------------------------------------------------------------------------
(* The store *)

LEMMA WritesOfKeys ==
    ASSUME NEW K \in SUBSET TriggerKeys, NEW x, K \subseteq {x}, NEW p \in {"indexed", "unindexed"}
    PROVE  LET q == SetToSeq({[put |-> p, val |-> k] : k \in K})
           IN  q \in Seq(StoreWrites) /\ ToSet(q) = {[put |-> p, val |-> k] : k \in K}
  <1> DEFINE W == {[put |-> p, val |-> k] : k \in K}
  <1>1. IsFiniteSet(W)
    <2>1. IsFiniteSet({[put |-> p, val |-> x]}) /\ W \subseteq {[put |-> p, val |-> x]}
      BY FS_Singleton
    <2> QED BY <2>1, FS_Subset
  <1>2. W \subseteq StoreWrites
    BY DEF StoreWrites
  <1> HIDE DEF W
  <1>3. SetToSeq(W) \in Seq(StoreWrites) /\ ToSet(SetToSeq(W)) = W
    BY <1>1, <1>2, SetToSeqProperties, SeqMonotonic
  <1> QED BY <1>3 DEF W

LEMMA AtMostOneKey ==
    ASSUME NEW w \in Waits
    PROVE  KeysOf(w) \subseteq TriggerKeys /\ KeysOf(w) \subseteq {w}
  BY DEF KeysOf, Waits

LEMMA PutLeads ==
    ASSUME NEW old \in Waits, NEW keys \in SUBSET TriggerKeys, NEW inList \in BOOLEAN,
           NEW w \in TriggerKeys \cup {NoKey}
    PROVE  /\ PutWrites(old, w) \in Seq(StoreWrites) \ {<<>>}
           /\ LeadsTo(old, inList, keys, {}, old) => LeadsTo(old, inList, keys, ToSet(PutWrites(old, w)), w)
  <1> DEFINE stale == KeysOf(old) \ KeysOf(w)
             first == <<[put |-> "record", val |-> w], [put |-> "session", val |-> TRUE]>>
             U == {[put |-> "unindexed", val |-> k] : k \in stale}
             I == {[put |-> "indexed", val |-> k] : k \in KeysOf(w)}
  <1>1. w \in Waits /\ w # Absent
    BY ExecutorConstants DEF Waits, Absent, NoKey
  <1>2. /\ stale \subseteq TriggerKeys /\ stale \subseteq {old}
        /\ KeysOf(w) \subseteq TriggerKeys /\ KeysOf(w) \subseteq {w}
    BY <1>1, AtMostOneKey
  <1>3. /\ SetToSeq(U) \in Seq(StoreWrites) /\ ToSet(SetToSeq(U)) = U
        /\ SetToSeq(I) \in Seq(StoreWrites) /\ ToSet(SetToSeq(I)) = I
    BY <1>2, WritesOfKeys
  <1>4. first \in Seq(StoreWrites)
        /\ ToSet(first) = {[put |-> "record", val |-> w], [put |-> "session", val |-> TRUE]}
    <2>1. [put |-> "record", val |-> w] \in StoreWrites
          /\ [put |-> "session", val |-> TRUE] \in StoreWrites
      BY <1>1 DEF StoreWrites
    <2> DEFINE x == [put |-> "record", val |-> w]
               y == [put |-> "session", val |-> TRUE]
    <2> HIDE DEF x, y
    <2>2. <<x, y>> \in Seq(StoreWrites) /\ Len(<<x, y>>) = 2 /\ <<x, y>>[1] = x /\ <<x, y>>[2] = y
      BY <2>1 DEF x, y
    <2>3. ToSet(<<x, y>>) = {<<x, y>>[i] : i \in 1..2}
      BY <2>2, ToSetProperties
    <2>4. ToSet(<<x, y>>) = {x, y}
      BY <2>2, <2>3
    <2> QED BY <2>2, <2>4 DEF x, y
  <1>5. PutWrites(old, w) = (first \o SetToSeq(U)) \o SetToSeq(I)
    BY DEF PutWrites
  <1> HIDE DEF first, U, I
  <1>6. /\ PutWrites(old, w) \in Seq(StoreWrites)
        /\ ToSet(PutWrites(old, w)) = ToSet(first) \cup U \cup I
    <2> DEFINE u == SetToSeq(U)
               i == SetToSeq(I)
    <2>1. u \in Seq(StoreWrites) /\ i \in Seq(StoreWrites) /\ ToSet(u) = U /\ ToSet(i) = I
          /\ PutWrites(old, w) = (first \o u) \o i
      BY <1>3, <1>5
    <2> HIDE DEF u, i
    <2> QED BY <1>4, <2>1, ToSetOfConcats
  <1>7. ToSet(PutWrites(old, w)) =
            {[put |-> "record", val |-> w], [put |-> "session", val |-> TRUE]} \cup U \cup I
    BY <1>4, <1>6
  <1>8. PutWrites(old, w) # <<>>
    BY <1>7, ToSetOfEmpty
  <1>9. \A k \in TriggerKeys :
            /\ [put |-> "unindexed", val |-> k] \in U <=> k \in stale
            /\ [put |-> "indexed", val |-> k] \in I <=> k = w
    BY ExecutorConstants DEF U, I, KeysOf, Absent, NoKey
  <1>10. (\A v \in U : v.put = "unindexed") /\ (\A v \in I : v.put = "indexed")
    BY DEF U, I
  <1>11. ASSUME LeadsTo(old, inList, keys, {}, old)
         PROVE  \A k \in TriggerKeys : (k \in keys <=> k = old) /\ (k \in stale <=> k = old /\ k # w)
    BY <1>11, ExecutorConstants DEF LeadsTo, KeysOf, Absent, NoKey
  <1> HIDE DEF stale
  <1>12. ASSUME LeadsTo(old, inList, keys, {}, old)
         PROVE  LeadsTo(old, inList, keys, ToSet(PutWrites(old, w)), w)
    <2> DEFINE W == ToSet(PutWrites(old, w))
    <2>1. /\ [put |-> "record", val |-> w] \in W /\ [put |-> "session", val |-> TRUE] \in W
          /\ \A v \in W : (v.put = "record" => v.val = w) /\ (v.put = "session" => v.val = TRUE)
      BY <1>7, <1>10
    <2>2. ASSUME NEW k \in TriggerKeys
          PROVE  /\ [put |-> "unindexed", val |-> k] \in W <=> k \in stale
                 /\ [put |-> "indexed", val |-> k] \in W <=> k = w
      <3>1. [put |-> "unindexed", val |-> k] \in W <=> [put |-> "unindexed", val |-> k] \in U
        BY <1>7, <1>10
      <3>2. [put |-> "indexed", val |-> k] \in W <=> [put |-> "indexed", val |-> k] \in I
        BY <1>7, <1>10
      <3> QED BY <1>9, <3>1, <3>2
    <2> HIDE DEF W
    <2>3. LeadsTo(old, inList, keys, W, w)
      BY <1>1, <1>11, <1>12, <2>1, <2>2 DEF LeadsTo
    <2> QED BY <2>3 DEF W
  <1> QED BY <1>6, <1>8, <1>12

LEMMA DeleteLeads ==
    ASSUME NEW old \in Waits, NEW keys \in SUBSET TriggerKeys, NEW inList \in BOOLEAN
    PROVE  /\ DeleteWrites(old) \in Seq(StoreWrites) \ {<<>>}
           /\ LeadsTo(old, inList, keys, {}, old) => LeadsTo(old, inList, keys, ToSet(DeleteWrites(old)), Absent)
  <1> DEFINE x == [put |-> "record", val |-> Absent]
             y == [put |-> "session", val |-> FALSE]
             mid == IF old = Absent THEN <<>> ELSE <<y>>
             U == {[put |-> "unindexed", val |-> k] : k \in KeysOf(old)}
  <1>1. SetToSeq(U) \in Seq(StoreWrites) /\ ToSet(SetToSeq(U)) = U
    BY AtMostOneKey, WritesOfKeys
  <1>2. x \in StoreWrites /\ y \in StoreWrites
    BY DEF StoreWrites, Waits
  <1>3. DeleteWrites(old) = (<<x>> \o mid) \o SetToSeq(U)
    BY DEF DeleteWrites
  <1>4. \A v \in U : v.put = "unindexed"
    OBVIOUS
  <1>5. \A k \in TriggerKeys : [put |-> "unindexed", val |-> k] \in U <=> k = old
    BY ExecutorConstants DEF KeysOf, Absent, NoKey
  <1>6. \A v \in {x, y} : v.put \in {"record", "session"} /\ (v.put = "session" => v.val = FALSE)
                            /\ (v.put = "record" => v.val = Absent)
    OBVIOUS
  <1> HIDE DEF U, x, y
  <1>7. <<x>> \in Seq(StoreWrites) /\ ToSet(<<x>>) = {x}
    BY <1>2, ToSetOfOne
  <1>8. mid \in Seq(StoreWrites) /\ ToSet(mid) = IF old = Absent THEN {} ELSE {y}
    <2>1. <<y>> \in Seq(StoreWrites) /\ ToSet(<<y>>) = {y}
      BY <1>2, ToSetOfOne
    <2> QED BY <2>1, ToSetOfEmpty, EmptySeq
  <1> HIDE DEF mid
  <1>9. /\ DeleteWrites(old) \in Seq(StoreWrites)
        /\ ToSet(DeleteWrites(old)) = {x} \cup ToSet(mid) \cup U
    <2> DEFINE f == <<x>>
               u == SetToSeq(U)
    <2>1. f \in Seq(StoreWrites) /\ u \in Seq(StoreWrites) /\ ToSet(f) = {x} /\ ToSet(u) = U
          /\ DeleteWrites(old) = (f \o mid) \o u
      BY <1>1, <1>3, <1>7
    <2> HIDE DEF f, u
    <2> QED BY <1>8, <2>1, ToSetOfConcats
  <1>10. ToSet(DeleteWrites(old)) = {x} \cup (IF old = Absent THEN {} ELSE {y}) \cup U
    BY <1>8, <1>9
  <1>11. DeleteWrites(old) # <<>>
    BY <1>9, ToSetOfEmpty
  <1> DEFINE W == ToSet(DeleteWrites(old))
  <1>12. /\ x \in W /\ (old # Absent => y \in W)
         /\ \A v \in W : (v.put = "record" => v.val = Absent) /\ (v.put = "session" => v.val = FALSE)
                         /\ v.put # "indexed"
    BY <1>4, <1>6, <1>10
  <1>13. \A k \in TriggerKeys : [put |-> "unindexed", val |-> k] \in W <=> k = old
    <2>1. \A k \in TriggerKeys : [put |-> "unindexed", val |-> k] \notin {x, y}
      BY <1>6
    <2> QED BY <1>5, <1>10, <2>1
  <1> HIDE DEF W
  <1>14. ASSUME LeadsTo(old, inList, keys, {}, old) PROVE LeadsTo(old, inList, keys, W, Absent)
    <2>1. \A k \in TriggerKeys : k # Absent /\ (k \in keys => k = old)
      BY <1>14, ExecutorConstants DEF LeadsTo, Absent
    <2>2. inList => old # Absent
      BY <1>14 DEF LeadsTo
    <2>3. [put |-> "record", val |-> Absent] \in W
          /\ (inList => [put |-> "session", val |-> FALSE] \in W)
      BY <1>12, <2>2 DEF x, y
    <2> QED BY <1>12, <1>13, <2>1, <2>3 DEF LeadsTo
  <1> QED BY <1>9, <1>11, <1>14 DEF W

\* One write more has been made, one less is left.
LEMMA WriteLeads ==
    ASSUME NEW old \in Waits, NEW keys \in SUBSET TriggerKeys, NEW inList \in BOOLEAN,
           NEW W, NEW R, NEW v \in StoreWrites, W = R \cup {v},
           NEW w \in Waits, LeadsTo(old, inList, keys, W, w)
    PROVE  LeadsTo(IF v.put = "record" THEN v.val ELSE old,
                   IF v.put = "session" THEN v.val ELSE inList,
                   CASE v.put = "indexed" -> keys \cup {v.val}
                     [] v.put = "unindexed" -> keys \ {v.val}
                     [] OTHER -> keys,
                   R, w)
  <1>1. v.put \in {"record", "session", "indexed", "unindexed"}
    BY DEF StoreWrites
  <1>2. \A u \in R : u \in W
    OBVIOUS
  <1>3. CASE v.put = "record"
    <2>1. v.val = w
      BY <1>3 DEF LeadsTo
    <2>2. /\ \A b \in BOOLEAN : [put |-> "session", val |-> b] # v
          /\ \A k \in TriggerKeys : [put |-> "indexed", val |-> k] # v
                                    /\ [put |-> "unindexed", val |-> k] # v
      BY <1>3
    <2> QED BY <1>2, <1>3, <2>1, <2>2 DEF LeadsTo
  <1>4. CASE v.put = "session"
    <2>1. v.val = (w # Absent)
      BY <1>4 DEF LeadsTo
    <2>2. /\ [put |-> "record", val |-> w] # v
          /\ \A k \in TriggerKeys : [put |-> "indexed", val |-> k] # v
                                    /\ [put |-> "unindexed", val |-> k] # v
      BY <1>4
    <2> QED BY <1>2, <1>4, <2>1, <2>2 DEF LeadsTo
  <1>5. CASE v.put \in {"indexed", "unindexed"}
    <2>1. v.val \in TriggerKeys /\ v = [put |-> v.put, val |-> v.val]
      BY <1>5 DEF StoreWrites
    <2>2. /\ [put |-> "record", val |-> w] # v
          /\ \A b \in BOOLEAN : [put |-> "session", val |-> b] # v
          /\ \A k \in TriggerKeys : /\ [put |-> "indexed", val |-> k] = v
                                            <=> v.put = "indexed" /\ v.val = k
                                    /\ [put |-> "unindexed", val |-> k] = v
                                            <=> v.put = "unindexed" /\ v.val = k
      BY <1>5, <2>1
    <2> DEFINE K == CASE v.put = "indexed" -> keys \cup {v.val}
                      [] v.put = "unindexed" -> keys \ {v.val}
                      [] OTHER -> keys
    <2>3. \A k \in TriggerKeys :
              k \in K <=> \/ v.put = "indexed" /\ v.val = k
                          \/ k \in keys /\ ~ (v.put = "unindexed" /\ v.val = k)
      BY <1>5
    <2> HIDE DEF K
    <2>4. \A k \in TriggerKeys :
              /\ k = w => /\ [put |-> "unindexed", val |-> k] \notin R
                          /\ k \notin K => [put |-> "indexed", val |-> k] \in R
              /\ k # w => /\ [put |-> "indexed", val |-> k] \notin R
                          /\ k \in K => [put |-> "unindexed", val |-> k] \in R
      BY <2>2, <2>3 DEF LeadsTo
    <2>5. LeadsTo(old, inList, K, R, w)
      BY <1>2, <2>2, <2>4 DEF LeadsTo
    <2> QED BY <1>5, <2>5 DEF K
  <1> QED BY <1>1, <1>3, <1>4, <1>5

\* Nothing happens to the store or to the calls on it.
LEMMA StoreFrame ==
    ASSUME CallTypes, StoreInv, UNCHANGED <<writes, record, listed, index, cut>>
    PROVE  CallTypes' /\ StoreInv'
  <1>1. \A c \in Conts : InCall(c)' = InCall(c)
    BY DEF InCall
  <1>2. CallTypes'
    BY DEF CallTypes
  <1>3. StoreInv'
    BY <1>1 DEF StoreInv
  <1> QED BY <1>2, <1>3

\* What actor a is in changes, on a continuation that is cut, or the only one called.
LEMMA OthersKeep ==
    ASSUME CallTypes, StoreInv, NEW a \in Actors, NEW c \in Conts,
           \A b \in Actors \ {a} : writes'[b] = writes[b],
           writes[a].on \in {c, NoAlarm}, writes'[a].on \in {c, NoAlarm},
           cut \subseteq cut',
           \A d \in Conts \ {c} : /\ record'[d] = record[d] /\ index'[d] = index[d]
                                  /\ d \in listed' <=> d \in listed,
           c \notin cut' =>
              /\ InCall(c)' = {} => LeadsTo(record'[c], c \in listed', index'[c], {}, record'[c])
              /\ \A b \in InCall(c)' :
                    /\ InCall(c)' = {b}
                    /\ \E w \in Waits :
                          LeadsTo(record'[c], c \in listed', index'[c], ToSet(writes'[b].todo), w)
    PROVE  StoreInv'
  <1>1. SUFFICES ASSUME NEW d \in Conts, d \notin cut'
                 PROVE  /\ InCall(d)' = {} =>
                            LeadsTo(record'[d], d \in listed', index'[d], {}, record'[d])
                        /\ \A b \in InCall(d)' :
                              /\ InCall(d)' = {b}
                              /\ \E w \in Waits :
                                    LeadsTo(record'[d], d \in listed', index'[d],
                                            ToSet(writes'[b].todo), w)
    BY DEF StoreInv
  <1>2. CASE d = c
    BY <1>1, <1>2
  <1>3. CASE d # c
    <2>1. d # NoAlarm
      BY ExecutorConstants DEF NoAlarm
    <2>2. InCall(d)' = InCall(d) /\ a \notin InCall(d)
      BY <1>3, <2>1 DEF InCall
    <2>3. \A b \in InCall(d) : writes'[b] = writes[b]
      BY <2>2 DEF InCall
    <2>4. /\ record'[d] = record[d] /\ index'[d] = index[d] /\ (d \in listed' <=> d \in listed)
          /\ d \notin cut
      BY <1>1, <1>3
    <2>5. (d \in listed') = (d \in listed)
      BY <2>4
    <2> QED BY <2>2, <2>3, <2>4, <2>5 DEF StoreInv
  <1> QED BY <1>2, <1>3

LEMMA NotInCall == ASSUME NEW c \in Conts, NEW a \in Actors, writes[a] = NoCall PROVE a \notin InCall(c)
  BY ExecutorConstants DEF InCall, NoCall, NoAlarm

LEMMA BeginKeeps ==
    ASSUME CallTypes, StoreInv, NEW a \in Actors, NEW c \in Conts,
           PutRecord(a, c) \/ Delete(a, c)
    PROVE  CallTypes' /\ StoreInv'
  <1>1. PICK W, w :
            /\ w \in Waits
            /\ BeginWrites(a, c, W)
            /\ \/ w \in TriggerKeys \cup {NoKey} /\ W = PutWrites(record[c], w)
               \/ w = Absent /\ W = DeleteWrites(record[c])
    <2>1. CASE PutRecord(a, c)
      <3>1. PICK v \in TriggerKeys \cup {NoKey} : BeginWrites(a, c, PutWrites(record[c], v))
        BY <2>1 DEF PutRecord
      <3>2. v \in Waits
        BY DEF Waits
      <3> DEFINE W == PutWrites(record[c], v)
      <3>3. BeginWrites(a, c, W) /\ W = PutWrites(record[c], v)
        BY <3>1
      <3> HIDE DEF W
      <3> QED BY <3>2, <3>3
    <2>2. CASE Delete(a, c)
      <3> DEFINE W == DeleteWrites(record[c])
      <3>1. BeginWrites(a, c, W) /\ W = DeleteWrites(record[c]) /\ Absent \in Waits
        BY <2>2 DEF Delete, Waits
      <3> HIDE DEF W
      <3> QED BY <3>1
    <2> QED BY <2>1, <2>2
  <1>2. /\ writes[a] = NoCall /\ writes' = [writes EXCEPT ![a] = [on |-> c, todo |-> W]]
        /\ cut' = IF InCall(c) = {} THEN cut ELSE cut \cup {c}
        /\ UNCHANGED <<record, listed, index>>
    BY <1>1 DEF BeginWrites, Free
  <1>3. record[c] \in Waits /\ index[c] \in SUBSET TriggerKeys /\ (c \in listed) \in BOOLEAN
    BY DEF CallTypes
  <1>4. W \in Seq(StoreWrites) \ {<<>>}
    BY <1>1, <1>3, PutLeads, DeleteLeads
  <1>5. /\ writes'[a] = [on |-> c, todo |-> W] /\ \A b \in Actors \ {a} : writes'[b] = writes[b]
        /\ writes' \in [Actors -> {NoCall} \cup [on : Conts, todo : Seq(StoreWrites) \ {<<>>}]]
    BY <1>2, <1>4 DEF CallTypes
  <1>6. ASSUME c \notin cut'
        PROVE  InCall(c)' = {a} /\ LeadsTo(record[c], c \in listed, index[c], ToSet(W), w)
    <2>1. InCall(c) = {} /\ c \notin cut
      BY <1>2, <1>6
    <2>2. InCall(c)' = {a}
      BY <1>5, <2>1 DEF InCall
    <2>3. LeadsTo(record[c], c \in listed, index[c], {}, record[c])
      BY <2>1 DEF StoreInv
    <2> QED BY <1>1, <1>3, <2>2, <2>3, PutLeads, DeleteLeads
  <1>7. cut \subseteq cut' /\ writes[a].on = NoAlarm /\ writes'[a].on = c
    BY <1>2, <1>5 DEF NoCall
  <1>8. \A d \in Conts \ {c} : /\ record'[d] = record[d] /\ index'[d] = index[d]
                               /\ d \in listed' <=> d \in listed
    BY <1>2
  <1>9. c \notin cut' =>
            /\ InCall(c)' = {} => LeadsTo(record'[c], c \in listed', index'[c], {}, record'[c])
            /\ \A b \in InCall(c)' :
                  /\ InCall(c)' = {b}
                  /\ \E v \in Waits :
                        LeadsTo(record'[c], c \in listed', index'[c], ToSet(writes'[b].todo), v)
    <2>1. /\ record'[c] = record[c] /\ index'[c] = index[c] /\ listed' = listed
          /\ writes'[a].todo = W
      BY <1>2, <1>5
    <2> QED BY <1>1, <1>6, <2>1
  <1>10. StoreInv'
    BY <1>5, <1>7, <1>8, <1>9, OthersKeep
  <1> QED BY <1>2, <1>5, <1>10 DEF CallTypes

LEMMA WriteKeeps ==
    ASSUME CallTypes, StoreInv, NEW a \in Actors, Write(a)
    PROVE  CallTypes' /\ StoreInv'
  <1>1. writes[a] # NoCall /\ writes[a] \in [on : Conts, todo : Seq(StoreWrites) \ {<<>>}]
    BY DEF Write, CallTypes
  <1>2. PICK c \in Conts : c = writes[a].on
    BY <1>1
  <1> DEFINE todo == writes[a].todo
             w == Head(todo)
             rest == Tail(todo)
  <1>3. /\ writes[a] # NoCall
        /\ record' = IF w.put = "record" THEN [record EXCEPT ![c] = w.val] ELSE record
        /\ listed' = IF w.put # "session" THEN listed
                     ELSE IF w.val THEN listed \cup {c} ELSE listed \ {c}
        /\ index' = [index EXCEPT ![c] =
                        CASE w.put = "indexed" -> @ \cup {w.val}
                          [] w.put = "unindexed" -> @ \ {w.val}
                          [] OTHER -> @]
        /\ writes' = [writes EXCEPT ![a] =
                        IF rest = <<>> THEN NoCall ELSE [@ EXCEPT !.todo = rest]]
        /\ cut' = cut
    BY <1>2 DEF Write
  <1>4. /\ c \in Conts /\ todo \in Seq(StoreWrites) /\ todo # <<>>
        /\ writes[a] = [on |-> c, todo |-> todo]
    BY <1>1, <1>2
  <1> HIDE DEF todo
  <1>5. /\ w \in StoreWrites /\ rest \in Seq(StoreWrites) /\ ToSet(todo) = ToSet(rest) \cup {w}
    BY <1>4, ToSetOfTail
  <1> HIDE DEF w, rest
  <1>6. /\ w.put \in {"record", "session", "indexed", "unindexed"}
        /\ w.put = "record" => w.val \in Waits
        /\ w.put = "session" => w.val \in BOOLEAN
        /\ w.put \in {"indexed", "unindexed"} => w.val \in TriggerKeys
    BY <1>5 DEF StoreWrites
  <1>7. /\ record' \in [Conts -> Waits]
        /\ record'[c] = IF w.put = "record" THEN w.val ELSE record[c]
        /\ \A d \in Conts \ {c} : record'[d] = record[d]
    BY <1>3, <1>4, <1>6 DEF CallTypes
  <1>8. /\ listed' \subseteq Conts
        /\ (c \in listed') = IF w.put = "session" THEN w.val ELSE c \in listed
        /\ \A d \in Conts \ {c} : d \in listed' <=> d \in listed
    BY <1>3, <1>4, <1>6 DEF CallTypes
  <1> DEFINE keys == CASE w.put = "indexed" -> index[c] \cup {w.val}
                       [] w.put = "unindexed" -> index[c] \ {w.val}
                       [] OTHER -> index[c]
  <1>9. keys \in SUBSET TriggerKeys
    <2>1. index[c] \in SUBSET TriggerKeys
      BY <1>4 DEF CallTypes
    <2> QED BY <1>6, <2>1
  <1>10. index' = [index EXCEPT ![c] = keys]
    BY <1>3
  <1> HIDE DEF keys
  <1>11. /\ index' \in [Conts -> SUBSET TriggerKeys]
         /\ index'[c] = keys /\ \A d \in Conts \ {c} : index'[d] = index[d]
    BY <1>4, <1>9, <1>10 DEF CallTypes
  <1>12. /\ \A b \in Actors \ {a} : writes'[b] = writes[b]
         /\ writes'[a] = IF rest = <<>> THEN NoCall ELSE [on |-> c, todo |-> rest]
         /\ writes' \in [Actors -> {NoCall} \cup [on : Conts, todo : Seq(StoreWrites) \ {<<>>}]]
    <2>1. [writes[a] EXCEPT !.todo = rest] = [on |-> c, todo |-> rest]
      BY <1>4
    <2>2. writes' = [writes EXCEPT ![a] = IF rest = <<>> THEN NoCall ELSE [on |-> c, todo |-> rest]]
      BY <1>3, <2>1
    <2> DEFINE next == IF rest = <<>> THEN NoCall ELSE [on |-> c, todo |-> rest]
    <2>3. next \in {NoCall} \cup [on : Conts, todo : Seq(StoreWrites) \ {<<>>}]
      BY <1>4, <1>5
    <2>4. next = IF rest = <<>> THEN NoCall ELSE [on |-> c, todo |-> rest]
      OBVIOUS
    <2>5. writes' = [writes EXCEPT ![a] = next]
      BY <2>2
    <2> HIDE DEF next
    <2> QED BY <2>3, <2>4, <2>5 DEF CallTypes
  <1>13. ASSUME c \notin cut'
         PROVE  /\ InCall(c)' = IF rest = <<>> THEN {} ELSE {a}
                /\ \E v \in Waits : LeadsTo(record'[c], c \in listed', index'[c], ToSet(rest), v)
    <2>1. a \in InCall(c) /\ c # NoAlarm
      BY <1>4, ExecutorConstants DEF InCall, NoAlarm
    <2>2. PICK v \in Waits : LeadsTo(record[c], c \in listed, index[c], ToSet(todo), v)
      BY <1>3, <1>4, <1>13, <2>1 DEF StoreInv, todo
    <2>3. InCall(c) = {a}
      BY <1>3, <1>4, <1>13, <2>1 DEF StoreInv
    <2>4. InCall(c)' = IF rest = <<>> THEN {} ELSE {a}
      <3>1. \A b \in Actors \ {a} : writes'[b].on = c <=> FALSE
        BY <1>12, <2>3 DEF InCall
      <3>2. writes'[a].on = c <=> rest # <<>>
        BY <1>12, <2>1 DEF NoCall
      <3>3. InCall(c)' = {b \in Actors : writes'[b].on = c}
        BY DEF InCall
      <3> QED BY <3>1, <3>2, <3>3
    <2>5. record[c] \in Waits /\ index[c] \in SUBSET TriggerKeys /\ (c \in listed) \in BOOLEAN
      BY <1>4 DEF CallTypes
    <2>6. LeadsTo(IF w.put = "record" THEN w.val ELSE record[c],
                  IF w.put = "session" THEN w.val ELSE c \in listed,
                  keys, ToSet(rest), v)
      BY <1>5, <2>2, <2>5, WriteLeads DEF keys
    <2> QED BY <1>7, <1>8, <1>11, <2>4, <2>6
  <1>14. c \notin cut' =>
            /\ InCall(c)' = {} => LeadsTo(record'[c], c \in listed', index'[c], {}, record'[c])
            /\ \A b \in InCall(c)' :
                  /\ InCall(c)' = {b}
                  /\ \E v \in Waits :
                        LeadsTo(record'[c], c \in listed', index'[c], ToSet(writes'[b].todo), v)
    <2>1. SUFFICES ASSUME c \notin cut'
                   PROVE  /\ InCall(c)' = {} =>
                              LeadsTo(record'[c], c \in listed', index'[c], {}, record'[c])
                          /\ \A b \in InCall(c)' :
                                /\ InCall(c)' = {b}
                                /\ \E v \in Waits : LeadsTo(record'[c], c \in listed', index'[c],
                                                            ToSet(writes'[b].todo), v)
      OBVIOUS
    <2>2. PICK v \in Waits : LeadsTo(record'[c], c \in listed', index'[c], ToSet(rest), v)
      BY <1>13, <2>1
    <2>3. CASE rest = <<>>
      <3>1. InCall(c)' = {} /\ ToSet(rest) = {}
        BY <1>13, <2>1, <2>3, ToSetOfEmpty
      <3>2. record'[c] = v
        BY <2>2, <3>1 DEF LeadsTo
      <3> QED BY <2>2, <3>1, <3>2
    <2>4. CASE rest # <<>>
      <3>1. InCall(c)' = {a} /\ writes'[a].todo = rest
        BY <1>12, <1>13, <2>1, <2>4
      <3> QED BY <2>2, <3>1
    <2> QED BY <2>3, <2>4
  <1>15. writes[a].on = c /\ writes'[a].on \in {c, NoAlarm}
    BY <1>4, <1>12 DEF NoCall
  <1>16. \A d \in Conts \ {c} : /\ record'[d] = record[d] /\ index'[d] = index[d]
                                /\ d \in listed' <=> d \in listed
    BY <1>7, <1>8, <1>11
  <1>17. StoreInv'
    <2>1. cut \subseteq cut' /\ writes[a].on \in {c, NoAlarm}
      BY <1>3, <1>15
    <2>2. \A b \in Actors \ {a} : writes'[b] = writes[b]
      BY <1>12
    <2> QED BY <1>4, <1>14, <1>15, <1>16, <2>1, <2>2, OthersKeep
  <1> QED BY <1>7, <1>8, <1>11, <1>12, <1>17 DEF CallTypes

LEMMA WriteFailsKeeps ==
    ASSUME CallTypes, StoreInv, NEW a \in Actors, WriteFails(a)
    PROVE  CallTypes' /\ StoreInv'
  <1>1. /\ writes[a] # NoCall /\ writes' = [writes EXCEPT ![a] = NoCall]
        /\ cut' = cut \cup {writes[a].on} /\ UNCHANGED <<record, listed, index>>
    BY DEF WriteFails
  <1>2. writes[a].on \in Conts
    BY <1>1 DEF CallTypes
  <1>3. /\ writes'[a] = NoCall /\ \A b \in Actors \ {a} : writes'[b] = writes[b]
        /\ CallTypes'
    BY <1>1 DEF CallTypes
  <1>4. StoreInv'
    BY <1>1, <1>2, <1>3, OthersKeep DEF NoCall
  <1> QED BY <1>3, <1>4

LEMMA RestartKeepsStore ==
    ASSUME CallTypes, StoreInv, Restart
    PROVE  CallTypes' /\ StoreInv'
  <1>1. /\ writes' = [a \in Actors |-> NoCall] /\ UNCHANGED <<record, listed, index>>
        /\ cut' = cut \cup {c \in Conts : InCall(c) # {}}
    BY DEF Restart
  <1>2. \A c \in Conts : InCall(c)' = {}
    BY <1>1, ExecutorConstants DEF InCall, NoCall, NoAlarm
  <1>3. StoreInv'
    BY <1>1, <1>2 DEF StoreInv
  <1> QED BY <1>1, <1>3 DEF CallTypes

LEMMA StoreInitOK == ExecInit => CallTypes /\ StoreInv
  <1> SUFFICES ASSUME ExecInit PROVE CallTypes /\ StoreInv
    OBVIOUS
  <1>1. CallTypes
    BY DEF ExecInit, CallTypes, Waits
  <1>2. \A c \in Conts : InCall(c) = {}
    BY ExecutorConstants DEF ExecInit, InCall, NoCall, NoAlarm
  <1>3. \A c \in Conts : LeadsTo(record[c], c \in listed, index[c], {}, record[c])
    BY ExecutorConstants DEF ExecInit, LeadsTo, Absent
  <1> QED BY <1>1, <1>2, <1>3 DEF StoreInv

LEMMA StoreKeeps ==
    ASSUME CallTypes, StoreInv, [ExecNext]_execVars
    PROVE  CallTypes' /\ StoreInv'
  <1>1. ASSUME NEW r \in TurnRequests, Enqueue(r) \/ WaitUntil(r) \/ Chained(r)
        PROVE  CallTypes' /\ StoreInv'
    BY <1>1, StoreFrame DEF StoreUnchanged, Enqueue, WaitUntil, Chained, StartTurn,
         TurnFulfils, TurnRejects, SettleFails, SettleEnds, PromiseEnds
  <1>2. ASSUME NEW a \in Actors, NEW c \in Conts, ScheduleWake(a, c) \/ CancelAlarm(a, c)
        PROVE  CallTypes' /\ StoreInv'
    BY <1>2, StoreFrame DEF ScheduleWake, CancelAlarm, SchedulerCall
  <1>3. CASE AlarmFires \/ UNCHANGED execVars
    BY <1>3, StoreFrame DEF AlarmFires, execVars
  <1> QED BY <1>1, <1>2, <1>3, BeginKeeps, WriteKeeps, WriteFailsKeeps, RestartKeepsStore
          DEF ExecNext

-----------------------------------------------------------------------------
(* Theorems *)

ExecInv == ChainInv /\ CallTypes /\ StoreInv /\ AlarmInv

\* The inductive invariant of the durable object: one turn at a time, every store
\* call on its way to one outcome, and an alarm that somebody still wants.
THEOREM ExecutorAlways == ExecSpec => []ExecInv
  <1>1. ExecInit => ExecInv
    BY ChainInitOK, StoreInitOK, AlarmInitOK DEF ExecInv
  <1>2. ExecInv /\ [ExecNext]_execVars => ExecInv'
    BY ChainKeeps, StoreKeeps, AlarmKeeps DEF ExecInv
  <1> QED BY <1>1, <1>2, PTL DEF ExecSpec

\* Turns of one conversation never overlap, for any number of requests, failing
\* turns and restarts (TurnExecutorDO.enqueue).
THEOREM TurnsAlwaysApart == ExecSpec => []TurnsStayApart
  <1>1. ASSUME ExecInv PROVE TurnsStayApart
    <2>1. ExecTypeOK
      BY <1>1 DEF ExecInv, ChainInv, CallTypes, AlarmInv, ExecTypeOK, TurnStates, JobStates, Waits
    <2>2. ASSUME NEW r \in TurnRequests, NEW s \in TurnRequests, r # s, Running(r)
          PROVE  ~Running(s) /\ (job[s] = "pending" => turn[s] = "failed")
      BY <1>1, <2>2 DEF ExecInv, ChainInv
    <2> QED BY <2>1, <2>2 DEF TurnsStayApart
  <1> QED BY <1>1, ExecutorAlways, PTL

\* A record is found by what it waits for and in its session, whatever puts and
\* deletes were made, as long as none on it failed or met another.
THEOREM AlwaysFindsWhatWaits == ExecSpec => []FindsWhatWaits
  <1>1. ASSUME ExecInv PROVE FindsWhatWaits
    <2>1. ASSUME NEW c \in Conts, InCall(c) = {}, c \notin cut
          PROVE  /\ \A k \in TriggerKeys : FindByTrigger(c, k) # Absent <=> record[c] = k
                 /\ c \in ListBySession <=> record[c] # Absent
      <3>1. LeadsTo(record[c], c \in listed, index[c], {}, record[c])
        BY <1>1, <2>1 DEF ExecInv, StoreInv
      <3>2. \A k \in TriggerKeys : k # Absent /\ (k \in index[c] <=> k = record[c])
        BY <3>1, ExecutorConstants DEF LeadsTo, Absent
      <3>3. c \in listed <=> record[c] # Absent
        BY <3>1 DEF LeadsTo
      <3> QED BY <3>2, <3>3 DEF FindByTrigger, ListBySession
    <2> QED BY <2>1 DEF FindsWhatWaits
  <1> QED BY <1>1, ExecutorAlways, PTL

\* The only alarm of the object goes off for nobody who was woken or called off,
\* and who has the scheduler to itself keeps its alarm, for any number of calls.
THEOREM WakesAlwaysKept == ExecSpec => []WakesAreKept
  <1>1. ExecInv => WakesAreKept
    BY DEF ExecInv, AlarmInv, WakesAreKept
  <1> QED BY <1>1, ExecutorAlways, PTL

===============================================================================
