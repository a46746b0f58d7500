------------------------------ MODULE TurnQueue ------------------------------
(***************************************************************************)
(* The Cloudflare turn pipeline: webhook requests are de-duplicated at the *)
(* ingress and put on the turn queue; consumers take batches and run one   *)
(* turn after the other, each in an execution context of its own whose     *)
(* waitUntil promises, here jobs, are awaited before the message is acked. *)
(*                                                                         *)
(* The key-value store, the queue and the webhook platform are external:   *)
(* a mark may take its time to reach every look-up, and stays for longer   *)
(* than the platform retries, an ack takes effect when it is called, and every message of a batch     *)
(* whose consumer throws or dies without having acked it is delivered      *)
(* again, up to MaxTries times in all, and then dead-lettered.             *)
(***************************************************************************)
EXTENDS Naturals, Sequences, SequencesExt

CONSTANTS
    Deliveries,  \* webhook requests; the message a request sends bears its name
    Events,      \* what the requests are about
    Unkeyed,     \* the events that carry no de-duplication key
    NoEvent,
    Consumers,   \* consumer invocations that may run at once
    MaxBatch,    \* messages in a batch
    MaxTries,    \* deliveries of one message by the queue
    MaxJobs      \* bound on the promises the turns hand to waitUntil

ASSUME ConstantsAssumption ==
    /\ Unkeyed \subseteq Events
    /\ NoEvent \notin Events
    /\ MaxBatch \in Nat \ {0}
    /\ MaxTries \in Nat \ {0}
    /\ MaxJobs \in Nat

VARIABLES
    event,    \* the event of each request
    request,  \* where the ingress handler of each request is, or how it ended
    marked,   \* de-duplication keys in the store
    spread,   \* those that no look-up misses any more
    raced,    \* history: requests that looked their key up while a mark of it was
              \* under way: about to be written, or not yet everywhere
    message,  \* what the queue knows of each message
    tries,    \* deliveries of each message so far
    batch,    \* of each consumer: the messages left, the current one first
    at,       \* of each consumer: where handleCfQueue is
    pending,  \* of each consumer: promises collected by the current context
    jobs      \* the promises handed to waitUntil so far: the run whose context
              \* got each of them, and its state

ingress == <<event, request, marked, spread, raced>>
consumer == <<batch, at, pending>>
vars == <<event, request, marked, spread, raced, message, tries, batch, at, pending, jobs>>

Requests ==
    {"idle", "check", "mark", "send",
     "answered", "duplicate", "enqueued", "failed", "unsent"}
Messages == {"none", "queued", "taken", "acked", "dead"}
Promises ==
    [of : Deliveries, try : 1..MaxTries, state : {"running", "fulfilled", "rejected"}]

Init ==
    /\ event = [d \in Deliveries |-> NoEvent]
    /\ request = [d \in Deliveries |-> "idle"]
    /\ marked = {}
    /\ spread = {}
    /\ raced = {}
    /\ message = [d \in Deliveries |-> "none"]
    /\ tries = [d \in Deliveries |-> 0]
    /\ batch = [k \in Consumers |-> <<>>]
    /\ at = [k \in Consumers |-> "idle"]
    /\ pending = [k \in Consumers |-> <<>>]
    /\ jobs = <<>>

-----------------------------------------------------------------------------
(* Ingress *)

Answer(d, with) == request' = [request EXCEPT ![d] = with]

\* getProviderDedupKey: without a key the event is let through.
Dispatched(e) == IF e \in Unkeyed THEN "send" ELSE "check"

\* verify and parse: a refused signature and an ack-only event are answered, any
\* other event is dispatched.
Receive(d) ==
    /\ request[d] = "idle"
    /\ \E e \in Events :
          /\ event' = [event EXCEPT ![d] = e]
          /\ \/ Answer(d, "answered")
             \/ Answer(d, Dispatched(e))
    /\ UNCHANGED <<marked, spread, raced, message, tries, consumer, jobs>>

\* Another request is between its look-up of the same key and its mark, or a mark of
\* the key has not spread.
Racing(d) ==
    \/ \E c \in Deliveries \ {d} : event[c] = event[d] /\ request[c] = "mark"
    \/ event[d] \in marked \ spread

\* Mutant: the look-up always misses.
SeenNever(d) == {FALSE}

\* What a look-up may answer: stores may be eventually consistent.
Seen(d) ==
    {seen \in BOOLEAN : /\ event[d] \notin marked => ~seen
                        /\ event[d] \in spread => seen}

\* The two halves of claim: the look-up and the mark.
Check(d) ==
    /\ request[d] = "check"
    /\ \/ \E seen \in Seen(d) : Answer(d, IF seen THEN "duplicate" ELSE "mark")
       \/ Answer(d, "failed")
    /\ raced' = IF Racing(d) THEN raced \cup {d} ELSE raced
    /\ UNCHANGED <<event, marked, spread, message, tries, consumer, jobs>>

\* The store is consistent again.
Spread(e) ==
    /\ e \in marked \ spread
    /\ spread' = spread \cup {e}
    /\ UNCHANGED <<event, request, marked, raced, message, tries, consumer, jobs>>

\* A put that throws may have been applied.
Mark(d) ==
    /\ request[d] = "mark"
    /\ \/ marked' = marked \cup {event[d]} /\ Answer(d, "send")
       \/ marked' \in {marked, marked \cup {event[d]}} /\ Answer(d, "failed")
    /\ UNCHANGED <<event, spread, raced, message, tries, consumer, jobs>>

\* So may a send; the key stays marked either way.
Send(d) ==
    /\ request[d] = "send"
    /\ \/ message' = [message EXCEPT ![d] = "queued"] /\ Answer(d, "enqueued")
       \/ message' \in {message, [message EXCEPT ![d] = "queued"]} /\ Answer(d, "unsent")
    /\ UNCHANGED <<event, marked, spread, raced, tries, consumer, jobs>>

-----------------------------------------------------------------------------
(* handleCfQueue *)

Batches ==
    {b \in SeqOf({d \in Deliveries : message[d] = "queued"}, MaxBatch) :
        b # <<>> /\ IsInjective(b)}

\* The queue hands over a batch; the first turn begins.
TakeBatch(k) ==
    /\ at[k] = "idle"
    /\ \E b \in Batches :
          /\ batch' = [batch EXCEPT ![k] = b]
          /\ message' = [d \in Deliveries |->
                            IF d \in ToSet(b) THEN "taken" ELSE message[d]]
          /\ tries' = [d \in Deliveries |->
                            IF d \in ToSet(b) THEN tries[d] + 1 ELSE tries[d]]
    /\ at' = [at EXCEPT ![k] = "turn"]
    /\ pending' = [pending EXCEPT ![k] = <<>>]
    /\ UNCHANGED <<ingress, jobs>>

InRun(k, j) ==
    /\ at[k] # "idle"
    /\ jobs[j].of = Head(batch[k])
    /\ jobs[j].try = tries[jobs[j].of]

\* The current turn of k hands a promise to waitUntil.
TurnWaitsUntil(k) ==
    /\ at[k] = "turn"
    /\ Len(jobs) < MaxJobs
    /\ jobs' = Append(jobs, [of |-> Head(batch[k]), try |-> tries[Head(batch[k])],
                             state |-> "running"])
    /\ pending' = [pending EXCEPT ![k] = Append(@, Len(jobs) + 1)]
    /\ UNCHANGED <<ingress, message, tries, batch, at>>

\* So does the work behind promise j.  If its run is over, the context still
\* collects the promise, but nobody awaits it any more.
JobWaitsUntil(j) ==
    /\ jobs[j].state = "running"
    /\ Len(jobs) < MaxJobs
    /\ jobs' = Append(jobs, jobs[j])
    /\ pending' = [k \in Consumers |->
          IF InRun(k, j) THEN Append(pending[k], Len(jobs) + 1) ELSE pending[k]]
    /\ UNCHANGED <<ingress, message, tries, batch, at>>

\* Promises are settled by the work behind them, awaited or not.
JobEnds(j) ==
    /\ jobs[j].state = "running"
    /\ \E state \in {"fulfilled", "rejected"} :
          jobs' = [jobs EXCEPT ![j].state = state]
    /\ UNCHANGED <<ingress, message, tries, consumer>>

\* runTurn resolves or throws.
TurnEnds(k) ==
    /\ at[k] = "turn"
    /\ \E next \in {"settle", "broken"} : at' = [at EXCEPT ![k] = next]
    /\ UNCHANGED <<ingress, message, tries, batch, pending, jobs>>

\* settleAll awaits the first promise left and throws what it threw.
SettleNext(k) ==
    /\ at[k] = "settle" /\ pending[k] # <<>>
    /\ LET j == Head(pending[k]) IN
          /\ jobs[j].state # "running"
          /\ at' = IF jobs[j].state = "fulfilled" THEN at
                                                 ELSE [at EXCEPT ![k] = "broken"]
    /\ pending' = [pending EXCEPT ![k] = Tail(@)]
    /\ UNCHANGED <<ingress, message, tries, batch, jobs>>

\* Mutant: the promises collected so far are not waited for.
SettledAtOnce(k) == at[k] = "settle"

Settled(k) == at[k] = "settle" /\ pending[k] = <<>>

\* The message is acked and the next one of the batch has its turn.
AckMessage(k) ==
    /\ Settled(k)
    /\ message' = [message EXCEPT ![Head(batch[k])] = "acked"]
    /\ batch' = [batch EXCEPT ![k] = Tail(@)]
    /\ at' = [at EXCEPT ![k] = IF Len(batch[k]) > 1 THEN "turn" ELSE "idle"]
    /\ pending' = [pending EXCEPT ![k] = <<>>]
    /\ UNCHANGED <<ingress, tries, jobs>>

\* Mutant: the consumer fails for the message that failed only.
GivenBackFirst(k) == {Head(batch[k])}

\* What the queue gets back from a consumer that fails: the message that
\* failed and those behind it in the batch.
GivenBack(k) == ToSet(batch[k])

Abandon(k) ==
    /\ message' = [d \in Deliveries |->
          IF d \notin GivenBack(k) THEN message[d]
          ELSE IF tries[d] < MaxTries THEN "queued" ELSE "dead"]
    /\ batch' = [batch EXCEPT ![k] = <<>>]
    /\ at' = [at EXCEPT ![k] = "idle"]
    /\ pending' = [pending EXCEPT ![k] = <<>>]
    /\ UNCHANGED <<ingress, tries>>

\* onMessageError has run, or thrown; the error is thrown on.
BatchFails(k) ==
    /\ at[k] = "broken"
    /\ Abandon(k)
    /\ UNCHANGED jobs

\* The isolate dies, or is stopped at the platform's time limit.
ConsumerDies(k) ==
    /\ at[k] # "idle"
    /\ Abandon(k)
    /\ jobs' = [j \in DOMAIN jobs |->
          IF InRun(k, j) /\ jobs[j].state = "running"
            THEN [jobs[j] EXCEPT !.state = "rejected"] ELSE jobs[j]]

Ingress(d) == Receive(d) \/ Check(d) \/ Mark(d) \/ Send(d)

Consume(k) ==
    TakeBatch(k) \/ TurnEnds(k) \/ SettleNext(k) \/ AckMessage(k) \/ BatchFails(k)

Next ==
    \/ \E d \in Deliveries : Ingress(d)
    \/ \E e \in Events : Spread(e)
    \/ \E k \in Consumers :
          Consume(k) \/ ConsumerDies(k) \/ TurnWaitsUntil(k)
    \/ \E j \in DOMAIN jobs : JobEnds(j) \/ JobWaitsUntil(j)

Spec == Init /\ [][Next]_vars

\* The platform runs the request handlers and the consumers, and stops those
\* that exceed its time limit, so promises need not ever settle.
Fairness ==
    /\ \A d \in Deliveries : WF_vars(Check(d) \/ Mark(d) \/ Send(d))
    /\ \A k \in Consumers : WF_vars(Consume(k) \/ ConsumerDies(k))

FairSpec == Spec /\ Fairness

-----------------------------------------------------------------------------
(* Properties *)

\* Requests, messages, consumers and promises keep to their shapes; a message the
\* queue has handed out is in the hands of exactly one consumer, whatever became
\* of the messages before it in the batch.
TypeOK ==
    /\ event \in [Deliveries -> Events \cup {NoEvent}]
    /\ request \in [Deliveries -> Requests]
    /\ spread \subseteq marked /\ marked \subseteq Events \ Unkeyed
    /\ raced \subseteq Deliveries
    /\ message \in [Deliveries -> Messages]
    /\ tries \in [Deliveries -> 0..MaxTries]
    /\ batch \in [Consumers -> Seq(Deliveries)]
    /\ at \in [Consumers -> {"idle", "turn", "settle", "broken"}]
    /\ pending \in [Consumers -> Seq(DOMAIN jobs)]
    /\ jobs \in Seq(Promises)
    /\ \A d \in Deliveries :
        LET holders == {k \in Consumers : d \in ToSet(batch[k])}
        IN  IF message[d] = "taken" THEN \E k \in Consumers : holders = {k}
                                    ELSE holders = {}

\* An event with a key is put on the queue twice only by requests that raced: one
\* looked the key up while the other was about to mark it, or before the mark had
\* reached every look-up (SlackEventDedupGate.claim, stores may be eventually
\* consistent).  Once it has, retries are turned away, however many there are.
TwiceOnlyIfRaced ==
    \A c, d \in Deliveries :
        /\ c # d
        /\ event[c] = event[d]
        /\ event[c] \in Events \ Unkeyed
        /\ message[c] # "none" /\ message[d] # "none"
        => c \in raced \/ d \in raced

\* waitUntil never orphans work: once a message is acked, every promise the
\* acked run collected, while running or while settling, was fulfilled.
AckMeansSettled ==
    /\ TypeOK
    /\ \A j \in DOMAIN jobs :
          message[jobs[j].of] = "acked" /\ jobs[j].try = tries[jobs[j].of]
              => jobs[j].state = "fulfilled"

\* The event of a request that was answered 200 is brought to an ack or to the
\* dead-letter queue, unless a request that claimed its key failed after that.
EventIsHandled ==
    \A d \in Deliveries :
        request[d] \in {"enqueued", "duplicate"} ~>
            \E c \in Deliveries :
                /\ event[c] = event[d]
                /\ message[c] \in {"acked", "dead"} \/ request[c] \in {"failed", "unsent"}

\* A queue send that failed is made good by the platform's retry: a retry that
\* is answered 200 is one of an event that was put on the queue.
RetryMakesGood ==
    \A c, d \in Deliveries :
        /\ request[c] = "unsent"
        /\ request[d] = "duplicate"
        /\ event[c] = event[d]
        => \E q \in Deliveries : event[q] = event[d] /\ message[q] # "none"
==============================================================================
