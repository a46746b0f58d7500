--------------------------- MODULE CoordinationProofs --------------------------
(***************************************************************************)
(* Proofs about a turn: the router, the coordinator, and the signals.      *)
(*                                                                         *)
(* What the router picks is what wins among all escalations, because       *)
(* hearing one more keeps what wins.                                       *)
(*                                                                         *)
(* An answer of the coordinator is earned because all that happens to a    *)
(* signal is that it ends, once: a signal that has ended keeps the step of *)
(* its end, and one that has not ended was either raised after all         *)
(* required steps of its specialist, or is no alarm.                       *)
(*                                                                         *)
(* The connectivity layer keeps its word because each call under way       *)
(* stands for something: for an event that some subscribers were not told  *)
(* of, for a part of the list that has no twin of its input, or for        *)
(* signals that are due.  The invariant is stated for any stack, so that a *)
(* step can be split into what the top of the stack does to the signals    *)
(* and what it leaves to the calls below.                                  *)
(***************************************************************************)
EXTENDS Coordination, Connectivity, SequenceLemmas

-----------------------------------------------------------------------------
(* The escalation that is heard *)

Wanted(p, e) == p.escalationModeMap[e.signalClass]
Urgency(e) == PriorityDepth[e.priority]
Heard == [mode : Modes \cup {None}, urgency : Nat]

\* What a router may be made of and asked, so far as escalations go.
Escalates(p, es) ==
    /\ es \in Seq(ToSet(es))
    /\ \A e \in ToSet(es) : Wanted(p, e) \in Modes \cup {None} /\ Urgency(e) \in Nat

LEMMA Depths == \A m \in Modes : MODE_DEPTH[m] \in Nat
  BY DEF Modes, MODE_DEPTH

LEMMA Urgencies == \A q \in DOMAIN PriorityDepth : PriorityDepth[q] \in Nat
  BY DEF PriorityDepth

\* Escalations are heard one by one.
LEMMA HeardOneByOne ==
    ASSUME NEW p, NEW es, Escalates(p, es)
    PROVE  \E f :
              /\ f[0] = Unheard
              /\ \A n \in 1..Len(es) : f[n] = Hear(p, es[n], f[n - 1])
              /\ PickEscalationMode(p, es) = f[Len(es)].mode
  <1>1. PICK len : len = Len(es)
    OBVIOUS
  <1>2. len \in Nat /\ \A n \in 1..len : es[n] \in ToSet(es)
    BY <1>1, ElementOfSeq, LenProperties DEF Escalates
  <1>3. ASSUME NEW n \in 1..len, NEW v \in Heard PROVE Hear(p, es[n], v) \in Heard
    BY <1>2 DEF Escalates, Hear, Wanted, Urgency, Heard
  <1>4. PICK hear : hear = [n \in 1..len |-> [v \in Heard |-> Hear(p, es[n], v)]]
    OBVIOUS
  <1>5. hear \in [1..len -> [Heard -> Heard]]
    BY <1>3, <1>4
  <1>6. Unheard \in Heard
    BY DEF Unheard, Heard
  <1>7. PICK f \in [0..len -> Heard] :
            f[0] = Unheard /\ \A n \in 1..len : f[n] = hear[n][f[n - 1]]
    <2>1. PICK none, V : none = Unheard /\ V = Heard
      OBVIOUS
    <2>2. len \in Nat /\ hear \in [1..len -> [V -> V]] /\ none \in V
      BY <1>2, <1>5, <1>6, <2>1
    <2>3. \E f \in [0..len -> V] :
              f[0] = none /\ \A n \in 1..len : f[n] = hear[n][f[n - 1]]
      BY <2>2, Iterates
    <2> QED BY <2>1, <2>3
  <1>8. ASSUME NEW n \in 1..len PROVE f[n] = Hear(p, es[n], f[n - 1])
    <2>1. n - 1 \in 0..len /\ n \in 0..len /\ n # 0
      BY <1>2
    <2>2. f[n - 1] \in Heard /\ f[n] = hear[n][f[n - 1]]
      BY <1>7, <2>1
    <2> QED BY <1>4, <2>2
  <1>9. f = [n \in 0..len |-> IF n = 0 THEN Unheard ELSE Hear(p, es[n], f[n - 1])]
    <2>1. \A n \in 0..len : f[n] = IF n = 0 THEN Unheard ELSE Hear(p, es[n], f[n - 1])
      <3>1. \A n \in 0..len : n = 0 \/ n \in 1..len
        BY <1>2
      <3> QED BY <1>7, <1>8, <3>1
    <2>2. f = [n \in 0..len |-> f[n]]
      OBVIOUS
    <2> QED BY <2>1, <2>2
  <1> DEFINE best == CHOOSE b : b = [n \in 0..len |->
                                IF n = 0 THEN Unheard ELSE Hear(p, es[n], b[n - 1])]
  <1>10. best = [n \in 0..len |-> IF n = 0 THEN Unheard ELSE Hear(p, es[n], best[n - 1])]
    BY <1>9
  <1>11. PickEscalationMode(p, es) = best[len].mode
    BY <1>1 DEF PickEscalationMode
  <1> HIDE DEF best
  <1>12. best[0] = Unheard /\ \A n \in 1..len : best[n] = Hear(p, es[n], best[n - 1])
    BY <1>2, <1>10
  <1> QED BY <1>1, <1>11, <1>12

\* The escalation at i is heard among the first n: it wants a mode, none that does is
\* more urgent, and none as urgent wants a deeper one.
Wins(p, es, i, n) ==
    /\ i \in 1..n
    /\ Wanted(p, es[i]) # None
    /\ \A j \in 1..n : Wanted(p, es[j]) # None =>
          /\ Urgency(es[j]) <= Urgency(es[i])
          /\ Urgency(es[j]) = Urgency(es[i]) => ~Deeper(Wanted(p, es[j]), Wanted(p, es[i]))

\* Hearing keeps what wins.
LEMMA HearKeepsWinner ==
    ASSUME NEW p, NEW es, Escalates(p, es), NEW n \in 1..Len(es), NEW best,
           \/ best = Unheard /\ \A j \in 1..n - 1 : Wanted(p, es[j]) = None
           \/ \E i \in 1..n - 1 : /\ Wins(p, es, i, n - 1)
                                  /\ best = [mode |-> Wanted(p, es[i]), urgency |-> Urgency(es[i])]
    PROVE  \/ Hear(p, es[n], best) = Unheard /\ \A j \in 1..n : Wanted(p, es[j]) = None
           \/ \E i \in 1..n : /\ Wins(p, es, i, n)
                              /\ Hear(p, es[n], best)
                                    = [mode |-> Wanted(p, es[i]), urgency |-> Urgency(es[i])]
  <1>1. Len(es) \in Nat /\ \A j \in 1..Len(es) : es[j] \in ToSet(es)
    BY ElementOfSeq, LenProperties DEF Escalates
  <1>2. \A j \in 1..n : Wanted(p, es[j]) \in Modes \cup {None} /\ Urgency(es[j]) \in Nat
    BY <1>1 DEF Escalates
  <1>3. \A m \in Modes : MODE_DEPTH[m] \in Nat /\ m # None
    BY Depths DEF Modes, None
  <1>4. PICK new : new = [mode |-> Wanted(p, es[n]), urgency |-> Urgency(es[n])]
    OBVIOUS
  <1>5. Hear(p, es[n], best) = IF Wanted(p, es[n]) # None /\ Outvotes(Wanted(p, es[n]), es[n], best)
                               THEN new ELSE best
    BY <1>4 DEF Hear, Wanted, Urgency
  <1>6. CASE best = Unheard /\ \A j \in 1..n - 1 : Wanted(p, es[j]) = None
    <2>1. CASE Wanted(p, es[n]) = None
      <3>1. \A j \in 1..n : Wanted(p, es[j]) = None
        BY <1>6, <2>1
      <3> QED BY <1>5, <1>6, <2>1, <3>1
    <2>2. CASE Wanted(p, es[n]) # None
      <3>1. Outvotes(Wanted(p, es[n]), es[n], best)
        BY <1>6 DEF Outvotes, Unheard
      <3>2. \A j \in 1..n : Wanted(p, es[j]) # None => j = n
        BY <1>6
      <3>3. Wins(p, es, n, n)
        BY <1>2, <1>3, <2>2, <3>2 DEF Wins, Deeper
      <3> QED BY <1>4, <1>5, <2>2, <3>1, <3>3
    <2> QED BY <2>1, <2>2
  <1>7. ASSUME NEW i \in 1..n - 1, Wins(p, es, i, n - 1),
               best = [mode |-> Wanted(p, es[i]), urgency |-> Urgency(es[i])]
        PROVE  \E h \in 1..n : /\ Wins(p, es, h, n)
                               /\ Hear(p, es[n], best)
                                     = [mode |-> Wanted(p, es[h]), urgency |-> Urgency(es[h])]
    <2>1. /\ i \in 1..n /\ n \in 1..n /\ Wanted(p, es[i]) \in Modes /\ Urgency(es[i]) \in Nat
          /\ best.mode = Wanted(p, es[i]) /\ best.urgency = Urgency(es[i])
      BY <1>1, <1>2, <1>7 DEF Wins
    <2>2. \A j \in 1..n : j # n => j \in 1..n - 1
      BY <1>1
    <2>3. \A j \in 1..n : Wanted(p, es[j]) # None =>
              MODE_DEPTH[Wanted(p, es[j])] \in Nat /\ Urgency(es[j]) \in Nat
      BY <1>2, <1>3
    <2>4. \A j \in 1..n : Wanted(p, es[j]) # None /\ j # n =>
            /\ Urgency(es[j]) <= Urgency(es[i])
            /\ Urgency(es[j]) = Urgency(es[i]) =>
                  ~(MODE_DEPTH[Wanted(p, es[j])] > MODE_DEPTH[Wanted(p, es[i])])
      BY <1>7, <2>2 DEF Wins, Deeper
    <2>5. Wanted(p, es[i]) # None
      BY <1>7 DEF Wins
    <2>6. CASE Wanted(p, es[n]) # None /\ Outvotes(Wanted(p, es[n]), es[n], best)
      <3>1. \/ Urgency(es[n]) > Urgency(es[i])
            \/ /\ Urgency(es[n]) = Urgency(es[i])
               /\ MODE_DEPTH[Wanted(p, es[n])] > MODE_DEPTH[Wanted(p, es[i])]
        BY <1>3, <2>1, <2>5, <2>6 DEF Outvotes, Deeper, Urgency
      <3>2. ASSUME NEW j \in 1..n, Wanted(p, es[j]) # None
            PROVE  /\ Urgency(es[j]) <= Urgency(es[n])
                   /\ Urgency(es[j]) = Urgency(es[n]) =>
                        ~(MODE_DEPTH[Wanted(p, es[j])] > MODE_DEPTH[Wanted(p, es[n])])
        <4>1. CASE j = n
          BY <2>3, <2>6, <4>1
        <4>2. CASE j # n
          BY <2>1, <2>3, <2>4, <2>5, <2>6, <3>1, <3>2, <4>2
        <4> QED BY <4>1, <4>2
      <3>3. Wins(p, es, n, n)
        BY <2>1, <2>6, <3>2 DEF Wins, Deeper
      <3> QED BY <1>4, <1>5, <2>1, <2>6, <3>3
    <2>7. CASE ~(Wanted(p, es[n]) # None /\ Outvotes(Wanted(p, es[n]), es[n], best))
      <3>1. Wanted(p, es[n]) # None =>
                /\ ~(Urgency(es[n]) > Urgency(es[i]))
                /\ Urgency(es[n]) = Urgency(es[i]) =>
                      ~(MODE_DEPTH[Wanted(p, es[n])] > MODE_DEPTH[Wanted(p, es[i])])
        BY <2>1, <2>7 DEF Outvotes, Deeper, Urgency
      <3>2. Wins(p, es, i, n)
        BY <2>1, <2>3, <2>4, <2>5, <3>1 DEF Wins, Deeper
      <3> QED BY <1>5, <1>7, <2>1, <2>7, <3>2
    <2> QED BY <2>6, <2>7
  <1> QED BY <1>6, <1>7

\* Of all escalations the winner is picked.
LEMMA WinnerPicked ==
    ASSUME NEW p, NEW es, Escalates(p, es)
    PROVE  \/ /\ PickEscalationMode(p, es) = None
              /\ \A j \in 1..Len(es) : Wanted(p, es[j]) = None
           \/ \E i \in 1..Len(es) : /\ Wins(p, es, i, Len(es))
                                    /\ PickEscalationMode(p, es) = Wanted(p, es[i])
  <1>1. PICK f : /\ f[0] = Unheard
                 /\ \A n \in 1..Len(es) : f[n] = Hear(p, es[n], f[n - 1])
                 /\ PickEscalationMode(p, es) = f[Len(es)].mode
    BY HeardOneByOne
  <1>2. Len(es) \in Nat
    BY LenProperties DEF Escalates
  <1> DEFINE Claim(n) ==
                 \/ f[n] = Unheard /\ \A j \in 1..n : Wanted(p, es[j]) = None
                 \/ \E i \in 1..n : /\ Wins(p, es, i, n)
                                    /\ f[n] = [mode |-> Wanted(p, es[i]), urgency |-> Urgency(es[i])]
             Failing == {n \in 0..Len(es) : ~Claim(n)}
  <1>3. Claim(0)
    BY <1>1
  <1>4. ASSUME NEW n \in 1..Len(es), Claim(n - 1) PROVE Claim(n)
    <2>1. PICK best : best = f[n - 1]
      OBVIOUS
    <2>2. f[n] = Hear(p, es[n], best)
      BY <1>1, <2>1
    <2>3. \/ best = Unheard /\ \A j \in 1..n - 1 : Wanted(p, es[j]) = None
          \/ \E i \in 1..n - 1 : /\ Wins(p, es, i, n - 1)
                                 /\ best = [mode |-> Wanted(p, es[i]), urgency |-> Urgency(es[i])]
      BY <1>4, <2>1
    <2>4. \/ Hear(p, es[n], best) = Unheard /\ \A j \in 1..n : Wanted(p, es[j]) = None
          \/ \E i \in 1..n : /\ Wins(p, es, i, n)
                             /\ Hear(p, es[n], best)
                                   = [mode |-> Wanted(p, es[i]), urgency |-> Urgency(es[i])]
      BY <2>3, HearKeepsWinner
    <2> QED BY <2>2, <2>4
  <1>5. Failing = {}
    <2>1. SUFFICES ASSUME Failing # {} PROVE FALSE
      OBVIOUS
    <2>2. PICK n \in Failing : \A m \in Failing : n <= m
      <3>1. Failing \in SUBSET Nat
        OBVIOUS
      <3> HIDE DEF Failing
      <3> QED BY <2>1, <3>1, NatLeast
    <2>3. n \in 0..Len(es) /\ ~Claim(n)
      BY <2>2
    <2>4. n # 0
      BY <1>3, <2>3
    <2>5. n \in 1..Len(es) /\ n - 1 \in 0..Len(es) /\ ~(n <= n - 1)
      BY <1>2, <2>3, <2>4
    <2>6. Claim(n - 1)
      BY <2>2, <2>5
    <2> QED BY <1>4, <2>3, <2>5, <2>6
  <1>6. Claim(Len(es))
    BY <1>2, <1>5
  <1>7. PICK last, picked : last = f[Len(es)] /\ picked = PickEscalationMode(p, es)
    OBVIOUS
  <1>8. picked = last.mode
    BY <1>1, <1>7
  <1>9. CASE last = Unheard /\ \A j \in 1..Len(es) : Wanted(p, es[j]) = None
    BY <1>7, <1>8, <1>9 DEF Unheard
  <1>10. ASSUME NEW i \in 1..Len(es), Wins(p, es, i, Len(es)),
                last = [mode |-> Wanted(p, es[i]), urgency |-> Urgency(es[i])]
         PROVE  picked = Wanted(p, es[i])
    BY <1>8, <1>10
  <1> HIDE DEF Claim
  <1> QED BY <1>6, <1>7, <1>9, <1>10 DEF Claim

-----------------------------------------------------------------------------
(* What is decided *)

LEMMA ContextEscalates ==
    ASSUME NEW p \in Policies, NEW c \in Contexts
    PROVE  Escalates(p, c.escalations)
  BY RoutingConstants, Urgencies DEF Escalates, Wanted, Urgency

\* The first wish that wants a mode is granted.
LEMMA FirstWish ==
    ASSUME NEW p \in Policies, NEW c \in Contexts, NEW spent
    PROVE  \E i \in 1..6 :
              LET w == Wishes(p, c, spent)
              IN  /\ w[i].mode # None
                  /\ \A j \in 1..i - 1 : w[j].mode = None
                  /\ Candidate(p, c, spent)
                        = [mode |-> w[i].mode, reason |-> w[i].reason,
                           escalated |-> w[i].reason = "escalation_signal"]
  <1>1. PICK w : w = Wishes(p, c, spent)
    OBVIOUS
  <1>2. DOMAIN w = 1..6 /\ w[6].mode # None
    BY <1>1, RoutingConstants DEF Wishes, Modes, None
  <1> DEFINE First(i) == w[i].mode # None /\ \A j \in 1..i - 1 : w[j].mode = None
  <1>3. \E i \in DOMAIN w : First(i)
    <2> DEFINE T == {i \in 1..6 : w[i].mode # None}
    <2>1. PICK i \in T : \A j \in T : i <= j
      <3>1. T \in SUBSET Nat /\ T # {}
        BY <1>2
      <3> HIDE DEF T
      <3> QED BY <3>1, NatLeast
    <2>2. \A j \in 1..i - 1 : j \notin T /\ j \in 1..6
      BY <2>1
    <2> QED BY <1>2, <2>1, <2>2
  <1>4. PICK i \in DOMAIN w : First(i) /\ i = CHOOSE h \in DOMAIN w : First(h)
    BY <1>3
  <1>5. Candidate(p, c, spent)
            = [mode |-> w[i].mode, reason |-> w[i].reason,
               escalated |-> w[i].reason = "escalation_signal"]
    BY <1>1, <1>4 DEF Candidate
  <1> QED BY <1>1, <1>2, <1>4, <1>5

\* Somebody goes before the escalations.
Earlier(p, c, spent) ==
    \/ c.requested # None
    \/ p.capabilityModes[c.capability] # None
    \/ p.costLimit > 0 /\ spent > p.costLimit

\* Who is heard, by what the ones before want.
FirstServed(p, c, spent, picked, cand) ==
    /\ c.requested # None => cand.mode = c.requested
    /\ c.requested = None /\ p.capabilityModes[c.capability] # None =>
          cand.mode = p.capabilityModes[c.capability]
    /\ c.requested = None /\ p.capabilityModes[c.capability] = None
          /\ p.costLimit > 0 /\ spent > p.costLimit => cand.mode = "cheap"
    /\ cand.escalated <=> (~Earlier(p, c, spent) /\ picked # None)
    /\ cand.escalated => cand.mode = picked
    /\ ~Earlier(p, c, spent) /\ picked = None =>
          cand.mode = IF PickLatencyMode(p, c.maxLatency) # None
                      THEN PickLatencyMode(p, c.maxLatency) ELSE p.defaultMode

\* The candidate's mode is one, that of the first who wants one.
LEMMA CandidateIsRight ==
    ASSUME NEW p \in Policies, NEW c \in Contexts, NEW spent
    PROVE  /\ Candidate(p, c, spent).mode \in Modes
           /\ Candidate(p, c, spent).reason # "hard_constraint"
           /\ Candidate(p, c, spent).escalated \in BOOLEAN
           /\ Candidate(p, c, spent)
                 = [mode |-> Candidate(p, c, spent).mode, reason |-> Candidate(p, c, spent).reason,
                    escalated |-> Candidate(p, c, spent).escalated]
           /\ FirstServed(p, c, spent, PickEscalationMode(p, c.escalations), Candidate(p, c, spent))
  <1>1. PICK w : w = Wishes(p, c, spent)
    OBVIOUS
  <1>2. PICK picked, latency, cheap :
            /\ picked = PickEscalationMode(p, c.escalations)
            /\ latency = PickLatencyMode(p, c.maxLatency)
            /\ cheap = IF p.costLimit > 0 /\ spent > p.costLimit THEN "cheap" ELSE None
    OBVIOUS
  <1>3. /\ w[1].mode = c.requested /\ w[1].reason = "caller_requested"
        /\ w[2].mode = p.capabilityModes[c.capability] /\ w[2].reason = "capability_override"
        /\ w[3].mode = cheap /\ w[3].reason = "cost_envelope_exceeded"
        /\ w[4].mode = picked /\ w[4].reason = "escalation_signal"
        /\ w[5].mode = latency /\ w[5].reason = "latency_constraint"
        /\ w[6].mode = p.defaultMode /\ w[6].reason = "policy_default"
    BY <1>1, <1>2 DEF Wishes
  <1>4. picked \in Modes \cup {None}
    <2>1. Escalates(p, c.escalations)
      BY ContextEscalates
    <2>2. \A j \in 1..Len(c.escalations) : Wanted(p, c.escalations[j]) \in Modes \cup {None}
      BY <2>1, ElementOfSeq, LenProperties DEF Escalates
    <2> QED BY <1>2, <2>1, <2>2, WinnerPicked
  <1>5. latency \in Modes \cup {None} /\ cheap \in Modes \cup {None}
    BY <1>2 DEF PickLatencyMode, Modes
  <1>6. \A i \in 1..6 : w[i].mode \in Modes \cup {None}
    <2>1. \A i \in 1..6 : i = 1 \/ i = 2 \/ i = 3 \/ i = 4 \/ i = 5 \/ i = 6
      OBVIOUS
    <2> QED BY <1>3, <1>4, <1>5, <2>1, RoutingConstants
  <1>7. PICK cand : cand = Candidate(p, c, spent)
    OBVIOUS
  <1>8. PICK i \in 1..6 : /\ w[i].mode # None
                          /\ \A j \in 1..i - 1 : w[j].mode = None
                          /\ cand = [mode |-> w[i].mode, reason |-> w[i].reason,
                                     escalated |-> w[i].reason = "escalation_signal"]
    BY <1>1, <1>7, FirstWish
  <1>9. /\ cand.mode = w[i].mode /\ cand.reason = w[i].reason
        /\ cand.escalated = (w[i].reason = "escalation_signal")
        /\ cand = [mode |-> cand.mode, reason |-> cand.reason, escalated |-> cand.escalated]
    BY <1>8
  <1>10. cand.mode \in Modes
    BY <1>6, <1>8, <1>9
  <1>11. i = 1 \/ i = 2 \/ i = 3 \/ i = 4 \/ i = 5 \/ i = 6
    OBVIOUS
  <1>12. cand.reason # "hard_constraint" /\ cand.escalated \in BOOLEAN
    BY <1>3, <1>9, <1>11
  <1>13. cand.escalated <=> i = 4
    BY <1>3, <1>9, <1>11
  <1>14. \A j \in 1..6 : j < i => w[j].mode = None
    <2>1. \A j \in 1..6 : j < i => j \in 1..i - 1
      OBVIOUS
    <2> QED BY <1>8, <2>1
  <1>15. /\ i > 1 => c.requested = None
         /\ i > 2 => p.capabilityModes[c.capability] = None
         /\ i > 3 => cheap = None
         /\ i > 4 => picked = None
         /\ i > 5 => latency = None
    BY <1>3, <1>14
  <1>16. /\ i = 1 => c.requested # None /\ cand.mode = c.requested
         /\ i = 2 => /\ p.capabilityModes[c.capability] # None
                     /\ cand.mode = p.capabilityModes[c.capability]
         /\ i = 3 => cheap # None /\ cand.mode = cheap
         /\ i = 4 => picked # None /\ cand.mode = picked
         /\ i = 5 => latency # None /\ cand.mode = latency
         /\ i = 6 => cand.mode = p.defaultMode
    BY <1>3, <1>8, <1>9
  <1>17. cheap # None <=> (p.costLimit > 0 /\ spent > p.costLimit)
    BY <1>2 DEF None
  <1>18. Earlier(p, c, spent) <=> i \in 1..3
    BY <1>11, <1>15, <1>16, <1>17 DEF Earlier
  <1>19. cheap = IF p.costLimit > 0 /\ spent > p.costLimit THEN "cheap" ELSE None
    BY <1>2
  <1>20. cand.escalated <=> (~Earlier(p, c, spent) /\ picked # None)
    BY <1>11, <1>13, <1>15, <1>16, <1>18
  <1>21. ~Earlier(p, c, spent) /\ picked = None =>
            cand.mode = IF latency # None THEN latency ELSE p.defaultMode
    BY <1>11, <1>15, <1>16, <1>18
  <1>22. c.requested # None => cand.mode = c.requested
    BY <1>11, <1>15, <1>16
  <1>23. c.requested = None /\ p.capabilityModes[c.capability] # None =>
            cand.mode = p.capabilityModes[c.capability]
    BY <1>11, <1>15, <1>16
  <1>24. c.requested = None /\ p.capabilityModes[c.capability] = None /\ cheap # None =>
            cand.mode = "cheap"
    BY <1>11, <1>15, <1>16, <1>19
  <1>25. FirstServed(p, c, spent, picked, cand)
    BY <1>2, <1>13, <1>16, <1>17, <1>20, <1>21, <1>22, <1>23, <1>24 DEF FirstServed
  <1> QED BY <1>2, <1>7, <1>9, <1>10, <1>12, <1>25

\* A mode that is wanted, cut down to the ceiling.
Given(p, m, d) ==
    /\ d.mode = IF Deeper(m, p.modeCeiling) THEN p.modeCeiling ELSE m
    /\ d.reason = "hard_constraint" <=> Deeper(m, p.modeCeiling)

\* UrgencyWins, for what is decided for one context.
Right(p, c, spent, d) ==
    LET capable == p.capabilityModes[c.capability]
        latency == PickLatencyMode(p, c.maxLatency)
        mapped == {e \in ToSet(c.escalations) : p.escalationModeMap[e.signalClass] # None}
        urgent == {e \in mapped : \A f \in mapped :
                      PriorityDepth[f.priority] <= PriorityDepth[e.priority]}
        wanted == {p.escalationModeMap[e.signalClass] : e \in urgent}
    IN  /\ c.requested # None => Given(p, c.requested, d)
        /\ c.requested = None /\ capable # None => Given(p, capable, d)
        /\ c.requested = None /\ capable = None /\ p.costLimit > 0 /\ spent > p.costLimit =>
              Given(p, "cheap", d)
        /\ d.escalated <=> (~Earlier(p, c, spent) /\ mapped # {})
        /\ d.escalated =>
              \E m \in wanted : (\A n \in wanted : ~Deeper(n, m)) /\ Given(p, m, d)
        /\ ~Earlier(p, c, spent) /\ mapped = {} =>
              Given(p, IF latency # None THEN latency ELSE p.defaultMode, d)

LEMMA DecidesRight ==
    ASSUME NEW p \in Policies, NEW c \in Contexts, NEW spent
    PROVE  Right(p, c, spent, Decide(p, c, spent))
  <1>1. PICK cand, d, es, picked :
            /\ cand = Candidate(p, c, spent) /\ d = Decide(p, c, spent)
            /\ es = c.escalations /\ picked = PickEscalationMode(p, c.escalations)
    OBVIOUS
  <1>2. /\ cand.mode \in Modes /\ cand.reason # "hard_constraint" /\ cand.escalated \in BOOLEAN
        /\ cand = [mode |-> cand.mode, reason |-> cand.reason, escalated |-> cand.escalated]
        /\ FirstServed(p, c, spent, picked, cand)
    BY <1>1, CandidateIsRight
  <1>3. d = IF Deeper(cand.mode, p.modeCeiling)
            THEN [cand EXCEPT !.mode = p.modeCeiling, !.reason = "hard_constraint"] ELSE cand
    BY <1>1 DEF Decide
  <1>4. /\ d.mode = IF Deeper(cand.mode, p.modeCeiling) THEN p.modeCeiling ELSE cand.mode
        /\ d.reason = "hard_constraint" <=> Deeper(cand.mode, p.modeCeiling)
        /\ d.escalated = cand.escalated
    <2>1. CASE Deeper(cand.mode, p.modeCeiling)
      <3>1. d = [cand EXCEPT !.mode = p.modeCeiling, !.reason = "hard_constraint"]
        BY <1>3, <2>1
      <3>2. d = [mode |-> p.modeCeiling, reason |-> "hard_constraint", escalated |-> cand.escalated]
        BY <1>2, <3>1
      <3> QED BY <2>1, <3>2
    <2>2. CASE ~Deeper(cand.mode, p.modeCeiling)
      BY <1>2, <1>3, <2>2
    <2> QED BY <2>1, <2>2
  <1>5. p.capabilityModes[c.capability] \in Modes \cup {None}
    BY RoutingConstants
  <1>6. Given(p, cand.mode, d)
    BY <1>4 DEF Given
  <1>7. PICK mapped : mapped = {e \in ToSet(es) : Wanted(p, e) # None}
    OBVIOUS
  <1>8. PICK urgent : urgent = {e \in mapped : \A f \in mapped : Urgency(f) <= Urgency(e)}
    OBVIOUS
  <1>9. PICK wanted : wanted = {Wanted(p, e) : e \in urgent}
    OBVIOUS
  <1>10. Escalates(p, es)
    BY <1>1, ContextEscalates
  <1>11. ToSet(es) = {es[j] : j \in 1..Len(es)} /\ Len(es) \in Nat
    BY <1>10, ToSetProperties DEF Escalates
  <1>12. \/ picked = None /\ \A j \in 1..Len(es) : Wanted(p, es[j]) = None
         \/ \E i \in 1..Len(es) : Wins(p, es, i, Len(es)) /\ picked = Wanted(p, es[i])
    BY <1>1, <1>10, WinnerPicked
  <1>13. mapped # {} <=> picked # None
    <2>1. (\A j \in 1..Len(es) : Wanted(p, es[j]) = None) => mapped = {}
      BY <1>7, <1>11
    <2>2. ASSUME picked # None PROVE mapped # {}
      <3>1. PICK i \in 1..Len(es) : picked = Wanted(p, es[i])
        BY <1>12, <2>2
      <3>2. es[i] \in mapped
        BY <1>7, <1>11, <2>2, <3>1
      <3> QED BY <3>2
    <2> QED BY <1>12, <2>1, <2>2 DEF Wins
  <1>14. ASSUME d.escalated
         PROVE  \E m \in wanted : (\A n \in wanted : ~Deeper(n, m)) /\ Given(p, m, d)
    <2>1. picked # None /\ cand.mode = picked
      BY <1>2, <1>4, <1>14 DEF FirstServed
    <2>2. PICK i \in 1..Len(es) : Wins(p, es, i, Len(es)) /\ picked = Wanted(p, es[i])
      BY <1>12, <2>1
    <2>3. es[i] \in mapped
      BY <1>7, <1>11, <2>1, <2>2
    <2>4. ASSUME NEW e \in mapped
          PROVE  /\ Urgency(e) <= Urgency(es[i])
                 /\ Urgency(e) = Urgency(es[i]) => ~Deeper(Wanted(p, e), Wanted(p, es[i]))
      <3>1. PICK j \in 1..Len(es) : e = es[j] /\ Wanted(p, es[j]) # None
        BY <1>7, <1>11
      <3> QED BY <2>2, <3>1 DEF Wins
    <2>5. es[i] \in urgent
      BY <1>8, <2>3, <2>4
    <2>6. picked \in wanted
      BY <1>9, <2>2, <2>5
    <2>7. ASSUME NEW n \in wanted PROVE ~Deeper(n, picked)
      <3>1. PICK e \in urgent : n = Wanted(p, e)
        BY <1>9
      <3>2. e \in mapped /\ Urgency(es[i]) <= Urgency(e)
        BY <1>8, <2>3
      <3>3. e \in ToSet(es) /\ es[i] \in ToSet(es)
        BY <1>7, <2>3, <3>2
      <3>4. Urgency(e) \in Nat /\ Urgency(es[i]) \in Nat
        BY <1>10, <3>3 DEF Escalates
      <3>5. Urgency(e) <= Urgency(es[i])
        BY <2>4, <3>2
      <3>6. Urgency(e) = Urgency(es[i])
        BY <3>2, <3>4, <3>5
      <3> QED BY <2>2, <2>4, <3>1, <3>2, <3>6
    <2> QED BY <1>6, <2>1, <2>6, <2>7
  <1>15. d.escalated <=> (~Earlier(p, c, spent) /\ mapped # {})
    BY <1>2, <1>4, <1>13 DEF FirstServed
  <1>16. /\ c.requested # None => Given(p, c.requested, d)
         /\ c.requested = None /\ p.capabilityModes[c.capability] # None =>
               Given(p, p.capabilityModes[c.capability], d)
         /\ c.requested = None /\ p.capabilityModes[c.capability] = None
               /\ p.costLimit > 0 /\ spent > p.costLimit => Given(p, "cheap", d)
    BY <1>2, <1>6 DEF FirstServed
  <1>17. ~Earlier(p, c, spent) /\ mapped = {} =>
            Given(p, IF PickLatencyMode(p, c.maxLatency) # None
                     THEN PickLatencyMode(p, c.maxLatency) ELSE p.defaultMode, d)
    BY <1>2, <1>6, <1>13 DEF FirstServed
  <1>18. /\ mapped = {e \in ToSet(c.escalations) : p.escalationModeMap[e.signalClass] # None}
         /\ urgent = {e \in mapped : \A f \in mapped :
                         PriorityDepth[f.priority] <= PriorityDepth[e.priority]}
         /\ wanted = {p.escalationModeMap[e.signalClass] : e \in urgent}
    BY <1>1, <1>7, <1>8, <1>9 DEF Wanted, Urgency
  <1>19. Right(p, c, spent, d)
    BY <1>14, <1>15, <1>16, <1>17, <1>18 DEF Right
  <1> QED BY <1>1, <1>19

DecidedInv ==
    /\ policy \in Policies
    /\ decision # Undecided =>
          asked.context \in Contexts /\ decision = Decide(policy, asked.context, asked.spent)

\* Whatever the policy, the escalations and their order, the caller, the capability, the
\* budget, the most urgent escalation (the deepest of those), the latency and the default
\* are heard in this order, and an answer says it was cut down to the ceiling exactly
\* when it was (decide).
THEOREM MostUrgentWins == RouteSpec => []UrgencyWins
  <1>1. RouteInit => DecidedInv
    BY DEF RouteInit, DecidedInv
  <1>2. DecidedInv /\ [RouteNext]_routeVars => DecidedInv'
    <2> SUFFICES ASSUME DecidedInv, [RouteNext]_routeVars PROVE DecidedInv'
      OBVIOUS
    <2>1. ASSUME NEW t \in Threads, NEW c \in Contexts, Ask(t, c) PROVE DecidedInv'
      <3>1. asked'.context = c /\ asked'.spent = costs[t] /\ policy' = policy
        BY <2>1 DEF Ask, Answer
      <3> QED BY <2>1, <3>1 DEF Ask, Answer, DecidedInv
    <2>2. ASSUME UNCHANGED <<policy, asked, decision>> PROVE DecidedInv'
      BY <2>2 DEF DecidedInv, Undecided
    <2> QED BY <2>1, <2>2 DEF RouteNext, RecordCost, ResetCost, routeVars
  <1>3. DecidedInv => UrgencyWins
    <2> SUFFICES ASSUME DecidedInv, decision # Undecided PROVE UrgencyWins
      BY DEF UrgencyWins
    <2>1. Right(policy, asked.context, asked.spent, decision)
      BY DecidesRight DEF DecidedInv
    <2> QED BY <2>1 DEF Right, Given, Earlier, UrgencyWins
  <1> QED BY <1>1, <1>2, <1>3, PTL DEF RouteSpec

-----------------------------------------------------------------------------
(* The turn of a coordinator *)

Signals == [source : Specialists, class : Classes, born : Nat, expires : Nat,
            state : {"live", "superseded", "resolved", "expired"}, ended : Nat]
Statuses == {"complete", "partial", "failed"}

-----------------------------------------------------------------------------
(* The invariant *)

IsAlarm(sig) == sig.class \in {"confidence.blocker", "escalation.interrupt"}

\* SettledBy, for a signal instead of its number.
Settled(sig, j) ==
    \/ sig.ended < j
    \/ sig.ended = j /\ sig.state \in {"superseded", "resolved"}

\* A step that must not be outlived by an alarm.
Minds(j, sig) ==
    /\ IsAlarm(sig)
    /\ ~plan[j].optional
    /\ plan[j].name = sig.source
    /\ sig.born <= j

\* Crowded, for any log: of these many signals a query may leave one out.
CrowdOf(log, name, j) == {t \in DOMAIN log : log[t].source = name /\ log[t].born <= j}
Hidden(log, name, j) == Cardinality(CrowdOf(log, name, j)) > QueryLimit

\* A signal in step n of a log: it ended in this step or before, or not yet; and an alarm
\* was settled by each of the steps behind that mind it, unless it was hidden from one.
Sound(sig, n, log) ==
    /\ sig.born <= n
    /\ sig.state = "live" => sig.ended = NotEnded
    /\ sig.state # "live" => Settled(sig, n)
    /\ \A j \in 1..n - 1 : Minds(j, sig) => Settled(sig, j) \/ Hidden(log, sig.source, j)

AllSound(log, n) == log \in Seq(Signals) /\ \A s \in DOMAIN log : Sound(log[s], n, log)

CoordTypeOK ==
    /\ plan \in Plans
    /\ progress \in {"idle", "handler"} \cup Ends
    /\ k \in Nat
    /\ results \in Seq(Statuses)
    /\ skipped \in Seq(Nat)
    /\ raised \in Seq(Signals)

CoordInv ==
    /\ CoordTypeOK
    /\ \A j \in ToSet(skipped) : plan[j].optional
    /\ progress = "idle" => results = <<>> /\ raised = <<>>
    /\ progress = "handler" =>
          /\ k \in 1..Len(plan)
          /\ Len(plan) <= MaxSteps
          /\ Len(results) = k - 1
          /\ AllSound(raised, k)
    /\ AnswerIsEarned

-----------------------------------------------------------------------------
(* What may happen to signals *)

LEMMA PlanFacts ==
    ASSUME CoordTypeOK
    PROVE  /\ Len(plan) \in Nat /\ DOMAIN plan = 1..Len(plan)
           /\ \A j \in 1..Len(plan) : plan[j].name \in Specialists /\ plan[j].optional \in BOOLEAN
           /\ MaxSteps \in Nat /\ NotEnded \in Nat /\ NotEnded > MaxSteps
  <1>1. plan \in Seq([name : Specialists, optional : BOOLEAN])
    BY CoordinationConstants DEF CoordTypeOK
  <1>2. Len(plan) \in Nat /\ DOMAIN plan = 1..Len(plan)
    BY <1>1, LenProperties
  <1>3. \A j \in 1..Len(plan) : plan[j] \in [name : Specialists, optional : BOOLEAN]
    BY <1>1, ElementOfSeq
  <1>4. MaxSteps \in Nat /\ NotEnded \in Nat /\ NotEnded > MaxSteps
    BY CoordinationConstants DEF NotEnded
  <1> QED BY <1>2, <1>3, <1>4

\* Signals are changed one by one.
LEMMA Changed ==
    ASSUME NEW S, NEW log \in Seq(S), NEW f \in [DOMAIN log -> S]
    PROVE  f \in Seq(S) /\ DOMAIN f = DOMAIN log /\ Len(f) = Len(log)
  <1>1. DOMAIN log = 1..Len(log) /\ Len(log) \in Nat
    BY LenProperties
  <1>2. f \in [1..Len(log) -> S]
    BY <1>1
  <1>3. f \in Seq(S)
    BY <1>1, <1>2, SeqDef
  <1>4. DOMAIN f = 1..Len(log)
    BY <1>2
  <1>5. Len(f) = Len(log)
    BY <1>1, <1>3, <1>4, LenProperties
  <1> QED BY <1>1, <1>3, <1>4, <1>5

\* Who raised a signal, and when, stays, so that a crowd only grows.
Continues(log, new) ==
    /\ log \in Seq(Signals) /\ new \in Seq(Signals)
    /\ Len(log) <= Len(new)
    /\ \A t \in DOMAIN log : new[t].source = log[t].source /\ new[t].born = log[t].born

LEMMA StillHidden ==
    ASSUME NEW log, NEW new, Continues(log, new), NEW name, NEW j, Hidden(log, name, j)
    PROVE  Hidden(new, name, j)
  <1>1. PICK m, n \in Nat : m = Len(log) /\ n = Len(new) /\ m <= n
    BY LenProperties DEF Continues
  <1>2. DOMAIN log = 1..m /\ DOMAIN new = 1..n
    BY <1>1, LenProperties DEF Continues
  <1>3. CrowdOf(log, name, j) \subseteq CrowdOf(new, name, j)
    BY <1>1, <1>2 DEF Continues, CrowdOf
  <1>4. CrowdOf(new, name, j) \subseteq 1..n /\ IsFiniteSet(1..n)
    BY <1>1, <1>2, FS_Interval DEF CrowdOf
  <1>5. IsFiniteSet(CrowdOf(new, name, j))
    BY <1>4, FS_Subset
  <1>6. Cardinality(CrowdOf(log, name, j)) <= Cardinality(CrowdOf(new, name, j))
    BY <1>3, <1>5, FS_Subset
  <1>7. IsFiniteSet(CrowdOf(log, name, j))
    BY <1>3, <1>5, FS_Subset
  <1>8. /\ Cardinality(CrowdOf(log, name, j)) \in Nat
        /\ Cardinality(CrowdOf(new, name, j)) \in Nat
    BY <1>5, <1>7, FS_CardinalityType
  <1> QED BY <1>6, <1>8, CoordinationConstants DEF Hidden

LEMMA StillSound ==
    ASSUME NEW log, NEW new, Continues(log, new), NEW n, NEW sig, Sound(sig, n, log)
    PROVE  Sound(sig, n, new)
  BY StillHidden DEF Sound

\* A live signal ends in the step under way, taken back or resolved.
LEMMA EndsSoundly ==
    ASSUME CoordTypeOK, NEW n \in 1..Len(plan), Len(plan) <= MaxSteps, NEW log,
           NEW sig \in Signals, Sound(sig, n, log), sig.state = "live",
           NEW end \in {"superseded", "resolved"}
    PROVE  LET ended == [sig EXCEPT !.state = end, !.ended = n]
           IN  /\ ended \in Signals /\ Sound(ended, n, log)
               /\ ended.source = sig.source /\ ended.born = sig.born
  <1>1. PICK e : e = [sig EXCEPT !.state = end, !.ended = n]
    OBVIOUS
  <1>2. e = [source |-> sig.source, class |-> sig.class, born |-> sig.born,
             expires |-> sig.expires, state |-> end, ended |-> n]
    BY <1>1 DEF Signals
  <1>3. Len(plan) \in Nat /\ MaxSteps \in Nat /\ NotEnded \in Nat /\ NotEnded > MaxSteps
    BY PlanFacts
  <1>4. e \in Signals
    BY <1>2, <1>3 DEF Signals
  <1>5. Settled(e, n) /\ e.state # "live" /\ e.born <= n
    BY <1>2, <1>3 DEF Settled, Sound
  <1>6. ASSUME NEW j \in 1..n - 1, Minds(j, e) PROVE Settled(e, j) \/ Hidden(log, e.source, j)
    <2>1. Minds(j, sig)
      BY <1>2, <1>6 DEF Minds, IsAlarm
    <2>2. Settled(sig, j) \/ Hidden(log, sig.source, j)
      BY <2>1 DEF Sound
    <2>3. sig.ended > j /\ j \in Nat
      BY <1>3 DEF Sound
    <2>4. ~Settled(sig, j)
      BY <1>3, <2>3 DEF Settled, Signals
    <2> QED BY <1>2, <2>2, <2>4
  <1> QED BY <1>1, <1>2, <1>4, <1>5, <1>6 DEF Sound

LEMMA ResolvedSoundly ==
    ASSUME CoordTypeOK, NEW n \in 1..Len(plan), Len(plan) <= MaxSteps,
           NEW log, AllSound(log, n), NEW s \in DOMAIN log, log[s].state = "live"
    PROVE  AllSound(Resolved({s}, log, n), n) /\ DOMAIN Resolved({s}, log, n) = DOMAIN log
  <1>1. PICK new : new = Resolved({s}, log, n)
    OBVIOUS
  <1>2. \A t \in DOMAIN log : log[t] \in Signals /\ Sound(log[t], n, log)
    BY ElementOfSeq, LenProperties DEF AllSound
  <1>3. PICK e : e = [log[s] EXCEPT !.state = "resolved", !.ended = n]
    OBVIOUS
  <1>4. e \in Signals /\ Sound(e, n, log) /\ e.source = log[s].source /\ e.born = log[s].born
    <2>1. log[s] \in Signals /\ Sound(log[s], n, log)
      BY <1>2
    <2> QED BY <1>3, <2>1, EndsSoundly
  <1>5. new = [t \in DOMAIN log |-> IF t = s THEN e ELSE log[t]]
    BY <1>1, <1>3 DEF Resolved
  <1>6. new \in [DOMAIN log -> Signals]
    BY <1>2, <1>4, <1>5
  <1>7. new \in Seq(Signals) /\ DOMAIN new = DOMAIN log /\ Len(new) = Len(log)
    BY <1>6, Changed DEF AllSound
  <1>8. Continues(log, new)
    <2>1. Len(log) \in Nat
      BY LenProperties DEF AllSound
    <2> QED BY <1>4, <1>5, <1>7, <2>1 DEF Continues, AllSound
  <1>9. \A t \in DOMAIN new : Sound(new[t], n, log)
    BY <1>2, <1>4, <1>5
  <1>10. \A t \in DOMAIN new : Sound(new[t], n, new)
    BY <1>8, <1>9, StillSound
  <1> QED BY <1>1, <1>7, <1>10 DEF AllSound

\* The step is over: it minds no alarm that is live, but for hidden ones, and some
\* signals expire.
LEMMA AdvancedSoundly ==
    ASSUME CoordTypeOK, k \in 1..Len(plan), Len(plan) <= MaxSteps,
           NEW log, AllSound(log, k),
           \A s \in DOMAIN log : log[s].state = "live" /\ Minds(k, log[s]) =>
                                     Hidden(log, log[s].source, k)
    PROVE  AllSound(Advanced(log), k + 1) /\ DOMAIN Advanced(log) = DOMAIN log
  <1>1. PICK new : new = Advanced(log)
    OBVIOUS
  <1>2. \A t \in DOMAIN log : log[t] \in Signals /\ Sound(log[t], k, log)
    BY ElementOfSeq, LenProperties DEF AllSound
  <1>3. new = [s \in DOMAIN log |-> IF log[s].state = "live" /\ log[s].expires <= k
                                    THEN [log[s] EXCEPT !.state = "expired", !.ended = k]
                                    ELSE log[s]]
    BY <1>1 DEF Advanced
  <1>4. Len(plan) \in Nat /\ MaxSteps \in Nat /\ NotEnded \in Nat /\ NotEnded > MaxSteps
    BY PlanFacts
  <1>5. ASSUME NEW s \in DOMAIN log
        PROVE  /\ new[s] \in Signals /\ Sound(new[s], k + 1, log)
               /\ new[s].source = log[s].source /\ new[s].born = log[s].born
    <2>1. log[s] \in Signals /\ Sound(log[s], k, log)
      BY <1>2
    <2>2. ASSUME NEW j \in 1..k, Minds(j, log[s])
          PROVE  Settled(log[s], j) \/ Hidden(log, log[s].source, j)
      <3>1. CASE j = k
        BY <2>1, <2>2, <3>1 DEF Sound
      <3>2. CASE j # k
        <4>1. j \in 1..k - 1
          BY <1>4, <3>2
        <4> QED BY <2>1, <2>2, <4>1 DEF Sound
      <3> QED BY <3>1, <3>2
    <2>3. CASE log[s].state = "live" /\ log[s].expires <= k
      <3>1. new[s] = [log[s] EXCEPT !.state = "expired", !.ended = k]
        BY <1>3, <2>3
      <3>2. new[s] = [source |-> log[s].source, class |-> log[s].class, born |-> log[s].born,
                      expires |-> log[s].expires, state |-> "expired", ended |-> k]
        BY <2>1, <3>1 DEF Signals
      <3>3. new[s] \in Signals
        BY <1>4, <2>1, <3>2 DEF Signals
      <3>4. Settled(new[s], k + 1) /\ new[s].state # "live" /\ new[s].born <= k + 1
        BY <1>4, <2>1, <3>2 DEF Settled, Sound, Signals
      <3>5. ASSUME NEW j \in 1..k, Minds(j, new[s]) PROVE Hidden(log, new[s].source, j)
        <4>1. Minds(j, log[s])
          BY <3>2, <3>5 DEF Minds, IsAlarm
        <4>2. Settled(log[s], j) \/ Hidden(log, log[s].source, j)
          BY <2>2, <4>1
        <4>3. log[s].ended > j
          BY <1>4, <2>1, <2>3 DEF Sound
        <4>4. ~Settled(log[s], j)
          BY <1>4, <4>3, <2>1 DEF Settled, Signals
        <4> QED BY <3>2, <4>2, <4>4
      <3>6. k + 1 - 1 = k
        BY <1>4
      <3> QED BY <3>2, <3>3, <3>4, <3>5, <3>6 DEF Sound
    <2>4. CASE ~(log[s].state = "live" /\ log[s].expires <= k)
      <3>1. new[s] = log[s]
        BY <1>3, <2>4
      <3>2. log[s].state # "live" => Settled(log[s], k + 1)
        BY <1>4, <2>1 DEF Settled, Sound, Signals
      <3>3. k + 1 - 1 = k /\ log[s].born <= k + 1
        BY <1>4, <2>1 DEF Sound, Signals
      <3> QED BY <2>1, <2>2, <3>1, <3>2, <3>3 DEF Sound
    <2> QED BY <2>3, <2>4
  <1>6. new \in [DOMAIN log -> Signals]
    BY <1>3, <1>5
  <1>7. new \in Seq(Signals) /\ DOMAIN new = DOMAIN log /\ Len(new) = Len(log)
    BY <1>6, Changed DEF AllSound
  <1>8. Continues(log, new)
    <2>1. Len(log) \in Nat
      BY LenProperties DEF AllSound
    <2> QED BY <1>5, <1>7, <2>1 DEF Continues, AllSound
  <1>9. \A t \in DOMAIN new : Sound(new[t], k + 1, new)
    BY <1>5, <1>7, <1>8, StillSound
  <1> QED BY <1>1, <1>7, <1>9 DEF AllSound

-----------------------------------------------------------------------------
(* The end of a plan, and of a step *)

\* What an answer of the package's own synthesis says of all its results.
LEMMA WholeIsEarned ==
    ASSUME CoordTypeOK, NEW all \in Seq(Statuses), Len(all) = Len(plan),
           strategy # "custom", "complete" \in Synthesized(all)
    PROVE  \A j \in DOMAIN plan : all[j] = "complete"
  <1>1. PICK usable : usable = {j \in DOMAIN all : all[j] # "failed"}
    OBVIOUS
  <1>2. DOMAIN all = 1..Len(plan) /\ DOMAIN plan = 1..Len(plan) /\ Len(plan) \in Nat
    BY LenProperties, PlanFacts
  <1>3. Cardinality(usable) = Len(plan) /\ \A j \in usable : all[j] = "complete"
    <2>1. "degraded" # "complete"
      OBVIOUS
    <2> QED BY <1>1, <2>1 DEF Synthesized
  <1>4. IsFiniteSet(1..Len(plan)) /\ Cardinality(1..Len(plan)) = Len(plan)
    <2>1. PICK n \in Nat : n = Len(plan)
      BY <1>2
    <2>2. IsFiniteSet(1..n) /\ Cardinality(1..n) = IF 1 > n THEN 0 ELSE n - 1 + 1
      BY FS_Interval
    <2> QED BY <2>1, <2>2
  <1>5. usable \subseteq 1..Len(plan)
    BY <1>1, <1>2
  <1>6. usable = 1..Len(plan)
    BY <1>3, <1>4, <1>5, FS_Subset
  <1> QED BY <1>2, <1>3, <1>6

\* One of the oldest signals is not beyond the limit of the sweep.
LEMMA OldestSwept ==
    ASSUME NEW next \in Seq(Signals), NEW s \in DOMAIN next, s <= SweepLimit,
           next[s].state = "live", next[s].class # "conflict.active"
    PROVE  s \in Resolvable(next)
  <1>1. s \in Nat \ {0} /\ SweepLimit \in Nat
    BY LenProperties, CoordinationConstants
  <1>2. PICK before : before = {r \in 1..s - 1 : next[r].state # "expired"}
    OBVIOUS
  <1>3. PICK n \in Nat : n = s - 1
    BY <1>1
  <1>4. IsFiniteSet(1..n) /\ Cardinality(1..n) = n
    <2>1. IsFiniteSet(1..n) /\ Cardinality(1..n) = IF 1 > n THEN 0 ELSE n - 1 + 1
      BY FS_Interval
    <2> QED BY <2>1
  <1>5. before \subseteq 1..n
    BY <1>2, <1>3
  <1>6. IsFiniteSet(before) /\ Cardinality(before) <= n
    BY <1>4, <1>5, FS_Subset
  <1>7. Cardinality(before) \in Nat
    BY <1>6, FS_CardinalityType
  <1>8. Cardinality(before) < SweepLimit
    BY <1>1, <1>3, <1>6, <1>7
  <1> QED BY <1>2, <1>8 DEF Resolvable

\* The sweep resolves what is live of the oldest signals, unless it is a conflict, and
\* nothing else.
LEMMA Swept ==
    ASSUME NEW next \in Seq(Signals), NEW end \in Nat
    PROVE  LET log == Resolved(Resolvable(next), next, end)
           IN  /\ Continues(next, log) /\ Continues(log, next) /\ DOMAIN log = DOMAIN next
               /\ \A s \in DOMAIN next :
                    /\ log[s].class = next[s].class
                    /\ next[s].state # "live" => log[s] = next[s]
                    /\ log[s].state = "live" => log[s] = next[s]
                    /\ log[s].state = "live" => log[s].class = "conflict.active" \/ s > SweepLimit
  <1>1. PICK log : log = Resolved(Resolvable(next), next, end)
    OBVIOUS
  <1>2. log = [s \in DOMAIN next |->
                  IF s \in Resolvable(next)
                  THEN [next[s] EXCEPT !.state = "resolved", !.ended = end] ELSE next[s]]
    BY <1>1 DEF Resolved
  <1>3. ASSUME NEW s \in DOMAIN next
        PROVE  /\ log[s] \in Signals
               /\ log[s].source = next[s].source /\ log[s].class = next[s].class
               /\ log[s].born = next[s].born
               /\ next[s].state # "live" => log[s] = next[s]
               /\ log[s].state = "live" => log[s] = next[s]
               /\ log[s].state = "live" => log[s].class = "conflict.active" \/ s > SweepLimit
    <2>1. next[s] \in Signals /\ s \in Nat /\ SweepLimit \in Nat
      BY ElementOfSeq, LenProperties, CoordinationConstants
    <2>2. CASE s \in Resolvable(next)
      <3>1. log[s] = [next[s] EXCEPT !.state = "resolved", !.ended = end]
        BY <1>2, <2>2
      <3>2. log[s] = [source |-> next[s].source, class |-> next[s].class,
                      born |-> next[s].born, expires |-> next[s].expires,
                      state |-> "resolved", ended |-> end]
        BY <2>1, <3>1 DEF Signals
      <3>3. next[s].state = "live"
        BY <2>2 DEF Resolvable
      <3> QED BY <2>1, <3>2, <3>3 DEF Signals
    <2>3. CASE s \notin Resolvable(next)
      <3>1. log[s] = next[s]
        BY <1>2, <2>3
      <3>2. next[s].state = "live" => next[s].class = "conflict.active" \/ ~(s <= SweepLimit)
        BY <2>3, OldestSwept
      <3>3. ~(s <= SweepLimit) => s > SweepLimit
        BY <2>1
      <3> QED BY <2>1, <3>1, <3>2, <3>3
    <2> QED BY <2>2, <2>3
  <1>4. log \in [DOMAIN next -> Signals]
    BY <1>2, <1>3
  <1>5. log \in Seq(Signals) /\ DOMAIN log = DOMAIN next /\ Len(log) = Len(next)
    BY <1>4, Changed
  <1>6. Continues(next, log) /\ Continues(log, next)
    <2>1. Len(next) \in Nat
      BY LenProperties
    <2> QED BY <1>3, <1>5, <2>1 DEF Continues
  <1> QED BY <1>1, <1>3, <1>5, <1>6

\* The turn ends behind a handler, without an answer.
LEMMA Stops ==
    ASSUME CoordInv, NEW log \in Seq(Signals), NEW all \in Seq(Statuses),
           NEW end \in {"blocked", "failed"}, Stop(end, all, log), plan' = plan,
           strategy' = strategy, skipped' \in Seq(Nat), \A j \in ToSet(skipped') : plan[j].optional
    PROVE  CoordInv'
  <1>1. progress' = end /\ results' = all /\ raised' = log /\ k' = k
    BY DEF Stop
  <1>2. CoordTypeOK'
    BY <1>1 DEF CoordInv, CoordTypeOK, Ends
  <1> QED BY <1>1, <1>2 DEF CoordInv, AnswerIsEarned

\* The plan is done, with an answer or a custom synthesizer that throws.
LEMMA Finishes ==
    ASSUME CoordInv, CoordTypeOK, k = Len(plan), Len(plan) <= MaxSteps,
           NEW next, AllSound(next, k + 1),
           NEW all \in Seq(Statuses), Len(all) = k, Finish(all, next),
           plan' = plan, strategy' = strategy,
           skipped' \in Seq(Nat), \A j \in ToSet(skipped') : plan[j].optional
    PROVE  CoordInv'
  <1>1. /\ Len(plan) \in Nat /\ DOMAIN plan = 1..Len(plan)
        /\ MaxSteps \in Nat /\ NotEnded \in Nat /\ NotEnded > MaxSteps /\ k + 1 \in Nat
    BY PlanFacts DEF CoordTypeOK
  <1>2. /\ next \in Seq(Signals)
        /\ \A s \in DOMAIN next : next[s] \in Signals /\ Sound(next[s], k + 1, next)
    BY ElementOfSeq, LenProperties DEF AllSound
  <1>3. CASE Stop("failed", all, next)
    BY <1>2, <1>3, Stops
  <1>4. ASSUME NEW given \in Synthesized(all), progress' = "returned", results' = all, k' = k,
               raised' = Resolved(Resolvable(next), next, k + 1),
               quality' = Quality(given, raised')
        PROVE  CoordInv'
    <2>1. PICK log : log = raised'
      OBVIOUS
    <2>2. /\ Continues(next, log) /\ Continues(log, next) /\ DOMAIN log = DOMAIN next
          /\ \A s \in DOMAIN next :
               /\ log[s].class = next[s].class
               /\ next[s].state # "live" => log[s] = next[s]
               /\ log[s].state = "live" => log[s] = next[s]
               /\ log[s].state = "live" => log[s].class = "conflict.active" \/ s > SweepLimit
      BY <1>1, <1>2, <1>4, <2>1, Swept
    <2>3. /\ log \in Seq(Signals)
          /\ \A s \in DOMAIN next : log[s].source = next[s].source /\ log[s].born = next[s].born
      BY <2>2 DEF Continues
    <2>4. CoordTypeOK'
      BY <1>4, <2>1, <2>3 DEF CoordTypeOK, Ends
    <2>5. ASSUME NEW s \in DOMAIN log, IsAlarm(log[s]), NEW j \in DOMAIN plan,
                 ~plan[j].optional, plan[j].name = log[s].source, log[s].born <= j
          PROVE  Settled(log[s], j) \/ Hidden(log, plan[j].name, j)
      <3>1. Minds(j, next[s])
        BY <2>2, <2>3, <2>5 DEF Minds, IsAlarm
      <3>2. j \in 1..k + 1 - 1 /\ j \in Nat /\ j <= MaxSteps
        BY <1>1, <2>5
      <3>3. Settled(next[s], j) \/ Hidden(next, next[s].source, j)
        BY <1>2, <2>2, <2>5, <3>1, <3>2 DEF Sound
      <3>4. CASE Hidden(next, next[s].source, j)
        <4>1. Hidden(log, next[s].source, j)
          BY <2>2, <3>4, StillHidden
        <4> QED BY <2>2, <2>3, <2>5, <4>1
      <3>5. CASE Settled(next[s], j)
        <4>1. next[s].state # "live"
          <5>1. SUFFICES ASSUME next[s].state = "live" PROVE FALSE
            OBVIOUS
          <5>2. next[s].ended = NotEnded
            BY <1>2, <2>2, <2>5, <5>1 DEF Sound
          <5> QED BY <1>1, <3>2, <3>5, <5>2 DEF Settled
        <4> QED BY <2>2, <2>5, <3>5, <4>1
      <3> QED BY <3>3, <3>4, <3>5
    <2>6. ASSUME NEW s \in Alarms', NEW j \in DOMAIN plan,
                 ~plan[j].optional, plan[j].name = raised'[s].source, raised'[s].born <= j
          PROVE  SettledBy(s, j)' \/ Crowded(plan[j].name, j)'
      <3>1. s \in DOMAIN log /\ IsAlarm(log[s])
        BY <2>1, <2>6 DEF Alarms, IsAlarm
      <3>2. Settled(log[s], j) \/ Hidden(log, plan[j].name, j)
        BY <2>1, <2>5, <2>6, <3>1
      <3> QED BY <2>1, <3>2 DEF Settled, SettledBy, Hidden, CrowdOf, Crowded
    <2>7. \A s \in Open' : raised'[s].class = "conflict.active" \/ s > SweepLimit
      BY <2>1, <2>2 DEF Open
    <2>8. quality' = "complete" => given = "complete" /\ Unresolved(log) = {}
      BY <1>4, <2>1 DEF Quality
    <2>9. quality' = "complete" /\ strategy # "custom" => \A j \in DOMAIN plan : all[j] = "complete"
      BY <2>8, WholeIsEarned
    <2>10. ASSUME Unresolved(log) = {}, NEW s \in DOMAIN log, log[s].class = "conflict.active"
           PROVE  log[s].state = "superseded" \/ s > SweepLimit
      <3>1. s \in Nat /\ SweepLimit \in Nat
        BY <2>3, LenProperties, CoordinationConstants
      <3>2. ~(s <= SweepLimit) => s > SweepLimit
        BY <3>1
      <3> QED BY <2>10, <3>2 DEF Unresolved
    <2>11. AnswerIsEarned'
      BY <1>4, <2>1, <2>6, <2>7, <2>8, <2>9, <2>10 DEF AnswerIsEarned
    <2> QED BY <1>4, <2>4, <2>11 DEF CoordInv
  <1> QED BY <1>3, <1>4 DEF Finish

\* The turn goes on behind a step that minds no live alarm but hidden ones.
LEMMA GoesOn ==
    ASSUME CoordInv, progress = "handler", NEW log, AllSound(log, k),
           \A s \in DOMAIN log : log[s].state = "live" /\ Minds(k, log[s]) =>
                                     Hidden(log, log[s].source, k),
           NEW all \in Seq(Statuses), Len(all) = k, GoOn(all, log),
           plan' = plan, strategy' = strategy,
           skipped' \in Seq(Nat), \A j \in ToSet(skipped') : plan[j].optional
    PROVE  CoordInv'
  <1>1. CoordTypeOK /\ k \in 1..Len(plan) /\ Len(plan) <= MaxSteps
    BY DEF CoordInv
  <1>2. /\ Len(plan) \in Nat /\ DOMAIN plan = 1..Len(plan)
        /\ MaxSteps \in Nat /\ NotEnded \in Nat /\ NotEnded > MaxSteps
    BY <1>1, PlanFacts
  <1>3. PICK next : next = Advanced(log)
    OBVIOUS
  <1>4. AllSound(next, k + 1)
    BY <1>1, <1>3, AdvancedSoundly
  <1>5. next \in Seq(Signals)
    BY <1>4 DEF AllSound
  <1>6. CASE k < Len(plan)
    <2>1. results' = all /\ raised' = next /\ BeginTurn(k + 1, costs'[TurnId])
      BY <1>3, <1>6 DEF GoOn
    <2>2. CASE plan[k + 1].name \notin registry
      <3>1. progress' = "notFound" /\ k' = k
        BY <2>1, <2>2 DEF BeginTurn
      <3> QED BY <1>1, <1>2, <1>5, <2>1, <3>1
              DEF CoordInv, CoordTypeOK, AnswerIsEarned, Ends
    <2>3. CASE plan[k + 1].name \in registry
      <3>1. progress' = "handler" /\ k' = k + 1
        BY <2>1, <2>3 DEF BeginTurn
      <3>2. CoordTypeOK'
        BY <1>1, <1>2, <1>5, <2>1, <3>1 DEF CoordTypeOK
      <3>3. AllSound(raised, k)'
        BY <1>4, <2>1, <3>1
           DEF AllSound, Sound, Settled, Hidden, CrowdOf, Minds, IsAlarm, NotEnded
      <3>4. k' \in 1..Len(plan') /\ Len(results') = k' - 1
        BY <1>1, <1>2, <1>6, <2>1, <3>1
      <3> QED BY <1>1, <3>1, <3>2, <3>3, <3>4 DEF CoordInv, AnswerIsEarned
    <2> QED BY <2>2, <2>3
  <1>7. CASE ~(k < Len(plan))
    <2>1. k = Len(plan)
      <3>1. PICK n \in Nat : n = Len(plan)
        BY <1>2
      <3>2. k \in 1..n /\ ~(k < n)
        BY <1>1, <1>7, <3>1
      <3> QED BY <3>1, <3>2
    <2>2. Finish(all, next)
      BY <1>3, <1>7 DEF GoOn
    <2> QED BY <1>1, <1>4, <2>1, <2>2, Finishes
  <1> QED BY <1>6, <1>7

\* A live alarm of the step's specialist that the look does not see is hidden.
LEMMA UnseenIsHidden ==
    ASSUME CoordInv, progress = "handler", NEW ms \in Clocks,
           NEW s \in Mine, s \notin LiveOf(raised[s].class, ms)
    PROVE  Hidden(raised, raised[s].source, k)
  <1>1. raised \in Seq(Signals) /\ \A t \in DOMAIN raised : Sound(raised[t], k, raised)
    BY DEF CoordInv, AllSound
  <1>2. PICK n \in Nat : n = Len(raised) /\ DOMAIN raised = 1..n
    BY <1>1, LenProperties
  <1>3. PICK ahead : ahead = {t \in Mine : Ahead(ms, t, s)}
    OBVIOUS
  <1>4. PICK crowd : crowd = CrowdOf(raised, raised[s].source, k)
    OBVIOUS
  <1>5. Mine \subseteq crowd /\ crowd \subseteq 1..n
    BY <1>1, <1>2, <1>4 DEF Mine, Open, Sound, CrowdOf
  <1>6. s \in crowd /\ ahead \subseteq crowd \ {s}
    <2>1. ms[s] \in Nat /\ s \in Nat
      BY <1>2 DEF Clocks, Mine, Open
    <2>2. ~Ahead(ms, s, s)
      BY <2>1 DEF Ahead
    <2> QED BY <1>3, <1>5, <2>2
  <1>7. IsFiniteSet(crowd)
    <2>1. IsFiniteSet(1..n)
      BY FS_Interval
    <2> QED BY <1>5, <2>1, FS_Subset
  <1>8. /\ IsFiniteSet(crowd \ {s}) /\ Cardinality(crowd) \in Nat
        /\ Cardinality(crowd \ {s}) = Cardinality(crowd) - 1
    BY <1>6, <1>7, FS_RemoveElement, FS_CardinalityType
  <1>9. /\ Cardinality(ahead) <= Cardinality(crowd \ {s})
        /\ Cardinality(ahead) \in Nat
    BY <1>6, <1>8, FS_Subset, FS_CardinalityType
  <1>10. ~(Cardinality(ahead) < QueryLimit)
    BY <1>3 DEF LiveOf
  <1>11. Cardinality(crowd) > QueryLimit
    BY <1>8, <1>9, <1>10, CoordinationConstants
  <1> QED BY <1>4, <1>11 DEF Hidden

\* The look at the signals behind a handler.
LEMMA Looks ==
    ASSUME CoordInv, progress = "handler", NEW all \in Seq(Statuses), Len(all) = k,
           NEW skips \in Seq(Nat), \A j \in ToSet(skips) : plan[j].optional,
           Look(all, skips), plan' = plan, strategy' = strategy
    PROVE  CoordInv'
  <1>1. CoordTypeOK /\ k \in 1..Len(plan) /\ Len(plan) <= MaxSteps /\ AllSound(raised, k)
    BY DEF CoordInv
  <1>2. k \in Nat /\ raised \in Seq(Signals)
    BY <1>1 DEF CoordTypeOK
  <1>3. ASSUME NEW s \in Open PROVE AllSound(Resolved({s}, raised, k), k)
    <2>1. s \in DOMAIN raised /\ raised[s].state = "live"
      BY DEF Open
    <2> QED BY <1>1, <2>1, ResolvedSoundly
  <1>4. ASSUME CurrentStep.optional, NEW s \in Open, GoOn(all, Resolved({s}, raised, k)),
               skipped' = Append(skips, k)
        PROVE  CoordInv'
    <2>1. PICK log : log = Resolved({s}, raised, k)
      OBVIOUS
    <2>2. AllSound(log, k) /\ GoOn(all, log)
      BY <1>3, <1>4, <2>1
    <2>3. \A t \in DOMAIN log : ~Minds(k, log[t])
      BY <1>4 DEF Minds, CurrentStep
    <2>4. skipped' \in Seq(Nat) /\ ToSet(skipped') = ToSet(skips) \cup {k}
      BY <1>2, <1>4, ToSetOfAppend, AppendProperties
    <2>5. \A j \in ToSet(skipped') : plan[j].optional
      BY <1>4, <2>4 DEF CurrentStep
    <2> QED BY <2>2, <2>3, <2>4, <2>5, GoesOn
  <1>5. ASSUME NEW s \in Open, Stop("blocked", all, Resolved({s}, raised, k)), skipped' = skips
        PROVE  CoordInv'
    <2>1. PICK log : log = Resolved({s}, raised, k)
      OBVIOUS
    <2>2. log \in Seq(Signals) /\ Stop("blocked", all, log)
      BY <1>3, <1>5, <2>1 DEF AllSound
    <2> QED BY <1>5, <2>2, Stops
  <1>6. ASSUME NEW ms \in Clocks,
               LiveOf("confidence.blocker", ms) = {}, LiveOf("escalation.interrupt", ms) = {},
               GoOn(all, raised), skipped' = skips
        PROVE  CoordInv'
    <2>1. ASSUME NEW t \in DOMAIN raised, raised[t].state = "live", Minds(k, raised[t])
          PROVE  Hidden(raised, raised[t].source, k)
      <3>1. t \in Mine
        BY <2>1 DEF Mine, Open, Minds, CurrentStep
      <3>2. raised[t].class \in {"confidence.blocker", "escalation.interrupt"}
        BY <2>1 DEF Minds, IsAlarm
      <3>3. t \notin LiveOf(raised[t].class, ms)
        BY <1>6, <3>2
      <3> QED BY <3>1, <3>3, UnseenIsHidden
    <2> QED BY <1>1, <1>6, <2>1, GoesOn
  <1>7. \A class, ms : Foremost(LiveOf(class, ms), ms) \subseteq Open
    BY DEF LiveOf, Mine, Foremost
  <1> QED BY <1>4, <1>5, <1>6, <1>7 DEF Look

\* What is raised may take a live signal's place, and is of the step under way.
LEMMA Raises ==
    ASSUME CoordInv, NEW name \in Specialists, NEW class \in Classes, NEW expires \in {k, NotEnded},
           NEW replaced \in SUBSET Open, Raise(name, class, expires, replaced)
    PROVE  CoordInv'
  <1>1. /\ progress = "handler" /\ CoordTypeOK /\ k \in 1..Len(plan) /\ Len(plan) <= MaxSteps
        /\ raised \in Seq(Signals) /\ AllSound(raised, k)
    BY DEF CoordInv, CoordTypeOK, Raise
  <1>2. Len(plan) \in Nat /\ NotEnded \in Nat /\ k \in Nat
    BY <1>1, PlanFacts DEF CoordTypeOK
  <1>3. PICK log : log = [s \in DOMAIN raised |->
                            IF s \in replaced
                            THEN [raised[s] EXCEPT !.state = "superseded", !.ended = k]
                            ELSE raised[s]]
    OBVIOUS
  <1>4. PICK new : new = [source |-> name, class |-> class, born |-> k, expires |-> expires,
                          state |-> "live", ended |-> NotEnded]
    OBVIOUS
  <1>5. ASSUME NEW s \in DOMAIN raised
        PROVE  /\ log[s] \in Signals /\ Sound(log[s], k, raised)
               /\ log[s].source = raised[s].source /\ log[s].born = raised[s].born
    <2>1. raised[s] \in Signals /\ Sound(raised[s], k, raised)
      BY <1>1, ElementOfSeq, LenProperties DEF AllSound
    <2>2. CASE s \in replaced
      <3>1. raised[s].state = "live"
        BY <2>2 DEF Open
      <3>2. PICK sig : sig = raised[s]
        OBVIOUS
      <3>3. PICK e : e = [sig EXCEPT !.state = "superseded", !.ended = k]
        OBVIOUS
      <3>4. sig \in Signals /\ Sound(sig, k, raised) /\ sig.state = "live"
        BY <2>1, <3>1, <3>2
      <3>5. "superseded" \in {"superseded", "resolved"}
        OBVIOUS
      <3>6. /\ e \in Signals /\ Sound(e, k, raised)
            /\ e.source = sig.source /\ e.born = sig.born
        BY <1>1, <3>3, <3>4, <3>5, EndsSoundly
      <3>7. log[s] = e
        BY <1>3, <2>2, <3>2, <3>3
      <3> QED BY <3>2, <3>6, <3>7
    <2> QED BY <1>3, <2>1, <2>2
  <1>6. log \in [DOMAIN raised -> Signals]
    BY <1>3, <1>5
  <1>7. log \in Seq(Signals) /\ DOMAIN log = DOMAIN raised /\ Len(log) = Len(raised)
    BY <1>1, <1>6, Changed
  <1>8. new \in Signals
    BY <1>2, <1>4 DEF Signals
  <1>9. raised' = Append(log, new)
    BY <1>3, <1>4 DEF Raise
  <1>10. /\ raised' \in Seq(Signals) /\ DOMAIN raised' = 1..Len(log) + 1
         /\ raised'[Len(log) + 1] = new /\ \A s \in 1..Len(log) : raised'[s] = log[s]
         /\ DOMAIN log = 1..Len(log) /\ Len(log) \in Nat /\ Len(raised') = Len(log) + 1
    BY <1>7, <1>8, <1>9, AppendProperties, LenProperties
  <1>11. PICK now : now = raised'
    OBVIOUS
  <1>12. Continues(raised, now)
    BY <1>1, <1>5, <1>7, <1>10, <1>11 DEF Continues
  <1>13. Sound(new, k, now)
    <2>1. \A j \in 1..k - 1 : ~Minds(j, new)
      BY <1>2, <1>4 DEF Minds
    <2> QED BY <1>2, <1>4, <2>1 DEF Sound
  <1>14. ASSUME NEW s \in DOMAIN now PROVE Sound(now[s], k, now)
    <2>1. CASE s = Len(log) + 1
      BY <1>10, <1>11, <1>13, <2>1
    <2>2. CASE s # Len(log) + 1
      <3>1. s \in 1..Len(log)
        BY <1>10, <1>11, <2>2
      <3>2. Sound(now[s], k, raised)
        BY <1>5, <1>7, <1>10, <1>11, <3>1
      <3> QED BY <1>12, <3>2, StillSound
    <2> QED BY <2>1, <2>2
  <1>15. /\ progress' = progress /\ plan' = plan /\ k' = k /\ results' = results
         /\ skipped' = skipped /\ strategy' = strategy
    BY DEF Raise
  <1>16. AllSound(raised, k)'
    BY <1>10, <1>11, <1>14, <1>15
       DEF AllSound, Sound, Settled, Hidden, CrowdOf, Minds, IsAlarm, NotEnded
  <1> QED BY <1>1, <1>10, <1>15, <1>16 DEF CoordInv, CoordTypeOK, AnswerIsEarned

LEMMA OthersResolve ==
    ASSUME CoordInv, NEW s \in Open, ResolvedByOthers(s)
    PROVE  CoordInv'
  <1>1. /\ progress = "handler" /\ CoordTypeOK /\ k \in 1..Len(plan) /\ Len(plan) <= MaxSteps
        /\ raised \in Seq(Signals) /\ AllSound(raised, k)
        /\ s \in DOMAIN raised /\ raised[s].state = "live"
    BY DEF CoordInv, CoordTypeOK, ResolvedByOthers, Open
  <1>2. PICK log : log = Resolved({s}, raised, k)
    OBVIOUS
  <1>3. AllSound(log, k)
    BY <1>1, <1>2, ResolvedSoundly
  <1>4. raised' = log
    <2>1. raised[s] \in Signals
      BY <1>1, ElementOfSeq, LenProperties
    <2>2. raised' = [raised EXCEPT ![s] = [raised[s] EXCEPT !.state = "resolved", !.ended = k]]
      BY <1>1, <2>1 DEF ResolvedByOthers
    <2> QED BY <1>1, <1>2, <2>2 DEF Resolved
  <1>5. /\ progress' = progress /\ plan' = plan /\ k' = k /\ results' = results
        /\ skipped' = skipped /\ strategy' = strategy
    BY DEF ResolvedByOthers
  <1>6. AllSound(raised, k)'
    BY <1>3, <1>4, <1>5 DEF AllSound, Sound, Settled, Hidden, CrowdOf, Minds, IsAlarm, NotEnded
  <1>7. raised' \in Seq(Signals)
    BY <1>3, <1>4 DEF AllSound
  <1> QED BY <1>1, <1>5, <1>6, <1>7 DEF CoordInv, CoordTypeOK, AnswerIsEarned

LEMMA Executes == ASSUME CoordInv, Execute PROVE CoordInv'
  <1>1. /\ progress = "idle" /\ results = <<>> /\ raised = <<>> /\ CoordTypeOK
        /\ \A j \in ToSet(skipped) : plan[j].optional
    BY DEF CoordInv, Execute
  <1>2. Len(plan) \in Nat /\ MaxSteps \in Nat /\ (plan = <<>> <=> Len(plan) = 0)
    <2>1. plan \in Seq([name : Specialists, optional : BOOLEAN])
      BY <1>1, CoordinationConstants DEF CoordTypeOK
    <2> QED BY <1>1, <2>1, PlanFacts, EmptySeq
  <1>3. plan' = plan /\ results' = results /\ raised' = raised /\ skipped' = skipped
    BY DEF Execute
  <1>4. CASE progress' \in {"refused", "notFound"} /\ k' = k
    BY <1>1, <1>3, <1>4 DEF CoordInv, CoordTypeOK, AnswerIsEarned, Ends
  <1>5. CASE Valid /\ progress' = "handler" /\ k' = 1
    <2>1. Len(plan) <= MaxSteps /\ Len(plan) >= 1
      BY <1>2, <1>5 DEF Valid
    <2>2. k' \in 1..Len(plan') /\ Len(results') = k' - 1
      BY <1>1, <1>2, <1>3, <1>5, <2>1
    <2>3. AllSound(raised, k)'
      BY <1>1, <1>3, <1>5 DEF AllSound
    <2>4. CoordTypeOK'
      BY <1>1, <1>3, <1>5 DEF CoordTypeOK
    <2> QED BY <1>1, <1>3, <1>5, <2>1, <2>2, <2>3, <2>4 DEF CoordInv, AnswerIsEarned
  <1> QED BY <1>4, <1>5 DEF Execute, BeginTurn

\* The registry is not part of the invariant.
LEMMA SameTurn ==
    ASSUME CoordInv, UNCHANGED <<plan, strategy, progress, k, results, skipped, raised, quality>>
    PROVE  CoordInv'
  <1>1. CoordTypeOK'
    BY DEF CoordInv, CoordTypeOK
  <1>2. AllSound(raised, k) => AllSound(raised, k)'
    BY DEF AllSound, Sound, Settled, Hidden, CrowdOf, Minds, IsAlarm, NotEnded
  <1>3. AnswerIsEarned'
    BY DEF CoordInv, AnswerIsEarned, Alarms, SettledBy, Crowded, Open
  <1> QED BY <1>1, <1>2, <1>3 DEF CoordInv

LEMMA CoordInvHolds == CoordSpec => []CoordInv
  <1>1. CoordInit => CoordInv
    <2> SUFFICES ASSUME CoordInit PROVE CoordInv
      OBVIOUS
    <2>1. CoordTypeOK
      BY DEF CoordInit, CoordTypeOK
    <2>2. ToSet(skipped) = {}
      BY ToSetOfEmpty DEF CoordInit
    <2> QED BY <2>1, <2>2 DEF CoordInit, CoordInv, AnswerIsEarned
  <1>2. CoordInv /\ [CoordNext]_<<coordVars, routeVars>> => CoordInv'
    <2> SUFFICES ASSUME CoordInv, [CoordNext]_<<coordVars, routeVars>> PROVE CoordInv'
      OBVIOUS
    <2>1. CASE Execute
      BY <2>1, Executes
    <2>2. ASSUME NEW result \in Outcomes, SpecialistReturns(result) PROVE CoordInv'
      <3>1. result.status \in Statuses
        BY CoordinationConstants DEF Statuses
      <3>2. PICK all : all = Append(results, result.status)
        OBVIOUS
      <3>3. results \in Seq(Statuses) /\ Len(results) = k - 1 /\ k \in Nat /\ progress = "handler"
        BY <2>2 DEF CoordInv, CoordTypeOK, SpecialistReturns
      <3>4. all \in Seq(Statuses) /\ Len(all) = k
        BY <3>1, <3>2, <3>3, AppendProperties
      <3>5. Look(all, skipped) /\ plan' = plan /\ strategy' = strategy
        BY <2>2, <3>2 DEF SpecialistReturns
      <3> QED BY <3>3, <3>4, <3>5, Looks DEF CoordInv, CoordTypeOK
    <2>3. CASE SpecialistThrows
      <3>1. PICK all : all = Append(results, "failed")
        OBVIOUS
      <3>2. /\ results \in Seq(Statuses) /\ Len(results) = k - 1 /\ k \in Nat /\ progress = "handler"
            /\ skipped \in Seq(Nat) /\ (\A j \in ToSet(skipped) : plan[j].optional)
            /\ raised \in Seq(Signals) /\ plan' = plan /\ strategy' = strategy
        BY <2>3 DEF CoordInv, CoordTypeOK, SpecialistThrows
      <3>3. all \in Seq(Statuses) /\ Len(all) = k
        BY <3>1, <3>2, AppendProperties DEF Statuses
      <3>4. CASE CurrentStep.optional
        <4>1. PICK skips : skips = Append(skipped, k)
          OBVIOUS
        <4>2. skips \in Seq(Nat) /\ ToSet(skips) = ToSet(skipped) \cup {k}
          BY <3>2, <4>1, ToSetOfAppend, AppendProperties
        <4>3. \A j \in ToSet(skips) : plan[j].optional
          BY <3>2, <3>4, <4>2 DEF CurrentStep
        <4>4. Look(all, skips)
          BY <2>3, <3>1, <3>4, <4>1 DEF SpecialistThrows
        <4> QED BY <3>2, <3>3, <4>2, <4>3, <4>4, Looks
      <3>5. CASE ~CurrentStep.optional
        <4>1. Stop("failed", all, raised) /\ skipped' = skipped
          BY <2>3, <3>1, <3>5 DEF SpecialistThrows
        <4> QED BY <3>2, <3>3, <4>1, Stops
      <3> QED BY <3>4, <3>5
    <2>4. ASSUME NEW name \in Specialists, Register(name) \/ Unregister(name) PROVE CoordInv'
      <3>1. UNCHANGED <<plan, strategy, progress, k, results, skipped, raised, quality>>
        BY <2>4 DEF Register, Unregister
      <3> QED BY <3>1, SameTurn
    <2>5. ASSUME NEW name \in Specialists, NEW class \in Classes, NEW expires \in {k, NotEnded},
                 Raise(name, class, expires, {})
          PROVE  CoordInv'
      BY <2>5, Raises
    <2>6. ASSUME NEW name \in Specialists, NEW class \in Classes, NEW expires \in {k, NotEnded},
                 NEW s \in Open, Raise(name, class, expires, {s})
          PROVE  CoordInv'
      BY <2>6, Raises
    <2>7. ASSUME NEW s \in Open, ResolvedByOthers(s) PROVE CoordInv'
      BY <2>7, OthersResolve
    <2>8. CASE UNCHANGED <<coordVars, routeVars>>
      <3>1. UNCHANGED <<plan, strategy, progress, k, results, skipped, raised, quality>>
        BY <2>8 DEF coordVars
      <3> QED BY <3>1, SameTurn
    <2> QED BY <2>1, <2>2, <2>3, <2>4, <2>5, <2>6, <2>7, <2>8 DEF CoordNext
  <1> QED BY <1>1, <1>2, PTL DEF CoordSpec

\* When execute returns an answer, no alarm raised by then outlived a required step of
\* its specialist, unless this one had raised more than a query lists; of the oldest
\* signals only conflicts are still open; and an answer that is called complete has no
\* conflict among them but superseded ones and, unless a custom function says so, a
\* complete result of each step; for all plans, specialists, outcomes and limits
\* (execute's looks at the signals behind each handler, its synthesis and sweep).
THEOREM AnswersAreEarned == CoordSpec => []AnswerIsEarned
  <1>1. CoordInv => AnswerIsEarned
    BY DEF CoordInv
  <1> QED BY <1>1, CoordInvHolds, PTL

-----------------------------------------------------------------------------
(* The signals of a thread *)

Events == {"emitted"} \cup TerminalStates
States == {"emitted", "active"} \cup TerminalStates
SignalSet == [key : Keys, insistent : BOOLEAN, expires : 1..Never,
              born : 0..MaxStep, stored : 0..MaxStep, state : States]
FrameSet == [doing : Doings, about : Nat, input : Inputs \cup {NoInput}, rest : SUBSET Nat,
             at : 0..MaxStep, told : SUBSET Subscribers,
             inside : Subscribers \cup {"layer", "hooks"}]

\* The two live signals of a list with one key and one step that NoLiveDuplicates allows.
NoTwins(list) ==
    \A s, t \in list :
        s < t /\ Live(s) /\ Live(t) /\ signal[s].key = signal[t].key
              /\ signal[s].born = signal[t].born => signal[t].insistent

\* A call under way is about a stored signal, and speaks of what has happened to it.
Speaks(f) ==
    /\ f.about \in Stored /\ f.rest \subseteq Stored
    /\ f.doing = "replacing" <=> f.input # NoInput
    /\ f.doing = "hooks" <=> f.inside = "hooks"
    /\ f.doing \in {"replacing", "resolving", "expiring"} =>
          signal[f.about].state = EventOf[f.doing]
    /\ f.doing \in {"hooks", "announcing"} => f.about \notin silent

\* Whom it has told has heard of it; of what is with its hooks nobody has.
Tells(f) ==
    /\ f.doing = "hooks" => \A c \in steady : <<f.about, "emitted">> \notin heard[c]
    /\ f.doing # "hooks" => \A c \in steady \cap f.told : <<f.about, EventOf[f.doing]>> \in heard[c]

\* The list that an emit holds has lost nothing and has no twin of the input.
Holds(f) ==
    f.doing = "replacing" =>
        /\ f.rest \subseteq listed
        /\ NoTwins(f.rest)
        /\ ~f.input.insistent =>
              \A s \in f.rest : Live(s) /\ signal[s].key = f.input.key => signal[s].born # f.at

Frames(st) == \A f \in ToSet(st) : Speaks(f) /\ Tells(f) /\ Holds(f)

\* No signal is announced by two calls, and an inner emit holds what an outer one does.
Apart(f, g) ==
    /\ f.doing \in {"hooks", "announcing"} /\ g.doing \in {"hooks", "announcing"} =>
          f.about # g.about
    /\ f.doing = "replacing" /\ g.doing = "replacing" => g.rest \subseteq f.rest

Ordered(st) == \A d, e \in DOMAIN st : d < e => Apart(st[d], st[e])

ReplacingIn(st) == {d \in DOMAIN st : st[d].doing = "replacing"}

Fits(st) ==
    /\ st \in Seq(FrameSet)
    /\ Len(st) <= MaxDepth
    /\ Ordered(st)
    /\ Len(signal) + Cardinality(ReplacingIn(st)) <= MaxSignals

\* What has happened was heard by a subscriber or is still to be told by a call.
Owes(f, c, s, event) ==
    /\ f.about = s
    /\ IF f.doing = "hooks" THEN event = "emitted"
       ELSE event = EventOf[f.doing] /\ c \notin f.told

Happened(s, event) ==
    /\ s \in Stored
    /\ (event = "emitted" /\ s \notin silent) \/ (event = signal[s].state /\ ~Live(s))

Hears(st) ==
    \A c \in steady, s \in Nat, event \in Events :
        /\ <<s, event>> \in heard[c] => Happened(s, event)
        /\ Happened(s, event) =>
              <<s, event>> \in heard[c] \/ \E f \in ToSet(st) : Owes(f, c, s, event)

\* A signal that is due will be seen to by a call.
Due(s) == s \in listed /\ Live(s) /\ signal[s].stored < step /\ signal[s].expires <= step
SeesTo(f, s) == f.doing = "expiring" /\ s \in f.rest /\ signal[s].expires <= f.at
Sees(st) == \A s \in Stored : Due(s) => \E f \in ToSet(st) : SeesTo(f, s)

Core ==
    /\ signal \in Seq(SignalSet)
    /\ listed \subseteq Stored
    /\ step \in 0..MaxStep
    /\ callbacks \in Seq(Subscribers)
    /\ IsInjective(callbacks)
    /\ steady \subseteq ToSet(callbacks)
    /\ silent \subseteq Stored
    /\ heard \in [Subscribers -> SUBSET (Nat \X Events)]
    /\ NoTwins(listed)

\* The invariant, with a stack that stands for the calls under way.
But(st) == Core /\ Fits(st) /\ Frames(st) /\ Hears(st)
SignalInv == But(stack) /\ Sees(stack)

-----------------------------------------------------------------------------
(* The stack *)

LEMMA SignalFacts ==
    /\ MaxStep \in Nat /\ MaxSignals \in Nat /\ MaxDepth \in Nat
    /\ Never \in Nat /\ Never = MaxStep + 1 /\ Never \in 1..Never
    /\ "layer" \notin Subscribers /\ "hooks" \notin Subscribers /\ "nothing" \notin Subscribers
    /\ \A i \in Inputs : /\ i.key \in Keys /\ i.insistent \in BOOLEAN /\ i.expires \in 1..Never
                         /\ i # NoInput
  <1>1. /\ MaxStep \in Nat /\ MaxSignals \in Nat /\ MaxDepth \in Nat
        /\ Never \in Nat /\ Never = MaxStep + 1 /\ Never \in 1..Never
        /\ "layer" \notin Subscribers /\ "hooks" \notin Subscribers /\ "nothing" \notin Subscribers
    BY SignalConstants DEF Never
  <1>2. ASSUME NEW i \in Inputs
        PROVE  /\ i.key \in Keys /\ i.insistent \in BOOLEAN /\ i.expires \in 1..Never
               /\ i # NoInput
    <2>1. \/ i \in [key : Keys, insistent : {FALSE}, expires : 1..MaxStep]
          \/ i \in [key : Keys, insistent : {TRUE}, expires : {Never}]
      BY DEF Inputs
    <2>2. i.key \in Keys /\ i.insistent \in BOOLEAN /\ i.expires \in 1..Never
      <3>1. CASE i \in [key : Keys, insistent : {FALSE}, expires : 1..MaxStep]
        <4>1. i.key \in Keys /\ i.insistent = FALSE /\ i.expires \in 1..MaxStep
          BY <3>1
        <4>2. i.expires \in 1..Never
          BY <1>1, <4>1
        <4>3. i.insistent \in BOOLEAN
          BY <4>1, Zenon
        <4> QED BY <4>1, <4>2, <4>3
      <3>2. CASE i \in [key : Keys, insistent : {TRUE}, expires : {Never}]
        <4>1. i.key \in Keys /\ i.insistent = TRUE /\ i.expires = Never
          BY <3>2
        <4> QED BY <1>1, <4>1
      <3> QED BY <2>1, <3>1, <3>2
    <2>3. "insistent" \in DOMAIN i
      BY <2>1
    <2>4. "insistent" \notin DOMAIN NoInput
      BY DEF NoInput
    <2> QED BY <2>2, <2>3, <2>4
  <1> QED BY <1>1, <1>2

LEMMA DoingsAre ==
    /\ Doings = {"replacing", "announcing", "resolving", "expiring", "hooks"}
    /\ EventOf["replacing"] = "superseded" /\ EventOf["announcing"] = "emitted"
    /\ EventOf["resolving"] = "resolved" /\ EventOf["expiring"] = "expired"
  BY DEF Doings, EventOf

\* A call is put on the stack.
LEMMA Pushed ==
    ASSUME NEW st \in Seq(FrameSet), NEW f \in FrameSet
    PROVE  LET new == <<f>> \o st
           IN  /\ new \in Seq(FrameSet) /\ Len(new) = Len(st) + 1 /\ new # <<>>
               /\ Head(new) = f /\ Tail(new) = st
               /\ ToSet(new) = {f} \cup ToSet(st)
               /\ Ordered(new) <=> Ordered(st) /\ \A g \in ToSet(st) : Apart(f, g)
               /\ Cardinality(ReplacingIn(st)) \in Nat
               /\ Cardinality(ReplacingIn(new))
                     = Cardinality(ReplacingIn(st)) + IF f.doing = "replacing" THEN 1 ELSE 0
  <1>1. PICK new : new = <<f>> \o st
    OBVIOUS
  <1>2. /\ new \in Seq(FrameSet) /\ Len(new) = Len(st) + 1 /\ new # <<>>
        /\ Head(new) = f /\ Tail(new) = st
        /\ ToSet(new) = {f} \cup ToSet(st)
        /\ new[1] = f /\ \A d \in 1..Len(st) : new[d + 1] = st[d]
    BY <1>1, PushProperties
  <1>3. /\ Len(st) \in Nat /\ DOMAIN st = 1..Len(st) /\ DOMAIN new = 1..Len(new)
        /\ ToSet(st) = {st[d] : d \in 1..Len(st)}
    BY <1>2, LenProperties, ToSetProperties
  <1>4. \A e \in 1..Len(new) : e # 1 => e - 1 \in 1..Len(st) /\ new[e] = st[e - 1]
    BY <1>2, <1>3
  <1>5. Ordered(new) <=> Ordered(st) /\ \A g \in ToSet(st) : Apart(f, g)
    <2>1. ASSUME Ordered(new) PROVE Ordered(st) /\ \A g \in ToSet(st) : Apart(f, g)
      <3>1. ASSUME NEW d \in 1..Len(st), NEW e \in 1..Len(st), d < e PROVE Apart(st[d], st[e])
        <4>1. d + 1 \in 1..Len(new) /\ e + 1 \in 1..Len(new) /\ d + 1 < e + 1
          BY <1>2, <1>3, <3>1
        <4>2. Apart(new[d + 1], new[e + 1])
          BY <1>3, <2>1, <4>1 DEF Ordered
        <4> QED BY <1>2, <4>2
      <3>2. ASSUME NEW d \in 1..Len(st) PROVE Apart(f, st[d])
        <4>1. 1 \in 1..Len(new) /\ d + 1 \in 1..Len(new) /\ 1 < d + 1
          BY <1>2, <1>3
        <4>2. Apart(new[1], new[d + 1])
          BY <1>3, <2>1, <4>1 DEF Ordered
        <4> QED BY <1>2, <4>2
      <3> QED BY <1>3, <3>1, <3>2 DEF Ordered
    <2>2. ASSUME Ordered(st), \A g \in ToSet(st) : Apart(f, g) PROVE Ordered(new)
      <3>1. ASSUME NEW d \in 1..Len(new), NEW e \in 1..Len(new), d < e PROVE Apart(new[d], new[e])
        <4>1. e # 1 /\ e - 1 \in 1..Len(st) /\ new[e] = st[e - 1]
          BY <1>3, <1>4, <3>1
        <4>2. CASE d = 1
          BY <1>2, <1>3, <2>2, <4>1, <4>2
        <4>3. CASE d # 1
          <5>1. d - 1 \in 1..Len(st) /\ new[d] = st[d - 1] /\ d - 1 < e - 1
            BY <1>3, <1>4, <3>1, <4>3
          <5> QED BY <1>3, <2>2, <4>1, <5>1 DEF Ordered
        <4> QED BY <4>2, <4>3
      <3> QED BY <1>3, <3>1 DEF Ordered
    <2> QED BY <2>1, <2>2
  <1>6. PICK R, T : R = ReplacingIn(st) /\ T = ReplacingIn(new)
    OBVIOUS
  <1>7. R \subseteq 1..Len(st) /\ IsFiniteSet(R) /\ Cardinality(R) \in Nat
    <2>1. R \subseteq 1..Len(st)
      BY <1>3, <1>6 DEF ReplacingIn
    <2>2. IsFiniteSet(1..Len(st))
      BY <1>3, FS_Interval
    <2> QED BY <2>1, <2>2, FS_Subset, FS_CardinalityType
  <1>8. PICK U : U = {d + 1 : d \in R}
    OBVIOUS
  <1>9. IsFiniteSet(U) /\ Cardinality(U) = Cardinality(R)
    <2>1. PICK h : h = [d \in R |-> d + 1]
      OBVIOUS
    <2>2. h \in Bijection(R, U)
      <3>1. h \in [R -> U] /\ \A d \in R : h[d] = d + 1 /\ d \in Nat
        BY <1>3, <1>7, <1>8, <2>1
      <3>2. \A d, e \in R : h[d] = h[e] => d = e
        BY <3>1
      <3>3. \A u \in U : \E d \in R : h[d] = u
        BY <1>8, <3>1
      <3> QED BY <3>1, <3>2, <3>3 DEF Bijection, Injection, Surjection, IsInjective
    <2>3. ExistsBijection(R, U)
      BY <2>2 DEF ExistsBijection
    <2> QED BY <1>7, <2>3, FS_Bijection, FS_CardinalityType
  <1>10. T = IF f.doing = "replacing" THEN U \cup {1} ELSE U
    <2>1. ASSUME NEW e \in T PROVE e \in IF f.doing = "replacing" THEN U \cup {1} ELSE U
      <3>1. e \in 1..Len(new) /\ new[e].doing = "replacing"
        BY <1>3, <1>6 DEF ReplacingIn
      <3>2. CASE e = 1
        BY <1>2, <3>1, <3>2
      <3>3. CASE e # 1
        <4>1. e - 1 \in R /\ e = e - 1 + 1
          BY <1>3, <1>4, <1>6, <3>1, <3>3 DEF ReplacingIn
        <4> QED BY <1>8, <4>1
      <3> QED BY <3>2, <3>3
    <2>2. ASSUME NEW d \in R PROVE d + 1 \in T
      <3>1. d \in 1..Len(st) /\ st[d].doing = "replacing"
        BY <1>3, <1>6 DEF ReplacingIn
      <3>2. d + 1 \in 1..Len(new) /\ new[d + 1] = st[d]
        BY <1>2, <1>3, <3>1
      <3> QED BY <1>3, <1>6, <3>1, <3>2 DEF ReplacingIn
    <2>3. f.doing = "replacing" => 1 \in T
      <3>1. 1 \in 1..Len(new)
        BY <1>2, <1>3
      <3> QED BY <1>2, <1>3, <1>6, <3>1 DEF ReplacingIn
    <2> QED BY <1>8, <2>1, <2>2, <2>3
  <1>11. Cardinality(T) = Cardinality(R) + IF f.doing = "replacing" THEN 1 ELSE 0
    <2>1. 1 \notin U
      BY <1>3, <1>7, <1>8
    <2>2. Cardinality(U \cup {1}) = Cardinality(U) + 1
      BY <1>9, <2>1, FS_AddElement
    <2> QED BY <1>7, <1>9, <1>10, <2>2
  <1> QED BY <1>1, <1>2, <1>5, <1>6, <1>7, <1>11

LEMMA LeastOf ==
    ASSUME NEW T \in SUBSET Nat, T # {}
    PROVE  Min(T) \in T /\ \A m \in T : Min(T) <= m
  <1>1. \E n \in T : \A m \in T : n <= m
    BY NatLeast
  <1> QED BY <1>1 DEF Min

-----------------------------------------------------------------------------
(* What happens to signals *)

\* Signals are only added, and what has ended stays so.
Keeps ==
    \A t \in Stored :
        /\ t \in Stored'
        /\ signal'[t].key = signal[t].key /\ signal'[t].insistent = signal[t].insistent
        /\ signal'[t].expires = signal[t].expires
        /\ signal'[t].born = signal[t].born /\ signal'[t].stored = signal[t].stored
        /\ ~Live(t) => signal'[t].state = signal[t].state

LEMMA SignalsAre ==
    ASSUME signal \in Seq(SignalSet)
    PROVE  /\ Stored = 1..Len(signal) /\ Len(signal) \in Nat
           /\ \A t \in Stored : signal[t] \in SignalSet
  BY LenProperties, ElementOfSeq DEF Stored

\* A live signal ends, or one that was emitted becomes active.
LEMMA Becomes ==
    ASSUME signal \in Seq(SignalSet), NEW s \in Stored, Live(s), NEW state \in States,
           Become(s, state)
    PROVE  /\ signal' \in Seq(SignalSet) /\ Len(signal') = Len(signal) /\ Stored' = Stored
           /\ signal'[s].state = state
           /\ \A t \in Stored \ {s} : signal'[t] = signal[t]
           /\ Keeps
  <1>1. Stored = 1..Len(signal) /\ Len(signal) \in Nat /\ \A t \in Stored : signal[t] \in SignalSet
    BY SignalsAre
  <1>2. PICK new : new = [signal[s] EXCEPT !.state = state]
    OBVIOUS
  <1>3. new = [key |-> signal[s].key, insistent |-> signal[s].insistent,
               expires |-> signal[s].expires, born |-> signal[s].born,
               stored |-> signal[s].stored, state |-> state]
    BY <1>1, <1>2 DEF SignalSet
  <1>4. new \in SignalSet
    BY <1>1, <1>3 DEF SignalSet
  <1>5. signal' = [signal EXCEPT ![s] = new]
    <2>1. signal \in [Stored -> SignalSet]
      BY <1>1, LenProperties
    <2> QED BY <1>2, <2>1 DEF Become
  <1>6. signal \in [1..Len(signal) -> SignalSet]
    BY LenProperties
  <1>7. signal' \in [1..Len(signal) -> SignalSet] /\ signal'[s] = new
        /\ \A t \in Stored \ {s} : signal'[t] = signal[t]
    BY <1>1, <1>4, <1>5, <1>6
  <1>8. signal' \in Seq(SignalSet)
    BY <1>1, <1>7, SeqDef
  <1>9. DOMAIN signal' = 1..Len(signal)
    BY <1>7
  <1>10. Len(signal') = Len(signal) /\ Stored' = Stored
    BY <1>1, <1>8, <1>9, LenProperties DEF Stored
  <1>11. Keeps
    <2>1. ASSUME NEW t \in Stored
          PROVE  /\ t \in Stored'
                 /\ signal'[t].key = signal[t].key /\ signal'[t].insistent = signal[t].insistent
                 /\ signal'[t].expires = signal[t].expires
                 /\ signal'[t].born = signal[t].born /\ signal'[t].stored = signal[t].stored
                 /\ ~Live(t) => signal'[t].state = signal[t].state
      <3>1. CASE t = s
        BY <1>3, <1>7, <1>10, <3>1
      <3>2. CASE t # s
        BY <1>7, <1>10, <3>2
      <3> QED BY <3>1, <3>2
    <2> QED BY <2>1 DEF Keeps
  <1> QED BY <1>3, <1>7, <1>8, <1>10, <1>11

LEMMA Appends ==
    ASSUME signal \in Seq(SignalSet), NEW new \in SignalSet, signal' = Append(signal, new)
    PROVE  /\ signal' \in Seq(SignalSet) /\ Len(signal') = Len(signal) + 1
           /\ Stored' = Stored \cup {Len(signal) + 1} /\ Len(signal) + 1 \notin Stored
           /\ Stored = 1..Len(signal) /\ Len(signal) \in Nat
           /\ signal'[Len(signal) + 1] = new
           /\ \A t \in Stored : signal'[t] = signal[t]
           /\ Keeps
  <1>1. Stored = 1..Len(signal) /\ Len(signal) \in Nat
    BY SignalsAre
  <1>2. /\ signal' \in Seq(SignalSet) /\ Len(signal') = Len(signal) + 1
        /\ signal'[Len(signal) + 1] = new
        /\ \A t \in 1..Len(signal) : signal'[t] = signal[t]
    BY AppendProperties
  <1>3. DOMAIN signal' = 1..Len(signal) + 1
    BY <1>2, LenProperties
  <1>4. Stored' = Stored \cup {Len(signal) + 1} /\ Len(signal) + 1 \notin Stored
    BY <1>1, <1>3 DEF Stored
  <1>5. Keeps
    BY <1>1, <1>2, <1>4 DEF Keeps
  <1> QED BY <1>1, <1>2, <1>4, <1>5

LEMMA TwinsKept ==
    ASSUME Keeps, NEW list \in SUBSET Stored, NoTwins(list)
    PROVE  NoTwins(list)'
  <1>1. \A t \in list : Live(t)' => Live(t)
    BY DEF Keeps, Live
  <1> QED BY <1>1 DEF Keeps, NoTwins

\* A call goes on standing for what has happened.
LEMMA FrameKept ==
    ASSUME Keeps, NEW f \in FrameSet, Speaks(f), Tells(f), Holds(f),
           heard' = heard, steady' = steady, silent' = silent,
           f.doing = "replacing" => f.rest \subseteq listed'
    PROVE  Speaks(f)' /\ Tells(f)' /\ Holds(f)'
  <1>1. f.about \in Stored /\ f.rest \subseteq Stored
    BY DEF Speaks
  <1>2. f.about \in Stored' /\ f.rest \subseteq Stored'
    BY <1>1 DEF Keeps
  <1>3. f.doing \in {"replacing", "resolving", "expiring"} => ~Live(f.about)
    BY DoingsAre DEF Speaks, Live, TerminalStates
  <1>4. Speaks(f)'
    BY <1>1, <1>2, <1>3 DEF Speaks, Keeps
  <1>5. Tells(f)'
    BY DEF Tells
  <1>6. Holds(f)'
    <2>1. SUFFICES ASSUME f.doing = "replacing" PROVE Holds(f)'
      BY DEF Holds
    <2>2. NoTwins(f.rest)'
      BY <1>1, <2>1, TwinsKept DEF Holds
    <2>3. \A t \in f.rest : Live(t)' => Live(t)
      BY <1>1 DEF Keeps, Live
    <2>4. ~f.input.insistent =>
              \A s \in f.rest : Live(s)' /\ signal'[s].key = f.input.key => signal'[s].born # f.at
      BY <1>1, <2>1, <2>3 DEF Holds, Keeps
    <2> QED BY <2>1, <2>2, <2>4 DEF Holds
  <1> QED BY <1>4, <1>5, <1>6

-----------------------------------------------------------------------------
(* What happens to the calls *)

\* The innermost call, and the calls it is nested in.
LEMMA StackIs ==
    ASSUME SignalInv, stack # <<>>
    PROVE  \E top \in FrameSet, below \in Seq(FrameSet) :
              /\ Top = top /\ Tail(stack) = below /\ stack = <<top>> \o below
              /\ ToSet(stack) = {top} \cup ToSet(below)
              /\ Speaks(top) /\ Tells(top) /\ Holds(top)
              /\ Core /\ Fits(below) /\ Frames(below) /\ Len(below) < MaxDepth
              /\ \A g \in ToSet(below) : Apart(top, g)
              /\ Cardinality(ReplacingIn(below)) \in Nat
              /\ top.doing = "replacing" =>
                    Len(signal) + Cardinality(ReplacingIn(below)) < MaxSignals
  <1>1. stack \in Seq(FrameSet)
    BY DEF SignalInv, But, Fits
  <1>2. PICK top, below : top = Top /\ below = Tail(stack)
    OBVIOUS
  <1>3. top \in FrameSet /\ below \in Seq(FrameSet) /\ stack = <<top>> \o below
    BY <1>1, <1>2, PopProperties DEF Top
  <1>4. /\ Len(stack) = Len(below) + 1
        /\ ToSet(stack) = {top} \cup ToSet(below)
        /\ Ordered(stack) <=> Ordered(below) /\ \A g \in ToSet(below) : Apart(top, g)
        /\ Cardinality(ReplacingIn(below)) \in Nat
        /\ Cardinality(ReplacingIn(stack))
              = Cardinality(ReplacingIn(below)) + IF top.doing = "replacing" THEN 1 ELSE 0
    BY <1>3, Pushed
  <1>5. Len(below) \in Nat /\ Len(signal) \in Nat /\ MaxDepth \in Nat /\ MaxSignals \in Nat
    BY <1>3, SignalFacts, SignalsAre, LenProperties DEF SignalInv, But, Core
  <1>6. /\ Len(stack) <= MaxDepth /\ Ordered(stack)
        /\ Len(signal) + Cardinality(ReplacingIn(stack)) <= MaxSignals
    BY DEF SignalInv, But, Fits
  <1>7. Len(below) < MaxDepth /\ Len(below) <= MaxDepth
    BY <1>4, <1>5, <1>6
  <1>8. /\ Len(signal) + Cardinality(ReplacingIn(below)) <= MaxSignals
        /\ top.doing = "replacing" => Len(signal) + Cardinality(ReplacingIn(below)) < MaxSignals
    BY <1>4, <1>5, <1>6
  <1>9. Fits(below)
    BY <1>3, <1>4, <1>6, <1>7, <1>8 DEF Fits
  <1>10. Frames(below) /\ Speaks(top) /\ Tells(top) /\ Holds(top) /\ Core
    BY <1>4 DEF SignalInv, But, Frames
  <1>11. /\ Top = top /\ Tail(stack) = below /\ stack = <<top>> \o below
         /\ ToSet(stack) = {top} \cup ToSet(below)
         /\ Speaks(top) /\ Tells(top) /\ Holds(top)
         /\ Core /\ Fits(below) /\ Frames(below) /\ Len(below) < MaxDepth
         /\ \A g \in ToSet(below) : Apart(top, g)
         /\ Cardinality(ReplacingIn(below)) \in Nat
         /\ top.doing = "replacing" =>
               Len(signal) + Cardinality(ReplacingIn(below)) < MaxSignals
    BY <1>2, <1>3, <1>4, <1>6, <1>7, <1>8, <1>9, <1>10
  <1> QED BY <1>3, <1>11

\* When a call has told everybody, what is below it stands for all that has happened.
LEMMA ToldAll ==
    ASSUME SignalInv, NEW top \in FrameSet, NEW below \in Seq(FrameSet),
           ToSet(stack) = {top} \cup ToSet(below), Tells(top), top.doing # "hooks",
           steady \subseteq top.told
    PROVE  Hears(below)
  <1>1. \A c \in steady : <<top.about, EventOf[top.doing]>> \in heard[c]
    BY DEF Tells
  <1>2. ASSUME NEW c \in steady, NEW s \in Nat, NEW event \in Events, Happened(s, event),
               <<s, event>> \notin heard[c]
        PROVE  \E f \in ToSet(below) : Owes(f, c, s, event)
    <2>1. PICK f \in ToSet(stack) : Owes(f, c, s, event)
      BY <1>2 DEF SignalInv, But, Hears
    <2>2. f # top
      BY <1>1, <1>2, <2>1 DEF Owes
    <2> QED BY <2>1, <2>2
  <1> QED BY <1>2 DEF SignalInv, But, Hears

LEMMA InLayer ==
    ASSUME SignalInv, Inside = "layer", Untold = {}
    PROVE  stack # <<>> /\ Top.doing # "hooks" /\ steady \subseteq Top.told
  <1>1. stack # <<>> /\ Top.inside = "layer"
    BY DEF Inside
  <1>2. Top.doing # "hooks"
    BY <1>1, StackIs DEF Speaks
  <1>3. callbacks \in Seq(Subscribers) /\ steady \subseteq ToSet(callbacks)
    BY DEF SignalInv, But, Core
  <1>4. \A c \in ToSet(callbacks) : c \in Top.told
    BY <1>3, ToSetProperties, LenProperties DEF Untold
  <1> QED BY <1>1, <1>2, <1>3, <1>4

\* A signal is stored, and its emit is with its hooks.
LEMMA Stores ==
    ASSUME NEW below, Core, Fits(below), Frames(below), Hears(below), Len(below) < MaxDepth,
           Len(signal) + Cardinality(ReplacingIn(below)) < MaxSignals,
           NEW i \in Inputs, NEW list \in SUBSET listed, NEW at \in 0..MaxStep, NoTwins(list),
           ~i.insistent => \A s \in list : Live(s) /\ signal[s].key = i.key => signal[s].born # at,
           \A g \in ToSet(below) : g.doing = "replacing" => g.rest \subseteq list,
           \A s \in list : Due(s) => \E g \in ToSet(below) : SeesTo(g, s),
           Store(i, list, at, below), UNCHANGED <<step, callbacks, heard, steady, silent>>
    PROVE  SignalInv'
  <1>1. /\ MaxStep \in Nat /\ MaxSignals \in Nat /\ MaxDepth \in Nat /\ Never \in Nat
        /\ i.key \in Keys /\ i.insistent \in BOOLEAN /\ i.expires \in 1..Never
    BY SignalFacts
  <1>2. PICK n, new : /\ n = Len(signal) + 1
                      /\ new = [key |-> i.key, insistent |-> i.insistent, expires |-> i.expires,
                                born |-> at, stored |-> step, state |-> "emitted"]
    OBVIOUS
  <1>3. PICK f : f = Frame("hooks", n, NoInput, {}, at)
    OBVIOUS
  <1>4. signal' = Append(signal, new) /\ listed' = list \cup {n} /\ stack' = <<f>> \o below
    BY <1>2, <1>3 DEF Store, NextList
  <1>5. signal \in Seq(SignalSet) /\ listed \subseteq Stored /\ step \in 0..MaxStep /\ silent \subseteq Stored
    BY DEF Core
  <1>6. new \in SignalSet
    BY <1>1, <1>2, <1>5 DEF SignalSet, States
  <1>7. /\ signal' \in Seq(SignalSet) /\ Len(signal') = n
        /\ Stored' = Stored \cup {n} /\ n \notin Stored
        /\ Stored = 1..Len(signal) /\ Len(signal) \in Nat
        /\ signal'[n] = new
        /\ \A t \in Stored : signal'[t] = signal[t]
        /\ Keeps
    BY <1>2, <1>4, <1>5, <1>6, Appends
  <1>8. /\ f.doing = "hooks" /\ f.about = n /\ f.input = NoInput /\ f.rest = {} /\ f.at = at
        /\ f.told = {} /\ f.inside = "hooks" /\ f \in FrameSet
    <2>1. f = [doing |-> "hooks", about |-> n, input |-> NoInput, rest |-> {}, at |-> at,
               told |-> {}, inside |-> "hooks"]
      BY <1>3 DEF Frame
    <2> QED BY <1>2, <1>7, <2>1, DoingsAre DEF FrameSet
  <1>9. \A g \in ToSet(below) : g \in FrameSet /\ Speaks(g) /\ Tells(g) /\ Holds(g)
    BY ToSetProperties DEF Fits, Frames
  <1>10. \A g \in ToSet(below) : Speaks(g)' /\ Tells(g)' /\ Holds(g)'
    BY <1>4, <1>7, <1>9, FrameKept
  <1>11. /\ stack' \in Seq(FrameSet) /\ Len(stack') = Len(below) + 1
         /\ ToSet(stack') = {f} \cup ToSet(below)
         /\ Ordered(stack') <=> Ordered(below) /\ \A g \in ToSet(below) : Apart(f, g)
         /\ Cardinality(ReplacingIn(below)) \in Nat
         /\ Cardinality(ReplacingIn(stack')) = Cardinality(ReplacingIn(below))
    BY <1>4, <1>8, Pushed DEF Fits
  <1>12. Fits(stack)'
    <2>1. \A g \in ToSet(below) : Apart(f, g)
      BY <1>7, <1>8, <1>9 DEF Apart, Speaks
    <2>2. Len(below) \in Nat
      BY LenProperties DEF Fits
    <2>3. Len(stack') <= MaxDepth
      BY <1>1, <1>11, <2>2
    <2>4. Len(signal') + Cardinality(ReplacingIn(stack')) <= MaxSignals
      BY <1>1, <1>2, <1>7, <1>11
    <2> QED BY <1>11, <2>1, <2>3, <2>4 DEF Fits
  <1>13. Live(n)' /\ \A t \in Stored : Live(t)' <=> Live(t)
    BY <1>2, <1>7 DEF Live, TerminalStates
  <1>14. Frames(stack)'
    <2>1. Speaks(f)'
      BY <1>5, <1>7, <1>8, DoingsAre DEF Speaks
    <2>2. Tells(f)'
      <3>1. ASSUME NEW c \in steady PROVE <<n, "emitted">> \notin heard[c]
        BY <1>2, <1>7 DEF Hears, Happened, Events
      <3> QED BY <1>8, <3>1 DEF Tells
    <2>3. Holds(f)'
      BY <1>8 DEF Holds
    <2> QED BY <1>10, <1>11, <2>1, <2>2, <2>3 DEF Frames
  <1>15. NoTwins(listed)'
    <2>1. NoTwins(list)'
      BY <1>5, <1>7, TwinsKept
    <2>2. ASSUME NEW s \in list, signal'[s].key = new.key, signal'[s].born = new.born, Live(s)'
          PROVE  new.insistent
      BY <1>1, <1>2, <1>5, <1>7, <1>13, <2>2
    <2>3. \A s \in list : s < n /\ s # n
      BY <1>2, <1>5, <1>7
    <2>4. ASSUME NEW s \in listed', NEW t \in listed', s < t, Live(s)', Live(t)',
                 signal'[s].key = signal'[t].key, signal'[s].born = signal'[t].born
          PROVE  signal'[t].insistent
      <3>1. s \in list
        <4>1. t \in Nat /\ t <= n /\ n \in Nat
          BY <1>2, <1>4, <1>5, <1>7
        <4> QED BY <1>4, <2>4, <4>1
      <3>2. CASE t = n
        BY <1>7, <2>2, <2>4, <3>1, <3>2
      <3>3. CASE t \in list
        BY <2>1, <2>4, <3>1, <3>3 DEF NoTwins
      <3> QED BY <1>4, <3>2, <3>3
    <2> QED BY <2>4 DEF NoTwins
  <1>16. Core'
    <2>1. listed' \subseteq Stored' /\ silent' \subseteq Stored'
      BY <1>4, <1>5, <1>7
    <2> QED BY <1>7, <1>15, <2>1 DEF Core
  <1>17. Hears(stack)'
    <2>1. ASSUME NEW s \in Nat, NEW event \in Events
          PROVE  Happened(s, event)' <=> Happened(s, event) \/ (s = n /\ event = "emitted")
      <3>1. CASE s = n
        BY <1>5, <1>7, <1>13, <3>1 DEF Happened
      <3>2. CASE s # n
        <4>1. CASE s \in Stored
          <5>1. s \in Stored' /\ signal'[s].state = signal[s].state /\ silent' = silent
                /\ (Live(s)' <=> Live(s))
            BY <1>7, <1>13, <4>1
          <5> QED BY <3>2, <4>1, <5>1 DEF Happened
        <4>2. CASE s \notin Stored
          BY <1>7, <3>2, <4>2 DEF Happened
        <4> QED BY <4>1, <4>2
      <3> QED BY <3>1, <3>2
    <2>2. \A c : Owes(f, c, n, "emitted")
      BY <1>8 DEF Owes
    <2>3. ASSUME NEW c \in steady, NEW s \in Nat, NEW event \in Events
          PROVE  /\ <<s, event>> \in heard[c] => Happened(s, event)'
                 /\ Happened(s, event)' =>
                       <<s, event>> \in heard[c] \/ \E g \in ToSet(stack') : Owes(g, c, s, event)
      <3>1. /\ <<s, event>> \in heard[c] => Happened(s, event)
            /\ Happened(s, event) =>
                  <<s, event>> \in heard[c] \/ \E g \in ToSet(below) : Owes(g, c, s, event)
        BY DEF Hears
      <3> QED BY <1>11, <2>1, <2>2, <3>1
    <2>4. steady' = steady /\ heard' = heard
      OBVIOUS
    <2> QED BY <2>3, <2>4 DEF Hears
  <1>18. Sees(stack)'
    <2>1. ASSUME NEW s \in Stored', Due(s)' PROVE \E g \in ToSet(stack') : SeesTo(g, s)'
      <3>1. s # n
        BY <1>2, <1>5, <1>7, <2>1 DEF Due
      <3>2. s \in list /\ s \in Stored /\ signal'[s] = signal[s]
        BY <1>4, <1>7, <2>1, <3>1 DEF Due
      <3>3. Due(s)
        BY <1>13, <2>1, <3>2 DEF Due
      <3>4. PICK g \in ToSet(below) : SeesTo(g, s)
        BY <3>2, <3>3
      <3>5. SeesTo(g, s)'
        BY <3>2, <3>4 DEF SeesTo
      <3> QED BY <1>11, <3>5
    <2> QED BY <2>1 DEF Sees
  <1> QED BY <1>12, <1>14, <1>16, <1>17, <1>18 DEF SignalInv, But

\* A live signal ends, and a call begins to tell of it.
LEMMA Ending ==
    ASSUME NEW below, But(below), Len(below) < MaxDepth,
           NEW s \in Stored, Live(s), NEW state \in TerminalStates, Become(s, state),
           NEW f \in FrameSet, f.about = s, f.doing \in {"replacing", "resolving", "expiring"},
           EventOf[f.doing] = state, f.told = {}, f.inside = "layer", f.rest \subseteq Stored,
           f.doing = "replacing" <=> f.input # NoInput,
           f.doing = "replacing" =>
              /\ Len(signal) + Cardinality(ReplacingIn(below)) < MaxSignals
              /\ Holds(f)
              /\ \A g \in ToSet(below) : g.doing = "replacing" => g.rest \subseteq f.rest,
           stack' = <<f>> \o below, step' \in 0..MaxStep,
           UNCHANGED <<listed, callbacks, heard, steady, silent>>
    PROVE  But(stack)'
  <1>1. /\ MaxSignals \in Nat /\ MaxDepth \in Nat
        /\ signal \in Seq(SignalSet) /\ listed \subseteq Stored /\ silent \subseteq Stored
        /\ Core /\ Fits(below) /\ Frames(below) /\ Hears(below)
    BY SignalFacts DEF But, Core
  <1>2. /\ signal' \in Seq(SignalSet) /\ Len(signal') = Len(signal) /\ Stored' = Stored
        /\ signal'[s].state = state
        /\ \A t \in Stored \ {s} : signal'[t] = signal[t]
        /\ Keeps
    BY <1>1, Becomes DEF States
  <1>3. Len(signal) \in Nat /\ Stored = 1..Len(signal)
    BY <1>1, SignalsAre
  <1>4. ~Live(s)' /\ \A t \in Stored \ {s} : Live(t)' <=> Live(t)
    BY <1>2 DEF Live
  <1>5. \A g \in ToSet(below) : g \in FrameSet /\ Speaks(g) /\ Tells(g) /\ Holds(g)
    BY <1>1, ToSetProperties DEF Fits, Frames
  <1>6. \A g \in ToSet(below) : Speaks(g)' /\ Tells(g)' /\ Holds(g)'
    <2>1. \A g \in ToSet(below) : g.doing = "replacing" => g.rest \subseteq listed'
      BY <1>5 DEF Holds
    <2> QED BY <1>2, <1>5, <2>1, FrameKept
  <1>7. /\ stack' \in Seq(FrameSet) /\ Len(stack') = Len(below) + 1
        /\ ToSet(stack') = {f} \cup ToSet(below)
        /\ Ordered(stack') <=> Ordered(below) /\ \A g \in ToSet(below) : Apart(f, g)
        /\ Cardinality(ReplacingIn(below)) \in Nat
        /\ Cardinality(ReplacingIn(stack'))
              = Cardinality(ReplacingIn(below)) + IF f.doing = "replacing" THEN 1 ELSE 0
    BY <1>1, Pushed DEF Fits
  <1>8. Fits(stack)'
    <2>1. \A g \in ToSet(below) : Apart(f, g)
      BY DEF Apart
    <2>2. Len(below) \in Nat
      BY <1>1, LenProperties DEF Fits
    <2>3. Len(stack') <= MaxDepth
      BY <1>1, <1>7, <2>2
    <2>4. Len(signal') + Cardinality(ReplacingIn(stack')) <= MaxSignals
      <3>1. Len(signal) + Cardinality(ReplacingIn(below)) <= MaxSignals
        BY <1>1 DEF Fits
      <3> QED BY <1>1, <1>2, <1>3, <1>7, <3>1
    <2> QED BY <1>1, <1>7, <2>1, <2>3, <2>4 DEF Fits
  <1>9. Frames(stack)'
    <2>1. Speaks(f)'
      BY <1>2, DoingsAre DEF Speaks
    <2>2. Tells(f)'
      BY DEF Tells
    <2>3. Holds(f)'
      <3>1. SUFFICES ASSUME f.doing = "replacing" PROVE Holds(f)'
        BY DEF Holds
      <3>2. NoTwins(f.rest)'
        BY <1>2, <3>1, TwinsKept DEF Holds
      <3>3. \A t \in f.rest : Live(t)' => Live(t)
        BY <1>4
      <3>4. ~f.input.insistent =>
                \A t \in f.rest : Live(t)' /\ signal'[t].key = f.input.key => signal'[t].born # f.at
        BY <1>2, <3>1, <3>3 DEF Holds, Keeps
      <3> QED BY <3>1, <3>2, <3>4 DEF Holds
    <2> QED BY <1>6, <1>7, <2>1, <2>2, <2>3 DEF Frames
  <1>10. Core'
    <2>1. NoTwins(listed)'
      BY <1>1, <1>2, TwinsKept DEF Core
    <2> QED BY <1>1, <1>2, <2>1 DEF Core
  <1>11. Hears(stack)'
    <2>1. ASSUME NEW t \in Nat, NEW event \in Events
          PROVE  Happened(t, event)' <=> Happened(t, event) \/ (t = s /\ event = state)
      <3>1. CASE t = s
        <4>1. s \in Stored /\ s \in Stored' /\ signal'[s].state = state /\ silent' = silent /\ ~Live(s)' /\ Live(s)
          BY <1>2, <1>4
        <4> QED BY <3>1, <4>1 DEF Happened
      <3>2. CASE t # s
        <4>1. CASE t \in Stored
          <5>1. t \in Stored' /\ signal'[t].state = signal[t].state /\ silent' = silent
                /\ (Live(t)' <=> Live(t))
            BY <1>2, <1>4, <3>2, <4>1
          <5> QED BY <3>2, <4>1, <5>1 DEF Happened
        <4>2. CASE t \notin Stored
          BY <1>2, <3>2, <4>2 DEF Happened
        <4> QED BY <4>1, <4>2
      <3> QED BY <3>1, <3>2
    <2>2. \A c : Owes(f, c, s, state)
      BY DEF Owes
    <2>3. ASSUME NEW c \in steady, NEW t \in Nat, NEW event \in Events
          PROVE  /\ <<t, event>> \in heard[c] => Happened(t, event)'
                 /\ Happened(t, event)' =>
                       <<t, event>> \in heard[c] \/ \E g \in ToSet(stack') : Owes(g, c, t, event)
      <3>1. /\ <<t, event>> \in heard[c] => Happened(t, event)
            /\ Happened(t, event) =>
                  <<t, event>> \in heard[c] \/ \E g \in ToSet(below) : Owes(g, c, t, event)
        BY <1>1 DEF Hears
      <3>2. Happened(t, event)' <=> Happened(t, event) \/ (t = s /\ event = state)
        BY <2>1
      <3>3. ASSUME t = s, event = state PROVE \E g \in ToSet(stack') : Owes(g, c, t, event)
        <4>1. f \in ToSet(stack') /\ Owes(f, c, t, event)
          BY <1>7, <2>2, <3>3
        <4> QED BY <4>1
      <3>4. ToSet(below) \subseteq ToSet(stack')
        BY <1>7
      <3> QED BY <3>1, <3>2, <3>3, <3>4
    <2>4. steady' = steady /\ heard' = heard
      OBVIOUS
    <2> QED BY <2>3, <2>4 DEF Hears
  <1> QED BY <1>8, <1>9, <1>10, <1>11 DEF But

\* A call ends, perhaps after it has made its signal active.
LEMMA Returning ==
    ASSUME NEW below, But(below), signal' \in Seq(SignalSet), Len(signal') = Len(signal),
           Stored' = Stored, Keeps, \A t \in Stored : Live(t)' <=> Live(t),
           stack' = below, step' \in 0..MaxStep,
           UNCHANGED <<listed, callbacks, heard, steady, silent>>
    PROVE  But(stack)'
  <1>1. Core /\ Fits(below) /\ Frames(below) /\ Hears(below) /\ listed \subseteq Stored
    BY DEF But, Core
  <1>2. Core'
    <2>1. NoTwins(listed)'
      BY <1>1, TwinsKept DEF Core
    <2> QED BY <1>1, <2>1 DEF Core
  <1>3. Fits(stack)'
    BY <1>1 DEF Fits
  <1>4. Frames(stack)'
    <2>1. \A g \in ToSet(below) : g \in FrameSet /\ Speaks(g) /\ Tells(g) /\ Holds(g)
      BY <1>1, ToSetProperties DEF Fits, Frames
    <2>2. \A g \in ToSet(below) : g.doing = "replacing" => g.rest \subseteq listed'
      BY <2>1 DEF Holds
    <2>3. \A g \in ToSet(below) : Speaks(g)' /\ Tells(g)' /\ Holds(g)'
      BY <2>1, <2>2, FrameKept
    <2> QED BY <2>3 DEF Frames
  <1>5. Hears(stack)'
    <2>1. \A t \in Nat, event \in Events : Happened(t, event)' <=> Happened(t, event)
      BY DEF Happened, Keeps
    <2> QED BY <1>1, <2>1 DEF Hears
  <1> QED BY <1>2, <1>3, <1>4, <1>5 DEF But

-----------------------------------------------------------------------------
(* The steps *)

LEMMA EmitsWell ==
    ASSUME SignalInv, NEW i \in Inputs, Emit(i)
    PROVE  SignalInv' /\ Keeps
  <1>1. /\ Core /\ Fits(stack) /\ Frames(stack) /\ Hears(stack)
        /\ step \in 0..MaxStep /\ stack \in Seq(FrameSet) /\ NoTwins(listed)
    BY DEF SignalInv, But, Core, Fits
  <1>2. PICK below, list, at : below = stack /\ list = listed /\ at = step
    OBVIOUS
  <1>3. Len(below) < MaxDepth
    BY <1>2 DEF Emit, MayCall
  <1>4. Len(signal) + Cardinality(ReplacingIn(below)) < MaxSignals
    BY <1>2 DEF Emit, Replacing, ReplacingIn
  <1>5. Store(i, list, at, below) /\ UNCHANGED <<step, callbacks, heard, steady, silent>>
    BY <1>2 DEF Emit
  <1>6. ~i.insistent => \A s \in list : Live(s) /\ signal[s].key = i.key => signal[s].born # at
    BY <1>2 DEF Emit, Suppressed, SameStep
  <1>7. \A g \in ToSet(below) : g.doing = "replacing" => g.rest \subseteq list
    BY <1>1, <1>2 DEF Frames, Holds
  <1>8. \A s \in list : Due(s) => \E g \in ToSet(below) : SeesTo(g, s)
    BY <1>2 DEF SignalInv, Sees, Due, But, Core
  <1>9. SignalInv'
    BY <1>1, <1>2, <1>3, <1>4, <1>5, <1>6, <1>7, <1>8, Stores
  <1>10. Keeps
    <2>1. PICK new : new = [key |-> i.key, insistent |-> i.insistent, expires |-> i.expires,
                            born |-> at, stored |-> step, state |-> "emitted"]
      OBVIOUS
    <2>2. signal' = Append(signal, new)
      BY <1>5, <2>1 DEF Store
    <2>3. new \in SignalSet
      BY <1>1, <1>2, <2>1, SignalFacts DEF SignalSet, States
    <2>4. signal \in Seq(SignalSet)
      BY <1>1 DEF Core
    <2> QED BY <2>2, <2>3, <2>4, Appends
  <1> QED BY <1>9, <1>10

\* Where a signal ends, none is due that was not, while the step is the same.
LEMMA StillSeen ==
    ASSUME Sees(stack), Keeps, Stored' = Stored, listed' = listed, step' = step,
           \A s \in Stored, g \in ToSet(stack) :
              SeesTo(g, s) /\ Live(s)' =>
                  \E h \in ToSet(stack') :
                      h.doing = "expiring" /\ s \in h.rest /\ signal[s].expires <= h.at
    PROVE  Sees(stack)'
  <1>1. ASSUME NEW s \in Stored, Due(s)' PROVE \E h \in ToSet(stack') : SeesTo(h, s)'
    <2>1. Due(s)
      BY <1>1 DEF Due, Keeps, Live
    <2>2. PICK g \in ToSet(stack) : SeesTo(g, s)
      BY <2>1 DEF Sees
    <2>3. PICK h \in ToSet(stack') : h.doing = "expiring" /\ s \in h.rest /\ signal[s].expires <= h.at
      BY <1>1, <2>2 DEF Due
    <2>4. SeesTo(h, s)'
      BY <2>3 DEF SeesTo, Keeps
    <2> QED BY <2>4
  <1> QED BY <1>1 DEF Sees

LEMMA ReplacesWell ==
    ASSUME SignalInv, NEW i \in Inputs, NEW s \in Stored, EmitReplacing(i, s)
    PROVE  SignalInv' /\ Keeps
  <1>1. /\ Core /\ Fits(stack) /\ Frames(stack) /\ Hears(stack) /\ But(stack) /\ Sees(stack)
        /\ step \in 0..MaxStep /\ stack \in Seq(FrameSet) /\ NoTwins(listed)
        /\ listed \subseteq Stored /\ signal \in Seq(SignalSet)
    BY DEF SignalInv, But, Core, Fits
  <1>2. Stored = 1..Len(signal) /\ Len(signal) \in Nat
    BY <1>1, SignalsAre
  <1>3. PICK below, at, f :
            below = stack /\ at = step /\ f = Frame("replacing", s, i, listed, at)
    OBVIOUS
  <1>4. /\ Live(s) /\ Become(s, "superseded") /\ stack' = <<f>> \o below /\ Len(below) < MaxDepth
        /\ Len(signal) + Cardinality(ReplacingIn(below)) < MaxSignals
        /\ UNCHANGED <<listed, step, callbacks, heard, steady, silent>>
    BY <1>3 DEF EmitReplacing, MayCall, Push, Replacing, ReplacingIn
  <1>5. /\ f \in FrameSet
        /\ f.doing = "replacing" /\ f.about = s /\ f.input = i /\ f.rest = listed
        /\ f.at = at /\ f.told = {} /\ f.inside = "layer"
    <2>1. "replacing" \in Doings /\ s \in Nat /\ listed \in SUBSET Nat
      BY <1>1, <1>2, DoingsAre
    <2>2. f = [doing |-> "replacing", about |-> s, input |-> i, rest |-> listed, at |-> at,
               told |-> {}, inside |-> "layer"]
      BY <1>3 DEF Frame
    <2>3. at \in 0..MaxStep /\ i \in Inputs \cup {NoInput}
      BY <1>1, <1>3
    <2>4. f \in FrameSet
      BY <2>1, <2>2, <2>3 DEF FrameSet
    <2> QED BY <2>2, <2>4
  <1>6. Holds(f)
    <2>1. ~i.insistent => \A t \in listed : Live(t) /\ signal[t].key = i.key => signal[t].born # step
      BY DEF EmitReplacing, Suppressed, SameStep
    <2> QED BY <1>1, <1>3, <1>5, <2>1 DEF Holds
  <1>7. \A g \in ToSet(below) : g.doing = "replacing" => g.rest \subseteq f.rest
    BY <1>1, <1>3, <1>5 DEF Frames, Holds
  <1>8. But(below) /\ "superseded" \in TerminalStates /\ EventOf["replacing"] = "superseded"
        /\ i # NoInput
    BY <1>1, <1>3, DoingsAre, SignalFacts DEF TerminalStates
  <1>9. But(stack)'
    <2>1. step' \in 0..MaxStep /\ UNCHANGED <<listed, callbacks, heard, steady, silent>>
      BY <1>1, <1>4
    <2> QED BY <1>1, <1>4, <1>5, <1>6, <1>7, <1>8, <2>1, Ending
  <1>10. Keeps /\ Stored' = Stored
    BY <1>1, <1>4, Becomes DEF States, TerminalStates
  <1>11. ToSet(stack') = {f} \cup ToSet(stack)
    BY <1>1, <1>3, <1>4, <1>5, Pushed
  <1>12. Sees(stack)'
    BY <1>1, <1>4, <1>10, <1>11, StillSeen DEF SeesTo
  <1> QED BY <1>9, <1>10, <1>12 DEF SignalInv

LEMMA ResolvesWell ==
    ASSUME SignalInv, NEW s \in Stored, ResolveSignal(s)
    PROVE  SignalInv' /\ Keeps
  <1>1. /\ But(stack) /\ Sees(stack) /\ step \in 0..MaxStep /\ stack \in Seq(FrameSet)
        /\ signal \in Seq(SignalSet)
    BY DEF SignalInv, But, Core, Fits
  <1>2. Stored = 1..Len(signal) /\ Len(signal) \in Nat
    BY <1>1, SignalsAre
  <1>3. PICK below, at, f :
            below = stack /\ at = step /\ f = Frame("resolving", s, NoInput, {}, at)
    OBVIOUS
  <1>4. /\ Live(s) /\ Become(s, "resolved") /\ stack' = <<f>> \o below /\ Len(below) < MaxDepth
        /\ UNCHANGED <<listed, step, callbacks, heard, steady, silent>>
    BY <1>3 DEF ResolveSignal, MayCall, Push
  <1>5. /\ f \in FrameSet
        /\ f.doing = "resolving" /\ f.about = s /\ f.input = NoInput /\ f.rest = {}
        /\ f.at = at /\ f.told = {} /\ f.inside = "layer"
    <2>1. "resolving" \in Doings /\ s \in Nat
      BY <1>1, <1>2, DoingsAre
    <2>2. f = [doing |-> "resolving", about |-> s, input |-> NoInput, rest |-> {}, at |-> at,
               told |-> {}, inside |-> "layer"]
      BY <1>3 DEF Frame
    <2> QED BY <1>1, <1>3, <2>1, <2>2 DEF FrameSet
  <1>6. But(below) /\ "resolved" \in TerminalStates /\ EventOf["resolving"] = "resolved"
    BY <1>1, <1>3, DoingsAre DEF TerminalStates
  <1>7. But(stack)'
    <2>1. step' \in 0..MaxStep /\ UNCHANGED <<listed, callbacks, heard, steady, silent>>
      BY <1>1, <1>4
    <2> QED BY <1>1, <1>4, <1>5, <1>6, <2>1, Ending
  <1>8. Keeps /\ Stored' = Stored
    BY <1>1, <1>4, Becomes DEF States, TerminalStates
  <1>9. ToSet(stack') = {f} \cup ToSet(stack)
    BY <1>1, <1>3, <1>4, <1>5, Pushed
  <1>10. Sees(stack)'
    BY <1>1, <1>4, <1>8, <1>9, StillSeen DEF SeesTo
  <1> QED BY <1>7, <1>8, <1>10 DEF SignalInv

\* The first of a list expires, and the call sees to the others.
LEMMA ExpiresFirst ==
    ASSUME NEW below, But(below), Len(below) < MaxDepth, NEW list \in SUBSET Stored,
           NEW at \in 0..MaxStep, ExpireFirst(list, at, below), step' \in 0..MaxStep,
           UNCHANGED <<listed, callbacks, heard, steady, silent>>
    PROVE  /\ But(stack)' /\ Keeps /\ Stored' = Stored
           /\ ToSet(below) \subseteq ToSet(stack')
           /\ \A t \in list : Live(t)' /\ signal[t].expires <= at =>
                 \E h \in ToSet(stack') :
                     h.doing = "expiring" /\ t \in h.rest /\ signal[t].expires <= h.at
  <1>1. /\ signal \in Seq(SignalSet) /\ below \in Seq(FrameSet)
        /\ Stored = 1..Len(signal) /\ Len(signal) \in Nat
    BY SignalsAre DEF But, Core, Fits
  <1>2. PICK T : T = Expiring(list, at)
    OBVIOUS
  <1>3. T \in SUBSET Nat /\ T \subseteq list
    <2>1. \A t \in list : t \in Nat
      BY <1>1
    <2>2. T \subseteq list
      BY <1>2 DEF Expiring
    <2> QED BY <2>1, <2>2
  <1>4. CASE T = {}
    <2>1. stack' = below /\ signal' = signal
      BY <1>2, <1>4 DEF ExpireFirst
    <2>2. Stored' = Stored /\ Keeps /\ (\A t \in Stored : Live(t)' <=> Live(t))
      BY <2>1 DEF Stored, Keeps, Live
    <2>3. But(stack)'
      BY <1>1, <2>1, <2>2, Returning
    <2>4. \A t \in list : ~(Live(t)' /\ signal[t].expires <= at)
      BY <1>2, <1>4, <2>2 DEF Expiring
    <2> QED BY <2>1, <2>2, <2>3, <2>4
  <1>5. CASE T # {}
    <2>1. PICK s \in T : s = Min(T) /\ \A m \in T : s <= m
      BY <1>3, <1>5, LeastOf
    <2>2. PICK f : f = Frame("expiring", s, NoInput, {t \in list : t > s}, at)
      OBVIOUS
    <2>3. Become(s, "expired") /\ stack' = <<f>> \o below
      BY <1>2, <1>5, <2>1, <2>2 DEF ExpireFirst
    <2>4. s \in Stored /\ Live(s) /\ s \in Nat
      BY <1>2, <1>3, <2>1 DEF Expiring
    <2>5. /\ f \in FrameSet
          /\ f.doing = "expiring" /\ f.about = s /\ f.input = NoInput
          /\ f.rest = {t \in list : t > s}
          /\ f.at = at /\ f.told = {} /\ f.inside = "layer"
      <3>1. \A t \in list : t \in Nat
        BY <1>1
      <3>2. "expiring" \in Doings
        BY DoingsAre
      <3>3. PICK later \in SUBSET Nat : later = {t \in list : t > s}
        BY <3>1
      <3>4. f = [doing |-> "expiring", about |-> s, input |-> NoInput, rest |-> later, at |-> at,
                 told |-> {}, inside |-> "layer"]
        BY <2>2, <3>3 DEF Frame
      <3>5. f \in FrameSet
        BY <2>4, <3>2, <3>4 DEF FrameSet
      <3> QED BY <3>3, <3>4, <3>5
    <2>6. "expired" \in TerminalStates /\ EventOf["expiring"] = "expired" /\ f.rest \subseteq Stored
      BY <2>5, DoingsAre DEF TerminalStates
    <2>7. But(stack)'
      BY <2>3, <2>4, <2>5, <2>6, Ending
    <2>8. Keeps /\ Stored' = Stored /\ signal'[s].state = "expired"
      BY <1>1, <2>3, <2>4, Becomes DEF States, TerminalStates
    <2>9. ToSet(stack') = {f} \cup ToSet(below)
      BY <1>1, <2>3, <2>5, Pushed
    <2>10. ASSUME NEW t \in list, Live(t)', signal[t].expires <= at
           PROVE  f.doing = "expiring" /\ t \in f.rest /\ signal[t].expires <= f.at
      <3>1. Live(t) /\ t # s
        BY <2>8, <2>10 DEF Keeps, Live, TerminalStates
      <3>2. t \in T
        BY <1>2, <2>10, <3>1 DEF Expiring
      <3>3. s <= t /\ t \in Nat
        BY <1>3, <2>1, <3>2
      <3> QED BY <2>4, <2>5, <2>10, <3>1, <3>3
    <2> QED BY <2>7, <2>8, <2>9, <2>10
  <1> QED BY <1>4, <1>5

LEMMA AdvancesWell ==
    ASSUME SignalInv, AdvanceStep
    PROVE  SignalInv' /\ Keeps
  <1>1. /\ But(stack) /\ step \in 0..MaxStep /\ MaxStep \in Nat
        /\ listed \subseteq Stored /\ signal \in Seq(SignalSet)
    BY SignalFacts DEF SignalInv, But, Core
  <1>2. PICK below, list, at : below = stack /\ list = listed /\ at = step + 1
    OBVIOUS
  <1>3. /\ ExpireFirst(list, at, below) /\ Len(below) < MaxDepth /\ step' = at
        /\ UNCHANGED <<listed, callbacks, heard, steady, silent>>
        /\ at \in 0..MaxStep
    BY <1>1, <1>2 DEF AdvanceStep, MayCall
  <1>4. But(below) /\ list \in SUBSET Stored /\ step' \in 0..MaxStep
    BY <1>1, <1>2, <1>3
  <1>5. /\ But(stack)' /\ Keeps /\ Stored' = Stored
        /\ \A t \in list : Live(t)' /\ signal[t].expires <= at =>
                 \E h \in ToSet(stack') :
                     h.doing = "expiring" /\ t \in h.rest /\ signal[t].expires <= h.at
    BY <1>3, <1>4, ExpiresFirst
  <1>6. ASSUME NEW s \in Stored, Due(s)' PROVE \E h \in ToSet(stack') : SeesTo(h, s)'
    <2>1. s \in list /\ Live(s)' /\ signal'[s].expires <= at
      BY <1>2, <1>3, <1>6 DEF Due
    <2>2. signal'[s].expires = signal[s].expires
      BY <1>5 DEF Keeps
    <2>3. PICK h \in ToSet(stack') : h.doing = "expiring" /\ s \in h.rest /\ signal[s].expires <= h.at
      BY <1>5, <2>1, <2>2
    <2>4. SeesTo(h, s)'
      BY <2>2, <2>3 DEF SeesTo
    <2> QED BY <2>4
  <1> QED BY <1>5, <1>6 DEF SignalInv, Sees

LEMMA ProceedsWell ==
    ASSUME SignalInv, Proceed
    PROVE  SignalInv' /\ Keeps
  <1>1. stack # <<>> /\ Top.doing # "hooks" /\ steady \subseteq Top.told
    BY InLayer DEF Proceed
  <1>2. PICK top \in FrameSet, below \in Seq(FrameSet) :
              /\ Top = top /\ Tail(stack) = below /\ stack = <<top>> \o below
              /\ ToSet(stack) = {top} \cup ToSet(below)
              /\ Speaks(top) /\ Tells(top) /\ Holds(top)
              /\ Core /\ Fits(below) /\ Frames(below) /\ Len(below) < MaxDepth
              /\ \A g \in ToSet(below) : Apart(top, g)
              /\ Cardinality(ReplacingIn(below)) \in Nat
              /\ top.doing = "replacing" =>
                    Len(signal) + Cardinality(ReplacingIn(below)) < MaxSignals
    BY <1>1, StackIs
  <1>3. Hears(below)
    BY <1>1, <1>2, ToldAll
  <1>4. But(below) /\ Sees(stack)
    BY <1>2, <1>3 DEF But, SignalInv
  <1>5. /\ signal \in Seq(SignalSet) /\ step \in 0..MaxStep /\ listed \subseteq Stored
        /\ Stored = 1..Len(signal) /\ Len(signal) \in Nat
    BY <1>2, SignalsAre DEF Core
  <1>6. UNCHANGED <<step, callbacks, heard, steady, silent>>
    BY DEF Proceed
  <1>7. CASE /\ top.doing = "replacing"
             /\ Store(top.input, top.rest, top.at, below)
    <2>1. PICK i, list, at : i = top.input /\ list = top.rest /\ at = top.at
      OBVIOUS
    <2>2. i \in Inputs /\ at \in 0..MaxStep
      BY <1>2, <1>7, <2>1 DEF FrameSet, Speaks
    <2>3. /\ list \in SUBSET listed /\ NoTwins(list)
          /\ ~i.insistent => \A s \in list : Live(s) /\ signal[s].key = i.key => signal[s].born # at
      BY <1>2, <1>7, <2>1 DEF Holds
    <2>4. \A g \in ToSet(below) : g.doing = "replacing" => g.rest \subseteq list
      BY <1>2, <1>7, <2>1 DEF Apart
    <2>5. \A s \in list : Due(s) => \E g \in ToSet(below) : SeesTo(g, s)
      BY <1>2, <1>4, <1>5, <1>7, <2>3 DEF Sees, SeesTo
    <2>6. SignalInv'
      BY <1>2, <1>3, <1>6, <1>7, <2>1, <2>2, <2>3, <2>4, <2>5, Stores
    <2>7. Keeps
      <3>1. PICK new : new = [key |-> i.key, insistent |-> i.insistent, expires |-> i.expires,
                              born |-> at, stored |-> step, state |-> "emitted"]
        OBVIOUS
      <3>2. signal' = Append(signal, new)
        BY <1>7, <2>1, <3>1 DEF Store
      <3>3. new \in SignalSet
        BY <1>5, <2>2, <3>1, SignalFacts DEF SignalSet, States
      <3> QED BY <1>5, <3>2, <3>3, Appends
    <2> QED BY <2>6, <2>7
  <1>8. ASSUME signal' = signal \/ (Promotable(top.about) /\ Become(top.about, "active")),
               stack' = below, listed' = listed, top.doing # "expiring"
        PROVE  SignalInv' /\ Keeps
    <2>1. /\ signal' \in Seq(SignalSet) /\ Len(signal') = Len(signal) /\ Stored' = Stored
          /\ Keeps /\ \A t \in Stored : Live(t)' <=> Live(t)
      <3>1. CASE signal' = signal
        BY <1>5, <3>1 DEF Keeps, Live, Stored
      <3>2. CASE Promotable(top.about) /\ Become(top.about, "active")
        <4>1. PICK s \in Stored : s = top.about
          BY <1>2 DEF Speaks
        <4>2. Live(s) /\ Become(s, "active")
          BY <3>2, <4>1 DEF Promotable, Live, TerminalStates
        <4>3. /\ signal' \in Seq(SignalSet) /\ Len(signal') = Len(signal) /\ Stored' = Stored
              /\ signal'[s].state = "active"
              /\ \A t \in Stored \ {s} : signal'[t] = signal[t]
              /\ Keeps
          BY <1>5, <4>2, Becomes DEF States
        <4>4. \A t \in Stored : Live(t)' <=> Live(t)
          BY <4>2, <4>3 DEF Live, TerminalStates
        <4> QED BY <4>3, <4>4
      <3> QED BY <1>8, <3>1, <3>2
    <2>2. But(stack)'
      BY <1>4, <1>5, <1>6, <1>8, <2>1, Returning
    <2>3. Sees(stack)'
      <3>1. \A s \in Stored, g \in ToSet(stack) : SeesTo(g, s) =>
                /\ g \in ToSet(stack')
                /\ g.doing = "expiring" /\ s \in g.rest /\ signal[s].expires <= g.at
        BY <1>2, <1>8 DEF SeesTo
      <3> QED BY <1>4, <1>6, <1>8, <2>1, <3>1, StillSeen
    <2> QED BY <2>1, <2>2, <2>3 DEF SignalInv
  <1>9. CASE /\ top.doing = "expiring"
             /\ ExpireFirst(top.rest, top.at, below)
             /\ listed' = listed
    <2>1. PICK list, at : list = top.rest /\ at = top.at
      OBVIOUS
    <2>2. list \in SUBSET Stored /\ at \in 0..MaxStep /\ step' \in 0..MaxStep
      BY <1>2, <1>5, <1>6, <2>1 DEF FrameSet, Speaks
    <2>3. /\ But(stack)' /\ Keeps /\ Stored' = Stored
          /\ ToSet(below) \subseteq ToSet(stack')
          /\ \A t \in list : Live(t)' /\ signal[t].expires <= at =>
                 \E h \in ToSet(stack') :
                     h.doing = "expiring" /\ t \in h.rest /\ signal[t].expires <= h.at
      BY <1>2, <1>4, <1>6, <1>9, <2>1, <2>2, ExpiresFirst
    <2>4. ASSUME NEW s \in Stored, NEW g \in ToSet(stack), SeesTo(g, s), Live(s)'
          PROVE  \E h \in ToSet(stack') :
                     h.doing = "expiring" /\ s \in h.rest /\ signal[s].expires <= h.at
      <3>1. CASE g = top
        BY <2>1, <2>3, <2>4, <3>1 DEF SeesTo
      <3>2. CASE g \in ToSet(below)
        BY <2>3, <2>4, <3>2 DEF SeesTo
      <3> QED BY <1>2, <3>1, <3>2
    <2>5. Sees(stack)'
      BY <1>4, <1>6, <1>9, <2>3, <2>4, StillSeen
    <2> QED BY <2>3, <2>5 DEF SignalInv
  <1> QED BY <1>2, <1>7, <1>8, <1>9 DEF Proceed, Pop

\* The next subscriber is told, and has heard of what the call speaks of.
LEMMA CallsWell ==
    ASSUME SignalInv, CallNext
    PROVE  SignalInv' /\ Keeps
  <1>1. stack # <<>> /\ Top.inside = "layer" /\ Untold # {}
    BY DEF CallNext, Inside
  <1>2. PICK top \in FrameSet, below \in Seq(FrameSet) :
              /\ Top = top /\ Tail(stack) = below /\ stack = <<top>> \o below
              /\ ToSet(stack) = {top} \cup ToSet(below)
              /\ Speaks(top) /\ Tells(top) /\ Holds(top)
              /\ Core /\ Fits(below) /\ Frames(below) /\ Len(below) < MaxDepth
              /\ \A g \in ToSet(below) : Apart(top, g)
              /\ Cardinality(ReplacingIn(below)) \in Nat
              /\ top.doing = "replacing" =>
                    Len(signal) + Cardinality(ReplacingIn(below)) < MaxSignals
    BY <1>1, StackIs
  <1>3. top.doing # "hooks" /\ top.inside = "layer"
    BY <1>1, <1>2 DEF Speaks
  <1>4. PICK c : c = callbacks[Min(Untold)]
    OBVIOUS
  <1>5. c \in Subscribers
    <2>1. DOMAIN callbacks = 1..Len(callbacks) /\ Len(callbacks) \in Nat
      BY <1>2, LenProperties DEF Core
    <2>2. PICK T : T = Untold
      OBVIOUS
    <2>3. T \subseteq 1..Len(callbacks)
      BY <2>1, <2>2 DEF Untold
    <2>4. Min(T) \in T
      BY <1>1, <2>1, <2>2, <2>3, LeastOf
    <2> QED BY <1>2, <1>4, <2>2, <2>3, <2>4, ElementOfSeq DEF Core
  <1>6. PICK about, event : about = top.about /\ event = EventOf[top.doing]
    OBVIOUS
  <1>7. PICK f : f = [top EXCEPT !.told = top.told \cup {c}, !.inside = c]
    OBVIOUS
  <1>8. /\ stack' = <<f>> \o below
        /\ heard' = IF c \in steady THEN [heard EXCEPT ![c] = heard[c] \cup {<<about, event>>}]
                    ELSE heard
        /\ UNCHANGED <<signal, listed, step, callbacks, steady, silent>>
    BY <1>2, <1>4, <1>6, <1>7 DEF CallNext, Replace
  <1>9. /\ f \in FrameSet
        /\ f.doing = top.doing /\ f.about = about /\ f.input = top.input /\ f.rest = top.rest
        /\ f.at = top.at /\ f.told = top.told \cup {c} /\ f.inside = c
    <2>1. f = [doing |-> top.doing, about |-> about, input |-> top.input, rest |-> top.rest,
               at |-> top.at, told |-> top.told \cup {c}, inside |-> c]
      BY <1>6, <1>7 DEF FrameSet
    <2>2. f \in FrameSet
      BY <1>5, <1>6, <2>1 DEF FrameSet
    <2> QED BY <2>1, <2>2
  <1>10. /\ about \in Stored /\ about \in Nat /\ event \in Events
         /\ Happened(about, event)
    <2>1. Stored = 1..Len(signal) /\ Len(signal) \in Nat
      BY <1>2, SignalsAre DEF Core
    <2>2. about \in Stored
      BY <1>2, <1>6 DEF Speaks
    <2>3. event \in Events
      BY <1>3, <1>6, DoingsAre DEF FrameSet, Events, TerminalStates
    <2>4. Happened(about, event)
      <3>1. CASE top.doing = "announcing"
        BY <1>2, <1>6, <2>2, <3>1, DoingsAre DEF Happened, Speaks
      <3>2. CASE top.doing \in {"replacing", "resolving", "expiring"}
        BY <1>2, <1>6, <2>2, <3>2, DoingsAre DEF Happened, Speaks, Live, TerminalStates
      <3> QED BY <1>3, <3>1, <3>2, DoingsAre DEF FrameSet
    <2> QED BY <2>1, <2>2, <2>3, <2>4
  <1>11. heard \in [Subscribers -> SUBSET (Nat \X Events)] /\ steady \subseteq Subscribers
    <2>1. ToSet(callbacks) \subseteq Subscribers
      BY <1>2, ToSetProperties DEF Core
    <2> QED BY <1>2, <2>1 DEF Core
  <1>12. \A d \in Subscribers :
            heard'[d] = IF d = c /\ c \in steady THEN heard[d] \cup {<<about, event>>} ELSE heard[d]
    BY <1>5, <1>8, <1>11
  <1>13. heard' \in [Subscribers -> SUBSET (Nat \X Events)]
    <2>1. <<about, event>> \in Nat \X Events
      BY <1>10
    <2> QED BY <1>5, <1>8, <1>11, <2>1
  <1>14. Core'
    BY <1>2, <1>8, <1>13 DEF Core, NoTwins, Stored, Live
  <1>15. /\ stack' \in Seq(FrameSet) /\ Len(stack') = Len(below) + 1
         /\ ToSet(stack') = {f} \cup ToSet(below)
         /\ Ordered(stack') <=> Ordered(below) /\ \A g \in ToSet(below) : Apart(f, g)
         /\ Cardinality(ReplacingIn(below)) \in Nat
         /\ Cardinality(ReplacingIn(stack'))
               = Cardinality(ReplacingIn(below)) + IF f.doing = "replacing" THEN 1 ELSE 0
    BY <1>2, <1>8, <1>9, Pushed
  <1>16. Fits(stack)'
    <2>1. \A g \in ToSet(below) : Apart(f, g)
      BY <1>2, <1>6, <1>9 DEF Apart
    <2>2. Len(below) \in Nat /\ MaxDepth \in Nat /\ MaxSignals \in Nat /\ Len(signal) \in Nat
      BY <1>2, SignalFacts, SignalsAre, LenProperties DEF Core
    <2>3. Len(stack') <= MaxDepth
      BY <1>2, <1>15, <2>2
    <2>4. Len(signal') + Cardinality(ReplacingIn(stack')) <= MaxSignals
      <3>1. Len(signal) + Cardinality(ReplacingIn(below)) <= MaxSignals
        BY <1>2 DEF Fits
      <3> QED BY <1>2, <1>8, <1>9, <1>15, <2>2, <3>1
    <2> QED BY <1>2, <1>15, <2>1, <2>3, <2>4 DEF Fits
  <1>17. \A g : /\ Speaks(g)' <=> Speaks(g)
                /\ Holds(g)' <=> Holds(g)
    BY <1>8 DEF Speaks, Holds, NoTwins, Stored, Live
  <1>18. Frames(stack)'
    <2>1. ASSUME NEW g \in ToSet(below) PROVE Tells(g)'
      <3>1. Tells(g) /\ Apart(top, g)
        BY <1>2 DEF Frames
      <3>2. g.doing = "hooks" => \A d \in steady : <<g.about, "emitted">> \notin heard'[d]
        <4>1. SUFFICES ASSUME g.doing = "hooks", NEW d \in steady
                       PROVE  <<g.about, "emitted">> \notin heard'[d]
          OBVIOUS
        <4>2. <<g.about, "emitted">> # <<about, event>>
          <5>1. CASE top.doing = "announcing"
            BY <1>6, <3>1, <4>1, <5>1 DEF Apart
          <5>2. CASE top.doing # "announcing"
            <6>1. event # "emitted"
              BY <1>3, <1>6, <5>2, DoingsAre DEF FrameSet
            <6> QED BY <6>1
          <5> QED BY <5>1, <5>2
        <4>3. <<g.about, "emitted">> \notin heard[d] /\ d \in Subscribers
          BY <1>11, <3>1, <4>1 DEF Tells
        <4>4. heard'[d] \subseteq heard[d] \cup {<<about, event>>}
          BY <1>12, <4>3
        <4> QED BY <4>2, <4>3, <4>4
      <3>3. g.doing # "hooks" =>
                \A d \in steady \cap g.told : <<g.about, EventOf[g.doing]>> \in heard'[d]
        BY <1>11, <1>12, <3>1 DEF Tells
      <3> QED BY <1>8, <3>2, <3>3 DEF Tells
    <2>2. Tells(f)'
      <3>1. ASSUME NEW d \in steady \cap f.told PROVE <<about, event>> \in heard'[d]
        <4>1. CASE d = c
          BY <1>11, <1>12, <3>1, <4>1
        <4>2. CASE d # c
          <5>1. d \in top.told /\ d \in Subscribers
            BY <1>9, <1>11, <3>1, <4>2
          <5>2. <<about, event>> \in heard[d]
            BY <1>2, <1>3, <1>6, <3>1, <5>1 DEF Tells
          <5> QED BY <1>12, <5>1, <5>2
        <4> QED BY <4>1, <4>2
      <3> QED BY <1>3, <1>6, <1>8, <1>9, <3>1 DEF Tells
    <2>3. Speaks(f)
      BY <1>2, <1>3, <1>5, <1>6, <1>9, SignalFacts DEF Speaks
    <2>4. Holds(f)
      BY <1>2, <1>9 DEF Holds
    <2>5. \A g \in ToSet(below) : Speaks(g) /\ Holds(g)
      BY <1>2 DEF Frames
    <2> QED BY <1>15, <1>17, <2>1, <2>2, <2>3, <2>4, <2>5 DEF Frames
  <1>19. Hears(stack)'
    <2>1. ASSUME NEW d \in steady, NEW s \in Nat, NEW e \in Events
          PROVE  /\ <<s, e>> \in heard'[d] => Happened(s, e)
                 /\ Happened(s, e) =>
                       <<s, e>> \in heard'[d] \/ \E g \in ToSet(stack') : Owes(g, d, s, e)
      <3>1. /\ <<s, e>> \in heard[d] => Happened(s, e)
            /\ Happened(s, e) =>
                  <<s, e>> \in heard[d] \/ \E g \in ToSet(stack) : Owes(g, d, s, e)
        BY DEF SignalInv, But, Hears
      <3>2. d \in Subscribers
        BY <1>11
      <3>3. <<s, e>> \in heard'[d] => Happened(s, e)
        <4>1. heard'[d] \subseteq heard[d] \cup {<<about, event>>}
          BY <1>12, <3>2
        <4>2. ASSUME <<s, e>> = <<about, event>> PROVE Happened(s, e)
          <5>1. s = about /\ e = event
            BY <4>2
          <5> QED BY <1>10, <5>1
        <4> QED BY <3>1, <4>1, <4>2
      <3>4. ASSUME Owes(top, d, s, e)
            PROVE  <<s, e>> \in heard'[d] \/ Owes(f, d, s, e)
        <4>1. s = about /\ e = event /\ d \notin top.told
          BY <1>3, <1>6, <3>4 DEF Owes
        <4>2. CASE d = c
          BY <1>12, <3>2, <4>1, <4>2
        <4>3. CASE d # c
          BY <1>3, <1>6, <1>9, <4>1, <4>3 DEF Owes
        <4> QED BY <4>2, <4>3
      <3>5. <<s, e>> \in heard[d] => <<s, e>> \in heard'[d]
        BY <1>12, <3>2
      <3> QED BY <1>2, <1>15, <3>1, <3>3, <3>4, <3>5
    <2>2. \A s, e : Happened(s, e)' <=> Happened(s, e)
      BY <1>8 DEF Happened, Stored, Live
    <2> QED BY <1>8, <2>1, <2>2 DEF Hears
  <1>20. Keeps /\ Stored' = Stored
    BY <1>8 DEF Keeps, Stored
  <1>21. Sees(stack)'
    <2>1. ASSUME NEW s \in Stored, NEW g \in ToSet(stack), SeesTo(g, s)
          PROVE  \E h \in ToSet(stack') :
                     h.doing = "expiring" /\ s \in h.rest /\ signal[s].expires <= h.at
      <3>1. CASE g = top
        <4>1. f \in ToSet(stack') /\ f.doing = "expiring" /\ s \in f.rest /\ signal[s].expires <= f.at
          BY <1>9, <1>15, <2>1, <3>1 DEF SeesTo
        <4> QED BY <4>1
      <3>2. CASE g \in ToSet(below)
        BY <1>15, <2>1, <3>2 DEF SeesTo
      <3> QED BY <1>2, <3>1, <3>2
    <2> QED BY <1>8, <1>20, <2>1, StillSeen DEF SignalInv
  <1> QED BY <1>14, <1>16, <1>18, <1>19, <1>20, <1>21 DEF SignalInv, But

\* A callback returns, or the hooks, and the signal is announced.
LEMMA ReturnsWell ==
    ASSUME SignalInv, OutsideReturns
    PROVE  SignalInv' /\ Keeps
  <1>1. stack # <<>> /\ Top.inside # "layer"
    BY DEF OutsideReturns, Inside
  <1>2. PICK top \in FrameSet, below \in Seq(FrameSet) :
              /\ Top = top /\ Tail(stack) = below /\ stack = <<top>> \o below
              /\ ToSet(stack) = {top} \cup ToSet(below)
              /\ Speaks(top) /\ Tells(top) /\ Holds(top)
              /\ Core /\ Fits(below) /\ Frames(below) /\ Len(below) < MaxDepth
              /\ \A g \in ToSet(below) : Apart(top, g)
              /\ Cardinality(ReplacingIn(below)) \in Nat
              /\ top.doing = "replacing" =>
                    Len(signal) + Cardinality(ReplacingIn(below)) < MaxSignals
    BY <1>1, StackIs
  <1>3. PICK f : f = IF top.doing = "hooks" THEN Frame("announcing", top.about, NoInput, {}, top.at)
                     ELSE [top EXCEPT !.inside = "layer"]
    OBVIOUS
  <1>4. /\ stack' = <<f>> \o below
        /\ UNCHANGED <<signal, listed, step, callbacks, heard, steady, silent>>
    BY <1>2, <1>3 DEF OutsideReturns, Replace
  <1>5. /\ f \in FrameSet /\ f.about = top.about /\ f.inside = "layer" /\ f.at = top.at
        /\ top.doing = "hooks" => /\ f.doing = "announcing" /\ f.told = {}
                                  /\ f.input = NoInput /\ f.rest = {}
        /\ top.doing # "hooks" => /\ f.doing = top.doing /\ f.told = top.told
                                  /\ f.input = top.input /\ f.rest = top.rest
    <2>1. CASE top.doing = "hooks"
      <3>1. f = [doing |-> "announcing", about |-> top.about, input |-> NoInput, rest |-> {},
                 at |-> top.at, told |-> {}, inside |-> "layer"]
        BY <1>3, <2>1 DEF Frame
      <3>2. "announcing" \in Doings
        BY DoingsAre
      <3>3. f \in FrameSet
        BY <3>1, <3>2 DEF FrameSet
      <3> QED BY <2>1, <3>1, <3>3
    <2>2. CASE top.doing # "hooks"
      <3>1. f = [doing |-> top.doing, about |-> top.about, input |-> top.input, rest |-> top.rest,
                 at |-> top.at, told |-> top.told, inside |-> "layer"]
        BY <1>3, <2>2 DEF FrameSet
      <3>2. f \in FrameSet
        BY <3>1 DEF FrameSet
      <3> QED BY <2>2, <3>1, <3>2
    <2> QED BY <2>1, <2>2
  <1>6. /\ stack' \in Seq(FrameSet) /\ Len(stack') = Len(below) + 1
        /\ ToSet(stack') = {f} \cup ToSet(below)
        /\ Ordered(stack') <=> Ordered(below) /\ \A g \in ToSet(below) : Apart(f, g)
        /\ Cardinality(ReplacingIn(stack'))
              = Cardinality(ReplacingIn(below)) + IF f.doing = "replacing" THEN 1 ELSE 0
    BY <1>2, <1>4, <1>5, Pushed
  <1>7. Fits(stack)'
    <2>1. \A g \in ToSet(below) : Apart(f, g)
      <3>1. CASE top.doing = "hooks"
        BY <1>2, <1>5, <3>1 DEF Apart
      <3>2. CASE top.doing # "hooks"
        BY <1>2, <1>5, <3>2 DEF Apart
      <3> QED BY <3>1, <3>2
    <2>2. Len(below) \in Nat /\ MaxDepth \in Nat /\ MaxSignals \in Nat /\ Len(signal) \in Nat
      BY <1>2, SignalFacts, SignalsAre, LenProperties DEF Core
    <2>3. Len(stack') <= MaxDepth
      BY <1>2, <1>6, <2>2
    <2>4. Len(signal') + Cardinality(ReplacingIn(stack')) <= MaxSignals
      <3>1. Len(signal) + Cardinality(ReplacingIn(below)) <= MaxSignals
        BY <1>2 DEF Fits
      <3>2. f.doing = "replacing" => top.doing = "replacing"
        BY <1>5
      <3> QED BY <1>2, <1>4, <1>6, <2>2, <3>1, <3>2
    <2> QED BY <1>2, <1>6, <2>1, <2>3, <2>4 DEF Fits
  <1>8. Core'
    BY <1>2, <1>4 DEF Core, NoTwins, Stored, Live
  <1>9. \A g : /\ Speaks(g)' <=> Speaks(g)
               /\ Holds(g)' <=> Holds(g)
               /\ Tells(g)' <=> Tells(g)
    BY <1>4 DEF Speaks, Holds, Tells, NoTwins, Stored, Live
  <1>10. Speaks(f) /\ Holds(f) /\ Tells(f)
    <2>1. CASE top.doing = "hooks"
      BY <1>2, <1>5, <2>1 DEF Speaks, Holds, Tells
    <2>2. CASE top.doing # "hooks"
      BY <1>2, <1>5, <2>2 DEF Speaks, Holds, Tells
    <2> QED BY <2>1, <2>2
  <1>11. Frames(stack)'
    BY <1>2, <1>6, <1>9, <1>10 DEF Frames
  <1>12. Hears(stack)'
    <2>1. ASSUME NEW c \in steady, NEW s \in Nat, NEW event \in Events
          PROVE  /\ <<s, event>> \in heard[c] => Happened(s, event)
                 /\ Happened(s, event) =>
                       <<s, event>> \in heard[c] \/ \E g \in ToSet(stack') : Owes(g, c, s, event)
      <3>1. /\ <<s, event>> \in heard[c] => Happened(s, event)
            /\ Happened(s, event) =>
                  <<s, event>> \in heard[c] \/ \E g \in ToSet(stack) : Owes(g, c, s, event)
        BY DEF SignalInv, But, Hears
      <3>2. Owes(top, c, s, event) => Owes(f, c, s, event)
        <4>1. CASE top.doing = "hooks"
          BY <1>5, <4>1, DoingsAre DEF Owes
        <4>2. CASE top.doing # "hooks"
          BY <1>5, <4>2 DEF Owes
        <4> QED BY <4>1, <4>2
      <3> QED BY <1>2, <1>6, <3>1, <3>2
    <2>2. \A s, e : Happened(s, e)' <=> Happened(s, e)
      BY <1>4 DEF Happened, Stored, Live
    <2> QED BY <1>4, <2>1, <2>2 DEF Hears
  <1>13. Keeps /\ Stored' = Stored
    BY <1>4 DEF Keeps, Stored
  <1>14. Sees(stack)'
    <2>1. ASSUME NEW s \in Stored, NEW g \in ToSet(stack), SeesTo(g, s)
          PROVE  \E h \in ToSet(stack') :
                     h.doing = "expiring" /\ s \in h.rest /\ signal[s].expires <= h.at
      <3>1. CASE g = top
        <4>1. f \in ToSet(stack') /\ f.doing = "expiring" /\ s \in f.rest /\ signal[s].expires <= f.at
          BY <1>5, <1>6, <2>1, <3>1 DEF SeesTo
        <4> QED BY <4>1
      <3>2. CASE g \in ToSet(below)
        BY <1>6, <2>1, <3>2 DEF SeesTo
      <3> QED BY <1>2, <3>1, <3>2
    <2> QED BY <1>4, <1>13, <2>1, StillSeen DEF SignalInv
  <1> QED BY <1>7, <1>8, <1>11, <1>12, <1>13, <1>14 DEF SignalInv, But

\* An emit fails with its signal stored: nobody will hear of it, and nobody has.
LEMMA ThrowsWell ==
    ASSUME SignalInv, ResolverThrows
    PROVE  SignalInv' /\ Keeps
  <1>1. stack # <<>> /\ Top.inside = "hooks"
    BY DEF ResolverThrows, Inside
  <1>2. PICK top \in FrameSet, below \in Seq(FrameSet) :
              /\ Top = top /\ Tail(stack) = below /\ stack = <<top>> \o below
              /\ ToSet(stack) = {top} \cup ToSet(below)
              /\ Speaks(top) /\ Tells(top) /\ Holds(top)
              /\ Core /\ Fits(below) /\ Frames(below) /\ Len(below) < MaxDepth
              /\ \A g \in ToSet(below) : Apart(top, g)
    BY <1>1, StackIs
  <1>3. PICK s : s = top.about
    OBVIOUS
  <1>4. /\ stack' = below /\ silent' = silent \cup {s}
        /\ UNCHANGED <<signal, listed, step, callbacks, heard, steady>>
    BY <1>2, <1>3 DEF ResolverThrows, Pop
  <1>5. top.doing = "hooks" /\ s \in Stored /\ s \notin silent
    BY <1>1, <1>2, <1>3 DEF Speaks
  <1>6. Core' /\ Fits(stack)'
    BY <1>2, <1>4, <1>5 DEF Core, Fits, NoTwins, Stored, Live
  <1>7. \A g : /\ Holds(g)' <=> Holds(g)
               /\ Tells(g)' <=> Tells(g)
    BY <1>4 DEF Holds, Tells, NoTwins, Live
  <1>8. ASSUME NEW g \in ToSet(below) PROVE Speaks(g)'
    <2>1. Speaks(g) /\ Apart(top, g)
      BY <1>2 DEF Frames
    <2> QED BY <1>3, <1>4, <1>5, <2>1 DEF Speaks, Apart, Stored
  <1>9. Frames(stack)'
    BY <1>2, <1>4, <1>7, <1>8 DEF Frames
  <1>10. Hears(stack)'
    <2>1. \A t, e : Happened(t, e)' => Happened(t, e) /\ ~(t = s /\ e = "emitted")
      <3>1. ASSUME NEW t, NEW e, Happened(t, e)' PROVE Happened(t, e) /\ ~(t = s /\ e = "emitted")
        <4>1. Happened(t, e)
          BY <1>4, <3>1 DEF Happened, Stored, Live
        <4>2. ASSUME t = s, e = "emitted" PROVE FALSE
          BY <1>4, <3>1, <4>2 DEF Happened, Stored, Live, TerminalStates
        <4> QED BY <4>1, <4>2
      <3> QED BY <3>1
    <2>2. \A t, e : Happened(t, e) /\ ~(t = s /\ e = "emitted") => Happened(t, e)'
      BY <1>4 DEF Happened, Stored, Live
    <2>3. ASSUME NEW c \in steady, NEW t \in Nat, NEW e \in Events
          PROVE  /\ <<t, e>> \in heard[c] => Happened(t, e)'
                 /\ Happened(t, e)' =>
                       <<t, e>> \in heard[c] \/ \E g \in ToSet(below) : Owes(g, c, t, e)
      <3>1. /\ <<t, e>> \in heard[c] => Happened(t, e)
            /\ Happened(t, e) =>
                  <<t, e>> \in heard[c] \/ \E g \in ToSet(stack) : Owes(g, c, t, e)
        BY DEF SignalInv, But, Hears
      <3>2. ASSUME <<t, e>> \in heard[c] PROVE ~(t = s /\ e = "emitted")
        BY <1>2, <1>3, <1>5, <3>2 DEF Tells
      <3>3. Owes(top, c, t, e) => t = s /\ e = "emitted"
        BY <1>3, <1>5 DEF Owes
      <3> QED BY <1>2, <2>1, <2>2, <3>1, <3>2, <3>3
    <2> QED BY <1>4, <2>3 DEF Hears
  <1>11. Keeps /\ Stored' = Stored
    BY <1>4 DEF Keeps, Stored
  <1>12. Sees(stack)'
    <2>1. \A t \in Stored, g \in ToSet(stack) : SeesTo(g, t) =>
             /\ g \in ToSet(stack')
             /\ g.doing = "expiring" /\ t \in g.rest /\ signal[t].expires <= g.at
      BY <1>2, <1>4, <1>5 DEF SeesTo
    <2> QED BY <1>4, <1>11, <2>1, StillSeen DEF SignalInv
  <1> QED BY <1>6, <1>9, <1>10, <1>11, <1>12 DEF SignalInv, But

LEMMA RegistersWell ==
    ASSUME SignalInv, NEW c \in Subscribers, OnSignal(c)
    PROVE  SignalInv' /\ Keeps
  <1>1. /\ callbacks' = Append(callbacks, c) /\ c \notin ToSet(callbacks)
        /\ UNCHANGED <<signal, listed, step, stack, heard, steady, silent>>
    BY DEF OnSignal
  <1>2. callbacks \in Seq(Subscribers) /\ IsInjective(callbacks) /\ steady \subseteq ToSet(callbacks)
    BY DEF SignalInv, But, Core
  <1>3. /\ callbacks' \in Seq(Subscribers) /\ IsInjective(callbacks')
        /\ ToSet(callbacks') = ToSet(callbacks) \cup {c}
    BY <1>1, <1>2, AppendProperties, AppendInjectively, ToSetOfAppend
  <1>4. Core'
    BY <1>1, <1>2, <1>3 DEF SignalInv, But, Core, NoTwins, Stored, Live
  <1>5. \A f : Speaks(f)' <=> Speaks(f)
    BY <1>1 DEF Speaks, Stored
  <1>6. \A f : (Tells(f)' <=> Tells(f)) /\ (Holds(f)' <=> Holds(f))
    BY <1>1 DEF Tells, Holds, NoTwins, Live
  <1>7. \A s, e : Happened(s, e)' <=> Happened(s, e)
    BY <1>1 DEF Happened, Stored, Live
  <1>8. Keeps /\ Stored' = Stored
    BY <1>1 DEF Keeps, Stored
  <1>9. Fits(stack)'
    BY <1>1 DEF SignalInv, But, Fits
  <1>10. Frames(stack)'
    BY <1>1, <1>5, <1>6 DEF SignalInv, But, Frames
  <1>11. Hears(stack)'
    BY <1>1, <1>7 DEF SignalInv, But, Hears
  <1>12. Sees(stack)'
    BY <1>1, <1>8, StillSeen DEF SignalInv, SeesTo
  <1> QED BY <1>4, <1>8, <1>9, <1>10, <1>11, <1>12 DEF SignalInv, But

\* A subscriber leaves, and nobody counts it among those told any more.
LEMMA LeavesWell ==
    ASSUME SignalInv, NEW c \in Subscribers, OffSignal(c)
    PROVE  SignalInv' /\ Keeps
  <1>1. /\ stack' = [d \in DOMAIN stack |-> [stack[d] EXCEPT !.told = @ \ {c}]]
        /\ steady' = steady \ {c} /\ heard' = [heard EXCEPT ![c] = {}]
        /\ UNCHANGED <<signal, listed, step, silent>>
    BY DEF OffSignal
  <1>2. /\ callbacks \in Seq(Subscribers) /\ IsInjective(callbacks)
        /\ steady \subseteq ToSet(callbacks)
        /\ heard \in [Subscribers -> SUBSET (Nat \X Events)]
        /\ Core /\ Fits(stack) /\ Frames(stack) /\ Hears(stack) /\ Sees(stack)
    BY DEF SignalInv, But, Core
  <1>3. /\ callbacks' \in Seq(Subscribers) /\ IsInjective(callbacks')
        /\ ToSet(callbacks') = ToSet(callbacks) \ {c}
    <2>1. PICK i \in 1..Len(callbacks) : callbacks[i] = c /\ callbacks' = RemoveAt(callbacks, i)
      BY <1>2, LenProperties DEF OffSignal
    <2> QED BY <1>2, <2>1, RemoveAtProperties, RemoveAtInjective
  <1>4. /\ heard' \in [Subscribers -> SUBSET (Nat \X Events)]
        /\ \A b \in steady' : b \in steady /\ b # c /\ heard'[b] = heard[b]
        /\ steady' \subseteq Subscribers
    BY <1>1, <1>2, ToSetProperties
  <1>5. PICK n \in Nat : /\ n = Len(stack) /\ DOMAIN stack = 1..n
                         /\ \A d \in 1..n : stack[d] \in FrameSet
    BY <1>2, LenProperties, ElementOfSeq DEF Fits
  <1>6. ASSUME NEW d \in 1..n
        PROVE  /\ stack'[d] \in FrameSet
               /\ stack'[d].doing = stack[d].doing /\ stack'[d].about = stack[d].about
               /\ stack'[d].input = stack[d].input /\ stack'[d].rest = stack[d].rest
               /\ stack'[d].at = stack[d].at /\ stack'[d].inside = stack[d].inside
               /\ stack'[d].told = stack[d].told \ {c}
    <2>1. PICK f \in FrameSet : f = stack[d]
      BY <1>5
    <2>2. stack'[d] = [f EXCEPT !.told = @ \ {c}]
      BY <1>1, <1>5, <2>1
    <2>3. stack'[d] = [doing |-> f.doing, about |-> f.about, input |-> f.input, rest |-> f.rest,
                       at |-> f.at, told |-> f.told \ {c}, inside |-> f.inside]
      BY <2>2 DEF FrameSet
    <2>4. stack'[d] \in FrameSet
      BY <2>3 DEF FrameSet
    <2> QED BY <2>1, <2>3, <2>4
  <1>7. stack' \in Seq(FrameSet) /\ DOMAIN stack' = 1..n /\ Len(stack') = n
    <2>1. stack' \in [1..n -> FrameSet]
      BY <1>1, <1>5, <1>6
    <2>2. stack' \in Seq(FrameSet)
      BY <2>1, SeqDef
    <2> QED BY <2>1, <2>2, LenProperties
  <1>8. /\ ToSet(stack) = {stack[d] : d \in 1..n}
        /\ ToSet(stack') = {stack'[d] : d \in 1..n}
    BY <1>5, <1>7 DEF ToSet
  <1>9. Core'
    <2>1. steady' \subseteq ToSet(callbacks')
      BY <1>1, <1>2, <1>3
    <2>2. NoTwins(listed)'
      BY <1>1, <1>2 DEF Core, NoTwins, Live
    <2> QED BY <1>1, <1>2, <1>3, <1>4, <2>1, <2>2 DEF Core, Stored
  <1>10. Fits(stack)'
    <2>1. Ordered(stack')
      BY <1>2, <1>5, <1>6, <1>7 DEF Fits, Ordered, Apart
    <2>2. ReplacingIn(stack') = ReplacingIn(stack)
      BY <1>5, <1>6, <1>7 DEF ReplacingIn
    <2> QED BY <1>1, <1>2, <1>5, <1>7, <2>1, <2>2 DEF Fits
  <1>11. Frames(stack)'
    <2>1. ASSUME NEW d \in 1..n PROVE \E g : g = stack'[d] /\ Speaks(g)' /\ Tells(g)' /\ Holds(g)'
      <3>1. PICK f, g : f = stack[d] /\ g = stack'[d]
        OBVIOUS
      <3>2. Speaks(f) /\ Tells(f) /\ Holds(f)
        BY <1>2, <1>8, <3>1 DEF Frames
      <3>3. /\ g.doing = f.doing /\ g.about = f.about /\ g.input = f.input /\ g.rest = f.rest
            /\ g.at = f.at /\ g.inside = f.inside /\ g.told = f.told \ {c}
        BY <1>6, <3>1
      <3>4. Speaks(g)'
        BY <1>1, <3>2, <3>3 DEF Speaks, Stored
      <3>5. Tells(g)'
        BY <1>4, <3>2, <3>3 DEF Tells
      <3>6. Holds(g)'
        BY <1>1, <3>2, <3>3 DEF Holds, NoTwins, Live
      <3> QED BY <3>1, <3>4, <3>5, <3>6
    <2> QED BY <1>8, <2>1 DEF Frames
  <1>12. Hears(stack)'
    <2>1. \A s, e : Happened(s, e)' <=> Happened(s, e)
      BY <1>1 DEF Happened, Stored, Live
    <2>2. ASSUME NEW b \in steady', NEW s \in Nat, NEW e \in Events
          PROVE  /\ <<s, e>> \in heard'[b] => Happened(s, e)
                 /\ Happened(s, e) =>
                       <<s, e>> \in heard'[b] \/ \E g \in ToSet(stack') : Owes(g, b, s, e)
      <3>1. /\ <<s, e>> \in heard[b] => Happened(s, e)
            /\ Happened(s, e) =>
                  <<s, e>> \in heard[b] \/ \E g \in ToSet(stack) : Owes(g, b, s, e)
        BY <1>2, <1>4 DEF Hears
      <3>2. \A d \in 1..n : Owes(stack[d], b, s, e) => Owes(stack'[d], b, s, e)
        BY <1>4, <1>6 DEF Owes
      <3> QED BY <1>4, <1>8, <3>1, <3>2
    <2> QED BY <2>1, <2>2 DEF Hears
  <1>13. Keeps /\ Stored' = Stored
    BY <1>1 DEF Keeps, Stored
  <1>14. Sees(stack)'
    <2>1. \A d \in 1..n, s \in Stored :
             SeesTo(stack[d], s) => /\ stack'[d].doing = "expiring" /\ s \in stack'[d].rest
                                    /\ signal[s].expires <= stack'[d].at
      BY <1>6 DEF SeesTo
    <2>2. \A s \in Stored, g \in ToSet(stack) : SeesTo(g, s) =>
             \E h \in ToSet(stack') :
                 h.doing = "expiring" /\ s \in h.rest /\ signal[s].expires <= h.at
      BY <1>8, <2>1
    <2> QED BY <1>1, <1>2, <1>13, <2>2, StillSeen
  <1> QED BY <1>9, <1>10, <1>11, <1>12, <1>13, <1>14 DEF SignalInv, But

-----------------------------------------------------------------------------
(* The theorems about signals *)

LEMMA SignalsStart == SignalInit => SignalInv
  <1> SUFFICES ASSUME SignalInit PROVE SignalInv
    OBVIOUS
  <1>1. /\ signal = <<>> /\ listed = {} /\ step = 0 /\ stack = <<>> /\ silent = {}
        /\ heard = [c \in Subscribers |-> {}] /\ steady = ToSet(callbacks)
        /\ callbacks = <<>> \/ callbacks = SetToSeq(Subscribers)
    BY DEF SignalInit
  <1>2. IsFiniteSet(Subscribers) /\ MaxSignals \in Nat /\ MaxStep \in Nat /\ MaxDepth \in Nat
    BY SignalConstants
  <1>3. signal \in Seq(SignalSet) /\ Len(signal) = 0 /\ Stored = {}
    BY <1>1 DEF Stored
  <1>4. callbacks \in Seq(Subscribers) /\ IsInjective(callbacks)
    <2>1. CASE callbacks = <<>>
      BY <2>1 DEF IsInjective
    <2>2. CASE callbacks = SetToSeq(Subscribers)
      BY <1>2, <2>2, SetToSeqProperties
    <2> QED BY <1>1, <2>1, <2>2
  <1>5. ToSet(stack) = {} /\ stack \in Seq(FrameSet) /\ Len(stack) = 0 /\ DOMAIN stack = {}
    BY <1>1, ToSetOfEmpty
  <1>6. Fits(stack)
    <2>1. Cardinality(ReplacingIn(stack)) = 0
      <3>1. ReplacingIn(stack) = {}
        BY <1>5 DEF ReplacingIn
      <3> QED BY <3>1, FS_EmptySet
    <2>2. Ordered(stack)
      BY <1>5 DEF Ordered
    <2> QED BY <1>2, <1>3, <1>5, <2>1, <2>2 DEF Fits
  <1>7. Core
    <2>1. heard \in [Subscribers -> SUBSET (Nat \X Events)] /\ 0 \in 0..MaxStep
      BY <1>1, <1>2
    <2> QED BY <1>1, <1>3, <1>4, <2>1 DEF Core, NoTwins
  <1>8. Hears(stack)
    <2>1. \A s, e : ~Happened(s, e)
      BY <1>3 DEF Happened
    <2>2. \A c \in steady : heard[c] = {}
      BY <1>1, <1>4, ToSetProperties
    <2> QED BY <2>1, <2>2 DEF Hears
  <1> QED BY <1>3, <1>5, <1>6, <1>7, <1>8 DEF SignalInv, But, Frames, Sees

LEMMA SignalsStay == SignalInv /\ UNCHANGED signalVars => SignalInv'
  <1> SUFFICES ASSUME SignalInv, UNCHANGED signalVars PROVE SignalInv'
    OBVIOUS
  <1>1. UNCHANGED <<signal, listed, step, callbacks, stack, heard, steady, silent>>
    BY DEF signalVars
  <1>2. \A f : (Speaks(f)' <=> Speaks(f)) /\ (Tells(f)' <=> Tells(f)) /\ (Holds(f)' <=> Holds(f))
    BY <1>1 DEF Speaks, Tells, Holds, NoTwins, Stored, Live
  <1>3. \A s, e : Happened(s, e)' <=> Happened(s, e)
    BY <1>1 DEF Happened, Stored, Live
  <1>4. Keeps /\ Stored' = Stored
    BY <1>1 DEF Keeps, Stored
  <1>5. Core' /\ Fits(stack)'
    BY <1>1 DEF SignalInv, But, Core, Fits, NoTwins, Stored, Live
  <1>6. Frames(stack)'
    BY <1>1, <1>2 DEF SignalInv, But, Frames
  <1>7. Hears(stack)'
    BY <1>1, <1>3 DEF SignalInv, But, Hears
  <1>8. Sees(stack)'
    BY <1>1, <1>4, StillSeen DEF SignalInv, SeesTo
  <1> QED BY <1>5, <1>6, <1>7, <1>8 DEF SignalInv, But

LEMMA SignalsStep == SignalInv /\ SignalNext => SignalInv' /\ Keeps
  <1> SUFFICES ASSUME SignalInv, SignalNext PROVE SignalInv' /\ Keeps
    OBVIOUS
  <1>1. ASSUME NEW i \in Inputs, Emit(i) PROVE SignalInv' /\ Keeps
    BY <1>1, EmitsWell
  <1>2. ASSUME NEW i \in Inputs, NEW s \in Stored, EmitReplacing(i, s) PROVE SignalInv' /\ Keeps
    BY <1>2, ReplacesWell
  <1>3. ASSUME NEW s \in Stored, ResolveSignal(s) PROVE SignalInv' /\ Keeps
    BY <1>3, ResolvesWell
  <1>4. CASE AdvanceStep
    BY <1>4, AdvancesWell
  <1>5. ASSUME NEW c \in Subscribers, OnSignal(c) PROVE SignalInv' /\ Keeps
    BY <1>5, RegistersWell
  <1>6. ASSUME NEW c \in Subscribers, OffSignal(c) PROVE SignalInv' /\ Keeps
    BY <1>6, LeavesWell
  <1>7. CASE CallNext
    BY <1>7, CallsWell
  <1>8. CASE OutsideReturns
    BY <1>8, ReturnsWell
  <1>9. CASE ResolverThrows
    BY <1>9, ThrowsWell
  <1>10. CASE Proceed
    BY <1>10, ProceedsWell
  <1> QED BY <1>1, <1>2, <1>3, <1>4, <1>5, <1>6, <1>7, <1>8, <1>9, <1>10 DEF SignalNext

\* The signals, the calls under way and what was told always fit together.
THEOREM SignalsInvariant == SignalSpec => []SignalInv
  <1>1. SignalInv /\ [SignalNext]_signalVars => SignalInv'
    BY SignalsStep, SignalsStay
  <1> QED BY <1>1, SignalsStart, PTL DEF SignalSpec

\* Everyone who was registered all along has heard of each signal and of each end
\* of one, and of nothing else, however deep emit, resolve and advanceStep were
\* nested in one another's callbacks.
THEOREM EveryoneIsTold == SignalSpec => []EveryoneHears
  <1>1. SignalInv => EveryoneHears
    <2> SUFFICES ASSUME SignalInv PROVE EveryoneHears
      OBVIOUS
    <2>1. Core /\ Fits(stack) /\ Frames(stack) /\ Hears(stack)
      BY DEF SignalInv, But
    <2>2. SignalTypeOK
      <3>1. \A d \in DOMAIN stack :
                /\ stack[d] \in FrameSet /\ Speaks(stack[d])
        <4>1. stack \in Seq(FrameSet)
          BY <2>1 DEF Fits
        <4>2. \A d \in 1..Len(stack) : stack[d] \in FrameSet /\ stack[d] \in ToSet(stack)
          BY <4>1, ElementOfSeq, ToSetProperties
        <4> QED BY <2>1, <4>1, <4>2, LenProperties DEF Frames
      <3>2. ASSUME NEW d \in DOMAIN stack
            PROVE  /\ stack[d] \in [doing : Doings, about : Stored, input : Inputs \cup {NoInput},
                                    rest : SUBSET Stored, at : 0..MaxStep,
                                    told : SUBSET Subscribers,
                                    inside : Subscribers \cup {"layer", "hooks"}]
                   /\ stack[d].doing = "replacing" <=> stack[d].input # NoInput
        BY <3>1 DEF FrameSet, Speaks
      <3>3. Len(signal) <= MaxSignals
        <4>1. PICK R : R = ReplacingIn(stack)
          OBVIOUS
        <4>2. stack \in Seq(FrameSet)
          BY <2>1 DEF Fits
        <4>3. Cardinality(R) \in Nat
          <5>1. R \subseteq 1..Len(stack) /\ Len(stack) \in Nat
            BY <4>1, <4>2, LenProperties DEF ReplacingIn
          <5>2. IsFiniteSet(1..Len(stack))
            BY <5>1, FS_Interval
          <5> QED BY <5>1, <5>2, FS_Subset, FS_CardinalityType
        <4>4. Len(signal) \in Nat /\ MaxSignals \in Nat
          BY <2>1, SignalsAre, SignalFacts DEF Core
        <4> QED BY <2>1, <4>1, <4>3, <4>4 DEF Fits
      <3>4. IsInjective(callbacks) /\ ToSet(callbacks) \subseteq Subscribers
        BY <2>1, ToSetProperties DEF Core
      <3> QED BY <2>1, <3>2, <3>3, <3>4 DEF SignalTypeOK, Core, Fits, SignalSet, States
    <2>3. ASSUME stack = <<>>, NEW c \in steady
          PROVE  heard[c] = {<<s, "emitted">> : s \in Stored \ silent}
                            \cup {<<s, signal[s].state>> : s \in {t \in Stored : ~Live(t)}}
      <3>1. \A f : f \notin ToSet(stack)
        BY <2>3, ToSetOfEmpty
      <3>2. \A s \in Nat, e \in Events : <<s, e>> \in heard[c] <=> Happened(s, e)
        BY <2>1, <3>1 DEF Hears
      <3>3. heard[c] \subseteq Nat \X Events
        BY <2>1, ToSetProperties DEF Core
      <3>4. Stored \subseteq Nat /\ \A s \in Stored : ~Live(s) => signal[s].state \in Events
        BY <2>1, SignalsAre DEF Core, Live, Events
      <3>5. ASSUME NEW s \in Nat, NEW e \in Events
            PROVE  Happened(s, e) <=>
                     <<s, e>> \in {<<t, "emitted">> : t \in Stored \ silent}
                                  \cup {<<t, signal[t].state>> : t \in {t \in Stored : ~Live(t)}}
        BY DEF Happened
      <3>6. {<<s, "emitted">> : s \in Stored \ silent}
              \cup {<<s, signal[s].state>> : s \in {t \in Stored : ~Live(t)}} \subseteq Nat \X Events
        BY <3>4 DEF Events
      <3> QED BY <3>2, <3>3, <3>5, <3>6
    <2> QED BY <2>2, <2>3 DEF EveryoneHears
  <1> QED BY <1>1, SignalsInvariant, PTL

\* No signal of the list outlives its step, even if steps are advanced inside the
\* callbacks of other advances and emits.
THEOREM SignalsExpire == SignalSpec => []ExpiresOnTime
  <1>1. SignalInv => ExpiresOnTime
    <2> SUFFICES ASSUME SignalInv, stack = <<>>, NEW s \in listed, Live(s), signal[s].stored < step
                 PROVE  signal[s].expires > step
      BY DEF ExpiresOnTime
    <2>1. s \in Stored /\ signal \in Seq(SignalSet) /\ step \in 0..MaxStep
      BY DEF SignalInv, But, Core
    <2>2. ~Due(s)
      BY <2>1, ToSetOfEmpty DEF SignalInv, Sees
    <2>3. signal[s].expires \in 1..Never /\ Never \in Nat /\ MaxStep \in Nat
      BY <2>1, SignalsAre, SignalFacts DEF SignalSet
    <2> QED BY <2>1, <2>2, <2>3 DEF Due
  <1> QED BY <1>1, SignalsInvariant, PTL

\* Two live signals of the list with one key and one step are there because the
\* later one insisted, though the list is written after the callbacks of emit.
THEOREM DuplicatesAreSuppressed == SignalSpec => []NoLiveDuplicates
  <1>1. SignalInv => NoLiveDuplicates
    BY DEF SignalInv, But, Core, NoTwins, NoLiveDuplicates
  <1> QED BY <1>1, SignalsInvariant, PTL

\* What was superseded, resolved or expired stays so, whatever the callbacks call.
THEOREM EndsAreFinal == SignalSpec => EndedStaysEnded
  <1>1. SignalInv /\ [SignalNext]_signalVars =>
            [\A s \in Stored : ~Live(s) => signal'[s].state = signal[s].state]_signalVars
    BY SignalsStep DEF Keeps
  <1> QED BY <1>1, SignalsInvariant, PTL DEF SignalSpec, EndedStaysEnded
===============================================================================
