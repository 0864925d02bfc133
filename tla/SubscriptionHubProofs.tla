------------------------ MODULE SubscriptionHubProofs ------------------------
(***************************************************************************)
(* Proofs about the hub, for any subscribers, keys, limits and schedulers. *)
(*                                                                         *)
(* All of it is about Stream(s), what a subscription was or will be        *)
(* handed.  A step leaves a stream as it is (receiving moves an event from *)
(* one part to the next), starts it with a replay, appends the event a     *)
(* fiber carries, puts that event in the place of a queued one, or loses   *)
(* the queue.  NoEventTwice then needs that a carried event is not in the  *)
(* stream yet (Apart) and is carried by one fiber (Alone).                 *)
(*                                                                         *)
(* Without preemption what a fiber carries is newer than the whole stream  *)
(* (NoGap), so that appending keeps the order; replacing keeps it because  *)
(* epochs grow along the queue (Epochs): behind a queued entry of the      *)
(* current epoch there is nothing protected, and nothing of its identity.  *)
(*                                                                         *)
(* That nothing is lost (Arrived) needs that the replay is complete but    *)
(* for Skipped: the ring has no holes (Reaches), and one read of the store *)
(* reaches the captured cursor or the events that are left out.            *)
(***************************************************************************)
EXTENDS SubscriptionHub, NaturalsInduction, WellFoundedInduction, SequenceTheorems, TLAPS

\* Every set of numbers that is not empty has a least element.
LEMMA Least ==
  ASSUME NEW S \in SUBSET Nat, S # {}
  PROVE  \E m \in S : \A k \in S : m <= k
<1> DEFINE R == OpToRel(<, Nat)
<1>1. IsWellFoundedOn(R, Nat)
  BY NatLessThanWellFounded
<1>2. \A x, y \in Nat : <<y, x>> \in R <=> y < x
  BY DEF OpToRel
<1> HIDE DEF R
<1>3. \E x \in S : \A y \in S : ~ (<<y, x>> \in R)
  BY <1>1, WFMin
<1>4. PICK x \in S : \A y \in S : ~ (<<y, x>> \in R)
  BY <1>3
<1>5. ASSUME NEW k \in S PROVE x <= k
  <2>1. k \in Nat /\ x \in Nat /\ ~ (<<k, x>> \in R)
    BY <1>4
  <2> QED BY <2>1, <1>2
<1> QED BY <1>5

\* g holds the steps of Kept, as far as m.
Steps(g, seq, keep, m) ==
  /\ DOMAIN g = 0 .. m
  /\ g[0] = <<>>
  /\ \A i \in 1 .. m : g[i] = IF seq[i] \in keep THEN Append(g[i - 1], seq[i]) ELSE g[i - 1]

\* There are such steps: a least m without them would have them from m - 1.
LEMMA StepsExist ==
  ASSUME NEW seq, NEW keep, NEW m \in Nat
  PROVE  \E g : Steps(g, seq, keep, m)
<1> DEFINE S == {n \in Nat : ~ \E g : Steps(g, seq, keep, n)}
<1> SUFFICES ASSUME S # {} PROVE FALSE
  OBVIOUS
<1>1. PICK n \in S : \A k \in S : n <= k
  BY Least
<1>2. CASE n = 0
  <2> DEFINE g == [i \in 0 .. 0 |-> <<>>]
  <2>1. Steps(g, seq, keep, 0)
    BY DEF Steps
  <2> QED BY <2>1, <1>2
<1>3. CASE n # 0
  <2>1. n \in Nat /\ n - 1 \in Nat /\ n - 1 \notin S
    BY <1>1, <1>3
  <2>2. PICK h : Steps(h, seq, keep, n - 1)
    BY <2>1
  <2> DEFINE g == [i \in 0 .. n |-> IF i < n THEN h[i]
                     ELSE IF seq[n] \in keep THEN Append(h[n - 1], seq[n]) ELSE h[n - 1]]
  <2>3. DOMAIN g = 0 .. n /\ g[0] = <<>>
    BY <2>1, <2>2, <1>3 DEF Steps
  <2>4. ASSUME NEW i \in 1 .. n
        PROVE  g[i] = IF seq[i] \in keep THEN Append(g[i - 1], seq[i]) ELSE g[i - 1]
    <3>1. CASE i = n
      BY <3>1, <2>1
    <3>2. CASE i # n
      <4>1. i \in 1 .. n - 1 /\ i \in 0 .. n /\ i - 1 \in 0 .. n /\ i < n /\ i - 1 < n
        BY <3>2, <2>1
      <4>2. h[i] = IF seq[i] \in keep THEN Append(h[i - 1], seq[i]) ELSE h[i - 1]
        BY <4>1, <2>2 DEF Steps
      <4> QED BY <4>1, <4>2
    <3> QED BY <3>1, <3>2
  <2> HIDE DEF g
  <2>5. Steps(g, seq, keep, n)
    BY <2>3, <2>4 DEF Steps
  <2> QED BY <2>5
<1> QED BY <1>2, <1>3

\* Kept is the last of its steps.
LEMMA KeptSteps ==
  ASSUME NEW seq, NEW keep, Len(seq) \in Nat
  PROVE  \E g : Steps(g, seq, keep, Len(seq)) /\ Kept(seq, keep) = g[Len(seq)]
<1> DEFINE body(f, i) == IF i = 0 THEN <<>>
             ELSE IF seq[i] \in keep THEN Append(f[i - 1], seq[i]) ELSE f[i - 1]
<1> DEFINE k == CHOOSE f : f = [i \in 0 .. Len(seq) |-> body(f, i)]
<1>1. PICK g : Steps(g, seq, keep, Len(seq))
  BY StepsExist
<1>2. \E f : f = [i \in 0 .. Len(seq) |-> body(f, i)]
  <2> DEFINE h == [i \in 0 .. Len(seq) |-> g[i]]
  <2>1. ASSUME NEW i \in 0 .. Len(seq) PROVE h[i] = body(h, i)
    <3>1. CASE i = 0
      BY <1>1, <3>1 DEF Steps
    <3>2. CASE i # 0
      <4>1. i \in 1 .. Len(seq) /\ i - 1 \in 0 .. Len(seq)
        BY <3>2
      <4>2. g[i] = IF seq[i] \in keep THEN Append(g[i - 1], seq[i]) ELSE g[i - 1]
        BY <4>1, <1>1 DEF Steps
      <4> QED BY <4>1, <4>2, <3>2
    <3> QED BY <3>1, <3>2
  <2>2. h = [i \in 0 .. Len(seq) |-> body(h, i)]
    BY <2>1
  <2> QED BY <2>2
<1>3. k = [i \in 0 .. Len(seq) |-> body(k, i)]
  BY <1>2
<1>4. Kept(seq, keep) = k[Len(seq)]
  BY DEF Kept
<1> HIDE DEF k
<1>5. Steps(k, seq, keep, Len(seq))
  <2>1. \A i \in 0 .. Len(seq) : k[i] = body(k, i)
    BY <1>3
  <2>2. DOMAIN k = 0 .. Len(seq)
    BY <1>3
  <2>3. k[0] = <<>>
    BY <2>1
  <2>4. ASSUME NEW i \in 1 .. Len(seq)
        PROVE  k[i] = IF seq[i] \in keep THEN Append(k[i - 1], seq[i]) ELSE k[i - 1]
    <3>1. i \in 0 .. Len(seq) /\ i # 0
      OBVIOUS
    <3> QED BY <2>1, <3>1
  <2> QED BY <2>2, <2>3, <2>4 DEF Steps
<1> QED BY <1>4, <1>5

Increasing(seq) == \A i, j \in 1 .. Len(seq) : i < j => seq[i] < seq[j]
Members(seq) == {seq[i] : i \in 1 .. Len(seq)}

LEMMA AppendFacts ==
  ASSUME NEW seq \in Seq(Nat), NEW e \in Nat
  PROVE  /\ Append(seq, e) \in Seq(Nat)
         /\ Members(Append(seq, e)) = Members(seq) \cup {e}
         /\ Increasing(seq) /\ (\A d \in Members(seq) : d < e) => Increasing(Append(seq, e))
<1>1. /\ Append(seq, e) \in Seq(Nat) /\ Len(Append(seq, e)) = Len(seq) + 1
      /\ Len(seq) \in Nat
      /\ \A i \in 1 .. Len(seq) : Append(seq, e)[i] = seq[i]
      /\ Append(seq, e)[Len(seq) + 1] = e
  OBVIOUS
<1>2. Members(Append(seq, e)) = Members(seq) \cup {e}
  BY <1>1 DEF Members
<1>3. ASSUME Increasing(seq), \A d \in Members(seq) : d < e
      PROVE  Increasing(Append(seq, e))
  BY <1>1, <1>3 DEF Increasing, Members
<1> QED BY <1>1, <1>2, <1>3

\* Kept returns the elements in keep, in order.
LEMMA KeptFacts ==
  ASSUME NEW seq \in Seq(Nat), Increasing(seq), NEW keep
  PROVE  /\ Kept(seq, keep) \in Seq(Nat)
         /\ Increasing(Kept(seq, keep))
         /\ Members(Kept(seq, keep)) = Members(seq) \cap keep
<1>1. PICK g : Steps(g, seq, keep, Len(seq)) /\ Kept(seq, keep) = g[Len(seq)]
  BY KeptSteps
<1> DEFINE Good(i) == /\ g[i] \in Seq(Nat) /\ Increasing(g[i])
                      /\ Members(g[i]) = {seq[k] : k \in 1 .. i} \cap keep
           S == {i \in 0 .. Len(seq) : ~ Good(i)}
<1>0. \A i \in 0 .. Len(seq) : i \notin S => Good(i)
  <2> HIDE DEF Good
  <2> QED OBVIOUS
<1>2. CASE S = {}
  <2>1. Good(Len(seq))
    <3> HIDE DEF Good, S
    <3> QED BY <1>0, <1>2
  <2> QED BY <2>1, <1>1 DEF Members
<1>3. CASE S # {}
  <2>1. PICK n \in S : \A k \in S : n <= k
    <3>1. S \in SUBSET Nat
      OBVIOUS
    <3> HIDE DEF S
    <3> QED BY <3>1, <1>3, Least
  <2>2. g[0] = <<>>
    BY <1>1 DEF Steps
  <2>3. Good(0)
    BY <2>2 DEF Increasing, Members
  <2>4. n # 0 /\ n \in 1 .. Len(seq) /\ n - 1 \in 0 .. Len(seq)
    BY <2>1, <2>3
  <2>5. Good(n - 1)
    <3> HIDE DEF Good
    <3>1. n - 1 \notin S
      BY <2>1, <2>4
    <3> QED BY <1>0, <2>4, <3>1
  <2>6. g[n] = IF seq[n] \in keep THEN Append(g[n - 1], seq[n]) ELSE g[n - 1]
    BY <1>1, <2>4 DEF Steps
  <2>7. {seq[k] : k \in 1 .. n} = {seq[k] : k \in 1 .. n - 1} \cup {seq[n]}
    BY <2>4
  <2>8. seq[n] \in Nat /\ \A d \in Members(g[n - 1]) : d < seq[n]
    <3>1. \A k \in 1 .. n - 1 : seq[k] < seq[n]
      BY <2>4 DEF Increasing
    <3> QED BY <2>4, <2>5, <3>1
  <2>9. Good(n)
    <3>1. CASE seq[n] \in keep
      <4>1. Members(g[n]) = Members(g[n - 1]) \cup {seq[n]}
        BY <2>5, <2>6, <2>8, <3>1, AppendFacts
      <4>2. g[n] \in Seq(Nat) /\ Increasing(g[n])
        BY <2>5, <2>6, <2>8, <3>1, AppendFacts
      <4> QED BY <2>5, <2>7, <3>1, <4>1, <4>2
    <3>2. CASE seq[n] \notin keep
      BY <2>5, <2>6, <2>7, <3>2
    <3> QED BY <3>1, <3>2
  <2> QED BY <2>1, <2>9
<1> QED BY <1>2, <1>3
-----------------------------------------------------------------------------
(* Types and ranges.                                                       *)

KeyFits(x) ==
  IF log[x.at] = Protected THEN x.key = Unkeyed
  ELSE log[x.at] \in Keys /\ \E n \in Nat : x.key = <<n, log[x.at]>>

Bounded == Len(log) <= MaxLog /\ heard <= tail

Claimed == \A f \in Fibers : \A i \in 1 .. Len(todo[f]) : todo[f][i] \in 1 .. tail

CarriedShown ==
  \A f \in Fibers : targets[f] # {} => carried[f] \in shown /\ log[carried[f]] # Elsewhere

RingShown == Members(ring) \subseteq shown /\ Increasing(ring)

NewIsEmpty ==
  \A s \in Subscribers : status[s] = "new" =>
    /\ received[s] = <<>> /\ replay[s] = <<>> /\ queue[s] = <<>>
    /\ \A f \in Fibers : s \notin targets[f]

HandedPassed ==
  \A s \in Subscribers :
    /\ \A i \in 1 .. Len(received[s]) : received[s][i] \in 1 .. cursor
    /\ \A i \in 1 .. Len(replay[s]) : replay[s][i] \in 1 .. cursor

QueuedShown ==
  \A s \in Subscribers : \A i \in 1 .. Len(queue[s]) :
    queue[s][i].at \in shown /\ KeyFits(queue[s][i])

TInv ==
  /\ TypeOK
  /\ Bounded
  /\ Claimed
  /\ CarriedShown
  /\ RingShown
  /\ NewIsEmpty
  /\ HandedPassed
  /\ QueuedShown

LEMMA InitTInv == ASSUME Init PROVE TInv
<1> USE DEF Init
<1>1. TypeOK
  BY HubAssumption DEF TypeOK
<1>2. Bounded /\ Claimed /\ CarriedShown /\ RingShown
  BY HubAssumption DEF Bounded, Claimed, CarriedShown, RingShown, Members, Increasing
<1>3. NewIsEmpty /\ HandedPassed /\ QueuedShown
  BY DEF NewIsEmpty, HandedPassed, QueuedShown
<1> QED BY <1>1, <1>2, <1>3 DEF TInv

\* A step is one action or a stutter.
LEMMA StepCases ==
  ASSUME [Next]_vars
  PROVE  \/ \E kind \in Kinds : Store(kind)
         \/ Announce
         \/ PollRead
         \/ PollClaim
         \/ ListenClaim
         \/ \E f \in Fibers : PublishNext(f)
         \/ \E f \in Fibers, s \in Subscribers : Deliver(f, s)
         \/ \E s \in Subscribers, n \in 0 .. MaxLog : Subscribe(s, n)
         \/ \E s \in Subscribers : Receive(s)
         \/ \E s \in Subscribers, how \in {"failed", "closed"} : End(s, how)
         \/ UNCHANGED vars
BY DEF Next, Engine, Fiber, Poll, Listen, Client, Fibers, Fail, Unsubscribe

LEMMA StoreT == ASSUME TInv, NEW kind \in Kinds, Store(kind) PROVE TInv'
<1> USE DEF TInv, Store, producers, hub, subscription
<1>1. /\ log' \in Seq(Kinds) /\ Len(log') = Len(log) + 1
      /\ \A e \in 1 .. Len(log) : log'[e] = log[e]
  BY DEF TypeOK
<1>2. shown \subseteq 1 .. Len(log)
  BY DEF TypeOK
<1>3. TypeOK'
  BY <1>1 DEF TypeOK
<1>4. Bounded' /\ Claimed' /\ RingShown' /\ NewIsEmpty' /\ HandedPassed'
  <2>1. Bounded'
    BY <1>1, HubAssumption DEF Bounded, TypeOK
  <2> QED BY <2>1 DEF Claimed, RingShown, NewIsEmpty, HandedPassed
<1>5. CarriedShown'
  BY <1>1, <1>2 DEF CarriedShown
<1>6. QueuedShown'
  <2> SUFFICES ASSUME NEW s \in Subscribers, NEW i \in 1 .. Len(queue[s])
               PROVE  queue[s][i].at \in shown /\ KeyFits(queue[s][i])'
    BY DEF QueuedShown
  <2>1. queue[s][i].at \in shown /\ KeyFits(queue[s][i])
    BY DEF QueuedShown
  <2>2. log'[queue[s][i].at] = log[queue[s][i].at]
    BY <1>1, <1>2, <2>1
  <2> QED BY <2>1, <2>2 DEF KeyFits
<1> QED BY <1>3, <1>4, <1>5, <1>6

LEMMA AnnounceT == ASSUME TInv, Announce PROVE TInv'
<1> USE DEF TInv, Announce, producers, hub, subscription
<1>1. TypeOK'
  BY DEF TypeOK
<1>2. Bounded' /\ Claimed' /\ RingShown' /\ NewIsEmpty' /\ HandedPassed' /\ CarriedShown'
  BY DEF Bounded, Claimed, RingShown, NewIsEmpty, HandedPassed, CarriedShown
<1>3. QueuedShown'
  BY DEF QueuedShown, KeyFits
<1> QED BY <1>1, <1>2, <1>3

LEMMA PollReadT == ASSUME TInv, PollRead PROVE TInv'
<1> USE DEF TInv, PollRead, store, hub, subscription
<1>1. TypeOK'
  BY HubAssumption DEF TypeOK
<1>2. Bounded' /\ Claimed' /\ RingShown' /\ NewIsEmpty' /\ HandedPassed' /\ CarriedShown'
  BY DEF Bounded, Claimed, RingShown, NewIsEmpty, HandedPassed, CarriedShown
<1>3. QueuedShown'
  BY DEF QueuedShown, KeyFits
<1> QED BY <1>1, <1>2, <1>3

\* Interval counts upwards.
LEMMA IntervalFacts ==
  ASSUME NEW a \in Nat, NEW b \in Nat
  PROVE  /\ Interval(a, b) \in Seq(Nat)
         /\ Len(Interval(a, b)) = IF a < b THEN b - a ELSE 0
         /\ \A i \in 1 .. Len(Interval(a, b)) : Interval(a, b)[i] = a + i
         /\ Increasing(Interval(a, b))
         /\ Members(Interval(a, b)) = a + 1 .. b
<1>1. CASE a < b
  <2>1. b - a \in Nat /\ Interval(a, b) \in [1 .. b - a -> Nat]
    BY <1>1 DEF Interval
  <2>2. Interval(a, b) \in Seq(Nat) /\ Len(Interval(a, b)) = b - a
    BY <2>1
  <2>3. \A i \in 1 .. b - a : Interval(a, b)[i] = a + i
    BY DEF Interval
  <2>4. Members(Interval(a, b)) = a + 1 .. b
    <3>1. \A e \in a + 1 .. b : e - a \in 1 .. b - a /\ a + (e - a) = e
      OBVIOUS
    <3> QED BY <2>1, <2>2, <2>3, <3>1 DEF Members
  <2> QED BY <1>1, <2>1, <2>2, <2>3, <2>4 DEF Increasing
<1>2. CASE ~ (a < b)
  <2>1. 1 .. b - a = {} /\ a + 1 .. b = {}
    BY <1>2
  <2>2. Interval(a, b) = <<>>
    BY <2>1 DEF Interval
  <2> QED BY <1>2, <2>1, <2>2 DEF Increasing, Members
<1> QED BY <1>1, <1>2

LEMMA PollClaimT == ASSUME TInv, PollClaim PROVE TInv'
<1> USE DEF TInv, PollClaim, store, hub, subscription
<1>0. tail \in Nat /\ polled \in Nat /\ "poll" \in Fibers
  BY DEF TypeOK, Fibers
<1>1. /\ Fresh \in Seq(Nat)
      /\ \A i \in 1 .. Len(Fresh) : Fresh[i] \in 1 .. polled
  <2>1. /\ Fresh \in Seq(Nat) /\ Len(Fresh) = IF tail < polled THEN polled - tail ELSE 0
        /\ \A i \in 1 .. Len(Fresh) : Fresh[i] = tail + i
    <3> HIDE DEF TInv, PollClaim
    <3> QED BY <1>0, IntervalFacts DEF Fresh
  <2> HIDE DEF TInv, PollClaim
  <2> QED BY <1>0, <2>1
<1>2. todo'["poll"] = Fresh /\ \A f \in Fibers : f # "poll" => todo'[f] = todo[f]
  BY <1>0 DEF TypeOK
<1>3. tail' \in Nat /\ tail' >= tail /\ tail' >= polled
  BY <1>0
<1>4. TypeOK'
  <2>1. todo' \in [Fibers -> Seq(Nat)]
    BY <1>1 DEF TypeOK
  <2>2. tail' \in 0 .. Len(log') /\ cursor' \in 0 .. tail' /\ polled' \in 0 .. Len(log')
    BY <1>0, <1>3 DEF TypeOK
  <2> QED BY <2>1, <2>2 DEF TypeOK
<1>5. Claimed'
  BY <1>0, <1>1, <1>2, <1>3 DEF Claimed
<1>6. Bounded' /\ RingShown' /\ NewIsEmpty' /\ HandedPassed' /\ CarriedShown'
  <2>1. heard \in Nat /\ Len(log) \in Nat
    BY DEF TypeOK
  <2> QED BY <1>0, <1>3, <2>1 DEF Bounded, RingShown, NewIsEmpty, HandedPassed, CarriedShown
<1>7. QueuedShown'
  BY DEF QueuedShown, KeyFits
<1> QED BY <1>4, <1>5, <1>6, <1>7

LEMMA ListenClaimT == ASSUME TInv, ListenClaim PROVE TInv'
<1> USE DEF TInv, ListenClaim, store, hub, subscription
<1>0. /\ tail \in Nat /\ heard \in Nat /\ announced \in Nat /\ cursor \in Nat
      /\ Len(log) \in Nat /\ "listen" \in Fibers
  BY DEF TypeOK, Fibers
<1>1. tail' \in Nat /\ tail' >= tail /\ heard' <= tail' /\ heard' <= announced
      /\ tail' <= Len(log)
  BY <1>0 DEF TypeOK
<1>2. TypeOK'
  <2>1. todo' \in [Fibers -> Seq(Nat)]
    <3>1. <<heard'>> \in Seq(Nat)
      BY <1>0
    <3> QED BY <3>1 DEF TypeOK
  <2>2. tail' \in 0 .. Len(log') /\ cursor' \in 0 .. tail' /\ heard' \in 0 .. announced'
    BY <1>0, <1>1 DEF TypeOK
  <2> QED BY <2>1, <2>2 DEF TypeOK
<1>3. Claimed'
  <2>1. CASE heard' <= tail
    BY <2>1 DEF Claimed
  <2>2. CASE ~ (heard' <= tail)
    <3>1. todo'["listen"] = <<heard'>> /\ \A f \in Fibers : f # "listen" => todo'[f] = todo[f]
      BY <1>0, <2>2 DEF TypeOK
    <3>2. tail' = heard' /\ heard' \in 1 .. tail'
      BY <1>0, <2>2
    <3> QED BY <1>0, <1>1, <3>1, <3>2 DEF Claimed
  <2> QED BY <2>1, <2>2
<1>4. Bounded' /\ RingShown' /\ NewIsEmpty' /\ HandedPassed' /\ CarriedShown'
  BY <1>0, <1>1 DEF Bounded, RingShown, NewIsEmpty, HandedPassed, CarriedShown
<1>5. QueuedShown'
  BY DEF QueuedShown, KeyFits
<1> QED BY <1>2, <1>3, <1>4, <1>5

LEMMA TailFacts ==
  ASSUME NEW S, NEW seq \in Seq(S), seq # <<>>
  PROVE  /\ Head(seq) = seq[1] /\ seq[1] \in S /\ 1 \in 1 .. Len(seq)
         /\ Tail(seq) \in Seq(S) /\ Len(Tail(seq)) = Len(seq) - 1 /\ Len(seq) \in Nat \ {0}
         /\ \A i \in 1 .. Len(seq) - 1 : Tail(seq)[i] = seq[i + 1] /\ i + 1 \in 1 .. Len(seq)
OBVIOUS

\* The ring gains the new event and may lose its oldest.
LEMMA PushRingFacts ==
  ASSUME ring \in Seq(Nat), Len(ring) <= RingMax, Increasing(ring),
         NEW e \in Nat, \A d \in Members(ring) : d < e
  PROVE  /\ PushRing(e) \in Seq(Nat) /\ Len(PushRing(e)) <= RingMax /\ PushRing(e) # <<>>
         /\ Increasing(PushRing(e))
         /\ Members(PushRing(e)) \subseteq Members(ring) \cup {e}
         /\ e \in Members(PushRing(e))
         /\ \A d \in Members(ring) : d >= Head(PushRing(e)) => d \in Members(PushRing(e))
<1>0. RingMax \in Nat /\ RingMax > 0 /\ Len(ring) \in Nat
  BY HubAssumption
<1>1. CASE Len(ring) = RingMax
  <2>1. PushRing(e) = Append(Tail(ring), e) /\ ring # <<>>
    BY <1>0, <1>1 DEF PushRing
  <2> DEFINE r == Tail(ring)
  <2>2. /\ r \in Seq(Nat) /\ Len(r) = Len(ring) - 1
        /\ \A i \in 1 .. Len(ring) - 1 : r[i] = ring[i + 1] /\ i + 1 \in 1 .. Len(ring)
    BY <2>1, TailFacts
  <2> HIDE DEF r
  <2>3. Increasing(r) /\ Members(r) \subseteq Members(ring)
    <3>1. Increasing(r)
      <4> SUFFICES ASSUME NEW i \in 1 .. Len(r), NEW j \in 1 .. Len(r), i < j
                   PROVE  r[i] < r[j]
        BY DEF Increasing
      <4>0. i \in 1 .. Len(ring) - 1 /\ j \in 1 .. Len(ring) - 1
        BY <2>2
      <4>1. /\ r[i] = ring[i + 1] /\ r[j] = ring[j + 1] /\ i + 1 < j + 1
            /\ i + 1 \in 1 .. Len(ring) /\ j + 1 \in 1 .. Len(ring)
        BY <2>2, <4>0
      <4> QED BY <4>1 DEF Increasing
    <3>2. ASSUME NEW i \in 1 .. Len(r) PROVE r[i] \in Members(ring)
      BY <2>2 DEF Members
    <3> QED BY <3>1, <3>2 DEF Members
  <2>4. \A d \in Members(ring) : d = ring[1] \/ d \in Members(r)
    <3>1. ASSUME NEW i \in 1 .. Len(ring), i # 1 PROVE ring[i] \in Members(r)
      <4>1. i - 1 \in 1 .. Len(r) /\ r[i - 1] = ring[i]
        BY <1>0, <2>2, <3>1
      <4> QED BY <4>1 DEF Members
    <3> QED BY <3>1 DEF Members
  <2>5. PushRing(e) = Append(r, e)
    BY <2>1 DEF r
  <2>6. /\ Append(r, e) \in Seq(Nat) /\ Len(Append(r, e)) = Len(ring)
        /\ Members(Append(r, e)) = Members(r) \cup {e} /\ Increasing(Append(r, e))
    BY <1>0, <2>2, <2>3, AppendFacts
  <2>7. ring[1] \in Members(ring) /\ ring[1] \in Nat
    BY <1>0, <1>1 DEF Members
  <2>8. Head(Append(r, e)) > ring[1]
    <3>1. CASE r = <<>>
      BY <3>1, <2>7
    <3>2. CASE r # <<>>
      <4>1. Head(Append(r, e)) = r[1] /\ 1 \in 1 .. Len(r)
        BY <2>2, <3>2
      <4>2. r[1] = ring[2] /\ 2 \in 1 .. Len(ring)
        BY <2>2, <4>1
      <4>3. ring[1] < ring[2]
        BY <1>0, <4>2 DEF Increasing
      <4> QED BY <4>1, <4>2, <4>3, <2>7
    <3> QED BY <3>1, <3>2
  <2>9. Head(Append(r, e)) \in Nat /\ Append(r, e) # <<>>
    <3>1. Append(r, e) \in Seq(Nat) /\ Append(r, e) # <<>>
      BY <2>2, AppendProperties
    <3> QED BY <3>1, TailFacts
  <2> QED BY <1>0, <1>1, <2>3, <2>4, <2>5, <2>6, <2>7, <2>8, <2>9
<1>2. CASE Len(ring) # RingMax
  <2>1. PushRing(e) = Append(ring, e)
    BY <1>2 DEF PushRing
  <2>2. Len(Append(ring, e)) = Len(ring) + 1 /\ Append(ring, e) # <<>>
    BY AppendProperties
  <2> QED BY <1>0, <1>2, <2>1, <2>2, AppendFacts
<1> QED BY <1>1, <1>2

LEMMA PublishNextT == ASSUME TInv, NEW f \in Fibers, PublishNext(f) PROVE TInv'
<1> DEFINE e == Head(todo[f])
<1>0. /\ todo[f] \in Seq(Nat) /\ todo[f] # <<>> /\ targets[f] = {}
      /\ todo' = [todo EXCEPT ![f] = Tail(@)]
      /\ UNCHANGED <<store, heard, tail, polled, subscription>>
  BY DEF TInv, TypeOK, PublishNext
<1>1. /\ e = todo[f][1] /\ 1 \in 1 .. Len(todo[f])
      /\ Tail(todo[f]) \in Seq(Nat) /\ Len(Tail(todo[f])) = Len(todo[f]) - 1
      /\ \A i \in 1 .. Len(todo[f]) - 1 :
           Tail(todo[f])[i] = todo[f][i + 1] /\ i + 1 \in 1 .. Len(todo[f])
  BY <1>0, TailFacts
<1>2. e \in 1 .. tail /\ tail \in Nat /\ cursor \in Nat /\ cursor <= tail
  BY <1>1 DEF TInv, Claimed, TypeOK
<1>3. todo' \in [Fibers -> Seq(Nat)]
  BY <1>0, <1>1 DEF TInv, TypeOK
<1>4. Claimed'
  BY <1>0, <1>1 DEF TInv, Claimed, TypeOK
<1>5. Bounded'
  BY <1>0 DEF TInv, Bounded, store
<1> DEFINE reached == {s \in Subscribers : status[s] = "open" /\ Routed(e)}
<1>6. CASE e > cursor
  <2>1. /\ cursor' = e /\ shown' = shown \cup {e} /\ ring' = PushRing(e)
        /\ targets' = [targets EXCEPT ![f] = reached]
        /\ carried' = [carried EXCEPT ![f] = IF targets'[f] = {} THEN 0 ELSE e]
    BY <1>6 DEF PublishNext
  <2> HIDE DEF e
  <2>2. \A d \in shown : d \in Nat /\ d <= cursor
    BY <1>2 DEF TInv, TypeOK
  <2>3. ring \in Seq(Nat) /\ Len(ring) <= RingMax /\ RingShown
    BY DEF TInv, TypeOK
  <2>4. e \in Nat /\ \A d \in Members(ring) : d < e
    BY <1>2, <1>6, <2>2, <2>3 DEF RingShown
  <2>5. /\ PushRing(e) \in Seq(Nat) /\ Len(PushRing(e)) <= RingMax
        /\ Increasing(PushRing(e)) /\ Members(PushRing(e)) \subseteq Members(ring) \cup {e}
    BY <2>3, <2>4, PushRingFacts DEF RingShown
  <2>6. RingShown'
    <3>1. Members(ring)' = Members(PushRing(e)) /\ Increasing(ring)' = Increasing(PushRing(e))
      BY <2>1 DEF Members, Increasing
    <3> QED BY <2>1, <2>3, <2>5, <3>1 DEF RingShown
  <2>7. targets' \in [Fibers -> SUBSET Subscribers] /\ carried' \in [Fibers -> Nat]
    BY <2>1, <2>4 DEF TInv, TypeOK
  <2>8. shown' \subseteq 1 .. cursor'
    BY <1>2, <1>6, <2>1, <2>2 DEF TInv, TypeOK
  <2>9. TypeOK'
    <3>1. cursor' \in 0 .. tail'
      BY <1>0, <1>2, <2>1
    <3>2. ring' \in Seq(Nat) /\ Len(ring') <= RingMax
      BY <2>1, <2>5
    <3>3. UNCHANGED <<preempts, log, announced, heard, tail, polled, status, from, caught,
                      replay, queue, epoch, received>>
      BY <1>0 DEF store, subscription
    <3>4. caught' \in [Subscribers -> 0 .. cursor']
      <4>1. cursor' \in Nat /\ cursor <= cursor'
        BY <1>2, <1>6, <2>1, <2>4
      <4>2. 0 .. cursor \subseteq 0 .. cursor'
        BY <1>2, <4>1
      <4> QED BY <3>3, <4>2 DEF TInv, TypeOK
    <3> QED BY <1>3, <2>7, <2>8, <3>1, <3>2, <3>3, <3>4 DEF TInv, TypeOK
  <2>10. CarriedShown'
    <3> SUFFICES ASSUME NEW g \in Fibers, targets'[g] # {}
                 PROVE  carried'[g] \in shown' /\ log'[carried'[g]] # Elsewhere
      BY DEF CarriedShown
    <3>1. CASE g = f
      <4>1. targets'[f] = reached /\ carried'[f] = e
        BY <2>1, <3>1 DEF TInv, TypeOK
      <4>2. Routed(e)
        BY <4>1, <3>1
      <4> QED BY <1>0, <2>1, <3>1, <4>1, <4>2 DEF Routed, store
    <3>2. CASE g # f
      <4>1. targets'[g] = targets[g] /\ carried'[g] = carried[g]
        BY <2>1, <3>2 DEF TInv, TypeOK
      <4>2. carried[g] \in shown /\ log[carried[g]] # Elsewhere
        BY <4>1 DEF TInv, CarriedShown
      <4>3. log' = log
        BY <1>0 DEF store
      <4> QED BY <2>1, <4>1, <4>2, <4>3
    <3> QED BY <3>1, <3>2
  <2>11. NewIsEmpty'
    <3> SUFFICES ASSUME NEW s \in Subscribers, status[s] = "new", NEW g \in Fibers
                 PROVE  s \notin targets'[g]
      BY <1>0 DEF TInv, NewIsEmpty, subscription
    <3>1. s \notin targets[g] /\ s \notin reached
      BY DEF TInv, NewIsEmpty
    <3> QED BY <2>1, <3>1 DEF TInv, TypeOK
  <2>12. HandedPassed'
    BY <1>0, <1>2, <1>6, <2>1 DEF TInv, HandedPassed, subscription
  <2>13. QueuedShown'
    BY <1>0, <2>1 DEF TInv, QueuedShown, KeyFits, subscription, store
  <2> QED BY <1>4, <1>5, <2>6, <2>9, <2>10, <2>11, <2>12, <2>13 DEF TInv
<1>7. CASE ~ (e > cursor)
  <2>1. UNCHANGED <<carried, targets, hub>>
    BY <1>7 DEF PublishNext
  <2>2. TypeOK'
    BY <1>0, <1>3, <2>1 DEF TInv, TypeOK, hub, store, subscription
  <2>3. CarriedShown' /\ RingShown' /\ NewIsEmpty' /\ HandedPassed'
    BY <1>0, <2>1 DEF TInv, CarriedShown, RingShown, Members, Increasing, NewIsEmpty,
                      HandedPassed, hub, store, subscription
  <2>4. QueuedShown'
    BY <1>0, <2>1 DEF TInv, QueuedShown, KeyFits, hub, store, subscription
  <2> QED BY <1>4, <1>5, <2>2, <2>3, <2>4 DEF TInv
<1> QED BY <1>6, <1>7

\* The i-th entry of s takes e's content, and keeps its place and its key.
Replaced(s, i, e) ==
  /\ log[e] # Protected
  /\ queue[s][i].key = KeyOf(s, e)
  /\ queue' = [queue EXCEPT ![s] = [queue[s] EXCEPT ![i] = [at |-> e, key |-> KeyOf(s, e)]]]
  /\ UNCHANGED <<status, epoch>>

Added(s, e) ==
  /\ Len(queue[s]) < QueueMax
  /\ log[e] = Protected \/ \A i \in 1 .. Len(queue[s]) : queue[s][i].key # KeyOf(s, e)
  /\ Enqueue(s, e)

\* One turn of the loop does one of four things to its subscriber.
LEMMA DeliverCases ==
  ASSUME TInv, NEW f \in Fibers, NEW s \in Subscribers, Deliver(f, s)
  PROVE  /\ s \in targets[f]
         /\ carried[f] \in shown /\ log[carried[f]] \in Kinds \ {Elsewhere}
         /\ targets' = [targets EXCEPT ![f] = @ \ {s}]
         /\ carried' \in [Fibers -> Nat]
         /\ \A g \in Fibers : targets'[g] # {} => carried'[g] = carried[g]
         /\ UNCHANGED <<store, heard, tail, polled, todo, hub, from, caught, replay, received>>
         /\ \/ status[s] # "open" /\ UNCHANGED <<status, queue, epoch>>
            \/ status[s] = "open" /\ Overflow(s)
            \/ status[s] = "open" /\ Added(s, carried[f])
            \/ status[s] = "open" /\ \E i \in 1 .. Len(queue[s]) : Replaced(s, i, carried[f])
<1> DEFINE e == carried[f]
           same == {i \in DOMAIN queue[s] : queue[s][i].key = KeyOf(s, e)}
<1>1. /\ s \in targets[f] /\ targets' = [targets EXCEPT ![f] = @ \ {s}]
      /\ carried' = [carried EXCEPT ![f] = IF targets'[f] = {} THEN 0 ELSE @]
      /\ UNCHANGED <<store, heard, tail, polled, todo, hub, from, caught, replay, received>>
  BY DEF Deliver
<1>2. e \in shown /\ log[e] \in Kinds \ {Elsewhere}
  <2>1. e \in shown /\ log[e] # Elsewhere
    BY <1>1 DEF TInv, CarriedShown
  <2>2. log \in Seq(Kinds) /\ e \in 1 .. Len(log)
    BY <2>1 DEF TInv, TypeOK
  <2> QED BY <2>1, <2>2
<1>3. carried' \in [Fibers -> Nat]
  BY <1>1 DEF TInv, TypeOK
<1>4. \A g \in Fibers : targets'[g] # {} => carried'[g] = carried[g]
  BY <1>1 DEF TInv, TypeOK
<1>5. queue[s] \in Seq(Entry) /\ queue \in [Subscribers -> Seq(Entry)]
      /\ DOMAIN queue[s] = 1 .. Len(queue[s]) /\ Len(queue[s]) \in Nat
  BY DEF TInv, TypeOK
<1>6. \/ status[s] # "open" /\ UNCHANGED <<status, queue, epoch>>
      \/ /\ status[s] = "open" /\ log[e] # Protected
         /\ \E i \in same : Coalesce(s, i, e)
         /\ UNCHANGED <<status, epoch>>
      \/ /\ status[s] = "open" /\ (log[e] = Protected \/ same = {})
         /\ IF Len(queue[s]) >= QueueMax THEN Overflow(s) ELSE Enqueue(s, e)
  BY DEF Deliver
<1>7. ASSUME NEW i \in same, Coalesce(s, i, e), log[e] # Protected, UNCHANGED <<status, epoch>>
      PROVE  i \in 1 .. Len(queue[s]) /\ Replaced(s, i, e)
  <2>1. i \in 1 .. Len(queue[s]) /\ queue[s][i].key = KeyOf(s, e) /\ queue[s][i] \in Entry
    BY <1>5
  <2>2. queue' = [queue EXCEPT ![s] = [queue[s] EXCEPT ![i] = [queue[s][i] EXCEPT !.at = e]]]
    BY <1>7, <1>5 DEF Coalesce
  <2>3. [queue[s][i] EXCEPT !.at = e] = [at |-> e, key |-> KeyOf(s, e)]
    BY <2>1 DEF Entry
  <2> QED BY <1>7, <2>1, <2>2, <2>3 DEF Replaced
<1>8. QueueMax \in Nat
  BY HubAssumption
<1>9. ASSUME log[e] = Protected \/ same = {}, ~ (Len(queue[s]) >= QueueMax), Enqueue(s, e)
      PROVE  Added(s, e)
  BY <1>5, <1>8, <1>9 DEF Added
<1>10. \/ status[s] # "open" /\ UNCHANGED <<status, queue, epoch>>
       \/ status[s] = "open" /\ Overflow(s)
       \/ status[s] = "open" /\ Added(s, e)
       \/ status[s] = "open" /\ \E i \in 1 .. Len(queue[s]) : Replaced(s, i, e)
  <2> HIDE DEF e, same
  <2> QED BY <1>6, <1>7, <1>9
<1> QED BY <1>1, <1>2, <1>3, <1>4, <1>10

LEMMA KeyOfFits ==
  ASSUME TInv, NEW s \in Subscribers, NEW e, log[e] \in Kinds \ {Elsewhere}
  PROVE  /\ KeyOf(s, e) \in (Nat \X Keys) \cup {Unkeyed}
         /\ KeyFits([at |-> e, key |-> KeyOf(s, e)])
<1>1. epoch[s] \in Nat
  BY DEF TInv, TypeOK
<1>2. log[e] # Protected => log[e] \in Keys
  BY DEF Kinds
<1>3. CASE log[e] = Protected
  BY <1>3 DEF KeyOf, KeyFits
<1>4. CASE log[e] # Protected
  BY <1>1, <1>2, <1>4 DEF KeyOf, KeyFits
<1> QED BY <1>3, <1>4

LEMMA DeliverT ==
  ASSUME TInv, NEW f \in Fibers, NEW s \in Subscribers, Deliver(f, s) PROVE TInv'
<1> DEFINE e == carried[f]
           q == queue[s]
           x == [at |-> e, key |-> KeyOf(s, e)]
<1>1. /\ s \in targets[f] /\ e \in shown /\ log[e] \in Kinds \ {Elsewhere}
      /\ targets' = [targets EXCEPT ![f] = @ \ {s}] /\ carried' \in [Fibers -> Nat]
      /\ \A g \in Fibers : targets'[g] # {} => carried'[g] = carried[g]
      /\ UNCHANGED <<store, heard, tail, polled, todo, hub, from, caught, replay, received>>
  BY DeliverCases
<1>2. \/ status[s] # "open" /\ UNCHANGED <<status, queue, epoch>>
      \/ status[s] = "open" /\ Overflow(s)
      \/ status[s] = "open" /\ Added(s, e)
      \/ status[s] = "open" /\ \E i \in 1 .. Len(q) : Replaced(s, i, e)
  BY DeliverCases
<1>3. /\ UNCHANGED <<preempts, log, announced, heard, tail, polled, todo, cursor, ring, shown,
                     from, caught, replay, received>>
  BY <1>1 DEF store, hub
<1>4. /\ q \in Seq(Entry) /\ Len(q) \in Nat /\ Len(q) <= QueueMax /\ QueueMax \in Nat
      /\ queue \in [Subscribers -> Seq(Entry)] /\ epoch \in [Subscribers -> Nat]
      /\ status \in [Subscribers -> {"new", "open", "overflowed", "failed", "closed"}]
  BY HubAssumption DEF TInv, TypeOK
<1>5. e \in Nat /\ x \in Entry /\ KeyFits(x)
  <2>1. e \in Nat
    BY <1>1 DEF TInv, TypeOK
  <2> QED BY <1>1, <2>1, KeyOfFits DEF Entry
<1> HIDE DEF e, x
<1>6. /\ queue' \in [Subscribers -> Seq(Entry)] /\ Len(queue'[s]) <= QueueMax
      /\ \A u \in Subscribers : u # s => queue'[u] = queue[u] /\ status'[u] = status[u]
      /\ epoch' \in [Subscribers -> Nat]
      /\ status' \in [Subscribers -> {"new", "open", "overflowed", "failed", "closed"}]
      /\ status'[s] # "new"
      /\ \A i \in 1 .. Len(queue'[s]) :
           queue'[s][i] = x \/ \E j \in 1 .. Len(q) : queue'[s][i] = q[j]
  <2>0. status[s] # "new"
    BY <1>1 DEF TInv, NewIsEmpty
  <2>1. CASE status[s] # "open" /\ UNCHANGED <<status, queue, epoch>>
    BY <1>4, <2>0, <2>1
  <2>2. CASE Overflow(s)
    BY <1>4, <2>2 DEF Overflow
  <2>3. CASE Added(s, e)
    <3>1. /\ queue' = [queue EXCEPT ![s] = Append(q, x)] /\ status' = status
          /\ epoch' = [epoch EXCEPT ![s] = IF log[e] = Protected THEN @ + 1 ELSE @]
          /\ Len(q) < QueueMax
      BY <2>3 DEF Added, Enqueue, x
    <3>2. /\ Append(q, x) \in Seq(Entry) /\ Len(Append(q, x)) = Len(q) + 1
          /\ \A i \in 1 .. Len(q) : Append(q, x)[i] = q[i]
          /\ Append(q, x)[Len(q) + 1] = x
      BY <1>4, <1>5
    <3>3. queue'[s] = Append(q, x) /\ \A u \in Subscribers : u # s => queue'[u] = queue[u]
      BY <1>4, <3>1
    <3>4. queue' \in [Subscribers -> Seq(Entry)]
      BY <1>4, <3>1, <3>2
    <3>5. epoch' \in [Subscribers -> Nat]
      BY <1>4, <3>1
    <3>6. \A i \in 1 .. Len(q) + 1 :
             Append(q, x)[i] = x \/ \E j \in 1 .. Len(q) : Append(q, x)[i] = q[j]
      BY <1>4, <3>2
    <3> QED BY <1>4, <2>0, <3>1, <3>2, <3>3, <3>4, <3>5, <3>6
  <2>4. CASE \E i \in 1 .. Len(q) : Replaced(s, i, e)
    <3>1. PICK i \in 1 .. Len(q) : Replaced(s, i, e)
      BY <2>4
    <3>2. queue' = [queue EXCEPT ![s] = [q EXCEPT ![i] = x]] /\ UNCHANGED <<status, epoch>>
      BY <3>1 DEF Replaced, x
    <3>3. /\ [q EXCEPT ![i] = x] \in Seq(Entry) /\ Len([q EXCEPT ![i] = x]) = Len(q)
          /\ \A j \in 1 .. Len(q) : [q EXCEPT ![i] = x][j] = IF j = i THEN x ELSE q[j]
      BY <1>4, <1>5
    <3>4. queue'[s] = [q EXCEPT ![i] = x] /\ queue' \in [Subscribers -> Seq(Entry)]
          /\ \A u \in Subscribers : u # s => queue'[u] = queue[u]
      BY <1>4, <3>2, <3>3
    <3> QED BY <1>4, <2>0, <3>2, <3>3, <3>4
  <2> QED BY <1>2, <2>1, <2>2, <2>3, <2>4
<1>7. TypeOK'
  <2>1. targets' \in [Fibers -> SUBSET Subscribers]
    BY <1>1 DEF TInv, TypeOK
  <2>2. \A u \in Subscribers : Len(queue'[u]) <= QueueMax
    BY <1>6 DEF TInv, TypeOK
  <2> QED BY <1>1, <1>3, <1>6, <2>1, <2>2 DEF TInv, TypeOK
<1>8. Bounded' /\ Claimed' /\ RingShown' /\ HandedPassed'
  BY <1>3 DEF TInv, Bounded, Claimed, RingShown, Members, Increasing, HandedPassed
<1>9. CarriedShown'
  <2>1. \A g \in Fibers : targets'[g] \subseteq targets[g]
    BY <1>1 DEF TInv, TypeOK
  <2> QED BY <1>1, <1>3, <2>1 DEF TInv, CarriedShown
<1>10. NewIsEmpty'
  <2> SUFFICES ASSUME NEW u \in Subscribers, status'[u] = "new"
               PROVE  /\ received'[u] = <<>> /\ replay'[u] = <<>> /\ queue'[u] = <<>>
                      /\ \A g \in Fibers : u \notin targets'[g]
    BY DEF NewIsEmpty
  <2>1. u # s /\ status[u] = "new" /\ queue'[u] = queue[u]
    BY <1>6
  <2>2. \A g \in Fibers : targets'[g] \subseteq targets[g]
    BY <1>1 DEF TInv, TypeOK
  <2> QED BY <1>3, <2>1, <2>2 DEF TInv, NewIsEmpty
<1>11. QueuedShown'
  <2> SUFFICES ASSUME NEW u \in Subscribers, NEW i \in 1 .. Len(queue'[u])
               PROVE  queue'[u][i].at \in shown /\ KeyFits(queue'[u][i])
    BY <1>3 DEF QueuedShown, KeyFits
  <2>1. CASE u # s
    BY <1>6, <2>1 DEF TInv, QueuedShown
  <2>2. CASE u = s
    <3>1. queue'[s][i] = x \/ \E j \in 1 .. Len(q) : queue'[s][i] = q[j]
      BY <1>6, <2>2
    <3>2. x.at \in shown /\ KeyFits(x)
      BY <1>1, <1>5 DEF x
    <3>3. \A j \in 1 .. Len(q) : q[j].at \in shown /\ KeyFits(q[j])
      BY DEF TInv, QueuedShown
    <3> QED BY <2>2, <3>1, <3>2, <3>3
  <2> QED BY <2>1, <2>2
<1> QED BY <1>7, <1>8, <1>9, <1>10, <1>11 DEF TInv

Unseen(n) == {e \in n + 1 .. Len(log) : Routed(e)}
Source(n) == IF RingReaches(n) THEN ring ELSE FromStore(n)

\* What a new subscription replays: events the hub has passed, in order.
LEMMA ReplayFacts ==
  ASSUME TInv, NEW n \in Nat
  PROVE  /\ Source(n) \in Seq(Nat) /\ Increasing(Source(n))
         /\ Members(Source(n)) \subseteq 1 .. cursor
         /\ Replay(n) \in Seq(Nat) /\ Increasing(Replay(n))
         /\ Members(Replay(n)) = Members(Source(n)) \cap Unseen(n)
<1>0. cursor \in Nat /\ ReadLimit \in Nat
  BY HubAssumption DEF TInv, TypeOK
<1>1. /\ ring \in Seq(Nat) /\ Increasing(ring) /\ Members(ring) \subseteq 1 .. cursor
  BY DEF TInv, TypeOK, RingShown
<1> DEFINE b == IF n + ReadLimit < cursor THEN n + ReadLimit ELSE cursor
<1>2. b \in Nat /\ b <= cursor
  BY <1>0
<1>3. /\ FromStore(n) \in Seq(Nat) /\ Increasing(FromStore(n))
      /\ Members(FromStore(n)) \subseteq 1 .. cursor
  <2> HIDE DEF b
  <2>1. /\ Interval(n, b) \in Seq(Nat) /\ Increasing(Interval(n, b))
        /\ Members(Interval(n, b)) = n + 1 .. b
    BY <1>2, IntervalFacts
  <2>2. n + 1 .. b \subseteq 1 .. cursor
    BY <1>0, <1>2
  <2> QED BY <2>1, <2>2 DEF FromStore, b
<1>4. /\ Source(n) \in Seq(Nat) /\ Increasing(Source(n))
      /\ Members(Source(n)) \subseteq 1 .. cursor
  <2>1. CASE RingReaches(n)
    BY <1>1, <2>1 DEF Source
  <2>2. CASE ~ RingReaches(n)
    BY <1>3, <2>2 DEF Source
  <2> QED BY <2>1, <2>2
<1>5. Replay(n) = Kept(Source(n), Unseen(n))
  BY DEF Replay, Source, Unseen
<1> QED BY <1>4, <1>5, KeptFacts

LEMMA SubscribeT ==
  ASSUME TInv, NEW s \in Subscribers, NEW n \in 0 .. MaxLog, Subscribe(s, n) PROVE TInv'
<1>0. /\ status[s] = "new" /\ status' = [status EXCEPT ![s] = "open"] /\ n \in Nat
      /\ from' = [from EXCEPT ![s] = n] /\ replay' = [replay EXCEPT ![s] = Replay(n)]
      /\ caught' = [caught EXCEPT ![s] = IF RingReaches(n) THEN 0 ELSE cursor]
      /\ UNCHANGED <<preempts, log, announced, heard, tail, polled, todo, carried, targets,
                     cursor, ring, shown, queue, epoch, received>>
  BY DEF Subscribe, store, producers, hub
<1>1. Replay(n) \in Seq(Nat) /\ Members(Replay(n)) \subseteq 1 .. cursor
  BY <1>0, ReplayFacts
<1>2. TypeOK'
  <2>1. caught' \in [Subscribers -> 0 .. cursor]
    BY <1>0 DEF TInv, TypeOK
  <2> QED BY <1>0, <1>1, <2>1 DEF TInv, TypeOK
<1>3. Bounded' /\ Claimed' /\ RingShown' /\ CarriedShown'
  BY <1>0 DEF TInv, Bounded, Claimed, RingShown, Members, Increasing, CarriedShown
<1>4. QueuedShown'
  BY <1>0 DEF TInv, QueuedShown, KeyFits
<1>5. NewIsEmpty'
  BY <1>0 DEF TInv, NewIsEmpty, TypeOK
<1>6. HandedPassed'
  <2>1. replay'[s] = Replay(n) /\ \A u \in Subscribers : u # s => replay'[u] = replay[u]
    BY <1>0 DEF TInv, TypeOK
  <2>2. /\ \A u \in Subscribers : Members(received[u]) \subseteq 1 .. cursor
        /\ \A u \in Subscribers : Members(replay[u]) \subseteq 1 .. cursor
    BY DEF TInv, HandedPassed, Members
  <2>3. /\ \A u \in Subscribers : Members(received'[u]) \subseteq 1 .. cursor
        /\ \A u \in Subscribers : Members(replay'[u]) \subseteq 1 .. cursor
    BY <1>0, <1>1, <2>1, <2>2
  <2> QED BY <1>0, <2>3 DEF HandedPassed, Members
<1> QED BY <1>2, <1>3, <1>4, <1>5, <1>6 DEF TInv

LEMMA ReceiveT == ASSUME TInv, NEW s \in Subscribers, Receive(s) PROVE TInv'
<1>0. /\ UNCHANGED <<preempts, log, announced, heard, tail, polled, todo, carried, targets,
                     cursor, ring, shown, status, from, caught, epoch>>
      /\ status[s] # "new"
  BY DEF Receive, store, producers, hub
<1>1. /\ received[s] \in Seq(Nat) /\ replay[s] \in Seq(Nat) /\ queue[s] \in Seq(Entry)
      /\ Len(queue[s]) <= QueueMax /\ QueueMax \in Nat
      /\ received \in [Subscribers -> Seq(Nat)] /\ replay \in [Subscribers -> Seq(Nat)]
      /\ queue \in [Subscribers -> Seq(Entry)]
  BY HubAssumption DEF TInv, TypeOK
<1>2. PICK e : /\ e \in 1 .. cursor
               /\ received' = [received EXCEPT ![s] = Append(@, e)]
               /\ replay' \in [Subscribers -> Seq(Nat)]
               /\ queue' \in [Subscribers -> Seq(Entry)]
               /\ \A u \in Subscribers : u # s => replay'[u] = replay[u] /\ queue'[u] = queue[u]
               /\ Len(queue'[s]) <= QueueMax
               /\ \A i \in 1 .. Len(replay'[s]) : \E j \in 1 .. Len(replay[s]) :
                    replay'[s][i] = replay[s][j]
               /\ \A i \in 1 .. Len(queue'[s]) : \E j \in 1 .. Len(queue[s]) :
                    queue'[s][i] = queue[s][j]
  <2>1. CASE /\ replay[s] # <<>>
             /\ received' = [received EXCEPT ![s] = Append(@, Head(replay[s]))]
             /\ replay' = [replay EXCEPT ![s] = Tail(@)] /\ UNCHANGED queue
    <3>1. /\ Head(replay[s]) = replay[s][1] /\ 1 \in 1 .. Len(replay[s])
          /\ Tail(replay[s]) \in Seq(Nat) /\ Len(Tail(replay[s])) = Len(replay[s]) - 1
          /\ \A i \in 1 .. Len(replay[s]) - 1 :
               Tail(replay[s])[i] = replay[s][i + 1] /\ i + 1 \in 1 .. Len(replay[s])
      BY <1>1, <2>1, TailFacts
    <3>2. replay'[s] = Tail(replay[s]) /\ queue' = queue
      BY <1>1, <2>1
    <3>3. Head(replay[s]) \in 1 .. cursor
      BY <3>1 DEF TInv, HandedPassed
    <3>4. \A i \in 1 .. Len(replay'[s]) : \E j \in 1 .. Len(replay[s]) :
            replay'[s][i] = replay[s][j]
      BY <3>1, <3>2
    <3>5. replay' \in [Subscribers -> Seq(Nat)]
      BY <1>1, <2>1, <3>1
    <3> QED BY <1>1, <2>1, <3>2, <3>3, <3>4, <3>5
  <2>2. CASE /\ queue[s] # <<>>
             /\ received' = [received EXCEPT ![s] = Append(@, Head(queue[s]).at)]
             /\ queue' = [queue EXCEPT ![s] = Tail(@)] /\ UNCHANGED replay
    <3>1. /\ Head(queue[s]) = queue[s][1] /\ 1 \in 1 .. Len(queue[s])
          /\ Tail(queue[s]) \in Seq(Entry) /\ Len(Tail(queue[s])) = Len(queue[s]) - 1
          /\ Len(queue[s]) \in Nat
          /\ \A i \in 1 .. Len(queue[s]) - 1 :
               Tail(queue[s])[i] = queue[s][i + 1] /\ i + 1 \in 1 .. Len(queue[s])
      BY <1>1, <2>2, TailFacts
    <3>2. queue'[s] = Tail(queue[s]) /\ replay' = replay
      BY <1>1, <2>2
    <3>3. Head(queue[s]).at \in 1 .. cursor
      BY <3>1 DEF TInv, QueuedShown, TypeOK
    <3>4. \A i \in 1 .. Len(queue'[s]) : \E j \in 1 .. Len(queue[s]) :
            queue'[s][i] = queue[s][j]
      BY <3>1, <3>2
    <3>5. queue' \in [Subscribers -> Seq(Entry)] /\ Len(queue'[s]) <= QueueMax
      BY <1>1, <2>2, <3>1, <3>2
    <3> QED BY <1>1, <2>2, <3>2, <3>3, <3>4, <3>5
  <2> QED BY <2>1, <2>2 DEF Receive
<1>3. /\ Append(received[s], e) \in Seq(Nat)
      /\ \A i \in 1 .. Len(Append(received[s], e)) : Append(received[s], e)[i] \in 1 .. cursor
  <2>1. e \in Nat /\ \A i \in 1 .. Len(received[s]) : received[s][i] \in 1 .. cursor
    BY <1>2 DEF TInv, HandedPassed
  <2> QED BY <1>1, <1>2, <2>1
<1>4. TypeOK'
  <2>1. received' \in [Subscribers -> Seq(Nat)]
    BY <1>1, <1>2, <1>3
  <2>2. \A u \in Subscribers : Len(queue'[u]) <= QueueMax
    BY <1>2 DEF TInv, TypeOK
  <2> QED BY <1>0, <1>2, <2>1, <2>2 DEF TInv, TypeOK
<1>5. Bounded' /\ Claimed' /\ RingShown' /\ CarriedShown'
  BY <1>0 DEF TInv, Bounded, Claimed, RingShown, Members, Increasing, CarriedShown
<1>6. \A u \in Subscribers : u # s =>
        received'[u] = received[u] /\ replay'[u] = replay[u] /\ queue'[u] = queue[u]
  BY <1>1, <1>2
<1>7. NewIsEmpty'
  BY <1>0, <1>6 DEF TInv, NewIsEmpty
<1>8. HandedPassed'
  <2> SUFFICES ASSUME NEW u \in Subscribers
               PROVE  /\ \A i \in 1 .. Len(received'[u]) : received'[u][i] \in 1 .. cursor
                      /\ \A i \in 1 .. Len(replay'[u]) : replay'[u][i] \in 1 .. cursor
    BY <1>0 DEF HandedPassed
  <2>1. CASE u # s
    BY <1>6, <2>1 DEF TInv, HandedPassed
  <2>2. CASE u = s
    <3>1. received'[s] = Append(received[s], e)
      BY <1>1, <1>2
    <3> QED BY <1>2, <1>3, <2>2, <3>1 DEF TInv, HandedPassed
  <2> QED BY <2>1, <2>2
<1>9. QueuedShown'
  <2> SUFFICES ASSUME NEW u \in Subscribers, NEW i \in 1 .. Len(queue'[u])
               PROVE  queue'[u][i].at \in shown /\ KeyFits(queue'[u][i])
    BY <1>0 DEF QueuedShown, KeyFits
  <2>1. CASE u # s
    BY <1>6, <2>1 DEF TInv, QueuedShown
  <2>2. CASE u = s
    <3>1. PICK j \in 1 .. Len(queue[s]) : queue'[s][i] = queue[s][j]
      BY <1>2, <2>2
    <3>2. queue[s][j].at \in shown /\ KeyFits(queue[s][j])
      BY DEF TInv, QueuedShown
    <3> QED BY <2>2, <3>1, <3>2
  <2> QED BY <2>1, <2>2
<1> QED BY <1>4, <1>5, <1>7, <1>8, <1>9 DEF TInv

LEMMA EndT ==
  ASSUME TInv, NEW s \in Subscribers, NEW how \in {"failed", "closed"}, End(s, how)
  PROVE  TInv'
<1>0. /\ status' = [status EXCEPT ![s] = how] /\ from' = [from EXCEPT ![s] = 0]
      /\ caught' = [caught EXCEPT ![s] = 0]
      /\ epoch' = [epoch EXCEPT ![s] = 0] /\ replay' = [replay EXCEPT ![s] = <<>>]
      /\ queue' = [queue EXCEPT ![s] = <<>>] /\ received' = [received EXCEPT ![s] = <<>>]
      /\ UNCHANGED <<preempts, log, announced, heard, tail, polled, todo, carried, targets,
                     cursor, ring, shown>>
  BY DEF End, store, producers, hub
<1>1. /\ replay' \in [Subscribers -> Seq(Nat)] /\ received' \in [Subscribers -> Seq(Nat)]
      /\ queue' \in [Subscribers -> Seq(Entry)]
      /\ \A u \in Subscribers : u # s =>
           /\ received'[u] = received[u] /\ replay'[u] = replay[u] /\ queue'[u] = queue[u]
           /\ status'[u] = status[u]
      /\ received'[s] = <<>> /\ replay'[s] = <<>> /\ queue'[s] = <<>> /\ status'[s] # "new"
  BY <1>0 DEF TInv, TypeOK
<1>2. TypeOK'
  <2>1. \A u \in Subscribers : Len(queue'[u]) <= QueueMax
    <3>1. Len(queue'[s]) = 0 /\ QueueMax \in Nat
      BY <1>1, HubAssumption
    <3>2. \A u \in Subscribers : u # s => Len(queue'[u]) <= QueueMax
      BY <1>1 DEF TInv, TypeOK
    <3> QED BY <3>1, <3>2
  <2>2. caught' \in [Subscribers -> 0 .. cursor]
    BY <1>0 DEF TInv, TypeOK
  <2> QED BY <1>0, <1>1, <2>1, <2>2 DEF TInv, TypeOK
<1>3. Bounded' /\ Claimed' /\ RingShown' /\ CarriedShown'
  BY <1>0 DEF TInv, Bounded, Claimed, RingShown, Members, Increasing, CarriedShown
<1>4. NewIsEmpty'
  BY <1>0, <1>1 DEF TInv, NewIsEmpty
<1>5. HandedPassed'
  <2> SUFFICES ASSUME NEW u \in Subscribers
               PROVE  /\ \A i \in 1 .. Len(received'[u]) : received'[u][i] \in 1 .. cursor
                      /\ \A i \in 1 .. Len(replay'[u]) : replay'[u][i] \in 1 .. cursor
    BY <1>0 DEF HandedPassed
  <2>1. CASE u = s
    BY <1>1, <2>1
  <2>2. CASE u # s
    BY <1>1, <2>2 DEF TInv, HandedPassed
  <2> QED BY <2>1, <2>2
<1>6. QueuedShown'
  <2> SUFFICES ASSUME NEW u \in Subscribers, NEW i \in 1 .. Len(queue'[u])
               PROVE  queue'[u][i].at \in shown /\ KeyFits(queue'[u][i])
    BY <1>0 DEF QueuedShown, KeyFits
  <2>1. u # s
    BY <1>1
  <2> QED BY <1>1, <2>1 DEF TInv, QueuedShown
<1> QED BY <1>2, <1>3, <1>4, <1>5, <1>6 DEF TInv

LEMMA StutterT == ASSUME TInv, UNCHANGED vars PROVE TInv'
<1> USE DEF vars, store, producers, hub, subscription
<1>1. TypeOK'
  BY DEF TInv, TypeOK
<1>2. Bounded' /\ Claimed' /\ RingShown' /\ CarriedShown' /\ NewIsEmpty' /\ HandedPassed'
  BY DEF TInv, Bounded, Claimed, RingShown, Members, Increasing, CarriedShown, NewIsEmpty,
         HandedPassed
<1>3. QueuedShown'
  BY DEF TInv, QueuedShown, KeyFits
<1> QED BY <1>1, <1>2, <1>3 DEF TInv

LEMMA TInvHolds == Spec => []TInv
<1>1. Init => TInv
  BY InitTInv
<1>2. TInv /\ [Next]_vars => TInv'
  <2> SUFFICES ASSUME TInv, [Next]_vars PROVE TInv'
    OBVIOUS
  <2> QED BY StepCases, StoreT, AnnounceT, PollReadT, PollClaimT, ListenClaimT, PublishNextT,
             DeliverT, SubscribeT, ReceiveT, EndT, StutterT
<1> QED BY <1>1, <1>2, PTL DEF Spec

(***************************************************************************)
(* The state stays in its types: the ring and every subscriber's queue are *)
(* bounded, and the hub never shows an event past the claimed tail.        *)
(***************************************************************************)
THEOREM TypesHold == Spec => []TypeOK
<1>1. TInv => TypeOK
  BY DEF TInv
<1> QED BY <1>1, TInvHolds, PTL
-----------------------------------------------------------------------------
(* What a step does to a subscription's stream: nothing, or the carried    *)
(* event comes in at its end or in the place of a queued one.              *)

AtsOf(q) == [i \in DOMAIN q |-> q[i].at]
Join(a, b, q) == (a \o b) \o AtsOf(q)

LEMMA AtsFacts ==
  ASSUME NEW q \in Seq(Entry)
  PROVE  /\ AtsOf(q) \in Seq(Nat) /\ Len(AtsOf(q)) = Len(q) /\ Len(q) \in Nat
         /\ \A i \in 1 .. Len(q) : AtsOf(q)[i] = q[i].at /\ q[i] \in Entry
<1>1. Len(q) \in Nat /\ DOMAIN q = 1 .. Len(q)
  BY LenProperties
<1>2. \A i \in 1 .. Len(q) : q[i] \in Entry /\ q[i].at \in Nat
  <2>1. \A i \in 1 .. Len(q) : q[i] \in Entry
    BY ElementOfSeq
  <2>2. \A x \in Entry : x.at \in Nat
    BY DEF Entry
  <2> QED BY <2>1, <2>2
<1>3. AtsOf(q) = [i \in 1 .. Len(q) |-> q[i].at]
  BY <1>1 DEF AtsOf
<1>4. AtsOf(q) \in [1 .. Len(q) -> Nat]
  BY <1>2, <1>3
<1>5. AtsOf(q) \in Seq(Nat) /\ Len(AtsOf(q)) = Len(q)
  BY <1>1, <1>4
<1> QED BY <1>1, <1>2, <1>3, <1>5

LEMMA AtsAdd ==
  ASSUME NEW q \in Seq(Entry), NEW e \in Entry
  PROVE  AtsOf(Append(q, e)) = Append(AtsOf(q), e.at)
<1> DEFINE q1 == Append(q, e)
           x == AtsOf(q1)
           z == Append(AtsOf(q), e.at)
<1>1. /\ q1 \in Seq(Entry) /\ Len(q1) = Len(q) + 1 /\ q1[Len(q) + 1] = e
      /\ \A i \in 1 .. Len(q) : q1[i] = q[i]
  BY AppendProperties
<1>2. e.at \in Nat /\ AtsOf(q) \in Seq(Nat) /\ Len(AtsOf(q)) = Len(q) /\ Len(q) \in Nat
      /\ \A i \in 1 .. Len(q) : AtsOf(q)[i] = q[i].at
  BY AtsFacts DEF Entry
<1>3. /\ z \in Seq(Nat) /\ Len(z) = Len(q) + 1 /\ z[Len(q) + 1] = e.at
      /\ \A i \in 1 .. Len(q) : z[i] = q[i].at
  BY <1>2, AppendProperties
<1> HIDE DEF q1
<1>4. x \in Seq(Nat) /\ Len(x) = Len(q) + 1 /\ \A i \in 1 .. Len(q) + 1 : x[i] = q1[i].at
  BY <1>1, AtsFacts
<1> HIDE DEF x, z
<1>5. ASSUME NEW i \in 1 .. Len(q) + 1 PROVE x[i] = z[i]
  <2>1. CASE i = Len(q) + 1
    BY <1>1, <1>3, <1>4, <2>1
  <2>2. CASE i # Len(q) + 1
    <3>1. i \in 1 .. Len(q)
      BY <1>2, <2>2
    <3> QED BY <1>1, <1>3, <1>4, <3>1
  <2> QED BY <2>1, <2>2
<1>6. x = z
  BY <1>3, <1>4, <1>5, SeqEqual
<1> QED BY <1>6 DEF x, z, q1

LEMMA AtsPut ==
  ASSUME NEW q \in Seq(Entry), NEW e \in Entry, NEW k \in 1 .. Len(q)
  PROVE  AtsOf([q EXCEPT ![k] = e]) = [AtsOf(q) EXCEPT ![k] = e.at]
<1> DEFINE q1 == [q EXCEPT ![k] = e]
           x == AtsOf(q1)
           z == [AtsOf(q) EXCEPT ![k] = e.at]
<1>1. /\ q1 \in Seq(Entry) /\ Len(q1) = Len(q)
      /\ \A i \in 1 .. Len(q) : q1[i] = IF i = k THEN e ELSE q[i]
  BY ExceptSeq
<1>2. e.at \in Nat /\ AtsOf(q) \in Seq(Nat) /\ Len(AtsOf(q)) = Len(q) /\ Len(q) \in Nat
      /\ \A i \in 1 .. Len(q) : AtsOf(q)[i] = q[i].at
  BY AtsFacts DEF Entry
<1>3. /\ z \in Seq(Nat) /\ Len(z) = Len(q)
      /\ \A i \in 1 .. Len(q) : z[i] = IF i = k THEN e.at ELSE q[i].at
  BY <1>2, ExceptSeq
<1> HIDE DEF q1
<1>4. x \in Seq(Nat) /\ Len(x) = Len(q) /\ \A i \in 1 .. Len(q) : x[i] = q1[i].at
  BY <1>1, AtsFacts
<1> HIDE DEF x, z
<1>5. Len(x) = Len(z) /\ \A i \in 1 .. Len(x) : x[i] = z[i]
  BY <1>1, <1>3, <1>4
<1>6. x = z
  BY <1>3, <1>4, <1>5, SeqEqual
<1> QED BY <1>6 DEF x, z, q1

LEMMA AtsTake ==
  ASSUME NEW q \in Seq(Entry), q # <<>>
  PROVE  AtsOf(q) = <<Head(q).at>> \o AtsOf(Tail(q))
<1> DEFINE q1 == Tail(q)
           y == AtsOf(q1)
           h == <<Head(q).at>>
           z == h \o y
           x == AtsOf(q)
<1>1. /\ q1 \in Seq(Entry) /\ Len(q1) = Len(q) - 1 /\ Len(q) \in Nat \ {0}
      /\ \A i \in 1 .. Len(q) - 1 : q1[i] = q[i + 1]
      /\ Head(q) = q[1] /\ q[1] \in Entry
  BY TailFacts
<1>2. h \in Seq(Nat) /\ Len(h) = 1 /\ h[1] = q[1].at
  BY <1>1 DEF Entry
<1> HIDE DEF q1, h
<1>3. y \in Seq(Nat) /\ Len(y) = Len(q) - 1 /\ \A i \in 1 .. Len(q) - 1 : y[i] = q1[i].at
  BY <1>1, AtsFacts
<1> HIDE DEF y
<1>4. /\ z \in Seq(Nat) /\ Len(z) = Len(h) + Len(y)
      /\ \A i \in 1 .. Len(h) + Len(y) : z[i] = IF i <= Len(h) THEN h[i] ELSE y[i - Len(h)]
  BY <1>2, <1>3, ConcatProperties
<1>5. x \in Seq(Nat) /\ Len(x) = Len(q) /\ \A i \in 1 .. Len(q) : x[i] = q[i].at
  BY AtsFacts
<1> HIDE DEF x, z
<1>6. ASSUME NEW i \in 1 .. Len(q) PROVE x[i] = z[i]
  <2>1. i \in 1 .. Len(h) + Len(y)
    BY <1>1, <1>2, <1>3
  <2>2. CASE i = 1
    BY <1>2, <1>4, <1>5, <2>1, <2>2
  <2>3. CASE i # 1
    <3>1. i - 1 \in 1 .. Len(q) - 1 /\ (i - 1) + 1 = i /\ ~ (i <= 1)
      BY <1>1, <2>3
    <3>2. z[i] = y[i - 1]
      BY <1>2, <1>4, <2>1, <3>1
    <3>3. y[i - 1] = q1[i - 1].at /\ q1[i - 1] = q[i]
      BY <1>1, <1>3, <3>1
    <3> QED BY <1>5, <3>2, <3>3
  <2> QED BY <2>2, <2>3
<1>7. x = z
  BY <1>1, <1>2, <1>3, <1>4, <1>5, <1>6, SeqEqual
<1> QED BY <1>7 DEF x, z, y, h, q1

LEMMA HeadTail ==
  ASSUME NEW b \in Seq(Nat), b # <<>>
  PROVE  b = <<Head(b)>> \o Tail(b)
<1>1. 1 \in 1 .. Len(b) /\ Len(b) \in 1 .. Len(b) /\ Head(b) = b[1]
  BY TailFacts
<1>2. SubSeq(b, 1, Len(b)) = <<b[1]>> \o SubSeq(b, 1 + 1, Len(b))
  BY <1>1, SubSeqRecursiveFirst
<1>3. SubSeq(b, 1, Len(b)) = b /\ Tail(b) = SubSeq(b, 2, Len(b))
  BY SubSeqFull, TailIsSubSeq
<1> QED BY <1>1, <1>2, <1>3

LEMMA Assoc == \A x, y, z \in Seq(Nat) : (x \o y) \o z = x \o (y \o z)
<1> SUFFICES ASSUME NEW x \in Seq(Nat), NEW y \in Seq(Nat), NEW z \in Seq(Nat)
             PROVE  (x \o y) \o z = x \o (y \o z)
  OBVIOUS
<1> QED BY ConcatAssociative, SMTT(30)

LEMMA JoinTake ==
  ASSUME NEW a \in Seq(Nat), NEW b \in Seq(Nat), NEW q \in Seq(Entry), b # <<>>
  PROVE  Join(Append(a, Head(b)), Tail(b), q) = Join(a, b, q)
<1>1. Head(b) \in Nat /\ Tail(b) \in Seq(Nat) /\ <<Head(b)>> \in Seq(Nat)
  BY TailFacts
<1>2. Append(a, Head(b)) = a \o <<Head(b)>>
  BY <1>1, AppendIsConcat
<1>3. (a \o <<Head(b)>>) \o Tail(b) = a \o (<<Head(b)>> \o Tail(b))
  <2> DEFINE h == <<Head(b)>>
             r == Tail(b)
  <2>1. h \in Seq(Nat) /\ r \in Seq(Nat)
    BY <1>1
  <2> HIDE DEF h, r
  <2> DEFINE P(x, y, z) == (x \o y) \o z = x \o (y \o z)
  <2>2. \A x, y, z \in Seq(Nat) : P(x, y, z)
    BY Assoc
  <2> HIDE DEF P
  <2>3. P(a, h, r)
    BY <2>1, <2>2
  <2> QED BY <2>3 DEF h, r, P
<1>4. b = <<Head(b)>> \o Tail(b)
  BY HeadTail
<1>5. Append(a, Head(b)) \o Tail(b) = a \o b
  BY <1>2, <1>3, <1>4
<1> QED BY <1>5 DEF Join

LEMMA JoinPull ==
  ASSUME NEW a \in Seq(Nat), NEW q \in Seq(Entry), q # <<>>
  PROVE  Join(Append(a, Head(q).at), <<>>, Tail(q)) = Join(a, <<>>, q)
<1>1. /\ Head(q).at \in Nat /\ <<Head(q).at>> \in Seq(Nat) /\ Tail(q) \in Seq(Entry)
  <2>1. Head(q) \in Entry /\ Tail(q) \in Seq(Entry)
    BY TailFacts
  <2> QED BY <2>1 DEF Entry
<1>2. AtsOf(Tail(q)) \in Seq(Nat) /\ AtsOf(q) \in Seq(Nat)
  BY <1>1, AtsFacts
<1>3. /\ Append(a, Head(q).at) = a \o <<Head(q).at>>
      /\ Append(a, Head(q).at) \in Seq(Nat)
  BY <1>1, AppendIsConcat, AppendProperties
<1>4. Append(a, Head(q).at) \o <<>> = Append(a, Head(q).at) /\ a \o <<>> = a
  BY <1>3, ConcatEmptySeq
<1>5. (a \o <<Head(q).at>>) \o AtsOf(Tail(q)) = a \o (<<Head(q).at>> \o AtsOf(Tail(q)))
  BY <1>1, <1>2, ConcatAssociative
<1> QED BY <1>3, <1>4, <1>5, AtsTake DEF Join

LEMMA AppendConcat ==
  \A p, c \in Seq(Nat) : \A v \in Nat : p \o Append(c, v) = Append(p \o c, v)
<1> SUFFICES ASSUME NEW p \in Seq(Nat), NEW c \in Seq(Nat), NEW v \in Nat
             PROVE  p \o Append(c, v) = Append(p \o c, v)
  OBVIOUS
<1>1. <<v>> \in Seq(Nat) /\ Append(c, v) = c \o <<v>>
  BY AppendIsConcat
<1>2. p \o c \in Seq(Nat)
  BY ConcatProperties
<1>3. Append(p \o c, v) = (p \o c) \o <<v>>
  BY <1>2, AppendIsConcat
<1>4. (p \o c) \o <<v>> = p \o (c \o <<v>>)
  BY <1>1, ConcatAssociative
<1> QED BY <1>1, <1>3, <1>4

LEMMA JoinAdd ==
  ASSUME NEW a \in Seq(Nat), NEW b \in Seq(Nat), NEW q \in Seq(Entry), NEW e \in Entry
  PROVE  Join(a, b, Append(q, e)) = Append(Join(a, b, q), e.at)
<1>1. a \o b \in Seq(Nat)
  BY ConcatProperties
<1>2. AtsOf(q) \in Seq(Nat)
  BY AtsFacts
<1>3. e.at \in Nat
  BY DEF Entry
<1>4. (a \o b) \o Append(AtsOf(q), e.at) = Append((a \o b) \o AtsOf(q), e.at)
  BY <1>1, <1>2, <1>3, AppendConcat
<1> QED BY <1>4, AtsAdd DEF Join

LEMMA ExceptConcat ==
  \A p, c \in Seq(Nat) : \A k \in 1 .. Len(c) : \A e \in Nat :
    /\ p \o [c EXCEPT ![k] = e] = [p \o c EXCEPT ![Len(p) + k] = e]
    /\ Len(p) + k \in 1 .. Len(p \o c)
    /\ (p \o c)[Len(p) + k] = c[k]
<1> SUFFICES ASSUME NEW p \in Seq(Nat), NEW c \in Seq(Nat), NEW k \in 1 .. Len(c), NEW e \in Nat
             PROVE  /\ p \o [c EXCEPT ![k] = e] = [p \o c EXCEPT ![Len(p) + k] = e]
                    /\ Len(p) + k \in 1 .. Len(p \o c)
                    /\ (p \o c)[Len(p) + k] = c[k]
  OBVIOUS
<1> DEFINE d == [c EXCEPT ![k] = e]
           x == p \o d
           y == p \o c
           z == [y EXCEPT ![Len(p) + k] = e]
<1>0. Len(p) \in Nat /\ Len(c) \in Nat
  BY LenProperties
<1>1. /\ d \in Seq(Nat) /\ Len(d) = Len(c)
      /\ \A i \in 1 .. Len(c) : d[i] = IF i = k THEN e ELSE c[i]
  BY ExceptSeq
<1> HIDE DEF d
<1>2. /\ x \in Seq(Nat) /\ Len(x) = Len(p) + Len(c)
      /\ \A i \in 1 .. Len(p) + Len(c) : x[i] = IF i <= Len(p) THEN p[i] ELSE d[i - Len(p)]
  <2>1. /\ x \in Seq(Nat) /\ Len(x) = Len(p) + Len(d)
        /\ \A i \in 1 .. Len(p) + Len(d) : x[i] = IF i <= Len(p) THEN p[i] ELSE d[i - Len(p)]
    BY <1>1, ConcatProperties
  <2> HIDE DEF x
  <2> QED BY <1>1, <2>1
<1>3. /\ y \in Seq(Nat) /\ Len(y) = Len(p) + Len(c)
      /\ \A i \in 1 .. Len(p) + Len(c) : y[i] = IF i <= Len(p) THEN p[i] ELSE c[i - Len(p)]
  BY ConcatProperties
<1>4. Len(p) + k \in 1 .. Len(p) + Len(c) /\ ~ (Len(p) + k <= Len(p)) /\ (Len(p) + k) - Len(p) = k
  BY <1>0
<1> HIDE DEF x, y
<1>5. /\ z \in Seq(Nat) /\ Len(z) = Len(p) + Len(c)
      /\ \A i \in 1 .. Len(p) + Len(c) : z[i] = IF i = Len(p) + k THEN e ELSE y[i]
  BY <1>3, <1>4, ExceptSeq
<1> HIDE DEF z
<1>6. ASSUME NEW i \in 1 .. Len(p) + Len(c) PROVE x[i] = z[i]
  <2>1. CASE i <= Len(p)
    <3>1. i # Len(p) + k
      BY <1>0, <2>1
    <3> QED BY <1>2, <1>3, <1>5, <2>1, <3>1
  <2>2. CASE ~ (i <= Len(p))
    <3>1. i - Len(p) \in 1 .. Len(c) /\ (i = Len(p) + k <=> i - Len(p) = k)
      BY <1>0, <2>2
    <3> QED BY <1>1, <1>2, <1>3, <1>5, <2>2, <3>1
  <2> QED BY <2>1, <2>2
<1>7. x = z
  BY <1>2, <1>5, <1>6, SeqEqual
<1>8. y[Len(p) + k] = c[k]
  BY <1>3, <1>4
<1> QED BY <1>3, <1>4, <1>7, <1>8 DEF x, y, z, d

LEMMA JoinPut ==
  \A a, b \in Seq(Nat) : \A q \in Seq(Entry) : \A k \in 1 .. Len(q) : \A e \in Entry :
    Join(a, b, [q EXCEPT ![k] = e]) = [Join(a, b, q) EXCEPT ![Len(a \o b) + k] = e.at]
<1> SUFFICES ASSUME NEW a \in Seq(Nat), NEW b \in Seq(Nat), NEW q \in Seq(Entry),
                    NEW k \in 1 .. Len(q), NEW e \in Entry
             PROVE  Join(a, b, [q EXCEPT ![k] = e])
                      = [Join(a, b, q) EXCEPT ![Len(a \o b) + k] = e.at]
  OBVIOUS
<1>1. a \o b \in Seq(Nat)
  BY ConcatProperties
<1>2. AtsOf(q) \in Seq(Nat) /\ k \in 1 .. Len(AtsOf(q)) /\ AtsOf(q)[k] = q[k].at
  BY AtsFacts
<1>3. e.at \in Nat
  BY DEF Entry
<1>4. /\ Join(a, b, [q EXCEPT ![k] = e]) = (a \o b) \o [AtsOf(q) EXCEPT ![k] = e.at]
      /\ Join(a, b, q) = (a \o b) \o AtsOf(q)
  BY AtsPut DEF Join
<1>5. /\ (a \o b) \o [AtsOf(q) EXCEPT ![k] = e.at]
            = [(a \o b) \o AtsOf(q) EXCEPT ![Len(a \o b) + k] = e.at]
      /\ Len(a \o b) + k \in 1 .. Len((a \o b) \o AtsOf(q))
      /\ ((a \o b) \o AtsOf(q))[Len(a \o b) + k] = AtsOf(q)[k]
  <2> DEFINE p == a \o b
             c == AtsOf(q)
             v == e.at
             P(r, d, j, w) == /\ r \o [d EXCEPT ![j] = w] = [r \o d EXCEPT ![Len(r) + j] = w]
                              /\ Len(r) + j \in 1 .. Len(r \o d)
                              /\ (r \o d)[Len(r) + j] = d[j]
  <2>1. \A r, d \in Seq(Nat) : \A j \in 1 .. Len(d) : \A w \in Nat : P(r, d, j, w)
    BY ExceptConcat
  <2>2. p \in Seq(Nat) /\ c \in Seq(Nat) /\ k \in 1 .. Len(c) /\ v \in Nat
    BY <1>1, <1>2, <1>3
  <2>3. P(p, c, k, v)
    <3> HIDE DEF p, c, v, P
    <3> QED BY <2>1, <2>2
  <2> QED BY <2>3
<1> QED BY <1>2, <1>4, <1>5

LEMMA ConcatMembers ==
  \A p, c \in Seq(Nat) : Members(p \o c) = Members(p) \cup Members(c)
<1> SUFFICES ASSUME NEW p \in Seq(Nat), NEW c \in Seq(Nat)
             PROVE  Members(p \o c) = Members(p) \cup Members(c)
  OBVIOUS
<1>1. p \o c \in Seq(Nat)
  BY ConcatProperties
<1>2. \A q \in Seq(Nat) : Members(q) = Range(q)
  BY RangeEquality DEF Members
<1>3. Range(p \o c) = Range(p) \cup Range(c)
  BY RangeConcatenation
<1> QED BY <1>1, <1>2, <1>3

\* A stream is a sequence of events the hub has passed.
LEMMA StreamFacts ==
  ASSUME TInv, NEW s \in Subscribers
  PROVE  /\ Stream(s) = Join(received[s], replay[s], queue[s])
         /\ Stream(s) \in Seq(Nat) /\ Len(Stream(s)) \in Nat
         /\ DOMAIN Stream(s) = 1 .. Len(Stream(s))
         /\ Members(Stream(s)) \subseteq 1 .. cursor
         /\ received[s] \in Seq(Nat) /\ replay[s] \in Seq(Nat) /\ queue[s] \in Seq(Entry)
<1>1. received[s] \in Seq(Nat) /\ replay[s] \in Seq(Nat) /\ queue[s] \in Seq(Entry)
  BY DEF TInv, TypeOK
<1>2. Stream(s) = Join(received[s], replay[s], queue[s])
  BY DEF Stream, Join, AtsOf
<1> DEFINE a == received[s]
           b == replay[s]
           c == AtsOf(queue[s])
<1>3. c \in Seq(Nat) /\ Len(c) = Len(queue[s]) /\ \A i \in 1 .. Len(queue[s]) : c[i] = queue[s][i].at
  BY <1>1, AtsFacts
<1>4. Members(a) \subseteq 1 .. cursor /\ Members(b) \subseteq 1 .. cursor
  BY DEF TInv, HandedPassed, Members
<1>5. Members(c) \subseteq 1 .. cursor
  <2>1. \A i \in 1 .. Len(queue[s]) : queue[s][i].at \in 1 .. cursor
    BY DEF TInv, QueuedShown, TypeOK
  <2> QED BY <1>3, <2>1 DEF Members
<1>6. Stream(s) = (a \o b) \o c
  BY <1>2 DEF Join
<1> HIDE DEF a, b, c
<1>7. a \in Seq(Nat) /\ b \in Seq(Nat)
  BY <1>1 DEF a, b
<1>8. a \o b \in Seq(Nat) /\ Members(a \o b) = Members(a) \cup Members(b)
  BY <1>7, ConcatProperties, ConcatMembers
<1> DEFINE ab == a \o b
<1>9. ab \in Seq(Nat) /\ Members(ab) \subseteq 1 .. cursor
  BY <1>4, <1>8
<1> HIDE DEF ab
<1>10. ab \o c \in Seq(Nat) /\ Members(ab \o c) = Members(ab) \cup Members(c)
  BY <1>3, <1>9, ConcatProperties, ConcatMembers
<1>11. Stream(s) = ab \o c
  BY <1>6 DEF ab
<1>12. Stream(s) \in Seq(Nat) /\ Members(Stream(s)) \subseteq 1 .. cursor
  BY <1>5, <1>9, <1>10, <1>11
<1>13. DOMAIN Stream(s) = 1 .. Len(Stream(s)) /\ Len(Stream(s)) \in Nat
  <2> HIDE DEF TInv
  <2> QED BY <1>12, LenProperties
<1> QED BY <1>1, <1>2, <1>12, <1>13

LEMMA QuietStream ==
  ASSUME UNCHANGED subscription, NEW s \in Subscribers PROVE Stream(s)' = Stream(s)
BY DEF subscription, Stream

LEMMA ReceiveStream ==
  ASSUME TInv, NEW s \in Subscribers, Receive(s), NEW u \in Subscribers
  PROVE  Stream(u)' = Stream(u)
<1>1. /\ Stream(u) = Join(received[u], replay[u], queue[u])
      /\ Stream(u)' = Join(received'[u], replay'[u], queue'[u])
  BY DEF Stream, Join, AtsOf
<1>2. /\ received \in [Subscribers -> Seq(Nat)] /\ replay \in [Subscribers -> Seq(Nat)]
      /\ queue \in [Subscribers -> Seq(Entry)]
      /\ received[s] \in Seq(Nat) /\ replay[s] \in Seq(Nat) /\ queue[s] \in Seq(Entry)
  BY DEF TInv, TypeOK
<1>3. CASE u # s
  BY <1>1, <1>2, <1>3 DEF Receive
<1>4. CASE u = s
  <2>1. CASE /\ replay[s] # <<>>
             /\ received' = [received EXCEPT ![s] = Append(@, Head(replay[s]))]
             /\ replay' = [replay EXCEPT ![s] = Tail(@)] /\ UNCHANGED queue
    <3>1. /\ received'[s] = Append(received[s], Head(replay[s]))
          /\ replay'[s] = Tail(replay[s]) /\ queue'[s] = queue[s]
      BY <1>2, <2>1
    <3> QED BY <1>1, <1>2, <1>4, <2>1, <3>1, JoinTake
  <2>2. CASE /\ replay[s] = <<>> /\ queue[s] # <<>>
             /\ received' = [received EXCEPT ![s] = Append(@, Head(queue[s]).at)]
             /\ queue' = [queue EXCEPT ![s] = Tail(@)] /\ UNCHANGED replay
    <3>1. /\ received'[s] = Append(received[s], Head(queue[s]).at)
          /\ replay'[s] = <<>> /\ queue'[s] = Tail(queue[s])
      BY <1>2, <2>2
    <3> QED BY <1>1, <1>2, <1>4, <2>2, <3>1, JoinPull
  <2> QED BY <2>1, <2>2 DEF Receive
<1> QED BY <1>3, <1>4

LEMMA SubscribeStream ==
  ASSUME TInv, NEW s \in Subscribers, NEW n \in 0 .. MaxLog, Subscribe(s, n), NEW u \in Subscribers
  PROVE  Stream(u)' = IF u = s THEN Replay(n) ELSE Stream(u)
<1>1. /\ Stream(u) = Join(received[u], replay[u], queue[u])
      /\ Stream(u)' = Join(received'[u], replay'[u], queue'[u])
  BY DEF Stream, Join, AtsOf
<1>2. /\ replay' = [replay EXCEPT ![s] = Replay(n)] /\ UNCHANGED <<received, queue>>
      /\ status[s] = "new" /\ n \in Nat
  BY DEF Subscribe
<1>3. received[s] = <<>> /\ queue[s] = <<>> /\ replay \in [Subscribers -> Seq(Nat)]
  BY <1>2 DEF TInv, NewIsEmpty, TypeOK
<1>4. CASE u # s
  BY <1>1, <1>2, <1>3, <1>4
<1>5. CASE u = s
  <2>1. Stream(s)' = Join(<<>>, Replay(n), <<>>)
    BY <1>1, <1>2, <1>3, <1>5
  <2>2. AtsOf(<<>>) = <<>>
    BY DEF AtsOf
  <2>3. Replay(n) \in Seq(Nat)
    BY <1>2, ReplayFacts
  <2>4. <<>> \o Replay(n) = Replay(n) /\ Replay(n) \o <<>> = Replay(n)
    BY <2>3, ConcatEmptySeq
  <2> QED BY <1>5, <2>1, <2>2, <2>4 DEF Join
<1> QED BY <1>4, <1>5

LEMMA EndStream ==
  ASSUME TInv, NEW s \in Subscribers, NEW how, End(s, how), NEW u \in Subscribers
  PROVE  Stream(u)' = IF u = s THEN <<>> ELSE Stream(u)
<1>1. /\ Stream(u) = Join(received[u], replay[u], queue[u])
      /\ Stream(u)' = Join(received'[u], replay'[u], queue'[u])
  BY DEF Stream, Join, AtsOf
<1>2. /\ received'[u] = IF u = s THEN <<>> ELSE received[u]
      /\ replay'[u] = IF u = s THEN <<>> ELSE replay[u]
      /\ queue'[u] = IF u = s THEN <<>> ELSE queue[u]
  BY DEF End, TInv, TypeOK
<1>3. Join(<<>>, <<>>, <<>>) = <<>>
  <2>1. AtsOf(<<>>) = <<>>
    BY DEF AtsOf
  <2>2. <<>> \o <<>> = <<>>
    OBVIOUS
  <2> QED BY <2>1, <2>2 DEF Join
<1>4. CASE u = s
  BY <1>1, <1>2, <1>3, <1>4
<1>5. CASE u # s
  BY <1>1, <1>2, <1>5
<1> QED BY <1>4, <1>5

\* The k-th event of the stream is the i-th queued entry.
Place(s, i) == Len(received[s] \o replay[s]) + i

LEMMA PlaceFacts ==
  ASSUME TInv, NEW s \in Subscribers
  PROVE  /\ \A i \in 1 .. Len(queue[s]) : Place(s, i) \in 1 .. Len(Stream(s))
                                      /\ Stream(s)[Place(s, i)] = queue[s][i].at
         /\ \A i \in 1 .. Len(queue[s]) : \A k \in 1 .. Len(Stream(s)) :
              k > Place(s, i) => \E j \in 1 .. Len(queue[s]) : j > i /\ k = Place(s, j)
<1> DEFINE p == received[s] \o replay[s]
           c == AtsOf(queue[s])
           x == Stream(s)
<1>1. /\ received[s] \in Seq(Nat) /\ replay[s] \in Seq(Nat) /\ queue[s] \in Seq(Entry)
      /\ Stream(s) = Join(received[s], replay[s], queue[s])
  BY StreamFacts
<1>2. p \in Seq(Nat) /\ Len(p) \in Nat
  BY <1>1, ConcatProperties, LenProperties
<1>3. c \in Seq(Nat) /\ Len(c) = Len(queue[s]) /\ Len(c) \in Nat
      /\ \A i \in 1 .. Len(queue[s]) : c[i] = queue[s][i].at
  BY <1>1, AtsFacts
<1>4. x = p \o c
  BY <1>1 DEF Join
<1>5. \A i : Place(s, i) = Len(p) + i
  BY DEF Place
<1> HIDE DEF p, c, x
<1>6. Len(x) = Len(p) + Len(c)
      /\ \A i \in 1 .. Len(p) + Len(c) : x[i] = IF i <= Len(p) THEN p[i] ELSE c[i - Len(p)]
  <2>1. /\ Len(p \o c) = Len(p) + Len(c)
        /\ \A i \in 1 .. Len(p) + Len(c) :
             (p \o c)[i] = IF i <= Len(p) THEN p[i] ELSE c[i - Len(p)]
    BY <1>2, <1>3, ConcatProperties, ZenonT(30)
  <2> QED BY <1>4, <2>1
<1>7. ASSUME NEW i \in 1 .. Len(c)
      PROVE  Len(p) + i \in 1 .. Len(x) /\ x[Len(p) + i] = c[i]
  <2>1. Len(p) + i \in 1 .. Len(p) + Len(c) /\ ~ (Len(p) + i <= Len(p)) /\ (Len(p) + i) - Len(p) = i
    BY <1>2, <1>3
  <2> QED BY <1>6, <2>1
<1>8. ASSUME NEW i \in 1 .. Len(c), NEW k \in 1 .. Len(x), k > Len(p) + i
      PROVE  \E j \in 1 .. Len(c) : j > i /\ k = Len(p) + j
  <2>1. k - Len(p) \in 1 .. Len(c) /\ k - Len(p) > i /\ k = Len(p) + (k - Len(p))
    BY <1>2, <1>3, <1>6, <1>8
  <2> QED BY <2>1
<1>9. \A i \in 1 .. Len(queue[s]) : Place(s, i) \in 1 .. Len(x) /\ x[Place(s, i)] = queue[s][i].at
  <2> SUFFICES ASSUME NEW i \in 1 .. Len(queue[s])
               PROVE  Place(s, i) \in 1 .. Len(x) /\ x[Place(s, i)] = queue[s][i].at
    OBVIOUS
  <2>1. i \in 1 .. Len(c)
    BY <1>3
  <2> QED BY <1>3, <1>5, <1>7, <2>1
<1>10. \A i \in 1 .. Len(queue[s]) : \A k \in 1 .. Len(x) :
         k > Place(s, i) => \E j \in 1 .. Len(queue[s]) : j > i /\ k = Place(s, j)
  <2> SUFFICES ASSUME NEW i \in 1 .. Len(queue[s]), NEW k \in 1 .. Len(x), k > Place(s, i)
               PROVE  \E j \in 1 .. Len(queue[s]) : j > i /\ k = Place(s, j)
    OBVIOUS
  <2>1. i \in 1 .. Len(c) /\ k > Len(p) + i
    BY <1>3, <1>5
  <2>2. PICK j \in 1 .. Len(c) : j > i /\ k = Len(p) + j
    BY <1>8, <2>1
  <2> QED BY <1>3, <1>5, <2>2
<1> QED BY <1>9, <1>10 DEF x

\* What each of the four does to the streams.
LEMMA DeliverStream ==
  ASSUME TInv, NEW f \in Fibers, NEW s \in Subscribers, Deliver(f, s)
  PROVE  /\ \A u \in Subscribers : u # s => Stream(u)' = Stream(u)
         /\ status[s] # "open" => Stream(s)' = Stream(s)
         /\ Overflow(s) => Stream(s)' = received[s] \o replay[s]
         /\ Added(s, carried[f]) => Stream(s)' = Append(Stream(s), carried[f])
         /\ \A i \in 1 .. Len(queue[s]) : Replaced(s, i, carried[f]) =>
              Stream(s)' = [Stream(s) EXCEPT ![Place(s, i)] = carried[f]]
<1> DEFINE e == carried[f]
           x == [at |-> e, key |-> KeyOf(s, e)]
<1>1. \A u \in Subscribers :
        /\ Stream(u) = Join(received[u], replay[u], queue[u])
        /\ Stream(u)' = Join(received'[u], replay'[u], queue'[u])
  BY DEF Stream, Join, AtsOf
<1>2. /\ UNCHANGED <<received, replay>> /\ log[e] \in Kinds \ {Elsewhere} /\ e \in shown
      /\ \/ status[s] # "open" /\ UNCHANGED <<status, queue, epoch>>
         \/ status[s] = "open" /\ Overflow(s)
         \/ status[s] = "open" /\ Added(s, e)
         \/ status[s] = "open" /\ \E i \in 1 .. Len(queue[s]) : Replaced(s, i, e)
  BY DeliverCases
<1>3. /\ queue \in [Subscribers -> Seq(Entry)] /\ received[s] \in Seq(Nat)
      /\ replay[s] \in Seq(Nat) /\ queue[s] \in Seq(Entry)
  BY DEF TInv, TypeOK
<1>4. x \in Entry /\ x.at = e
  <2>1. e \in Nat
    BY <1>2 DEF TInv, TypeOK
  <2> QED BY <1>2, <2>1, KeyOfFits DEF Entry
<1> HIDE DEF e, x
<1>5. \A u \in Subscribers : u # s => queue'[u] = queue[u]
  BY <1>2, <1>3 DEF Overflow, Added, Enqueue, Replaced
<1>6. \A u \in Subscribers : u # s => Stream(u)' = Stream(u)
  BY <1>1, <1>2, <1>5
<1>7. ASSUME status[s] # "open" PROVE Stream(s)' = Stream(s)
  BY <1>1, <1>2, <1>7
<1>8. ASSUME Overflow(s) PROVE Stream(s)' = received[s] \o replay[s]
  <2>1. queue'[s] = <<>>
    BY <1>3, <1>8 DEF Overflow
  <2>2. AtsOf(<<>>) = <<>>
    BY DEF AtsOf
  <2>3. received[s] \o replay[s] \in Seq(Nat)
    BY <1>3, ConcatProperties
  <2>4. (received[s] \o replay[s]) \o <<>> = received[s] \o replay[s]
    BY <2>3, ConcatEmptySeq
  <2> QED BY <1>1, <1>2, <2>1, <2>2, <2>4 DEF Join
<1>9. ASSUME Added(s, e) PROVE Stream(s)' = Append(Stream(s), e)
  <2>1. queue' = [queue EXCEPT ![s] = Append(queue[s], x)]
    BY <1>9 DEF Added, Enqueue, x
  <2>2. queue'[s] = Append(queue[s], x)
    BY <1>3, <2>1
  <2>3. Join(received[s], replay[s], Append(queue[s], x))
          = Append(Join(received[s], replay[s], queue[s]), x.at)
    BY <1>3, <1>4, JoinAdd
  <2> QED BY <1>1, <1>2, <1>4, <2>2, <2>3
<1>10. ASSUME NEW i \in 1 .. Len(queue[s]), Replaced(s, i, e)
       PROVE  Stream(s)' = [Stream(s) EXCEPT ![Place(s, i)] = e]
  <2>1. queue' = [queue EXCEPT ![s] = [queue[s] EXCEPT ![i] = x]]
    BY <1>10 DEF Replaced, x
  <2>2. queue'[s] = [queue[s] EXCEPT ![i] = x]
    BY <1>3, <2>1
  <2>3. Join(received[s], replay[s], [queue[s] EXCEPT ![i] = x])
          = [Join(received[s], replay[s], queue[s]) EXCEPT ![Place(s, i)] = x.at]
    <3> DEFINE P(a, b, q, k, y) == Join(a, b, [q EXCEPT ![k] = y])
                 = [Join(a, b, q) EXCEPT ![Len(a \o b) + k] = y.at]
    <3>1. \A a, b \in Seq(Nat) : \A q \in Seq(Entry) : \A k \in 1 .. Len(q) : \A y \in Entry :
            P(a, b, q, k, y)
      BY JoinPut
    <3>2. P(received[s], replay[s], queue[s], i, x)
      <4> HIDE DEF P
      <4> QED BY <1>3, <1>4, <3>1
    <3> QED BY <3>2 DEF Place
  <2> QED BY <1>1, <1>2, <1>4, <2>2, <2>3
<1> QED BY <1>6, <1>7, <1>8, <1>9, <1>10 DEF e
-----------------------------------------------------------------------------
(* No event twice: an event on its way to a subscriber is not in its       *)
(* stream yet, and no other fiber carries it.                              *)

Distinct(q) == \A i, j \in 1 .. Len(q) : q[i] = q[j] => i = j

Once == \A s \in Subscribers : Distinct(Stream(s))

Apart == \A f \in Fibers : \A s \in targets[f] : carried[f] \notin Members(Stream(s))

Alone ==
  \A f, g \in Fibers : f # g =>
    \A s \in Subscribers : s \in targets[f] /\ s \in targets[g] => carried[f] # carried[g]

NInv == TInv /\ Once /\ Apart /\ Alone

LEMMA DistinctAppend ==
  \A q \in Seq(Nat) : \A e \in Nat :
    Distinct(q) /\ e \notin Members(q) => Distinct(Append(q, e))
<1> SUFFICES ASSUME NEW q \in Seq(Nat), NEW e \in Nat, Distinct(q), e \notin Members(q)
             PROVE  Distinct(Append(q, e))
  OBVIOUS
<1> DEFINE z == Append(q, e)
<1>1. /\ Len(z) = Len(q) + 1 /\ Len(q) \in Nat /\ z[Len(q) + 1] = e
      /\ \A i \in 1 .. Len(q) : z[i] = q[i] /\ q[i] # e
  BY AppendProperties, LenProperties DEF Members
<1> HIDE DEF z
<1>2. ASSUME NEW i \in 1 .. Len(z), NEW j \in 1 .. Len(z), z[i] = z[j] PROVE i = j
  <2>1. i \in 1 .. Len(q) \/ i = Len(q) + 1
    BY <1>1
  <2>2. j \in 1 .. Len(q) \/ j = Len(q) + 1
    BY <1>1
  <2> QED BY <1>1, <1>2, <2>1, <2>2 DEF Distinct
<1>3. Distinct(z)
  BY <1>2 DEF Distinct
<1> QED BY <1>3 DEF z

\* Putting v at j adds v and removes at most what was there.
LEMMA PutFacts ==
  \A q \in Seq(Nat) : \A k \in 1 .. Len(q) : \A e \in Nat :
    /\ [q EXCEPT ![k] = e] \in Seq(Nat)
    /\ Len([q EXCEPT ![k] = e]) = Len(q)
    /\ \A i \in 1 .. Len(q) : [q EXCEPT ![k] = e][i] = IF i = k THEN e ELSE q[i]
    /\ e \in Members([q EXCEPT ![k] = e])
    /\ Members([q EXCEPT ![k] = e]) \subseteq Members(q) \cup {e}
    /\ Members(q) \subseteq Members([q EXCEPT ![k] = e]) \cup {q[k]}
    /\ Distinct(q) /\ e \notin Members(q) => Distinct([q EXCEPT ![k] = e])
<1> SUFFICES ASSUME NEW q \in Seq(Nat), NEW k \in 1 .. Len(q), NEW e \in Nat
             PROVE
    /\ [q EXCEPT ![k] = e] \in Seq(Nat)
    /\ Len([q EXCEPT ![k] = e]) = Len(q)
    /\ \A i \in 1 .. Len(q) : [q EXCEPT ![k] = e][i] = IF i = k THEN e ELSE q[i]
    /\ e \in Members([q EXCEPT ![k] = e])
    /\ Members([q EXCEPT ![k] = e]) \subseteq Members(q) \cup {e}
    /\ Members(q) \subseteq Members([q EXCEPT ![k] = e]) \cup {q[k]}
    /\ Distinct(q) /\ e \notin Members(q) => Distinct([q EXCEPT ![k] = e])
  OBVIOUS
<1> DEFINE z == [q EXCEPT ![k] = e]
<1>1. /\ z \in Seq(Nat) /\ Len(z) = Len(q)
      /\ \A i \in 1 .. Len(q) : z[i] = IF i = k THEN e ELSE q[i]
  BY ExceptSeq
<1> HIDE DEF z
<1>2. e \in Members(z) /\ Members(z) \subseteq Members(q) \cup {e}
      /\ Members(q) \subseteq Members(z) \cup {q[k]}
  <2>1. e \in Members(z)
    BY <1>1 DEF Members
  <2>2. ASSUME NEW i \in 1 .. Len(q) PROVE z[i] \in Members(q) \cup {e}
    BY <1>1 DEF Members
  <2>3. ASSUME NEW i \in 1 .. Len(q) PROVE q[i] \in Members(z) \cup {q[k]}
    BY <1>1 DEF Members
  <2>4. Members(z) \subseteq Members(q) \cup {e}
    BY <1>1, <2>2 DEF Members
  <2>5. Members(q) \subseteq Members(z) \cup {q[k]}
    BY <2>3 DEF Members
  <2> QED BY <2>1, <2>4, <2>5
<1>3. ASSUME Distinct(q), e \notin Members(q) PROVE Distinct(z)
  <2>1. \A i \in 1 .. Len(q) : q[i] # e
    BY <1>3 DEF Members
  <2> QED BY <1>1, <1>3, <2>1 DEF Distinct
<1> QED BY <1>1, <1>2, <1>3 DEF z

LEMMA IncreasingDistinct ==
  \A q \in Seq(Nat) : Increasing(q) => Distinct(q)
<1> SUFFICES ASSUME NEW q \in Seq(Nat), Increasing(q),
                    NEW i \in 1 .. Len(q), NEW j \in 1 .. Len(q), q[i] = q[j]
             PROVE  i = j
  BY DEF Distinct
<1>1. q[i] \in Nat /\ q[j] \in Nat /\ (i < j => q[i] < q[j]) /\ (j < i => q[j] < q[i])
  BY ElementOfSeq DEF Increasing
<1> QED BY <1>1

LEMMA PrefixFacts ==
  \A p, c \in Seq(Nat) : Distinct(p \o c) => Distinct(p)
<1> SUFFICES ASSUME NEW p \in Seq(Nat), NEW c \in Seq(Nat), Distinct(p \o c)
             PROVE  Distinct(p)
  OBVIOUS
<1> DEFINE z == p \o c
<1>1. /\ Len(z) = Len(p) + Len(c) /\ Len(p) \in Nat /\ Len(c) \in Nat
      /\ \A i \in 1 .. Len(p) + Len(c) : z[i] = IF i <= Len(p) THEN p[i] ELSE c[i - Len(p)]
  BY ConcatProperties, LenProperties
<1>2. Distinct(z)
  OBVIOUS
<1> HIDE DEF z
<1>3. ASSUME NEW i \in 1 .. Len(p), NEW j \in 1 .. Len(p), p[i] = p[j] PROVE i = j
  <2>1. i \in 1 .. Len(z) /\ j \in 1 .. Len(z) /\ z[i] = p[i] /\ z[j] = p[j]
    BY <1>1
  <2> QED BY <1>2, <1>3, <2>1 DEF Distinct
<1> QED BY <1>3 DEF Distinct

\* Every step leaves streams alone, but for at most one subscription.
LEMMA StreamMoves ==
  ASSUME TInv, NEW s \in Subscribers, NEW f \in Fibers, Deliver(f, s)
  PROVE  /\ \A u \in Subscribers : u # s => Stream(u)' = Stream(u)
         /\ \/ Stream(s)' = Stream(s)
            \/ status'[s] = "overflowed" /\ \E c \in Seq(Nat), p \in Seq(Nat) :
                 Stream(s) = p \o c /\ Stream(s)' = p
            \/ Stream(s)' = Append(Stream(s), carried[f])
            \/ \E k \in 1 .. Len(Stream(s)) : Stream(s)' = [Stream(s) EXCEPT ![k] = carried[f]]
<1>1. /\ \A u \in Subscribers : u # s => Stream(u)' = Stream(u)
      /\ status[s] # "open" => Stream(s)' = Stream(s)
      /\ Overflow(s) => Stream(s)' = received[s] \o replay[s]
      /\ Added(s, carried[f]) => Stream(s)' = Append(Stream(s), carried[f])
      /\ \A i \in 1 .. Len(queue[s]) : Replaced(s, i, carried[f]) =>
           Stream(s)' = [Stream(s) EXCEPT ![Place(s, i)] = carried[f]]
  BY DeliverStream
<1>2. \/ status[s] # "open"
      \/ Overflow(s)
      \/ Added(s, carried[f])
      \/ \E i \in 1 .. Len(queue[s]) : Replaced(s, i, carried[f])
  BY DeliverCases
<1>3. CASE Overflow(s)
  <2>1. /\ received[s] \in Seq(Nat) /\ replay[s] \in Seq(Nat) /\ queue[s] \in Seq(Entry)
        /\ Stream(s) = Join(received[s], replay[s], queue[s])
    BY StreamFacts
  <2>2. received[s] \o replay[s] \in Seq(Nat) /\ AtsOf(queue[s]) \in Seq(Nat)
    BY <2>1, ConcatProperties, AtsFacts
  <2>3. status'[s] = "overflowed"
    BY <1>3 DEF Overflow, TInv, TypeOK
  <2> QED BY <1>1, <1>3, <2>1, <2>2, <2>3 DEF Join
<1>4. CASE \E i \in 1 .. Len(queue[s]) : Replaced(s, i, carried[f])
  BY <1>1, <1>4, PlaceFacts
<1> QED BY <1>1, <1>2, <1>3, <1>4

LEMMA InitNInv == ASSUME Init PROVE NInv
<1>1. TInv
  BY InitTInv
<1>2. \A s \in Subscribers : Stream(s) = <<>>
  <2> SUFFICES ASSUME NEW s \in Subscribers PROVE Stream(s) = <<>>
    OBVIOUS
  <2>1. Stream(s) = Join(<<>>, <<>>, <<>>)
    BY StreamFacts, <1>1 DEF Init
  <2>2. AtsOf(<<>>) = <<>> /\ <<>> \o <<>> = <<>>
    BY DEF AtsOf
  <2> QED BY <2>1, <2>2 DEF Join
<1>3. Once
  BY <1>2 DEF Once, Distinct
<1>4. Apart /\ Alone
  BY DEF Init, Apart, Alone
<1> QED BY <1>1, <1>3, <1>4 DEF NInv

LEMMA NStep ==
  ASSUME NInv, TInv', [Next]_vars PROVE NInv'
<1> SUFFICES Once' /\ Apart' /\ Alone'
  BY DEF NInv
<1>0. TInv /\ Once /\ Apart /\ Alone
  BY DEF NInv
<1>1. ASSUME UNCHANGED <<subscription, carried, targets>> PROVE Once' /\ Apart' /\ Alone'
  <2>1. \A s \in Subscribers : Stream(s)' = Stream(s)
    BY <1>1 DEF subscription, Stream
  <2>2. Once'
    BY <1>0, <2>1 DEF Once, Distinct
  <2>3. Apart'
    <3> SUFFICES ASSUME NEW g \in Fibers, NEW s \in targets[g]
                 PROVE  carried[g] \notin Members(Stream(s)')
      BY <1>1 DEF Apart, Members
    <3>1. s \in Subscribers
      BY <1>0 DEF TInv, TypeOK
    <3> QED BY <1>0, <2>1, <3>1 DEF Apart
  <2>4. Alone'
    BY <1>0, <1>1 DEF Alone
  <2> QED BY <2>2, <2>3, <2>4
<1>2. ASSUME NEW f \in Fibers, PublishNext(f) PROVE Once' /\ Apart' /\ Alone'
  <2>1. UNCHANGED subscription /\ targets[f] = {}
    BY <1>2 DEF PublishNext
  <2>2. CASE ~ (Head(todo[f]) > cursor)
    BY <1>1, <1>2, <2>1, <2>2 DEF PublishNext
  <2>3. CASE Head(todo[f]) > cursor
    <3> DEFINE e == Head(todo[f])
               reached == {s \in Subscribers : status[s] = "open" /\ Routed(e)}
    <3>1. /\ targets' = [targets EXCEPT ![f] = reached]
          /\ carried' = [carried EXCEPT ![f] = IF targets'[f] = {} THEN 0 ELSE e]
      BY <1>2, <2>3 DEF PublishNext
    <3> HIDE DEF e
    <3>2. /\ targets'[f] = reached /\ (reached # {} => carried'[f] = e)
          /\ \A g \in Fibers : g # f => targets'[g] = targets[g] /\ carried'[g] = carried[g]
      BY <1>0, <3>1 DEF TInv, TypeOK
    <3>3. \A s \in Subscribers : Stream(s)' = Stream(s) /\ e \notin Members(Stream(s))
      <4> SUFFICES ASSUME NEW s \in Subscribers
                   PROVE  Stream(s)' = Stream(s) /\ e \notin Members(Stream(s))
        OBVIOUS
      <4>1. Members(Stream(s)) \subseteq 1 .. cursor
        BY <1>0, StreamFacts
      <4>2. cursor \in Nat /\ ~ (e <= cursor)
        <5>1. todo[f] \in Seq(Nat) /\ todo[f] # <<>> /\ cursor \in Nat
          BY <1>0, <1>2 DEF TInv, TypeOK, PublishNext
        <5>2. e \in Nat
          BY <5>1, TailFacts DEF e
        <5> QED BY <2>3, <5>1, <5>2 DEF e
      <4> QED BY <2>1, <4>1, <4>2, QuietStream
    <3>4. Once'
      BY <1>0, <3>3 DEF Once, Distinct
    <3>5. Apart'
      <4> SUFFICES ASSUME NEW g \in Fibers, NEW s \in targets'[g]
                   PROVE  carried'[g] \notin Members(Stream(s)')
        BY DEF Apart, Members
      <4>1. s \in Subscribers
        BY DEF TInv, TypeOK
      <4>2. CASE g = f
        BY <3>2, <3>3, <4>1, <4>2
      <4>3. CASE g # f
        BY <1>0, <3>2, <3>3, <4>1, <4>3 DEF Apart
      <4> QED BY <4>2, <4>3
    <3>6. Alone'
      <4> SUFFICES ASSUME NEW g \in Fibers, NEW h \in Fibers, g # h, NEW s \in Subscribers,
                          s \in targets'[g], s \in targets'[h]
                   PROVE  carried'[g] # carried'[h]
        BY DEF Alone
      <4>1. \A k \in Fibers : targets[k] # {} => carried[k] <= cursor /\ carried[k] \in Nat
        <5>1. \A d \in shown : d <= cursor /\ d \in Nat
          BY <1>0 DEF TInv, TypeOK
        <5>2. \A k \in Fibers : targets[k] # {} => carried[k] \in shown
          BY <1>0 DEF TInv, CarriedShown
        <5> QED BY <5>1, <5>2
      <4>2. cursor \in Nat /\ e \in Nat /\ e > cursor
        <5>1. todo[f] \in Seq(Nat) /\ todo[f] # <<>> /\ cursor \in Nat
          BY <1>0, <1>2 DEF TInv, TypeOK, PublishNext
        <5>2. e \in Nat
          BY <5>1, TailFacts DEF e
        <5> QED BY <2>3, <5>1, <5>2 DEF e
      <4>3. CASE g = f
        <5>1. carried'[g] = e /\ carried'[h] = carried[h] /\ targets[h] # {}
          BY <3>2, <4>3
        <5> QED BY <4>1, <4>2, <5>1
      <4>4. CASE h = f
        <5>1. carried'[h] = e /\ carried'[g] = carried[g] /\ targets[g] # {}
          BY <3>2, <4>4
        <5> QED BY <4>1, <4>2, <5>1
      <4>5. CASE g # f /\ h # f
        BY <1>0, <3>2, <4>5 DEF Alone
      <4> QED BY <4>3, <4>4, <4>5
    <3> QED BY <3>4, <3>5, <3>6
  <2> QED BY <2>2, <2>3
<1>3. ASSUME NEW f \in Fibers, NEW s \in Subscribers, Deliver(f, s)
      PROVE  Once' /\ Apart' /\ Alone'
  <2> DEFINE e == carried[f]
  <2>1. /\ s \in targets[f] /\ targets' = [targets EXCEPT ![f] = @ \ {s}]
        /\ \A g \in Fibers : targets'[g] # {} => carried'[g] = carried[g]
    BY <1>0, <1>3, DeliverCases
  <2>2. /\ \A g \in Fibers : targets'[g] \subseteq targets[g] /\ targets'[g] \subseteq Subscribers
        /\ s \notin targets'[f]
    BY <1>0, <2>1 DEF TInv, TypeOK
  <2>3. e \in Nat /\ e \notin Members(Stream(s)) /\ Distinct(Stream(s)) /\ Stream(s) \in Seq(Nat)
    BY <1>0, <2>1, StreamFacts DEF Apart, Once, TInv, TypeOK
  <2>4. \A u \in Subscribers : u # s => Stream(u)' = Stream(u)
    BY <1>0, <1>3, StreamMoves
  <2>5. Distinct(Stream(s)') /\ Members(Stream(s)') \subseteq Members(Stream(s)) \cup {e}
    <3>1. CASE Stream(s)' = Stream(s)
      BY <2>3, <3>1
    <3>2. CASE \E c \in Seq(Nat), p \in Seq(Nat) : Stream(s) = p \o c /\ Stream(s)' = p
      BY <2>3, <3>2, PrefixFacts, ConcatMembers
    <3>3. CASE Stream(s)' = Append(Stream(s), e)
      <4> HIDE DEF e
      <4>1. Distinct(Append(Stream(s), e))
        BY <2>3, DistinctAppend
      <4>2. Members(Append(Stream(s), e)) = Members(Stream(s)) \cup {e}
        BY <2>3, AppendFacts
      <4> QED BY <3>3, <4>1, <4>2
    <3>4. CASE \E k \in 1 .. Len(Stream(s)) : Stream(s)' = [Stream(s) EXCEPT ![k] = e]
      <4> HIDE DEF e
      <4>1. PICK k \in 1 .. Len(Stream(s)) : Stream(s)' = [Stream(s) EXCEPT ![k] = e]
        BY <3>4
      <4> DEFINE q == Stream(s)
                 P(r, j, v) ==
                   /\ Members([r EXCEPT ![j] = v]) \subseteq Members(r) \cup {v}
                   /\ Distinct(r) /\ v \notin Members(r) => Distinct([r EXCEPT ![j] = v])
      <4>2. \A r \in Seq(Nat) : \A j \in 1 .. Len(r) : \A v \in Nat : P(r, j, v)
        BY PutFacts
      <4>3. P(q, k, e)
        <5>1. q \in Seq(Nat) /\ k \in 1 .. Len(q) /\ e \in Nat
          BY <2>3
        <5> HIDE DEF P, q
        <5> QED BY <4>2, <5>1
      <4> QED BY <2>3, <4>1, <4>3
    <3> QED BY <1>0, <1>3, <3>1, <3>2, <3>3, <3>4, StreamMoves
  <2>6. Once'
    <3>1. \A u \in Subscribers : Distinct(Stream(u)')
      BY <1>0, <2>4, <2>5 DEF Once
    <3> QED BY <3>1 DEF Once, Distinct
  <2>7. Apart'
    <3> SUFFICES ASSUME NEW g \in Fibers, NEW u \in targets'[g]
                 PROVE  carried'[g] \notin Members(Stream(u)')
      BY DEF Apart, Members
    <3>1. u \in targets[g] /\ u \in Subscribers /\ carried'[g] = carried[g]
      BY <2>1, <2>2
    <3>2. carried[g] \notin Members(Stream(u))
      BY <1>0, <3>1 DEF Apart
    <3>3. CASE u = s
      <4>1. g # f
        BY <2>2, <3>3
      <4>2. carried[g] # e
        BY <1>0, <2>1, <3>1, <3>3, <4>1 DEF Alone
      <4> QED BY <2>5, <3>1, <3>2, <3>3, <4>2
    <3>4. CASE u # s
      BY <2>4, <3>1, <3>2, <3>4
    <3> QED BY <3>3, <3>4
  <2>8. Alone'
    BY <1>0, <2>1, <2>2 DEF Alone
  <2> QED BY <2>6, <2>7, <2>8
<1>4. ASSUME NEW s \in Subscribers, UNCHANGED <<carried, targets>>,
             \A u \in Subscribers : u # s => Stream(u)' = Stream(u),
             Distinct(Stream(s)'),
             \A f \in Fibers : s \in targets[f] =>
               Members(Stream(s)') \subseteq Members(Stream(s))
      PROVE  Once' /\ Apart' /\ Alone'
  <2>1. Once'
    <3>1. \A u \in Subscribers : Distinct(Stream(u)')
      BY <1>0, <1>4 DEF Once
    <3> QED BY <3>1 DEF Once, Distinct
  <2>2. Apart'
    <3> SUFFICES ASSUME NEW g \in Fibers, NEW u \in targets[g]
                 PROVE  carried[g] \notin Members(Stream(u)')
      BY <1>4 DEF Apart, Members
    <3>1. u \in Subscribers
      BY <1>0 DEF TInv, TypeOK
    <3> QED BY <1>0, <1>4, <3>1 DEF Apart
  <2>3. Alone'
    BY <1>0, <1>4 DEF Alone
  <2> QED BY <2>1, <2>2, <2>3
<1>5. ASSUME NEW s \in Subscribers, NEW n \in 0 .. MaxLog, Subscribe(s, n)
      PROVE  Once' /\ Apart' /\ Alone'
  <2>1. UNCHANGED <<carried, targets>> /\ status[s] = "new" /\ n \in Nat
    BY <1>5 DEF Subscribe, producers
  <2>2. \A f \in Fibers : s \notin targets[f]
    BY <1>0, <2>1 DEF TInv, NewIsEmpty
  <2>3. Distinct(Replay(n))
    BY <1>0, <2>1, ReplayFacts, IncreasingDistinct
  <2>4. \A u \in Subscribers : Stream(u)' = IF u = s THEN Replay(n) ELSE Stream(u)
    BY <1>0, <1>5, SubscribeStream
  <2> QED BY <1>4, <2>1, <2>2, <2>3, <2>4
<1>6. ASSUME NEW s \in Subscribers, Receive(s) PROVE Once' /\ Apart' /\ Alone'
  <2>1. UNCHANGED <<carried, targets>>
    BY <1>6 DEF Receive, producers
  <2>2. \A u \in Subscribers : Stream(u)' = Stream(u)
    BY <1>0, <1>6, ReceiveStream
  <2>3. Distinct(Stream(s)')
    BY <1>0, <2>2 DEF Once
  <2> QED BY <1>4, <2>1, <2>2, <2>3
<1>7. ASSUME NEW s \in Subscribers, NEW how \in {"failed", "closed"}, End(s, how)
      PROVE  Once' /\ Apart' /\ Alone'
  <2>1. UNCHANGED <<carried, targets>>
    BY <1>7 DEF End, producers
  <2>2. \A u \in Subscribers : Stream(u)' = IF u = s THEN <<>> ELSE Stream(u)
    BY <1>0, <1>7, EndStream
  <2>3. Distinct(<<>>) /\ Members(<<>>) = {}
    BY DEF Distinct, Members
  <2> QED BY <1>4, <2>1, <2>2, <2>3
<1>8. CASE \E kind \in Kinds : Store(kind)
  BY <1>1, <1>8 DEF Store, producers
<1>9. CASE Announce \/ PollRead \/ PollClaim \/ ListenClaim \/ UNCHANGED vars
  BY <1>1, <1>9 DEF Announce, PollRead, PollClaim, ListenClaim, vars, producers
<1> QED BY <1>2, <1>3, <1>5, <1>6, <1>7, <1>8, <1>9, StepCases

LEMMA NInvHolds == Spec => []NInv
<1>1. Init => NInv
  BY InitNInv
<1>2. NInv /\ TInv' /\ [Next]_vars => NInv'
  BY NStep
<1> QED BY <1>1, <1>2, TInvHolds, PTL DEF Spec

(***************************************************************************)
(* Whatever the producers and the scheduler do, and wherever a replay came *)
(* from, no subscription is handed the same event twice.                   *)
(***************************************************************************)
THEOREM NothingTwice == Spec => []NoEventTwice
<1>1. NInv => NoEventTwice
  <2> SUFFICES ASSUME NInv, NEW s \in Subscribers PROVE Distinct(Stream(s)) /\ DOMAIN Stream(s) = 1 .. Len(Stream(s))
    BY DEF NoEventTwice, Distinct
  <2> QED BY StreamFacts DEF NInv, Once
<1> QED BY <1>1, NInvHolds, PTL
-----------------------------------------------------------------------------
(* Without preemption a fiber publishes all it has claimed, and delivers   *)
(* each event everywhere, before anything else happens.                    *)

NoGap ==
  /\ \A f \in Fibers : targets[f] # {} => carried[f] = cursor
  /\ shown = 1 .. cursor
  /\ \A f \in Fibers : todo[f] # <<>> =>
       /\ Len(todo[f]) = tail - cursor
       /\ \A i \in 1 .. Len(todo[f]) : todo[f][i] = cursor + i
       /\ \A g \in Fibers : g # f => todo[g] = <<>>
  /\ (\A f \in Fibers : todo[f] = <<>>) => cursor = tail

Serial == ~preempts => NoGap

LEMMA InitSerial == ASSUME Init PROVE Serial
BY DEF Init, Serial, NoGap

LEMMA IdleNoGap ==
  ASSUME TInv, Serial, ~preempts, MayRun(Fibers)
  PROVE  /\ \A f \in Fibers : todo[f] = <<>> /\ targets[f] = {}
         /\ cursor = tail /\ shown = 1 .. cursor
BY DEF Serial, NoGap, MayRun, Busy

LEMMA SerialStep ==
  ASSUME TInv, Serial, [Next]_vars PROVE Serial'
<1> SUFFICES ASSUME ~preempts' PROVE NoGap'
  BY DEF Serial
<1>0. UNCHANGED preempts
  BY StepCases DEF Store, Announce, PollRead, PollClaim, ListenClaim, PublishNext, Deliver,
                   Subscribe, Receive, End, vars, store
<1>1. ~preempts /\ NoGap
  BY <1>0 DEF Serial
<1>2. /\ tail \in Nat /\ cursor \in Nat /\ cursor <= tail /\ heard \in Nat /\ heard <= tail
      /\ polled \in Nat /\ todo \in [Fibers -> Seq(Nat)] /\ carried \in [Fibers -> Nat]
      /\ targets \in [Fibers -> SUBSET Subscribers]
      /\ "poll" \in Fibers /\ "listen" \in Fibers
  BY DEF TInv, TypeOK, Bounded, Fibers
<1>3. ASSUME UNCHANGED <<tail, todo, carried, targets, hub>> PROVE NoGap'
  BY <1>1, <1>3 DEF NoGap, hub
<1>4. ASSUME PollClaim PROVE NoGap'
  <2>1. /\ \A f \in Fibers : todo[f] = <<>> /\ targets[f] = {}
        /\ cursor = tail /\ shown = 1 .. cursor
    BY <1>1, <1>4, IdleNoGap DEF PollClaim
  <2>2. /\ todo'["poll"] = Fresh /\ todo'["listen"] = <<>>
        /\ tail' = IF polled > tail THEN polled ELSE tail
        /\ UNCHANGED <<carried, targets, cursor, shown>>
    BY <1>2, <1>4, <2>1 DEF PollClaim, hub
  <2>3. /\ Len(Fresh) = IF tail < polled THEN polled - tail ELSE 0
        /\ Fresh \in Seq(Nat) /\ \A i \in 1 .. Len(Fresh) : Fresh[i] = tail + i
    BY <1>2, IntervalFacts DEF Fresh
  <2>4. tail < polled => Fresh # <<>>
    BY <1>2, <2>3
  <2>5. ~ (tail < polled) => Fresh = <<>>
    BY <1>2, <2>3
  <2>6. \A f \in Fibers : f = "poll" \/ f = "listen"
    BY DEF Fibers
  <2>7. ASSUME NEW f \in Fibers, todo'[f] # <<>>
        PROVE  /\ Len(todo'[f]) = tail' - cursor'
               /\ \A i \in 1 .. Len(todo'[f]) : todo'[f][i] = cursor' + i
               /\ \A g \in Fibers : g # f => todo'[g] = <<>>
    <3>1. f = "poll" /\ tail < polled
      BY <2>2, <2>5, <2>6, <2>7
    <3>2. tail' = polled /\ Len(Fresh) = tail' - cursor'
      BY <1>2, <2>1, <2>2, <2>3, <3>1
    <3> QED BY <2>1, <2>2, <2>3, <2>6, <3>1, <3>2
  <2>8. ASSUME \A f \in Fibers : todo'[f] = <<>> PROVE cursor' = tail'
    <3>1. ~ (tail < polled)
      BY <1>2, <2>2, <2>4, <2>8
    <3> QED BY <1>2, <2>1, <2>2, <3>1
  <2> QED BY <2>1, <2>2, <2>7, <2>8 DEF NoGap
<1>5. ASSUME ListenClaim PROVE NoGap'
  <2>1. /\ \A f \in Fibers : todo[f] = <<>> /\ targets[f] = {}
        /\ cursor = tail /\ shown = 1 .. cursor
    BY <1>1, <1>5, IdleNoGap DEF ListenClaim
  <2>2. heard' = heard + 1 /\ UNCHANGED <<carried, targets, cursor, shown>>
    BY <1>5 DEF ListenClaim, hub
  <2>3. CASE heard' <= tail
    BY <1>5, <2>1, <2>2, <2>3 DEF ListenClaim, NoGap
  <2>4. CASE ~ (heard' <= tail)
    <3>1. /\ tail' = tail + 1 /\ todo'["listen"] = <<tail + 1>> /\ todo'["poll"] = <<>>
      BY <1>2, <1>5, <2>1, <2>2, <2>4 DEF ListenClaim
    <3>2. \A f \in Fibers : f = "poll" \/ f = "listen"
      BY DEF Fibers
    <3>3. ASSUME NEW f \in Fibers, todo'[f] # <<>>
          PROVE  /\ Len(todo'[f]) = tail' - cursor'
                 /\ \A i \in 1 .. Len(todo'[f]) : todo'[f][i] = cursor' + i
                 /\ \A g \in Fibers : g # f => todo'[g] = <<>>
      <4>1. f = "listen"
        BY <3>1, <3>2, <3>3
      <4> DEFINE one == <<tail + 1>>
      <4>2. Len(one) = 1 /\ one[1] = tail + 1
        OBVIOUS
      <4>3. todo'[f] = one
        BY <3>1, <4>1
      <4> HIDE DEF one
      <4>4. tail' - cursor' = 1 /\ cursor' + 1 = tail + 1
        BY <1>2, <2>1, <2>2, <3>1
      <4>5. \A i \in 1 .. Len(one) : i = 1
        BY <4>2
      <4>6. \A g \in Fibers : g # f => todo'[g] = <<>>
        BY <3>1, <3>2, <4>1
      <4> QED BY <4>2, <4>3, <4>4, <4>5, <4>6
    <3>4. ~ \A f \in Fibers : todo'[f] = <<>>
      <4>1. <<tail + 1>> # <<>>
        OBVIOUS
      <4> QED BY <1>2, <3>1, <4>1
    <3> QED BY <2>1, <2>2, <3>3, <3>4 DEF NoGap
  <2> QED BY <2>3, <2>4
<1>6. ASSUME NEW f \in Fibers, PublishNext(f) PROVE NoGap'
  <2> DEFINE e == Head(todo[f])
             reached == {s \in Subscribers : status[s] = "open" /\ Routed(e)}
  <2>1. /\ todo[f] \in Seq(Nat) /\ todo[f] # <<>> /\ targets[f] = {}
        /\ todo' = [todo EXCEPT ![f] = Tail(@)] /\ tail' = tail
        /\ \A g \in Fibers : g # f => todo[g] = <<>> /\ targets[g] = {}
    BY <1>1, <1>2, <1>6 DEF PublishNext, MayRun, Busy
  <2>2. /\ e = todo[f][1] /\ 1 \in 1 .. Len(todo[f]) /\ Len(todo[f]) \in Nat
        /\ Tail(todo[f]) \in Seq(Nat) /\ Len(Tail(todo[f])) = Len(todo[f]) - 1
        /\ \A i \in 1 .. Len(todo[f]) - 1 :
             Tail(todo[f])[i] = todo[f][i + 1] /\ i + 1 \in 1 .. Len(todo[f])
    BY <2>1, TailFacts
  <2>3. /\ Len(todo[f]) = tail - cursor /\ shown = 1 .. cursor
        /\ \A i \in 1 .. Len(todo[f]) : todo[f][i] = cursor + i
    BY <1>1, <2>1 DEF NoGap
  <2>4. e = cursor + 1 /\ e > cursor
    BY <1>2, <2>2, <2>3
  <2>5. /\ cursor' = e /\ shown' = shown \cup {e}
        /\ targets' = [targets EXCEPT ![f] = reached]
        /\ carried' = [carried EXCEPT ![f] = IF targets'[f] = {} THEN 0 ELSE e]
    BY <1>6, <2>4 DEF PublishNext
  <2> HIDE DEF e
  <2>6. \A g \in Fibers : targets'[g] # {} => carried'[g] = cursor'
    <3> SUFFICES ASSUME NEW g \in Fibers, targets'[g] # {} PROVE carried'[g] = cursor'
      OBVIOUS
    <3>1. g = f
      BY <1>2, <2>1, <2>5
    <3> QED BY <1>2, <2>5, <3>1
  <2>7. shown' = 1 .. cursor'
    BY <1>2, <2>3, <2>4, <2>5
  <2>8. todo'[f] = Tail(todo[f]) /\ \A g \in Fibers : g # f => todo'[g] = <<>>
    BY <1>2, <2>1
  <2>9. /\ Len(Tail(todo[f])) = tail' - cursor'
        /\ \A i \in 1 .. Len(Tail(todo[f])) : Tail(todo[f])[i] = cursor' + i
    <3>1. Len(Tail(todo[f])) = tail' - cursor'
      BY <1>2, <2>1, <2>2, <2>3, <2>4, <2>5
    <3>2. ASSUME NEW i \in 1 .. Len(Tail(todo[f])) PROVE Tail(todo[f])[i] = cursor' + i
      <4>1. i \in 1 .. Len(todo[f]) - 1
        BY <2>2
      <4>2. Tail(todo[f])[i] = cursor + (i + 1)
        BY <2>2, <2>3, <4>1
      <4> QED BY <1>2, <2>4, <2>5, <4>1, <4>2
    <3> QED BY <3>1, <3>2
  <2>10. ASSUME \A g \in Fibers : todo'[g] = <<>> PROVE cursor' = tail'
    <3>1. Tail(todo[f]) = <<>>
      BY <2>8, <2>10
    <3>2. Len(Tail(todo[f])) = 0
      <4>1. \A q : q = <<>> => Len(q) = 0
        OBVIOUS
      <4> QED BY <3>1, <4>1
    <3>3. cursor' \in Nat /\ tail' \in Nat
      BY <1>2, <2>1, <2>4, <2>5
    <3>4. tail' - cursor' = 0
      BY <2>9, <3>2
    <3>5. \A a, b \in Nat : a - b = 0 => b = a
      OBVIOUS
    <3> QED BY <3>3, <3>4, <3>5
  <2>11. ASSUME NEW g \in Fibers, todo'[g] # <<>>
         PROVE  /\ Len(todo'[g]) = tail' - cursor'
                /\ \A i \in 1 .. Len(todo'[g]) : todo'[g][i] = cursor' + i
                /\ \A h \in Fibers : h # g => todo'[h] = <<>>
    <3>1. g = f
      BY <2>8, <2>11
    <3> QED BY <2>8, <2>9, <3>1
  <2> QED BY <2>6, <2>7, <2>10, <2>11 DEF NoGap
<1>7. ASSUME NEW f \in Fibers, NEW s \in Subscribers, Deliver(f, s) PROVE NoGap'
  <2>1. /\ targets' = [targets EXCEPT ![f] = @ \ {s}]
        /\ \A g \in Fibers : targets'[g] # {} => carried'[g] = carried[g]
        /\ UNCHANGED <<tail, todo, cursor, shown>>
    BY <1>7, DeliverCases DEF hub
  <2>2. \A g \in Fibers : targets'[g] \subseteq targets[g]
    BY <1>2, <2>1
  <2>3. \A g \in Fibers : targets'[g] # {} => carried'[g] = cursor'
    BY <1>1, <2>1, <2>2 DEF NoGap
  <2> QED BY <1>1, <2>1, <2>3 DEF NoGap
<1>8. CASE \/ \E kind \in Kinds : Store(kind)
           \/ Announce
           \/ PollRead
           \/ \E s \in Subscribers, n \in 0 .. MaxLog : Subscribe(s, n)
           \/ \E s \in Subscribers : Receive(s)
           \/ \E s \in Subscribers, how \in {"failed", "closed"} : End(s, how)
           \/ UNCHANGED vars
  BY <1>3, <1>8 DEF Store, Announce, PollRead, Subscribe, Receive, End, vars, producers
<1> QED BY <1>4, <1>5, <1>6, <1>7, <1>8, StepCases

-----------------------------------------------------------------------------
(* The ring holds every event shown since its oldest one.                  *)

Reaches ==
  ring # <<>> => \A d \in shown : d >= Head(ring) => d \in Members(ring)

LEMMA ReachesStep == ASSUME TInv, Reaches, [Next]_vars PROVE Reaches'
<1>1. ASSUME UNCHANGED hub PROVE Reaches'
  BY <1>1 DEF Reaches, hub, Members
<1>2. ASSUME NEW f \in Fibers, PublishNext(f) PROVE Reaches'
  <2>1. CASE ~ (Head(todo[f]) > cursor)
    BY <1>1, <1>2, <2>1 DEF PublishNext
  <2>2. CASE Head(todo[f]) > cursor
    <3> DEFINE e == Head(todo[f])
    <3>1. shown' = shown \cup {e} /\ ring' = PushRing(e)
      BY <1>2, <2>2 DEF PublishNext
    <3>2. todo[f] \in Seq(Nat) /\ todo[f] # <<>> /\ cursor \in Nat
      BY <1>2 DEF TInv, TypeOK, PublishNext
    <3>3. e \in Nat /\ e > cursor
      BY <2>2, <3>2, TailFacts
    <3> HIDE DEF e
    <3>4. /\ ring \in Seq(Nat) /\ Len(ring) <= RingMax /\ Increasing(ring)
          /\ Members(ring) \subseteq shown /\ \A d \in shown : d \in Nat /\ d <= cursor
      BY DEF TInv, TypeOK, RingShown
    <3>5. \A d \in Members(ring) : d < e
      BY <3>2, <3>3, <3>4
    <3>6. /\ e \in Members(PushRing(e))
          /\ \A d \in Members(ring) : d >= Head(PushRing(e)) => d \in Members(PushRing(e))
          /\ PushRing(e) \in Seq(Nat) /\ PushRing(e) # <<>> /\ Increasing(PushRing(e))
      BY <3>3, <3>4, <3>5, PushRingFacts
    <3>7. ring # <<>> => Head(ring) <= Head(PushRing(e))
      <4> SUFFICES ASSUME ring # <<>> PROVE Head(ring) <= Head(PushRing(e))
        OBVIOUS
      <4>1. Head(PushRing(e)) \in Members(ring) \cup {e}
        <5>1. Head(PushRing(e)) \in Members(PushRing(e))
          BY <3>6, TailFacts DEF Members
        <5> QED BY <3>3, <3>4, <3>5, <5>1, PushRingFacts
      <4>2. \A d \in Members(ring) : Head(ring) <= d
        <5>1. Head(ring) = ring[1] /\ 1 \in 1 .. Len(ring)
          BY <3>4, TailFacts
        <5>2. ASSUME NEW i \in 1 .. Len(ring) PROVE ring[1] <= ring[i]
          <6>1. i = 1 \/ 1 < i
            OBVIOUS
          <6>2. ring[1] \in Nat /\ ring[i] \in Nat
            BY <3>4, <5>1
          <6> QED BY <3>4, <5>1, <6>1, <6>2 DEF Increasing
        <5> QED BY <5>1, <5>2 DEF Members
      <4>3. Head(ring) \in Members(ring)
        BY <3>4, TailFacts DEF Members
      <4> QED BY <3>3, <3>4, <3>5, <4>1, <4>2, <4>3
    <3>8. ring = <<>> => Head(PushRing(e)) = e
      BY <3>3, HubAssumption DEF PushRing
    <3>9. ASSUME NEW d \in shown', d >= Head(PushRing(e)) PROVE d \in Members(PushRing(e))
      <4>1. CASE d = e
        BY <3>6, <4>1
      <4>2. CASE d # e /\ ring = <<>>
        BY <3>1, <3>2, <3>3, <3>4, <3>8, <3>9, <4>2
      <4>3. CASE d # e /\ ring # <<>>
        <5>1. d \in shown /\ d \in Nat /\ Head(ring) \in Nat /\ Head(PushRing(e)) \in Nat
          BY <3>1, <3>4, <3>6, <4>3, TailFacts
        <5>2. d \in Members(ring)
          BY <3>7, <3>9, <4>3, <5>1 DEF Reaches
        <5> QED BY <3>6, <3>9, <5>2
      <4> QED BY <4>1, <4>2, <4>3
    <3>10. Members(ring)' = Members(PushRing(e)) /\ Head(ring)' = Head(PushRing(e))
      BY <3>1 DEF Members
    <3> QED BY <3>9, <3>10 DEF Reaches
  <2> QED BY <2>1, <2>2
<1>3. CASE \/ \E kind \in Kinds : Store(kind)
           \/ Announce
           \/ PollRead
           \/ PollClaim
           \/ ListenClaim
           \/ \E f \in Fibers, s \in Subscribers : Deliver(f, s)
           \/ \E s \in Subscribers, n \in 0 .. MaxLog : Subscribe(s, n)
           \/ \E s \in Subscribers : Receive(s)
           \/ \E s \in Subscribers, how \in {"failed", "closed"} : End(s, how)
           \/ UNCHANGED vars
  BY <1>1, <1>3 DEF Store, Announce, PollRead, PollClaim, ListenClaim, Deliver, Subscribe,
                    Receive, End, vars
<1> QED BY <1>2, <1>3, StepCases
-----------------------------------------------------------------------------
(* Queued keys: epochs only grow along the queue, a protected entry closes *)
(* the epochs before it, and no key is queued twice.                       *)

EpochsFit(q, n) ==
  \A i, j \in 1 .. Len(q) : q[i].key # Unkeyed =>
    /\ q[i].key[1] <= n
    /\ i < j => IF q[j].key = Unkeyed THEN q[i].key[1] < n
                ELSE q[i].key[1] <= q[j].key[1] /\ q[i].key # q[j].key

Epochs == \A s \in Subscribers : EpochsFit(queue[s], epoch[s])

LEMMA EntryKey ==
  \A x \in Entry : x.key # Unkeyed => x.key[1] \in Nat
BY DEF Entry

LEMMA EpochsAdd ==
  ASSUME NEW q \in Seq(Entry), NEW n \in Nat, EpochsFit(q, n), NEW x \in Entry
  PROVE  /\ x.key = Unkeyed => EpochsFit(Append(q, x), n + 1)
         /\ /\ x.key # Unkeyed /\ x.key[1] = n
            /\ \A i \in 1 .. Len(q) : q[i].key # x.key
            => EpochsFit(Append(q, x), n)
<1> DEFINE z == Append(q, x)
<1>1. /\ Len(z) = Len(q) + 1 /\ Len(q) \in Nat /\ z[Len(q) + 1] = x
      /\ \A i \in 1 .. Len(q) : z[i] = q[i] /\ q[i] \in Entry
  BY AppendProperties, LenProperties, ElementOfSeq
<1> HIDE DEF z
<1>2. \A i \in 1 .. Len(z) : i \in 1 .. Len(q) \/ i = Len(q) + 1
  BY <1>1
<1>3. \A i \in 1 .. Len(q) : q[i].key # Unkeyed => q[i].key[1] \in Nat /\ q[i].key[1] <= n
  BY <1>1, EntryKey DEF EpochsFit
<1>4. ASSUME x.key = Unkeyed PROVE EpochsFit(z, n + 1)
  <2> SUFFICES ASSUME NEW i \in 1 .. Len(z), NEW j \in 1 .. Len(z), z[i].key # Unkeyed
               PROVE  /\ z[i].key[1] <= n + 1
                      /\ i < j => IF z[j].key = Unkeyed THEN z[i].key[1] < n + 1
                          ELSE z[i].key[1] <= z[j].key[1] /\ z[i].key # z[j].key
    BY DEF EpochsFit
  <2>1. i \in 1 .. Len(q) /\ z[i] = q[i]
    BY <1>1, <1>2, <1>4
  <2>2. q[i].key[1] \in Nat /\ q[i].key[1] <= n /\ q[i].key # Unkeyed
    BY <1>3, <2>1
  <2>3. CASE j = Len(q) + 1
    BY <1>1, <1>4, <2>1, <2>2, <2>3
  <2>4. CASE j \in 1 .. Len(q)
    BY <1>1, <2>1, <2>2, <2>4 DEF EpochsFit
  <2> QED BY <1>2, <2>3, <2>4
<1>5. ASSUME x.key # Unkeyed, x.key[1] = n, \A i \in 1 .. Len(q) : q[i].key # x.key
      PROVE  EpochsFit(z, n)
  <2> SUFFICES ASSUME NEW i \in 1 .. Len(z), NEW j \in 1 .. Len(z), z[i].key # Unkeyed
               PROVE  /\ z[i].key[1] <= n
                      /\ i < j => IF z[j].key = Unkeyed THEN z[i].key[1] < n
                          ELSE z[i].key[1] <= z[j].key[1] /\ z[i].key # z[j].key
    BY DEF EpochsFit
  <2>1. CASE i = Len(q) + 1
    BY <1>1, <1>2, <1>5, <2>1
  <2>2. CASE i \in 1 .. Len(q)
    <3>1. z[i] = q[i] /\ q[i].key[1] \in Nat /\ q[i].key[1] <= n /\ q[i].key # Unkeyed
      BY <1>1, <1>3, <2>2
    <3>2. CASE j = Len(q) + 1
      BY <1>1, <1>5, <2>2, <3>1, <3>2
    <3>3. CASE j \in 1 .. Len(q)
      BY <1>1, <2>2, <3>1, <3>3 DEF EpochsFit
    <3> QED BY <1>2, <3>2, <3>3
  <2> QED BY <1>2, <2>1, <2>2
<1> QED BY <1>4, <1>5 DEF z

LEMMA EpochsPut ==
  ASSUME NEW q \in Seq(Entry), NEW n, EpochsFit(q, n),
         NEW x \in Entry, NEW k \in 1 .. Len(q), x.key = q[k].key
  PROVE  EpochsFit([q EXCEPT ![k] = x], n)
<1> DEFINE z == [q EXCEPT ![k] = x]
<1>1. Len(z) = Len(q) /\ \A i \in 1 .. Len(q) : z[i] = IF i = k THEN x ELSE q[i]
  BY ExceptSeq
<1> HIDE DEF z
<1>2. \A i \in 1 .. Len(q) : z[i].key = q[i].key
  BY <1>1
<1>3. EpochsFit(z, n)
  BY <1>1, <1>2 DEF EpochsFit
<1> QED BY <1>3 DEF z

LEMMA EpochsTail ==
  ASSUME NEW q \in Seq(Entry), NEW n, EpochsFit(q, n), q # <<>>
  PROVE  EpochsFit(Tail(q), n)
<1> DEFINE z == Tail(q)
<1>1. /\ Len(z) = Len(q) - 1 /\ Len(q) \in Nat \ {0}
      /\ \A i \in 1 .. Len(q) - 1 : z[i] = q[i + 1] /\ i + 1 \in 1 .. Len(q)
  BY TailFacts
<1> HIDE DEF z
<1>2. EpochsFit(z, n)
  <2> SUFFICES ASSUME NEW i \in 1 .. Len(z), NEW j \in 1 .. Len(z), z[i].key # Unkeyed
               PROVE  /\ z[i].key[1] <= n
                      /\ i < j => IF z[j].key = Unkeyed THEN z[i].key[1] < n
                          ELSE z[i].key[1] <= z[j].key[1] /\ z[i].key # z[j].key
    BY DEF EpochsFit
  <2>1. /\ z[i] = q[i + 1] /\ i + 1 \in 1 .. Len(q)
        /\ z[j] = q[j + 1] /\ j + 1 \in 1 .. Len(q) /\ (i < j => i + 1 < j + 1)
    BY <1>1
  <2> QED BY <2>1 DEF EpochsFit
<1> QED BY <1>2 DEF z

LEMMA EpochsStep == ASSUME TInv, Epochs, [Next]_vars PROVE Epochs'
<1>0. queue \in [Subscribers -> Seq(Entry)] /\ epoch \in [Subscribers -> Nat]
  BY DEF TInv, TypeOK
<1>1. SUFFICES \A s \in Subscribers : EpochsFit(queue'[s], epoch'[s])
  BY DEF Epochs, EpochsFit
<1>2. EpochsFit(<<>>, 0) /\ \A n : EpochsFit(<<>>, n)
  BY DEF EpochsFit
<1>3. ASSUME UNCHANGED <<queue, epoch>> PROVE \A s \in Subscribers : EpochsFit(queue'[s], epoch'[s])
  BY <1>3 DEF Epochs
<1>4. ASSUME NEW f \in Fibers, NEW s \in Subscribers, Deliver(f, s)
      PROVE  \A u \in Subscribers : EpochsFit(queue'[u], epoch'[u])
  <2> DEFINE e == carried[f]
             x == [at |-> e, key |-> KeyOf(s, e)]
  <2>1. /\ e \in shown /\ log[e] \in Kinds \ {Elsewhere}
        /\ \/ status[s] # "open" /\ UNCHANGED <<status, queue, epoch>>
           \/ status[s] = "open" /\ Overflow(s)
           \/ status[s] = "open" /\ Added(s, e)
           \/ status[s] = "open" /\ \E i \in 1 .. Len(queue[s]) : Replaced(s, i, e)
    BY <1>4, DeliverCases
  <2>2. x \in Entry /\ queue[s] \in Seq(Entry) /\ epoch[s] \in Nat /\ EpochsFit(queue[s], epoch[s])
    <3>1. e \in Nat
      BY <2>1 DEF TInv, TypeOK
    <3> QED BY <1>0, <2>1, <3>1, KeyOfFits DEF Entry, Epochs
  <2>3. CASE Overflow(s)
    <3>1. \A u \in Subscribers : queue'[u] = <<>> \/ (queue'[u] = queue[u] /\ epoch'[u] = epoch[u])
      BY <1>0, <2>3 DEF Overflow
    <3> QED BY <1>2, <3>1 DEF Epochs
  <2>4. CASE Added(s, e)
    <3>1. /\ queue' = [queue EXCEPT ![s] = Append(queue[s], x)]
          /\ epoch' = [epoch EXCEPT ![s] = IF log[e] = Protected THEN @ + 1 ELSE @]
          /\ log[e] = Protected \/ \A i \in 1 .. Len(queue[s]) : queue[s][i].key # KeyOf(s, e)
      BY <2>4 DEF Added, Enqueue
    <3>2. /\ queue'[s] = Append(queue[s], x)
          /\ epoch'[s] = IF log[e] = Protected THEN epoch[s] + 1 ELSE epoch[s]
          /\ \A u \in Subscribers : u # s => queue'[u] = queue[u] /\ epoch'[u] = epoch[u]
      BY <1>0, <3>1
    <3>3. x.key = KeyOf(s, e)
      OBVIOUS
    <3> HIDE DEF x
    <3>4. CASE log[e] = Protected
      <4>1. x.key = Unkeyed
        BY <3>3, <3>4 DEF KeyOf
      <4>2. EpochsFit(Append(queue[s], x), epoch[s] + 1)
        BY <2>2, <4>1, EpochsAdd
      <4> QED BY <3>2, <3>4, <4>2 DEF Epochs
    <3>5. CASE log[e] # Protected
      <4>1. x.key = <<epoch[s], log[e]>> /\ log[e] \in Keys
        BY <2>1, <3>3, <3>5 DEF KeyOf, Kinds
      <4>2. x.key # Unkeyed /\ x.key[1] = epoch[s]
        BY <2>2, <4>1, HubAssumption
      <4>3. EpochsFit(Append(queue[s], x), epoch[s])
        BY <2>2, <3>1, <3>3, <3>5, <4>2, EpochsAdd
      <4> QED BY <3>2, <3>5, <4>3 DEF Epochs
    <3> QED BY <3>4, <3>5
  <2>5. CASE \E i \in 1 .. Len(queue[s]) : Replaced(s, i, e)
    <3>1. PICK i \in 1 .. Len(queue[s]) : Replaced(s, i, e)
      BY <2>5
    <3>2. /\ queue' = [queue EXCEPT ![s] = [queue[s] EXCEPT ![i] = x]]
          /\ queue[s][i].key = x.key /\ epoch' = epoch
      BY <3>1 DEF Replaced
    <3> HIDE DEF x
    <3>3. EpochsFit([queue[s] EXCEPT ![i] = x], epoch[s])
      BY <2>2, <3>2, EpochsPut
    <3>4. /\ queue'[s] = [queue[s] EXCEPT ![i] = x]
          /\ \A u \in Subscribers : u # s => queue'[u] = queue[u]
      BY <1>0, <3>2
    <3> QED BY <3>2, <3>3, <3>4 DEF Epochs
  <2> QED BY <1>3, <2>1, <2>3, <2>4, <2>5
<1>5. ASSUME NEW s \in Subscribers, Receive(s)
      PROVE  \A u \in Subscribers : EpochsFit(queue'[u], epoch'[u])
  <2>1. epoch' = epoch
    BY <1>5 DEF Receive
  <2>2. CASE UNCHANGED queue
    BY <1>3, <2>1, <2>2
  <2>3. CASE queue[s] # <<>> /\ queue' = [queue EXCEPT ![s] = Tail(@)]
    <3>1. EpochsFit(Tail(queue[s]), epoch[s])
      BY <1>0, <2>3, EpochsTail DEF Epochs
    <3>2. queue'[s] = Tail(queue[s]) /\ \A u \in Subscribers : u # s => queue'[u] = queue[u]
      BY <1>0, <2>3
    <3> QED BY <2>1, <3>1, <3>2 DEF Epochs
  <2> QED BY <1>5, <2>2, <2>3 DEF Receive
<1>6. ASSUME NEW s \in Subscribers, NEW how \in {"failed", "closed"}, End(s, how)
      PROVE  \A u \in Subscribers : EpochsFit(queue'[u], epoch'[u])
  <2>1. \A u \in Subscribers : queue'[u] = <<>> \/ (queue'[u] = queue[u] /\ epoch'[u] = epoch[u])
    <3> SUFFICES ASSUME NEW u \in Subscribers
                 PROVE  queue'[u] = <<>> \/ (queue'[u] = queue[u] /\ epoch'[u] = epoch[u])
      OBVIOUS
    <3>1. /\ queue' = [queue EXCEPT ![s] = <<>>] /\ epoch' = [epoch EXCEPT ![s] = 0]
      BY <1>6 DEF End
    <3>2. queue'[s] = <<>>
      BY <1>0, <3>1
    <3>3. CASE u = s
      BY <3>2, <3>3
    <3>4. CASE u # s
      BY <1>0, <3>1, <3>4
    <3> QED BY <3>3, <3>4
  <2> QED BY <1>2, <2>1 DEF Epochs
<1>7. CASE \/ \E kind \in Kinds : Store(kind)
           \/ Announce
           \/ PollRead
           \/ PollClaim
           \/ ListenClaim
           \/ \E f \in Fibers : PublishNext(f)
           \/ \E s \in Subscribers, n \in 0 .. MaxLog : Subscribe(s, n)
           \/ UNCHANGED vars
  BY <1>3, <1>7 DEF Store, Announce, PollRead, PollClaim, ListenClaim, PublishNext, Subscribe,
                    vars, subscription
<1> QED BY <1>4, <1>5, <1>6, <1>7, StepCases
-----------------------------------------------------------------------------
(* Without preemption: the order of a stream.                              *)

\* Neither a protected event nor an update of the same identity is overtaken.
Ordered(q) ==
  \A i, j \in 1 .. Len(q) :
    i < j /\ (log[q[i]] = Protected \/ log[q[j]] = Protected \/ log[q[i]] = log[q[j]])
      => q[i] < q[j]

InOrder == ~preempts => \A s \in Subscribers : Ordered(Stream(s))

OInv == NInv /\ Serial /\ Epochs /\ InOrder

LEMMA OrderedAppend ==
  ASSUME NEW q \in Seq(Nat), Ordered(q), NEW e \in Nat, \A d \in Members(q) : d < e
  PROVE  Ordered(Append(q, e))
<1> DEFINE z == Append(q, e)
<1>1. /\ Len(z) = Len(q) + 1 /\ Len(q) \in Nat /\ z[Len(q) + 1] = e
      /\ \A i \in 1 .. Len(q) : z[i] = q[i] /\ q[i] < e
  BY AppendProperties, LenProperties DEF Members
<1> HIDE DEF z
<1>2. Ordered(z)
  <2> SUFFICES ASSUME NEW i \in 1 .. Len(z), NEW j \in 1 .. Len(z), i < j,
                      log[z[i]] = Protected \/ log[z[j]] = Protected \/ log[z[i]] = log[z[j]]
               PROVE  z[i] < z[j]
    BY DEF Ordered
  <2>1. i \in 1 .. Len(q) /\ z[i] = q[i] /\ q[i] < e
    BY <1>1
  <2>2. CASE j = Len(q) + 1
    BY <1>1, <2>1, <2>2
  <2>3. CASE j \in 1 .. Len(q)
    BY <1>1, <2>1, <2>3 DEF Ordered
  <2>4. j = Len(q) + 1 \/ j \in 1 .. Len(q)
    BY <1>1
  <2> QED BY <2>2, <2>3, <2>4
<1> QED BY <1>2 DEF z

LEMMA OrderedPrefix ==
  \A p, c \in Seq(Nat) : Ordered(p \o c) => Ordered(p)
<1> SUFFICES ASSUME NEW p \in Seq(Nat), NEW c \in Seq(Nat), Ordered(p \o c)
             PROVE  Ordered(p)
  OBVIOUS
<1> DEFINE z == p \o c
<1>1. /\ Len(z) = Len(p) + Len(c) /\ Len(p) \in Nat /\ Len(c) \in Nat
      /\ \A i \in 1 .. Len(p) + Len(c) : z[i] = IF i <= Len(p) THEN p[i] ELSE c[i - Len(p)]
  BY ConcatProperties, LenProperties
<1>2. Ordered(z)
  OBVIOUS
<1> HIDE DEF z
<1>3. \A i \in 1 .. Len(p) : i \in 1 .. Len(z) /\ z[i] = p[i]
  BY <1>1
<1> QED BY <1>2, <1>3 DEF Ordered

LEMMA OrderedIncreasing ==
  \A q : Increasing(q) => Ordered(q)
BY DEF Increasing, Ordered

\* An update takes the place of a queued one: nothing protected and no update
\* of its identity is behind that place.
LEMMA OrderedPut ==
  ASSUME TInv, Epochs, NEW s \in Subscribers, NEW e \in Nat, NEW k \in 1 .. Len(queue[s]),
         Replaced(s, k, e), log[e] \in Keys, Ordered(Stream(s)),
         \A d \in Members(Stream(s)) : d < e
  PROVE  Ordered([Stream(s) EXCEPT ![Place(s, k)] = e])
<1> DEFINE q == Stream(s)
           at == Place(s, k)
           z == [q EXCEPT ![at] = e]
<1>1. /\ at \in 1 .. Len(q) /\ q \in Seq(Nat) /\ Len(q) \in Nat
      /\ \A m \in 1 .. Len(q) : m > at =>
           \E j \in 1 .. Len(queue[s]) : j > k /\ m = Place(s, j) /\ q[m] = queue[s][j].at
  BY StreamFacts, PlaceFacts, SMTT(20)
<1>2. \A i \in 1 .. Len(q) : q[i] < e
  BY DEF Members
<1>3. Ordered(q)
  OBVIOUS
<1>4. ASSUME NEW m \in 1 .. Len(q), m > at
      PROVE  log[q[m]] # Protected /\ log[q[m]] # log[e]
  <2>1. PICK j \in 1 .. Len(queue[s]) : j > k /\ q[m] = queue[s][j].at
    BY <1>1, <1>4
  <2> HIDE DEF q, at
  <2>2. /\ queue[s][k].key = <<epoch[s], log[e]>> /\ log[e] # Protected /\ epoch[s] \in Nat
    BY DEF Replaced, KeyOf, TInv, TypeOK
  <2>3. queue[s][k].key # Unkeyed /\ queue[s][k].key[1] = epoch[s]
    BY <2>2, HubAssumption
  <2>4. EpochsFit(queue[s], epoch[s])
    BY DEF Epochs
  <2>5. IF queue[s][j].key = Unkeyed THEN epoch[s] < epoch[s]
        ELSE epoch[s] <= queue[s][j].key[1] /\ queue[s][k].key # queue[s][j].key
    BY <2>1, <2>3, <2>4 DEF EpochsFit
  <2>6. queue[s][j].key # Unkeyed /\ epoch[s] <= queue[s][j].key[1]
        /\ queue[s][k].key # queue[s][j].key
    BY <2>2, <2>5
  <2>7. queue[s][j].key[1] <= epoch[s]
    BY <2>4, <2>6 DEF EpochsFit
  <2>8. KeyFits(queue[s][j])
    BY DEF TInv, QueuedShown
  <2>9. log[q[m]] # Protected
    BY <2>1, <2>6, <2>8 DEF KeyFits
  <2>10. PICK n \in Nat : queue[s][j].key = <<n, log[q[m]]>>
    BY <2>1, <2>8, <2>9 DEF KeyFits
  <2>11. n = epoch[s]
    <3>1. queue[s][j].key[1] = n
      BY <2>10
    <3> QED BY <2>2, <2>6, <2>7, <3>1
  <2>12. log[q[m]] # log[e]
    BY <2>2, <2>6, <2>10, <2>11
  <2> QED BY <2>9, <2>12
<1> HIDE DEF q, at
<1>5. /\ Len(z) = Len(q)
      /\ \A i \in 1 .. Len(q) : z[i] = IF i = at THEN e ELSE q[i]
  BY <1>1, ExceptSeq
<1> HIDE DEF z
<1>6. Ordered(z)
  <2> SUFFICES ASSUME NEW i \in 1 .. Len(q), NEW j \in 1 .. Len(q), i < j,
                      log[z[i]] = Protected \/ log[z[j]] = Protected \/ log[z[i]] = log[z[j]]
               PROVE  z[i] < z[j]
    BY <1>5 DEF Ordered
  <2>1. CASE i = at
    <3>1. z[i] = e /\ z[j] = q[j] /\ j > at
      BY <1>1, <1>5, <2>1
    <3>2. log[e] # Protected
      BY HubAssumption
    <3> QED BY <1>4, <3>1, <3>2
  <2>2. CASE j = at
    BY <1>1, <1>2, <1>5, <2>2
  <2>3. CASE i # at /\ j # at
    BY <1>3, <1>5, <2>3 DEF Ordered
  <2> QED BY <2>1, <2>2, <2>3
<1> QED BY <1>6 DEF z, q, at

LEMMA InitOInv == ASSUME Init PROVE OInv
<1>1. NInv
  BY InitNInv
<1>2. Epochs
  BY DEF Init, Epochs, EpochsFit
<1>3. \A s \in Subscribers : Stream(s) = <<>>
  <2> SUFFICES ASSUME NEW s \in Subscribers PROVE Stream(s) = <<>>
    OBVIOUS
  <2>1. Stream(s) = Join(<<>>, <<>>, <<>>)
    BY StreamFacts, <1>1 DEF Init, NInv
  <2>2. AtsOf(<<>>) = <<>> /\ <<>> \o <<>> = <<>>
    BY DEF AtsOf
  <2> QED BY <2>1, <2>2 DEF Join
<1>4. InOrder
  BY <1>3 DEF InOrder, Ordered
<1> QED BY <1>1, <1>2, <1>4, InitSerial DEF OInv

\* What a delivery without preemption carries is newer than all of the stream.
LEMMA CarriedNewest ==
  ASSUME NInv, Serial, ~preempts, NEW f \in Fibers, NEW s \in targets[f]
  PROVE  /\ s \in Subscribers /\ carried[f] = cursor /\ carried[f] \in Nat
         /\ \A d \in Members(Stream(s)) : d < carried[f]
<1>1. s \in Subscribers /\ cursor \in Nat /\ carried[f] = cursor
  BY DEF NInv, TInv, TypeOK, Serial, NoGap
<1>2. Members(Stream(s)) \subseteq 1 .. cursor
  BY <1>1, StreamFacts DEF NInv
<1>3. carried[f] \notin Members(Stream(s))
  BY DEF NInv, Apart
<1>4. \A d \in Members(Stream(s)) : d \in Nat /\ d <= cursor /\ d # cursor
  BY <1>1, <1>2, <1>3
<1> QED BY <1>1, <1>4

LEMMA OStep ==
  ASSUME OInv, [Next]_vars, NInv', Serial', Epochs' PROVE OInv'
<1> SUFFICES ASSUME ~preempts', NEW s \in Subscribers PROVE Ordered(Stream(s))'
  BY DEF OInv, InOrder
<1>0. UNCHANGED preempts
  BY StepCases DEF Store, Announce, PollRead, PollClaim, ListenClaim, PublishNext, Deliver,
                   Subscribe, Receive, End, vars, store
<1>1. TInv /\ NInv /\ Serial /\ Epochs /\ ~preempts /\ Ordered(Stream(s))
      /\ Stream(s) \in Seq(Nat)
  BY <1>0, StreamFacts DEF OInv, NInv, InOrder
<1>2. ASSUME log' = log, Ordered(Stream(s)') PROVE Ordered(Stream(s))'
  BY <1>2 DEF Ordered
<1>3. ASSUME log' = log, Stream(s)' = Stream(s) PROVE Ordered(Stream(s))'
  BY <1>1, <1>3 DEF Ordered
<1>4. ASSUME NEW kind \in Kinds, Store(kind) PROVE Ordered(Stream(s))'
  <2>1. Stream(s)' = Stream(s)
    BY <1>4, QuietStream DEF Store
  <2>2. log \in Seq(Kinds) /\ log' = Append(log, kind) /\ cursor <= Len(log) /\ cursor \in Nat
    BY <1>1, <1>4 DEF Store, TInv, TypeOK
  <2>3. \A e \in 1 .. Len(log) : log'[e] = log[e]
    BY <2>2
  <2>4. \A i \in 1 .. Len(Stream(s)) : Stream(s)[i] \in 1 .. Len(log)
    <3>1. Members(Stream(s)) \subseteq 1 .. cursor
      BY <1>1, StreamFacts
    <3>2. \A e \in 1 .. cursor : e \in 1 .. Len(log)
      BY <2>2
    <3>3. \A i \in 1 .. Len(Stream(s)) : Stream(s)[i] \in Members(Stream(s))
      BY DEF Members
    <3> QED BY <3>1, <3>2, <3>3
  <2>5. \A i \in 1 .. Len(Stream(s)) : log'[Stream(s)[i]] = log[Stream(s)[i]]
    BY <2>3, <2>4
  <2> QED BY <1>1, <2>1, <2>5 DEF Ordered
<1>5. ASSUME NEW f \in Fibers, NEW u \in Subscribers, Deliver(f, u) PROVE Ordered(Stream(s))'
  <2> DEFINE e == carried[f]
  <2>1. u \in targets[f] /\ log[e] \in Kinds \ {Elsewhere} /\ log' = log
    BY <1>1, <1>5, DeliverCases DEF store
  <2>2. e \in Nat /\ \A d \in Members(Stream(u)) : d < e
    BY <1>1, <2>1, CarriedNewest
  <2>3. /\ \A v \in Subscribers : v # u => Stream(v)' = Stream(v)
        /\ status[u] # "open" => Stream(u)' = Stream(u)
        /\ Overflow(u) => Stream(u)' = received[u] \o replay[u]
        /\ Added(u, e) => Stream(u)' = Append(Stream(u), e)
        /\ \A i \in 1 .. Len(queue[u]) : Replaced(u, i, e) =>
             Stream(u)' = [Stream(u) EXCEPT ![Place(u, i)] = e]
    BY <1>1, <1>5, DeliverStream
  <2>4. \/ status[u] # "open"
        \/ Overflow(u)
        \/ Added(u, e)
        \/ \E i \in 1 .. Len(queue[u]) : Replaced(u, i, e)
    BY <1>1, <1>5, DeliverCases
  <2>5. CASE u # s
    BY <1>3, <2>1, <2>3, <2>5
  <2>6. CASE u = s
    <3> HIDE DEF e
    <3>1. CASE status[u] # "open"
      BY <1>3, <2>1, <2>3, <2>6, <3>1
    <3>2. CASE Overflow(u)
      <4>1. /\ received[s] \in Seq(Nat) /\ replay[s] \in Seq(Nat) /\ queue[s] \in Seq(Entry)
            /\ Stream(s) = (received[s] \o replay[s]) \o AtsOf(queue[s])
        BY <1>1, StreamFacts DEF Join
      <4>2. received[s] \o replay[s] \in Seq(Nat) /\ AtsOf(queue[s]) \in Seq(Nat)
        BY <4>1, ConcatProperties, AtsFacts
      <4>3. Ordered(received[s] \o replay[s])
        BY <1>1, <4>1, <4>2, OrderedPrefix
      <4> QED BY <1>2, <2>1, <2>3, <2>6, <3>2, <4>3
    <3>3. CASE Added(u, e)
      <4>1. Ordered(Append(Stream(s), e))
        BY <1>1, <2>2, <2>6, OrderedAppend
      <4> QED BY <1>2, <2>1, <2>3, <2>6, <3>3, <4>1
    <3>4. CASE \E i \in 1 .. Len(queue[u]) : Replaced(u, i, e)
      <4>1. PICK i \in 1 .. Len(queue[s]) : Replaced(s, i, e)
        BY <2>6, <3>4
      <4>2. log[e] \in Keys
        BY <2>1, <4>1 DEF Replaced, Kinds
      <4>3. Ordered([Stream(s) EXCEPT ![Place(s, i)] = e])
        BY <1>1, <2>2, <2>6, <4>1, <4>2, OrderedPut
      <4> QED BY <1>2, <2>1, <2>3, <2>6, <4>1, <4>3
    <3> QED BY <2>4, <3>1, <3>2, <3>3, <3>4
  <2> QED BY <2>5, <2>6
<1>6. ASSUME NEW u \in Subscribers, NEW n \in 0 .. MaxLog, Subscribe(u, n)
      PROVE  Ordered(Stream(s))'
  <2>1. log' = log /\ n \in Nat
    BY <1>6 DEF Subscribe, store
  <2>2. Ordered(Replay(n))
    BY <1>1, <2>1, ReplayFacts, OrderedIncreasing
  <2>3. Stream(s)' = IF s = u THEN Replay(n) ELSE Stream(s)
    BY <1>1, <1>6, SubscribeStream
  <2> QED BY <1>1, <1>2, <2>1, <2>2, <2>3
<1>7. ASSUME NEW u \in Subscribers, Receive(u) PROVE Ordered(Stream(s))'
  BY <1>1, <1>3, <1>7, ReceiveStream DEF Receive, store
<1>8. ASSUME NEW u \in Subscribers, NEW how \in {"failed", "closed"}, End(u, how)
      PROVE  Ordered(Stream(s))'
  <2>1. log' = log
    BY <1>8 DEF End, store
  <2>2. Stream(s)' = IF s = u THEN <<>> ELSE Stream(s)
    BY <1>1, <1>8, EndStream
  <2>3. Ordered(<<>>)
    BY DEF Ordered
  <2> QED BY <1>1, <1>2, <2>1, <2>2, <2>3
<1>9. CASE \/ Announce
           \/ PollRead
           \/ PollClaim
           \/ ListenClaim
           \/ \E f \in Fibers : PublishNext(f)
           \/ UNCHANGED vars
  <2>1. UNCHANGED <<log, subscription>>
    BY <1>9 DEF Announce, PollRead, PollClaim, ListenClaim, PublishNext, vars, store
  <2> QED BY <1>3, <2>1, QuietStream
<1> QED BY <1>4, <1>5, <1>6, <1>7, <1>8, <1>9, StepCases

LEMMA OInvHolds == Spec => []OInv
<1>1. Init => OInv
  BY InitOInv
<1>2. OInv /\ NInv' /\ [Next]_vars => OInv'
  <2> SUFFICES ASSUME OInv, NInv', [Next]_vars PROVE OInv'
    OBVIOUS
  <2>1. Serial' /\ Epochs'
    BY SerialStep, EpochsStep DEF OInv, NInv
  <2> QED BY <2>1, OStep
<1> QED BY <1>1, <1>2, NInvHolds, PTL DEF Spec

(***************************************************************************)
(* Unless a fiber is preempted, coalescing moves no update across a        *)
(* protected event, and none before an older one with the same identity.   *)
(***************************************************************************)
THEOREM NothingOvertakes == Spec => []ProtectedBarrier
<1>1. OInv => ProtectedBarrier
  <2> SUFFICES ASSUME OInv, ~preempts, NEW s \in Subscribers,
                      NEW i \in DOMAIN Stream(s), NEW j \in DOMAIN Stream(s), i < j,
                      \/ Protected \in {log[Stream(s)[i]], log[Stream(s)[j]]}
                      \/ log[Stream(s)[i]] = log[Stream(s)[j]]
               PROVE  Stream(s)[i] < Stream(s)[j]
    BY DEF ProtectedBarrier
  <2>1. DOMAIN Stream(s) = 1 .. Len(Stream(s)) /\ Ordered(Stream(s))
    BY StreamFacts DEF OInv, NInv, InOrder
  <2> QED BY <2>1 DEF Ordered
<1> QED BY <1>1, OInvHolds, PTL
-----------------------------------------------------------------------------
(* What is shown arrives.                                                  *)

\* d, of the same identity, took the place of e.
Stands(s, e, d) ==
  /\ d \in Members(Stream(s)) /\ d \in shown /\ d # e
  /\ log[d] = log[e] /\ log[e] # Protected
  /\ ~preempts => d > e

Arrives(s, e) ==
  \/ e \in Members(Stream(s))
  \/ OnTheWay(s, e)
  \/ \E d \in Nat : Stands(s, e, d)

Wants(s, e) == status[s] = "open" /\ e > from[s] /\ Routed(e) /\ e \notin Skipped(s)

Arrived == \A s \in Subscribers : \A e \in shown : Wants(s, e) => Arrives(s, e)

PInv == OInv /\ Reaches /\ Arrived

\* A replay leaves out nothing the subscription wants, but for what lies beyond
\* one read of the store.
LEMMA ReplayComplete ==
  ASSUME TInv, Reaches, NEW n \in Nat, NEW e \in shown, e > n, Routed(e),
         RingReaches(n) \/ e <= n + ReadLimit
  PROVE  e \in Members(Replay(n))
<1>0. /\ cursor \in Nat /\ e \in Nat /\ 1 <= e /\ e <= cursor /\ cursor <= Len(log) /\ Len(log) \in Nat
      /\ ReadLimit \in Nat
  BY HubAssumption DEF TInv, TypeOK
<1>1. e \in Unseen(n)
  BY <1>0 DEF Unseen
<1>2. e \in Members(Source(n))
  <2>1. CASE RingReaches(n)
    <3>1. n + 1 >= OldestInRing
      BY <2>1 DEF RingReaches
    <3>2. ring # <<>>
      BY <1>0, <3>1 DEF OldestInRing
    <3>3. Head(ring) \in Nat
      BY <3>2, TailFacts DEF TInv, TypeOK
    <3>4. e >= Head(ring)
      BY <1>0, <3>1, <3>2, <3>3 DEF OldestInRing
    <3>5. e \in Members(ring)
      BY <3>2, <3>4 DEF Reaches
    <3> QED BY <2>1, <3>5 DEF Source
  <2>2. CASE ~ RingReaches(n)
    <3> DEFINE b == IF n + ReadLimit < cursor THEN n + ReadLimit ELSE cursor
    <3>1. b \in Nat /\ e \in n + 1 .. b
      BY <1>0, <2>2
    <3>2. FromStore(n) = Interval(n, b)
      BY DEF FromStore
    <3> HIDE DEF b
    <3>3. Members(Interval(n, b)) = n + 1 .. b
      BY <3>1, IntervalFacts
    <3> QED BY <2>2, <3>1, <3>2, <3>3 DEF Source
  <2> QED BY <2>1, <2>2
<1> QED BY <1>1, <1>2, ReplayFacts

LEMMA PStep ==
  ASSUME PInv, [Next]_vars PROVE Arrived'
<1>0. TInv /\ NInv /\ Serial /\ Reaches /\ Arrived
  BY DEF PInv, OInv, NInv
<1>1. UNCHANGED preempts
  BY StepCases DEF Store, Announce, PollRead, PollClaim, ListenClaim, PublishNext, Deliver,
                   Subscribe, Receive, End, vars, store
<1>2. \A s \in Subscribers : Members(Stream(s))' = Members(Stream(s)')
  BY DEF Members
<1>3. /\ cursor \in Nat /\ shown \subseteq 1 .. cursor /\ cursor <= Len(log) /\ log \in Seq(Kinds)
      /\ Len(log) \in Nat
  BY <1>0 DEF TInv, TypeOK
\* For a subscription the step does not touch.
<1>4. ASSUME NEW s \in Subscribers, NEW e \in shown, shown \subseteq shown',
             Stream(s)' = Stream(s), status'[s] = status[s], from'[s] = from[s],
             caught'[s] = caught[s],
             \A d \in shown : log'[d] = log[d],
             OnTheWay(s, e) => OnTheWay(s, e)', Wants(s, e)'
      PROVE  Arrives(s, e)'
  <2>1. Wants(s, e)
    BY <1>4 DEF Wants, Routed, Skipped
  <2>2. CASE e \in Members(Stream(s))
    BY <1>2, <1>4, <2>2 DEF Arrives
  <2>3. CASE OnTheWay(s, e)
    BY <1>4, <2>3 DEF Arrives
  <2>4. CASE \E d \in Nat : Stands(s, e, d)
    <3>1. PICK d \in Nat : Stands(s, e, d)
      BY <2>4
    <3>2. Stands(s, e, d)'
      BY <1>1, <1>2, <1>4, <3>1 DEF Stands
    <3> QED BY <3>2 DEF Arrives
  <2> QED BY <1>0, <2>1, <2>2, <2>3, <2>4 DEF Arrived, Arrives
<1>5. ASSUME UNCHANGED <<carried, targets, shown, status, from, caught>>,
             \A s \in Subscribers : Stream(s)' = Stream(s), \A d \in shown : log'[d] = log[d]
      PROVE  Arrived'
  <2>1. \A s \in Subscribers : \A e \in shown : OnTheWay(s, e) => OnTheWay(s, e)'
    BY <1>5 DEF OnTheWay
  <2>2. \A s \in Subscribers : \A e \in shown : Wants(s, e)' => Arrives(s, e)'
    BY <1>4, <1>5, <2>1
  <2> QED BY <1>5, <2>2 DEF Arrived
<1>6. ASSUME NEW kind \in Kinds, Store(kind) PROVE Arrived'
  <2>1. \A d \in shown : log'[d] = log[d]
    <3>1. log' = Append(log, kind)
      BY <1>6 DEF Store
    <3>2. \A d \in 1 .. Len(log) : Append(log, kind)[d] = log[d]
      BY <1>3
    <3>3. \A d \in shown : d \in 1 .. Len(log)
      BY <1>3
    <3> QED BY <3>1, <3>2, <3>3
  <2>2. UNCHANGED subscription /\ UNCHANGED <<carried, targets, shown, status, from, caught>>
    BY <1>6 DEF Store, producers, hub, subscription
  <2> QED BY <1>5, <2>1, <2>2, QuietStream
<1>7. CASE Announce \/ PollRead \/ PollClaim \/ ListenClaim \/ UNCHANGED vars
  <2>1. UNCHANGED subscription /\ UNCHANGED <<log, carried, targets, shown, status, from, caught>>
    BY <1>7 DEF Announce, PollRead, PollClaim, ListenClaim, vars, store, producers, hub, subscription
  <2> QED BY <1>5, <2>1, QuietStream
<1>8. ASSUME NEW s \in Subscribers, Receive(s) PROVE Arrived'
  <2>1. UNCHANGED <<log, carried, targets, shown, status, from, caught>>
    BY <1>8 DEF Receive, store, producers, hub
  <2> QED BY <1>0, <1>5, <1>8, <2>1, ReceiveStream
<1>9. ASSUME NEW s \in Subscribers, NEW n \in 0 .. MaxLog, Subscribe(s, n) PROVE Arrived'
  <2>1. /\ UNCHANGED <<log, carried, targets, shown>> /\ n \in Nat
        /\ \A u \in Subscribers : Stream(u)' = IF u = s THEN Replay(n) ELSE Stream(u)
    <3>1. UNCHANGED <<log, carried, targets, shown>>
      BY <1>9 DEF Subscribe, store, producers, hub
    <3>2. n \in Nat
      BY HubAssumption
    <3>3. \A u \in Subscribers : Stream(u)' = IF u = s THEN Replay(n) ELSE Stream(u)
      BY <1>0, <1>9, SubscribeStream
    <3> QED BY <3>1, <3>2, <3>3
  <2>2. /\ from'[s] = n /\ caught'[s] = IF RingReaches(n) THEN 0 ELSE cursor
        /\ \A u \in Subscribers : u # s =>
             status'[u] = status[u] /\ from'[u] = from[u] /\ caught'[u] = caught[u]
    BY <1>0, <1>9 DEF Subscribe, TInv, TypeOK
  <2> SUFFICES ASSUME NEW u \in Subscribers, NEW e \in shown, Wants(u, e)'
               PROVE  Arrives(u, e)'
    BY <2>1 DEF Arrived
  <2>3. CASE u = s
    <3>1. e > n /\ Routed(e) /\ e \notin Skipped(s)'
      BY <2>1, <2>2, <2>3 DEF Wants, Routed
    <3>a. RingReaches(n) \/ e <= n + ReadLimit
      BY <1>3, <2>1, <2>2, <3>1, HubAssumption DEF Skipped
    <3>2. e \in Members(Replay(n))
      BY <1>0, <2>1, <3>1, <3>a, ReplayComplete
    <3> QED BY <1>2, <2>1, <2>3, <3>2 DEF Arrives
  <2>4. CASE u # s
    <3>1. OnTheWay(u, e) => OnTheWay(u, e)'
      BY <2>1 DEF OnTheWay
    <3> QED BY <1>4, <2>1, <2>2, <2>4, <3>1
  <2> QED BY <2>3, <2>4
<1>10. ASSUME NEW s \in Subscribers, NEW how \in {"failed", "closed"}, End(s, how) PROVE Arrived'
  <2>1. /\ UNCHANGED <<log, carried, targets, shown>>
        /\ \A u \in Subscribers : Stream(u)' = IF u = s THEN <<>> ELSE Stream(u)
    BY <1>0, <1>10, EndStream DEF End, store, producers, hub
  <2>2. /\ status'[s] = how
        /\ \A u \in Subscribers : u # s =>
             status'[u] = status[u] /\ from'[u] = from[u] /\ caught'[u] = caught[u]
    BY <1>0, <1>10 DEF End, TInv, TypeOK
  <2> SUFFICES ASSUME NEW u \in Subscribers, NEW e \in shown, Wants(u, e)'
               PROVE  Arrives(u, e)'
    BY <2>1 DEF Arrived
  <2>3. u # s
    BY <2>2 DEF Wants
  <2>4. OnTheWay(u, e) => OnTheWay(u, e)'
    BY <2>1 DEF OnTheWay
  <2> QED BY <1>4, <2>1, <2>2, <2>3, <2>4
<1>11. ASSUME NEW f \in Fibers, PublishNext(f) PROVE Arrived'
  <2>1. UNCHANGED subscription /\ UNCHANGED <<log, status, from, caught>> /\ targets[f] = {}
    BY <1>11 DEF PublishNext, store, subscription
  <2>2. \A s \in Subscribers : Stream(s)' = Stream(s)
    BY <2>1, QuietStream
  <2>3. CASE ~ (Head(todo[f]) > cursor)
    <3>1. UNCHANGED <<carried, targets, shown>>
      BY <1>11, <2>3 DEF PublishNext, hub
    <3> QED BY <1>5, <2>1, <2>2, <3>1
  <2>4. CASE Head(todo[f]) > cursor
    <3>0. Head(todo[f]) \in Nat
      <4>1. todo[f] \in Seq(Nat) /\ todo[f] # <<>>
        BY <1>0, <1>11 DEF PublishNext, TInv, TypeOK
      <4> QED BY <4>1, TailFacts
    <3>a. PICK e \in Nat : e = Head(todo[f])
      BY <3>0
    <3> DEFINE reached == {s \in Subscribers : status[s] = "open" /\ Routed(e)}
    <3>1. /\ targets' = [targets EXCEPT ![f] = reached] /\ shown' = shown \cup {e}
          /\ carried' = [carried EXCEPT ![f] = IF targets'[f] = {} THEN 0 ELSE e]
      BY <1>11, <2>4, <3>a DEF PublishNext
    <3>2. /\ targets'[f] = reached /\ (reached # {} => carried'[f] = e)
          /\ \A g \in Fibers : g # f => targets'[g] = targets[g] /\ carried'[g] = carried[g]
      BY <1>0, <3>1 DEF TInv, TypeOK
    <3> SUFFICES ASSUME NEW s \in Subscribers, NEW d \in shown', Wants(s, d)'
                 PROVE  Arrives(s, d)'
      BY DEF Arrived
    <3>3. CASE d = e
      <4>1. s \in reached
        BY <2>1, <3>3 DEF Wants, Routed
      <4>2. s \in targets'[f] /\ carried'[f] = e
        <5> HIDE DEF reached
        <5> QED BY <3>2, <4>1
      <4>3. OnTheWay(s, e)'
        BY <4>2 DEF OnTheWay
      <4> QED BY <3>3, <4>3 DEF Arrives
    <3>4. CASE d # e
      <4>1. d \in shown
        BY <3>1, <3>4
      <4>2. OnTheWay(s, d) => OnTheWay(s, d)'
        BY <2>1, <3>2 DEF OnTheWay
      <4> QED BY <1>4, <2>1, <2>2, <3>1, <4>1, <4>2
    <3> QED BY <3>3, <3>4
  <2> QED BY <2>3, <2>4
<1>12. ASSUME NEW f \in Fibers, NEW s \in Subscribers, Deliver(f, s) PROVE Arrived'
  <2>0. carried[f] \in Nat
    BY <1>0 DEF TInv, TypeOK
  <2>a. PICK c \in Nat : c = carried[f]
    BY <2>0
  <2>1. /\ s \in targets[f] /\ c \in shown /\ targets' = [targets EXCEPT ![f] = @ \ {s}]
        /\ \A g \in Fibers : targets'[g] # {} => carried'[g] = carried[g]
        /\ UNCHANGED <<log, shown, from, caught>>
        /\ \/ status[s] # "open" /\ UNCHANGED <<status, queue, epoch>>
           \/ status[s] = "open" /\ Overflow(s)
           \/ status[s] = "open" /\ Added(s, c)
           \/ status[s] = "open" /\ \E i \in 1 .. Len(queue[s]) : Replaced(s, i, c)
    BY <1>0, <1>12, <2>a, DeliverCases DEF store, hub
  <2>2. /\ \A u \in Subscribers : u # s => Stream(u)' = Stream(u)
        /\ Added(s, c) => Stream(s)' = Append(Stream(s), c)
        /\ \A i \in 1 .. Len(queue[s]) : Replaced(s, i, c) =>
             Stream(s)' = [Stream(s) EXCEPT ![Place(s, i)] = c]
    BY <1>0, <1>12, <2>a, DeliverStream
  <2>3. /\ c \notin Members(Stream(s)) /\ Stream(s) \in Seq(Nat) /\ c \in Nat
        /\ (~preempts => \A d \in Members(Stream(s)) : d < c)
        /\ Members(Stream(s)) \subseteq 1 .. cursor
    BY <1>0, <2>a, <2>1, CarriedNewest, StreamFacts DEF NInv, Apart, TInv, TypeOK
  <2>4. \A u \in Subscribers : u # s => status'[u] = status[u]
    BY <1>0, <2>1 DEF Overflow, Added, Enqueue, Replaced, TInv, TypeOK
  <2>5. \A u \in Subscribers : \A d \in shown :
          OnTheWay(u, d) => OnTheWay(u, d)' \/ (u = s /\ d = c)
    <3> SUFFICES ASSUME NEW u \in Subscribers, NEW d \in shown, NEW g \in Fibers,
                        u \in targets[g], carried[g] = d, ~ (u = s /\ d = c)
                 PROVE  OnTheWay(u, d)'
      BY DEF OnTheWay
    <3>1. u \in targets'[g]
      BY <1>0, <2>a, <2>1 DEF TInv, TypeOK
    <3> QED BY <2>1, <3>1 DEF OnTheWay
  <2> SUFFICES ASSUME NEW u \in Subscribers, NEW d \in shown, Wants(u, d)'
               PROVE  Arrives(u, d)'
    BY <2>1 DEF Arrived
  <2>6. CASE u # s
    BY <1>4, <2>1, <2>2, <2>4, <2>5, <2>6
  <2>7. CASE u = s
    <3>1. status'[s] = "open" /\ d > from[s] /\ Routed(d) /\ d \notin Skipped(s)
      BY <2>1, <2>7 DEF Wants, Routed, Skipped
    <3>2. status[s] = "open" /\ ~ Overflow(s)
      <4>1. ~ Overflow(s)
        BY <1>0, <3>1 DEF Overflow, TInv, TypeOK
      <4>2. status[s] = "open"
        BY <2>1, <3>1
      <4> QED BY <4>1, <4>2
    <3>3. Arrives(s, d)
      BY <1>0, <3>1, <3>2 DEF Arrived, Wants
    <3>4. /\ c \in Members(Stream(s)')
          /\ \A x \in Members(Stream(s)) :
               \/ x \in Members(Stream(s)')
               \/ log[x] = log[c] /\ log[c] # Protected
      <4>1. CASE Added(s, c)
        <5>1. Members(Append(Stream(s), c)) = Members(Stream(s)) \cup {c}
          BY <2>3, AppendFacts
        <5> QED BY <2>2, <4>1, <5>1
      <4>2. CASE \E i \in 1 .. Len(queue[s]) : Replaced(s, i, c)
        <5>1. PICK i \in 1 .. Len(queue[s]) : Replaced(s, i, c)
          BY <4>2
        <5> DEFINE q == Stream(s)
                   k == Place(s, i)
                   P(r, j, v) == /\ v \in Members([r EXCEPT ![j] = v])
                                 /\ Members(r) \subseteq Members([r EXCEPT ![j] = v]) \cup {r[j]}
        <5>2. \A r \in Seq(Nat) : \A j \in 1 .. Len(r) : \A v \in Nat : P(r, j, v)
          BY PutFacts
        <5>3. k \in 1 .. Len(q) /\ q[k] = queue[s][i].at
          BY <1>0, PlaceFacts
        <5>4. P(q, k, c)
          <6>1. q \in Seq(Nat) /\ k \in 1 .. Len(q) /\ c \in Nat
            BY <2>3, <5>3
          <6> HIDE DEF P, q, k
          <6> QED BY <5>2, <6>1
        <5>5. log[queue[s][i].at] = log[c] /\ log[c] # Protected
          <6>1. KeyFits(queue[s][i])
            BY <1>0 DEF TInv, QueuedShown
          <6>2. queue[s][i].key = <<epoch[s], log[c]>> /\ log[c] # Protected /\ epoch[s] \in Nat
            BY <1>0, <5>1 DEF Replaced, KeyOf, TInv, TypeOK
          <6>3. log[c] \in Keys
            <7>1. c \in 1 .. Len(log) /\ log[c] \in Kinds
              BY <1>3, <2>1
            <7>2. log[c] # Elsewhere
              BY <1>0, <2>a, <2>1 DEF TInv, CarriedShown
            <7> QED BY <6>2, <7>1, <7>2 DEF Kinds
          <6>4. queue[s][i].key # Unkeyed
            BY <6>2, <6>3, HubAssumption
          <6>5. log[queue[s][i].at] # Protected
            BY <6>1, <6>4 DEF KeyFits
          <6>6. PICK n \in Nat : queue[s][i].key = <<n, log[queue[s][i].at]>>
            BY <6>1, <6>5 DEF KeyFits
          <6> QED BY <6>2, <6>6
        <5>6. Stream(s)' = [q EXCEPT ![k] = c]
          BY <2>2, <5>1
        <5> QED BY <5>3, <5>4, <5>5, <5>6
      <4> QED BY <2>1, <3>2, <4>1, <4>2
    \* The carried event stands for whatever it replaces.
    <3>5. ASSUME NEW x \in Members(Stream(s)), x \notin Members(Stream(s)'), log[x] = log[d],
                 d # c, ~preempts => x >= d
          PROVE  Stands(s, d, c)'
      <4>1. log[x] = log[c] /\ log[c] # Protected /\ c \in Members(Stream(s)')
        BY <3>4, <3>5
      <4>2. ~preempts => c > d
        <5>1. d \in Nat /\ x \in Nat
          BY <1>3, <2>3
        <5> QED BY <2>3, <3>5, <5>1
      <4> QED BY <1>1, <1>2, <2>1, <3>5, <4>1, <4>2 DEF Stands
    <3>6. CASE d = c
      BY <1>2, <2>7, <3>4, <3>6 DEF Arrives
    <3>7. CASE d # c /\ d \in Members(Stream(s))
      <4>1. CASE d \in Members(Stream(s)')
        BY <1>2, <2>7, <4>1 DEF Arrives
      <4>2. CASE d \notin Members(Stream(s)')
        <5>1. d \in Nat
          BY <1>3
        <5>2. Stands(s, d, c)'
          BY <3>5, <3>7, <4>2, <5>1
        <5> QED BY <2>3, <2>7, <5>2 DEF Arrives
      <4> QED BY <4>1, <4>2
    <3>8. CASE d # c /\ OnTheWay(s, d)
      BY <2>5, <2>7, <3>8 DEF Arrives
    <3>9. CASE d # c /\ \E x \in Nat : Stands(s, d, x)
      <4>1. PICK x \in Nat : Stands(s, d, x)
        BY <3>9
      <4>2. CASE x \in Members(Stream(s)')
        <5>1. Stands(s, d, x)'
          BY <1>1, <1>2, <2>1, <4>1, <4>2 DEF Stands
        <5> QED BY <2>7, <5>1 DEF Arrives
      <4>3. CASE x \notin Members(Stream(s)')
        <5>1. d \in Nat
          BY <1>3
        <5>2. /\ x \in Members(Stream(s)) /\ log[x] = log[d] /\ (~preempts => x >= d)
          BY <4>1, <5>1 DEF Stands
        <5>3. Stands(s, d, c)'
          BY <3>5, <3>9, <4>3, <5>2
        <5> QED BY <2>3, <2>7, <5>3 DEF Arrives
      <4> QED BY <4>2, <4>3
    <3> QED BY <3>3, <3>6, <3>7, <3>8, <3>9 DEF Arrives
  <2> QED BY <2>6, <2>7
<1> QED BY <1>6, <1>7, <1>8, <1>9, <1>10, <1>11, <1>12, StepCases

LEMMA PInvHolds == Spec => []PInv
<1>1. Init => PInv
  <2> SUFFICES ASSUME Init PROVE PInv
    OBVIOUS
  <2>1. Reaches /\ Arrived
    BY DEF Init, Reaches, Arrived
  <2> QED BY <2>1, InitOInv DEF PInv
<1>2. PInv /\ OInv' /\ [Next]_vars => PInv'
  <2> SUFFICES ASSUME PInv, OInv', [Next]_vars PROVE PInv'
    OBVIOUS
  <2>1. Reaches'
    BY ReachesStep DEF PInv, OInv, NInv
  <2>2. Arrived'
    BY PStep
  <2> QED BY <2>1, <2>2 DEF PInv
<1> QED BY <1>1, <1>2, OInvHolds, PTL DEF Spec

LEMMA InStreamMembers ==
  ASSUME TInv, NEW s \in Subscribers, NEW e PROVE InStream(s, e) <=> e \in Members(Stream(s))
<1>1. DOMAIN Stream(s) = 1 .. Len(Stream(s))
  BY StreamFacts
<1> QED BY <1>1 DEF InStream, Members

(***************************************************************************)
(* While a subscription is open, what the hub published after its snapshot *)
(* is in its stream or on the way to it, or an update with the same        *)
(* identity took its place, or it lies beyond the one read that a replay   *)
(* from the store makes.                                                   *)
(***************************************************************************)
THEOREM ShownArrives == Spec => []PublishedArrives
<1>1. PInv => PublishedArrives
  <2> SUFFICES ASSUME PInv, NEW s \in Subscribers, NEW e \in shown \ Skipped(s),
                      status[s] = "open", e > from[s], Routed(e)
               PROVE  \/ InStream(s, e) \/ OnTheWay(s, e)
                      \/ /\ log[e] # Protected
                         /\ \E d \in shown \ {e} : InStream(s, d) /\ log[d] = log[e]
    BY DEF PublishedArrives
  <2>1. TInv /\ Arrives(s, e)
    BY DEF PInv, OInv, NInv, Arrived, Wants
  <2>2. \A d : InStream(s, d) <=> d \in Members(Stream(s))
    BY <2>1, InStreamMembers
  <2> QED BY <2>1, <2>2 DEF Arrives, Stands
<1> QED BY <1>1, PInvHolds, PTL

\* Without preemption, every event the hub has passed is shown.
LEMMA PassedArrives ==
  ASSUME PInv, ~preempts, NEW s \in Subscribers, NEW e \in from[s] + 1 .. cursor,
         status[s] = "open", Routed(e), e \notin Skipped(s)
  PROVE  \/ InStream(s, e) \/ OnTheWay(s, e)
         \/ /\ log[e] # Protected
            /\ \E d \in e + 1 .. cursor : log[d] = log[e]
<1>1. TInv /\ NoGap /\ Arrived
  BY DEF PInv, OInv, NInv, Serial
<1>2. from[s] \in Nat /\ cursor \in Nat /\ shown = 1 .. cursor
  BY <1>1 DEF TInv, TypeOK, NoGap
<1>3. e \in shown /\ e > from[s]
  BY <1>2
<1>4. Arrives(s, e)
  BY <1>1, <1>3 DEF Arrived, Wants
<1>5. InStream(s, e) <=> e \in Members(Stream(s))
  BY <1>1, InStreamMembers
<1>6. ASSUME NEW d \in Nat, Stands(s, e, d)
      PROVE  d \in e + 1 .. cursor /\ log[d] = log[e] /\ log[e] # Protected
  BY <1>2, <1>6 DEF Stands
<1> QED BY <1>4, <1>5, <1>6 DEF Arrives

(***************************************************************************)
(* Unless a fiber is preempted, an open subscription keeps the newest      *)
(* update of each identity after its snapshot that does not lie beyond the *)
(* one read of a replay from the store.                                    *)
(***************************************************************************)
THEOREM NewestKept == Spec => []NewestSurvives
<1>1. PInv => NewestSurvives
  <2> SUFFICES ASSUME PInv, ~preempts, NEW s \in Subscribers, NEW k \in Keys,
                      NEW e \in from[s] + 1 .. cursor, status[s] = "open", log[e] = k,
                      e \notin Skipped(s), \A d \in e + 1 .. cursor : log[d] # k
               PROVE  InStream(s, e) \/ OnTheWay(s, e)
    BY DEF NewestSurvives
  <2>1. Routed(e)
    BY HubAssumption DEF Routed
  <2> QED BY <2>1, PassedArrives
<1> QED BY <1>1, PInvHolds, PTL

(***************************************************************************)
(* An open subscription gets every protected event after its snapshot that *)
(* the hub has passed, but for one that a suspended fiber published too    *)
(* late and one beyond the one read of a replay from the store.  Without   *)
(* preemption the first exception is empty: nothing the hub passed was     *)
(* dropped (NoGap).                                                        *)
(***************************************************************************)
THEOREM ProtectedReach == Spec => []ProtectedArrive
<1>1. PInv => ProtectedArrive
  <2> SUFFICES ASSUME PInv, NEW s \in Subscribers, NEW e \in from[s] + 1 .. cursor,
                      status[s] = "open", log[e] = Protected,
                      ~ Overtaken(e), e \notin Skipped(s)
               PROVE  InStream(s, e) \/ OnTheWay(s, e)
    BY DEF ProtectedArrive
  <2>1. Routed(e)
    BY HubAssumption DEF Routed
  <2>2. CASE ~preempts
    BY <2>1, <2>2, PassedArrives
  <2>3. CASE preempts
    <3>1. TInv /\ from[s] \in Nat /\ cursor \in Nat
      BY DEF PInv, OInv, NInv, TInv, TypeOK
    <3>2. e \in shown /\ e > from[s]
      BY <2>3, <3>1 DEF Overtaken
    <3>3. Arrives(s, e)
      BY <2>1, <3>2 DEF PInv, Arrived, Wants
    <3> QED BY <3>1, <3>3, InStreamMembers DEF Arrives, Stands
  <2> QED BY <2>2, <2>3
<1> QED BY <1>1, PInvHolds, PTL
-----------------------------------------------------------------------------
(* The two producers never both wait.  TailFollowsLog, which TLC checks,   *)
(* needs more than fairness: whenever the hub is behind the log, a step of *)
(* a fiber must be possible.                                               *)

\* The last event claimed has been passed, or a fiber has yet to publish it.
ClaimsEndAtTail ==
  cursor = tail \/ \E f \in Fibers : todo[f] # <<>> /\ todo[f][Len(todo[f])] = tail

\* The poll reads only when it has published what it read before.
PollReadsIdle == polled # 0 => ~Busy("poll")

\* Without preemption a fiber finishes its batch before the other claims one.
OneBatch == ~preempts => \E f \in Fibers : ~Busy(f)

CInv == ClaimsEndAtTail /\ PollReadsIdle /\ OneBatch

\* A fiber that is busy can publish its next event or deliver the one it carries.
ProducerCan ==
  \/ MayRun(Fibers) /\ ~Busy("poll") /\ polled = 0 /\ tail < Len(log)
  \/ MayRun(Fibers) /\ polled # 0
  \/ \E f \in Fibers : MayRun(Fibers \ {f}) /\ Busy(f)

LEMMA InitCInv == ASSUME Init PROVE CInv
BY DEF Init, CInv, ClaimsEndAtTail, PollReadsIdle, OneBatch, Busy, Fibers

LEMMA PublishNextC ==
  ASSUME TInv, CInv, NEW f \in Fibers, PublishNext(f) PROVE CInv'
<1>0. /\ tail \in Nat /\ cursor \in Nat /\ cursor <= tail
      /\ todo \in [Fibers -> Seq(Nat)] /\ targets \in [Fibers -> SUBSET Subscribers]
      /\ \A i \in 1 .. Len(todo[f]) : todo[f][i] \in 1 .. tail
  BY DEF TInv, TypeOK, Claimed
<1>1. /\ MayRun(Fibers \ {f}) /\ todo[f] # <<>> /\ targets[f] = {}
      /\ todo' = [todo EXCEPT ![f] = Tail(@)]
      /\ \A g \in Fibers : g # f => targets'[g] = targets[g]
      /\ UNCHANGED <<preempts, tail, polled>>
      /\ cursor' = IF Head(todo[f]) > cursor THEN Head(todo[f]) ELSE cursor
  BY <1>0 DEF PublishNext, store, hub
<1>2. /\ Head(todo[f]) = todo[f][1] /\ Head(todo[f]) \in 1 .. tail
      /\ Tail(todo[f]) \in Seq(Nat) /\ Len(Tail(todo[f])) = Len(todo[f]) - 1
      /\ Len(todo[f]) \in Nat \ {0}
      /\ \A i \in 1 .. Len(todo[f]) - 1 : Tail(todo[f])[i] = todo[f][i + 1]
  <2>1. todo[f] \in Seq(Nat)
    BY <1>0
  <2> QED BY <1>0, <1>1, <2>1, TailFacts
<1>3. todo'[f] = Tail(todo[f]) /\ \A g \in Fibers : g # f => todo'[g] = todo[g]
  BY <1>0, <1>1
<1>4. cursor = tail => cursor' = tail
  BY <1>0, <1>1, <1>2
<1>5. ClaimsEndAtTail'
  <2>1. CASE cursor = tail
    BY <1>1, <1>4, <2>1 DEF ClaimsEndAtTail
  <2>2. CASE cursor # tail
    <3>1. PICK g \in Fibers : todo[g] # <<>> /\ todo[g][Len(todo[g])] = tail
      BY <2>2 DEF CInv, ClaimsEndAtTail
    <3>2. CASE g # f
      BY <1>1, <1>3, <3>1, <3>2 DEF ClaimsEndAtTail
    <3>3. CASE g = f
      <4>1. PICK n \in Nat : Len(todo[f]) = n + 1
        <5>1. Len(todo[f]) - 1 \in Nat /\ Len(todo[f]) = (Len(todo[f]) - 1) + 1
          BY <1>2
        <5> QED BY <5>1
      <4>2. CASE n = 0
        BY <1>0, <1>1, <1>2, <3>1, <3>3, <4>1, <4>2 DEF ClaimsEndAtTail
      <4>3. CASE n # 0
        <5> DEFINE rest == Tail(todo[f])
        <5>1. rest \in Seq(Nat) /\ Len(rest) = n /\ n \in 1 .. Len(todo[f]) - 1
          BY <1>2, <4>1, <4>3
        <5>2. rest[n] = tail
          BY <1>2, <3>1, <3>3, <4>1, <5>1
        <5>3. rest # <<>>
          <6> HIDE DEF rest
          <6> QED BY <4>3, <5>1
        <5>4. todo'[f] = rest
          BY <1>3
        <5> HIDE DEF rest
        <5> QED BY <1>1, <5>1, <5>2, <5>3, <5>4 DEF ClaimsEndAtTail
      <4> QED BY <4>2, <4>3
    <3> QED BY <3>2, <3>3
  <2> QED BY <2>1, <2>2
<1>6. PollReadsIdle'
  <2>1. CASE f = "poll"
    BY <1>1, <2>1 DEF CInv, PollReadsIdle, Busy
  <2>2. CASE f # "poll"
    BY <1>1, <1>3, <2>2 DEF CInv, PollReadsIdle, Busy, Fibers
  <2> QED BY <2>1, <2>2
<1>7. OneBatch'
  <2>1. \A g \in Fibers : g # f => (Busy(g)' <=> Busy(g))
    BY <1>1, <1>3 DEF Busy
  <2>2. \E g \in Fibers : g # f
    BY DEF Fibers
  <2> QED BY <1>1, <2>1, <2>2 DEF OneBatch, MayRun
<1> QED BY <1>5, <1>6, <1>7 DEF CInv

LEMMA DeliverC ==
  ASSUME TInv, CInv, NEW f \in Fibers, NEW s \in Subscribers, Deliver(f, s) PROVE CInv'
<1>0. targets \in [Fibers -> SUBSET Subscribers]
  BY DEF TInv, TypeOK
<1>1. /\ MayRun(Fibers \ {f}) /\ s \in targets[f]
      /\ \A g \in Fibers : g # f => targets'[g] = targets[g]
      /\ UNCHANGED <<preempts, tail, polled, todo, cursor>>
  BY <1>0 DEF Deliver, store, hub
<1>2. ClaimsEndAtTail'
  BY <1>1 DEF CInv, ClaimsEndAtTail
<1>3. PollReadsIdle'
  <2>1. CASE f = "poll"
    BY <1>1, <2>1 DEF CInv, PollReadsIdle, Busy
  <2>2. CASE f # "poll"
    BY <1>1, <2>2 DEF CInv, PollReadsIdle, Busy, Fibers
  <2> QED BY <2>1, <2>2
<1>4. OneBatch'
  <2>1. \A g \in Fibers : g # f => (Busy(g)' <=> Busy(g))
    BY <1>1 DEF Busy
  <2>2. \E g \in Fibers : g # f
    BY DEF Fibers
  <2> QED BY <1>1, <2>1, <2>2 DEF OneBatch, MayRun
<1> QED BY <1>2, <1>3, <1>4 DEF CInv

LEMMA CInvStep == ASSUME TInv, CInv, [Next]_vars PROVE CInv'
<1>0. /\ tail \in Nat /\ polled \in Nat /\ heard \in Nat /\ Len(log) \in Nat
      /\ cursor \in Nat /\ cursor <= tail
      /\ todo \in [Fibers -> Seq(Nat)]
      /\ "poll" \in Fibers /\ "listen" \in Fibers /\ "poll" # "listen"
  BY DEF TInv, TypeOK, Fibers
<1>1. ASSUME UNCHANGED <<preempts, tail, todo, targets, cursor>>, polled' = polled \/ ~Busy("poll")
      PROVE  CInv'
  BY <1>1 DEF CInv, ClaimsEndAtTail, PollReadsIdle, OneBatch, Busy
<1>2. ASSUME PollClaim PROVE CInv'
  <2>1. /\ MayRun(Fibers) /\ polled # 0 /\ polled' = 0
        /\ todo'["poll"] = Fresh /\ todo'["listen"] = todo["listen"]
        /\ tail' = IF polled > tail THEN polled ELSE tail
        /\ UNCHANGED <<preempts, targets, cursor>>
    BY <1>0, <1>2 DEF PollClaim, store, hub
  <2>2. todo["poll"] = <<>> /\ targets["poll"] = {}
    BY <2>1 DEF CInv, PollReadsIdle, Busy
  <2>3. /\ Fresh \in Seq(Nat) /\ Len(Fresh) = IF tail < polled THEN polled - tail ELSE 0
        /\ \A i \in 1 .. Len(Fresh) : Fresh[i] = tail + i
    BY <1>0, IntervalFacts DEF Fresh
  <2>4. ClaimsEndAtTail'
    <3>1. CASE polled > tail
      <4>1. Len(Fresh) \in 1 .. Len(Fresh) /\ Fresh[Len(Fresh)] = polled /\ Fresh # <<>>
        BY <1>0, <2>3, <3>1
      <4> QED BY <1>0, <2>1, <3>1, <4>1 DEF ClaimsEndAtTail
    <3>2. CASE ~ (polled > tail)
      <4>1. cursor = tail \/ (todo["listen"] # <<>> /\ todo["listen"][Len(todo["listen"])] = tail)
        BY <2>2 DEF CInv, ClaimsEndAtTail, Fibers
      <4> QED BY <1>0, <2>1, <3>2, <4>1 DEF ClaimsEndAtTail
    <3> QED BY <3>1, <3>2
  <2>5. OneBatch'
    <3>1. ASSUME ~preempts PROVE ~Busy("listen")'
      BY <1>0, <2>1, <3>1 DEF MayRun, Busy
    <3> QED BY <1>0, <2>1, <3>1 DEF OneBatch
  <2> QED BY <2>1, <2>4, <2>5 DEF CInv, PollReadsIdle
<1>3. ASSUME ListenClaim PROVE CInv'
  <2>1. /\ MayRun(Fibers) /\ heard' = heard + 1
        /\ UNCHANGED <<preempts, targets, cursor, polled>> /\ todo'["poll"] = todo["poll"]
        /\ \/ UNCHANGED <<tail, todo>>
           \/ tail' = heard' /\ todo'["listen"] = <<heard'>>
    BY <1>0, <1>3 DEF ListenClaim, store, hub
  <2>2. ClaimsEndAtTail'
    <3>1. CASE UNCHANGED <<tail, todo>>
      BY <2>1, <3>1 DEF CInv, ClaimsEndAtTail
    <3>2. CASE tail' = heard' /\ todo'["listen"] = <<heard'>>
      <4>1. <<heard'>> # <<>> /\ <<heard'>>[Len(<<heard'>>)] = heard'
        OBVIOUS
      <4> QED BY <1>0, <3>2, <4>1 DEF ClaimsEndAtTail
    <3> QED BY <2>1, <3>1, <3>2
  <2>3. PollReadsIdle'
    BY <2>1 DEF CInv, PollReadsIdle, Busy
  <2>4. OneBatch'
    <3>1. ASSUME ~preempts PROVE ~Busy("poll")'
      BY <1>0, <2>1, <3>1 DEF MayRun, Busy
    <3> QED BY <1>0, <2>1, <3>1 DEF OneBatch
  <2> QED BY <2>2, <2>3, <2>4 DEF CInv
<1>4. ASSUME NEW f \in Fibers, PublishNext(f) PROVE CInv'
  BY <1>4, PublishNextC
<1>5. ASSUME NEW f \in Fibers, NEW s \in Subscribers, Deliver(f, s) PROVE CInv'
  BY <1>5, DeliverC
<1>6. CASE PollRead
  BY <1>1, <1>6 DEF PollRead, store, hub
<1>7. CASE \/ \E kind \in Kinds : Store(kind)
           \/ Announce
           \/ \E s \in Subscribers, n \in 0 .. MaxLog : Subscribe(s, n)
           \/ \E s \in Subscribers : Receive(s)
           \/ \E s \in Subscribers, how \in {"failed", "closed"} : End(s, how)
           \/ UNCHANGED vars
  BY <1>1, <1>7 DEF Store, Announce, Subscribe, Receive, End, vars, store, producers, hub
<1> QED BY <1>2, <1>3, <1>4, <1>5, <1>6, <1>7, StepCases

(***************************************************************************)
(* While the hub has not passed the end of the log, the poll can read or   *)
(* claim, or a fiber can publish or deliver: the two fibers never keep     *)
(* each other waiting, and no event is claimed by a fiber that forgets it. *)
(***************************************************************************)
THEOREM HubNeverStuck == Spec => [](cursor < Len(log) => ProducerCan)
<1>1. TInv /\ CInv /\ [Next]_vars => CInv'
  BY CInvStep
<1>2. TInv /\ CInv => (cursor < Len(log) => ProducerCan)
  <2> SUFFICES ASSUME TInv, CInv, cursor < Len(log) PROVE ProducerCan
    OBVIOUS
  <2>1. CASE \E f \in Fibers : Busy(f)
    <3>1. PICK f \in Fibers : Busy(f)
      BY <2>1
    <3>2. CASE preempts
      BY <3>1, <3>2 DEF ProducerCan, MayRun
    <3>3. CASE ~preempts
      BY <3>1, <3>3 DEF ProducerCan, MayRun, CInv, OneBatch, Fibers
    <3> QED BY <3>2, <3>3
  <2>2. CASE \A f \in Fibers : ~Busy(f)
    <3>1. MayRun(Fibers) /\ ~Busy("poll")
      BY <2>2 DEF MayRun, Fibers
    <3>2. cursor = tail
      BY <2>2 DEF Busy, CInv, ClaimsEndAtTail
    <3> QED BY <3>1, <3>2 DEF ProducerCan
  <2> QED BY <2>1, <2>2
<1> QED BY <1>1, <1>2, InitCInv, TInvHolds, PTL DEF Spec
=============================================================================
