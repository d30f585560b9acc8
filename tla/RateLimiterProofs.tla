-------------------------- MODULE RateLimiterProofs --------------------------
(***************************************************************************)
(* The rate a bucket grants, for any number of threads, any limits and any *)
(* schedule, and who times out where no thread is held up.                 *)
(*                                                                         *)
(* The window bound alone is not inductive: it says nothing of  *)
(* the tokens still in the bucket.  BucketInv adds them: what was granted  *)
(* since the i-th grant, plus what is left, is at most one full bucket and *)
(* what the rate brought in since that grant.                              *)
(***************************************************************************)
EXTENDS RateLimiter, ArithmeticLemmas, TLAPS

\* A backed-off call has an attempt left.
RetryLeft ==
  \A t \in Threads : phase[t] = "backoff" => attempt[t] < MaxAttempts - 1

GrantsInThePast == \A i \in 1..Len(grants) : grants[i] <= lastRefill

\* The tokens granted from the i-th grant on, and those left.
Drawn(i) == (Len(grants) - i + 1) * Scale + tokens

BucketInv ==
  \A i \in 1..Len(grants) : Drawn(i) <= Burst * Scale + Rate * (lastRefill - grants[i])

IInv ==
  /\ TypeOK
  /\ RetryLeft
  /\ GrantsInThePast
  /\ BucketInv
  /\ WindowBound

-----------------------------------------------------------------------------
(* Arithmetic.                                                             *)

\* What the rate brings in over two adjacent spans adds up.
LEMMA RateAdds ==
  ASSUME NEW r \in Int, NEW a \in Int, NEW b \in Int, NEW c \in Int
  PROVE  r * (c - a) = r * (b - a) + r * (c - b)
OBVIOUS

\* One token more.
LEMMA OneMore ==
  ASSUME NEW n \in Int, NEW s \in Int
  PROVE  (n + 1) * s = n * s + s
OBVIOUS

\* A refill leaves the bucket between its bounds, never with fewer tokens, and
\* with no more than the rate brought in on top (ratelimit.py:27-31).
LEMMA RefilledBounds ==
  ASSUME TypeOK, BucketAssumption
  PROVE  /\ Refilled \in 0..(Burst * Scale)
         /\ Refilled <= tokens + Rate * (now - lastRefill)
<1> DEFINE cap == Burst * Scale
           in == (now - lastRefill) * Rate
<1>1. cap \in Nat
  BY DEF BucketAssumption
<1>2. in \in Nat /\ in = Rate * (now - lastRefill)
  BY DEF BucketAssumption, TypeOK
<1>3. tokens \in Nat /\ tokens <= cap
  BY DEF TypeOK
<1> HIDE DEF cap, in
<1>a. tokens + in \in Int
  BY <1>2, <1>3
<1> DEFINE sum == tokens + in
<1> HIDE DEF sum
<1>4. /\ Min({cap, sum}) \in {cap, sum}
      /\ Min({cap, sum}) <= cap
      /\ Min({cap, sum}) <= sum
  <2>1. cap \in Int /\ sum \in Int
    BY <1>1, <1>a DEF sum
  <2> QED BY <2>1, MinOfTwo
<1>5. /\ Min({cap, sum}) \in 0..cap
      /\ Min({cap, sum}) <= tokens + in
  BY <1>1, <1>2, <1>3, <1>4 DEF sum
<1> QED BY <1>2, <1>5 DEF Refilled, cap, in, sum

-----------------------------------------------------------------------------
(* The bucket's own steps.                                                 *)

\* A refill keeps what was drawn, and what is left, within the bound.
LEMMA RefillKeepsBound ==
  ASSUME TypeOK, GrantsInThePast, BucketInv, BucketAssumption,
         NEW i \in 1..Len(grants)
  PROVE  (Len(grants) - i + 1) * Scale + Refilled
           <= Burst * Scale + Rate * (now - grants[i])
<1> DEFINE drawn == (Len(grants) - i + 1) * Scale
           cap == Burst * Scale
           before == Rate * (lastRefill - grants[i])
           since == Rate * (now - lastRefill)
           all == Rate * (now - grants[i])
<1>1. /\ grants[i] \in Nat
      /\ Rate \in Nat
      /\ lastRefill \in Nat
      /\ now \in Nat
      /\ tokens \in Nat
  BY DEF TypeOK, BucketAssumption
<1>2. drawn \in Int /\ cap \in Int /\ before \in Int /\ since \in Int /\ all \in Int
  BY <1>1 DEF BucketAssumption, TypeOK
<1>3. drawn + tokens <= cap + before
  BY DEF BucketInv, Drawn
<1>4. all = before + since
  BY <1>1, RateAdds
<1>5. Refilled \in Nat /\ Refilled <= tokens + since
  BY <1>2, RefilledBounds
<1> HIDE DEF drawn, cap, before, since, all
<1>6. drawn + Refilled <= cap + all
  BY <1>1, <1>2, <1>3, <1>4, <1>5
<1> QED BY <1>6 DEF drawn, cap, all

\* Taking a token after a refill keeps the bound for the earlier grants and
\* starts it for the new one.
LEMMA GrantKeepsBound ==
  ASSUME TypeOK, GrantsInThePast, BucketInv, WindowBound, BucketAssumption,
         NEW t \in Threads, TryAcquire(t), Refilled >= Scale
  PROVE  BucketInv' /\ WindowBound'
<1> DEFINE n == Len(grants)
           cap == Burst * Scale
<1>1. /\ Refilled \in Nat /\ Refilled <= cap /\ cap \in Nat
      /\ Scale \in Nat /\ Rate \in Nat /\ now \in Nat
  BY RefilledBounds DEF BucketAssumption, TypeOK
<1>2. /\ grants' = Append(grants, now)
      /\ tokens' = Refilled - Scale
      /\ lastRefill' = now
  BY DEF TryAcquire
<1>3. /\ grants \in Seq(Nat) /\ n \in Nat /\ Len(grants') = n + 1
      /\ \A i \in 1..n : grants'[i] = grants[i] /\ grants[i] \in Nat
      /\ grants'[n + 1] = now
  BY <1>1, <1>2 DEF TypeOK
<1>4. ASSUME NEW i \in 1..(n + 1)
      PROVE  (n + 1 - i + 1) * Scale + (Refilled - Scale) <= cap + Rate * (now - grants'[i])
  <2>1. CASE i = n + 1
    <3>1. (n + 1 - i + 1) * Scale = Scale /\ Rate * (now - grants'[i]) = 0
      BY <1>1, <1>3, <2>1
    <3> QED BY <1>1, <3>1
  <2>2. CASE i \in 1..n
    <3> DEFINE k == n - i + 1
               all == Rate * (now - grants[i])
    <3>1. k * Scale + Refilled <= cap + all
      BY <2>2, RefillKeepsBound
    <3>2. k \in Int /\ n + 1 - i + 1 = k + 1 /\ all \in Int /\ grants'[i] = grants[i]
      BY <1>1, <1>3, <2>2
    <3> HIDE DEF k, all
    <3>3. (k + 1) * Scale = k * Scale + Scale /\ k * Scale \in Int
      BY <1>1, <3>2, OneMore
    <3>4. (k + 1) * Scale + (Refilled - Scale) <= cap + all
      BY <1>1, <3>1, <3>2, <3>3
    <3> QED BY <3>2, <3>4 DEF all
  <2> QED BY <1>3, <2>1, <2>2
<1>5. BucketInv'
  BY <1>2, <1>3, <1>4 DEF BucketInv, Drawn
<1>6. ASSUME NEW i \in 1..(n + 1), NEW j \in 1..(n + 1), i <= j
      PROVE  (j - i + 1) * Scale <= cap + Rate * (grants'[j] - grants'[i])
  <2>1. CASE j = n + 1
    <3>1. (n + 1 - i + 1) * Scale + (Refilled - Scale) <= cap + Rate * (now - grants'[i])
      BY <1>4
    <3>2. /\ Refilled - Scale \in Nat
          /\ (n + 1 - i + 1) * Scale \in Int
          /\ Rate * (now - grants'[i]) \in Int
      <4> DEFINE since == now - grants'[i]
                 many == n + 1 - i + 1
      <4>1. since \in Int
        BY <1>1, <1>3
      <4>2. many \in Int
        BY <1>3
      <4>3. Refilled - Scale \in Nat
        BY <1>1
      <4> HIDE DEF since, many
      <4>4. many * Scale \in Int /\ Rate * since \in Int
        BY <1>1, <4>1, <4>2
      <4> QED BY <4>3, <4>4 DEF since, many
    <3>3. grants'[j] = now /\ j - i + 1 = n + 1 - i + 1
      BY <1>3, <2>1
    <3> DEFINE all == Rate * (now - grants'[i])
               drawn == (n + 1 - i + 1) * Scale
    <3> HIDE DEF all, drawn
    <3>4. drawn <= cap + all
      BY <1>1, <3>1, <3>2 DEF all, drawn
    <3> QED BY <3>3, <3>4 DEF all, drawn
  <2>2. CASE j \in 1..n
    <3>1. i \in 1..n /\ i <= j
      BY <1>3, <1>6, <2>2
    <3>2. (j - i + 1) * Scale <= cap + Rate * (grants[j] - grants[i])
      BY <2>2, <3>1 DEF WindowBound
    <3>3. grants'[i] = grants[i] /\ grants'[j] = grants[j]
      BY <1>3, <2>2, <3>1
    <3> QED BY <3>2, <3>3
  <2> QED BY <1>3, <2>1, <2>2
<1>7. WindowBound'
  BY <1>3, <1>6 DEF WindowBound
<1> QED BY <1>5, <1>7

\* A refill that finds no whole token.
LEMMA RefusalKeepsBound ==
  ASSUME TypeOK, GrantsInThePast, BucketInv, WindowBound, BucketAssumption,
         NEW t \in Threads, TryAcquire(t), ~(Refilled >= Scale)
  PROVE  BucketInv' /\ WindowBound'
<1>1. grants' = grants /\ tokens' = Refilled /\ lastRefill' = now
  BY DEF TryAcquire
<1>2. \A i \in 1..Len(grants) :
        (Len(grants) - i + 1) * Scale + Refilled <= Burst * Scale + Rate * (now - grants[i])
  BY RefillKeepsBound
<1>3. BucketInv'
  BY <1>1, <1>2 DEF BucketInv, Drawn
<1>4. WindowBound'
  BY <1>1 DEF WindowBound
<1> QED BY <1>3, <1>4

-----------------------------------------------------------------------------
(* The theorems.                                                           *)

\* A full bucket, and nobody in a call.
LEMMA InitIInv == Init => IInv
<1> USE BucketAssumption, CallAssumption
<1> SUFFICES ASSUME Init PROVE IInv
  OBVIOUS
<1>1. TypeOK
  <2>1. Burst * Scale \in Nat
    BY DEF BucketAssumption
  <2> QED BY <2>1 DEF Init, TypeOK, Phases, Ended, CallAssumption
<1>2. RetryLeft /\ GrantsInThePast /\ BucketInv /\ WindowBound
  BY DEF Init, RetryLeft, GrantsInThePast, BucketInv, WindowBound
<1> QED BY <1>1, <1>2 DEF IInv

\* Every step keeps the shape of the state.
LEMMA StepTypeOK ==
  ASSUME IInv, [Next]_vars
  PROVE  TypeOK'
<1> USE BucketAssumption, CallAssumption DEF IInv, TypeOK, Phases, Ended
<1>1. CASE Tick
  BY <1>1 DEF Tick
<1>2. ASSUME NEW t \in Threads, StartCall(t)
      PROVE  TypeOK'
  BY <1>2 DEF StartCall, EnterAcquire, bucket, BucketAssumption, CallAssumption
<1>3. ASSUME NEW t \in Threads, TryAcquire(t)
      PROVE  TypeOK'
  <2>1. Refilled \in 0..(Burst * Scale) /\ Scale \in Nat /\ Burst * Scale \in Nat
    BY RefilledBounds DEF BucketAssumption
  <2>2. tokens' \in 0..(Burst * Scale)
    BY <1>3, <2>1 DEF TryAcquire
  <2>3. lastRefill' \in 0..now' /\ now' \in Nat /\ attempt' = attempt
        /\ deadline' = deadline /\ wake' = wake
    BY <1>3 DEF TryAcquire
  <2>4. phase' \in [Threads -> Phases]
    BY <1>3 DEF TryAcquire
  <2>5. grants' \in Seq(Nat)
    <3>1. grants' \in {grants, Append(grants, now)}
      BY <1>3 DEF TryAcquire
    <3>2. Append(grants, now) \in Seq(Nat)
      OBVIOUS
    <3> QED BY <3>1, <3>2
  <2> QED BY <2>2, <2>3, <2>4, <2>5
<1>4. ASSUME NEW t \in Threads, CheckDeadline(t)
      PROVE  TypeOK'
  <2>1. phase' \in [Threads -> Phases]
    BY <1>4 DEF CheckDeadline
  <2>2. wake' \in [Threads -> Nat]
    BY <1>4 DEF CheckDeadline, CallAssumption
  <2> QED BY <1>4, <2>1, <2>2 DEF CheckDeadline, bucket
<1>5. ASSUME NEW t \in Threads, PollAgain(t)
      PROVE  TypeOK'
  BY <1>5 DEF PollAgain, bucket
<1>6. ASSUME NEW t \in Threads, RequestEnds(t)
      PROVE  TypeOK'
  BY <1>6 DEF RequestEnds, bucket
<1>7. ASSUME NEW t \in Threads, NEW delay \in Backoffs(attempt[t]), RequestThrottled(t, delay)
      PROVE  TypeOK'
  <2>1. delay \in Nat
    BY DEF Backoffs
  <2>2. phase' \in [Threads -> Phases]
    BY <1>7 DEF RequestThrottled
  <2>3. wake' \in [Threads -> Nat]
    <3>1. wake' \in {wake, [wake EXCEPT ![t] = now + delay]}
      BY <1>7 DEF RequestThrottled
    <3>2. now + delay \in Nat
      BY <2>1
    <3> QED BY <3>1, <3>2
  <2> QED BY <1>7, <2>2, <2>3 DEF RequestThrottled, bucket
<1>8. ASSUME NEW t \in Threads, EndBackoff(t)
      PROVE  TypeOK'
  <2>1. attempt[t] + 1 \in 0..(MaxAttempts - 1)
    BY <1>8 DEF EndBackoff, RetryLeft, CallAssumption
  <2> QED BY <1>8, <2>1 DEF EndBackoff, EnterAcquire, bucket, CallAssumption
<1>9. CASE UNCHANGED vars
  BY <1>9 DEF vars
<1> QED BY <1>1, <1>2, <1>3, <1>4, <1>5, <1>6, <1>7, <1>8, <1>9 DEF Next, Step

\* Only a throttled request that has an attempt left backs off.
LEMMA StepRetryLeft ==
  ASSUME IInv, [Next]_vars
  PROVE  RetryLeft'
<1> USE CallAssumption DEF IInv, TypeOK, RetryLeft, CallAssumption
<1>1. CASE Tick
  BY <1>1 DEF Tick
<1>2. ASSUME NEW t \in Threads, StartCall(t)
      PROVE  RetryLeft'
  BY <1>2 DEF StartCall, EnterAcquire
<1>3. ASSUME NEW t \in Threads, TryAcquire(t)
      PROVE  RetryLeft'
  BY <1>3 DEF TryAcquire
<1>4. ASSUME NEW t \in Threads, CheckDeadline(t)
      PROVE  RetryLeft'
  BY <1>4 DEF CheckDeadline
<1>5. ASSUME NEW t \in Threads, PollAgain(t) \/ RequestEnds(t)
      PROVE  RetryLeft'
  BY <1>5 DEF PollAgain, RequestEnds
<1>6. ASSUME NEW t \in Threads, NEW delay \in Backoffs(attempt[t]), RequestThrottled(t, delay)
      PROVE  RetryLeft'
  BY <1>6 DEF RequestThrottled, IsLastAttempt
<1>7. ASSUME NEW t \in Threads, EndBackoff(t)
      PROVE  RetryLeft'
  BY <1>7 DEF EndBackoff, EnterAcquire
<1>8. CASE UNCHANGED vars
  BY <1>8 DEF vars
<1> QED BY <1>1, <1>2, <1>3, <1>4, <1>5, <1>6, <1>7, <1>8 DEF Next, Step

\* Every step keeps the bound and what it rests on; only TryAcquire touches the
\* bucket.
LEMMA StepBound ==
  ASSUME IInv, [Next]_vars
  PROVE  GrantsInThePast' /\ BucketInv' /\ WindowBound'
<1> USE DEF IInv
<1>1. CASE \E t \in Threads : TryAcquire(t)
  <2>1. PICK t \in Threads : TryAcquire(t)
    BY <1>1
  <2>2. GrantsInThePast'
    <3>1. \A i \in 1..Len(grants) : grants[i] <= now
      BY DEF TypeOK, GrantsInThePast
    <3>2. grants' \in {grants, Append(grants, now)} /\ lastRefill' = now
      BY <2>1 DEF TryAcquire
    <3>3. grants \in Seq(Nat) /\ now \in Nat
      BY DEF TypeOK
    <3> QED BY <3>1, <3>2, <3>3 DEF GrantsInThePast
  <2>3. BucketInv' /\ WindowBound'
    BY <2>1, GrantKeepsBound, RefusalKeepsBound, BucketAssumption
  <2> QED BY <2>2, <2>3
<1>2. CASE UNCHANGED bucket
  BY <1>2 DEF bucket, GrantsInThePast, BucketInv, Drawn, WindowBound
<1>3. UNCHANGED bucket \/ \E t \in Threads : TryAcquire(t)
  BY DEF Next, Step, Tick, StartCall, CheckDeadline, PollAgain, RequestEnds,
         RequestThrottled, EndBackoff, EnterAcquire, vars, bucket
<1> QED BY <1>1, <1>2, <1>3

LEMMA NextIInv == IInv /\ [Next]_vars => IInv'
BY StepTypeOK, StepRetryLeft, StepBound DEF IInv

LEMMA SpecIInv == Spec => []IInv
BY InitIInv, NextIInv, PTL DEF Spec

\* The state of the limiter has its shape, for any number of threads.
THEOREM LimiterTypeOK == Spec => []TypeOK
<1>1. IInv => TypeOK
  BY DEF IInv
<1> QED BY SpecIInv, <1>1, PTL

\* Whatever the threads do and however long the window, the bucket grants at most
\* one burst more than its rate (ratelimit.py:27-40).
THEOREM RateIsBounded == Spec => []WindowBound
<1>1. IInv => WindowBound
  BY DEF IInv
<1> QED BY SpecIInv, <1>1, PTL

-----------------------------------------------------------------------------
(* Who times out.  That acquire times out only under contention says       *)
(* nothing of a thread that still waits, so it is not inductive either.    *)
(* While a thread waits and nobody takes a token after its start, the      *)
(* bucket has earned what the rate brings in since then, up to its         *)
(* capacity; and a thread about to look at its deadline has just seen a    *)
(* bucket without a whole token.  The second holds only of threads that    *)
(* are held up for no whole quantum (PromptSpec): the clock must not move  *)
(* between the two.                                                        *)

Start(t) == deadline[t] - Timeout
JustStarted(t) == Start(t) = now
Waiting(t) == phase[t] \in {"try", "check", "poll"}
Undisturbed(t) == \A k \in 1..Len(grants) : grants[k] <= Start(t)
Earned(t) == Min({Burst * Scale, (now - Start(t)) * Rate})

RefusedJustNow ==
  \A t \in Threads : phase[t] = "check" => lastRefill = now /\ tokens < Scale

WaitingEarns ==
  \A t \in Threads :
    Waiting(t) => Start(t) <= now /\ (Undisturbed(t) => Refilled >= Earned(t))

\* Whoever timed out was disturbed, and stays so: grants are never taken back.
DisturbedTimeouts == \A t \in Threads : phase[t] = "timed_out" => ~Undisturbed(t)

PromptIInv ==
  /\ IInv
  /\ RefusedJustNow
  /\ WaitingEarns
  /\ Rate * Timeout >= Scale => DisturbedTimeouts

\* Two amounts under one cap that grow by the same keep their order.
LEMMA CappedGrow ==
  ASSUME NEW cap \in Int, NEW x \in Int, NEW y \in Int, NEW d \in Nat,
         Min({cap, x}) >= Min({cap, y})
  PROVE  Min({cap, x + d}) >= Min({cap, y + d})
<1> DEFINE x2 == x + d
           y2 == y + d
<1>1. x2 \in Int /\ y2 \in Int /\ x2 = x + d /\ y2 = y + d
  OBVIOUS
<1> HIDE DEF x2, y2
<1>2. /\ Min({cap, x}) = IF cap <= x THEN cap ELSE x
      /\ Min({cap, y}) = IF cap <= y THEN cap ELSE y
      /\ Min({cap, x2}) = IF cap <= x2 THEN cap ELSE x2
      /\ Min({cap, y2}) = IF cap <= y2 THEN cap ELSE y2
  BY <1>1, MinIsIf
<1>3. Min({cap, x2}) >= Min({cap, y2})
  BY <1>1, <1>2
<1> QED BY <1>3 DEF x2, y2

\* A refilled bucket refills no further at the same time.
LEMMA RefillTwice ==
  ASSUME TypeOK, BucketAssumption, tokens' = Refilled, lastRefill' = now, now' = now
  PROVE  Refilled' = Refilled
<1>1. Refilled \in 0..(Burst * Scale) /\ Burst * Scale \in Nat /\ now \in Nat /\ Rate \in Nat
  BY RefilledBounds DEF BucketAssumption, TypeOK
<1>2. Refilled' = Min({Burst * Scale, Refilled + (now - now) * Rate})
  BY DEF Refilled
<1>3. PICK cap \in Nat, r \in Nat : cap = Burst * Scale /\ r = Refilled /\ r <= cap
  BY <1>1
<1>4. Refilled' = Min({cap, r})
  <2>1. (now - now) * Rate = 0
    BY <1>1
  <2>2. r + 0 = r
    OBVIOUS
  <2> QED BY <1>2, <1>3, <2>1, <2>2
<1>5. Min({cap, r}) = IF cap <= r THEN cap ELSE r
  BY MinIsIf
<1> QED BY <1>3, <1>4, <1>5

\* A refilled bucket holds a natural number of units.
LEMMA RefilledIsNat ==
  ASSUME TypeOK, BucketAssumption
  PROVE  Refilled \in Nat /\ Refilled <= Burst * Scale /\ Burst * Scale \in Nat
BY RefilledBounds DEF BucketAssumption

\* A bucket that was just refilled holds its tokens.
LEMMA RefilledNow ==
  ASSUME TypeOK, BucketAssumption, lastRefill = now
  PROVE  Refilled = tokens
<1>1. PICK cap \in Nat, r \in Nat : cap = Burst * Scale /\ r = tokens /\ r <= cap
  BY DEF TypeOK, BucketAssumption
<1>2. (now - lastRefill) * Rate = 0
  BY DEF TypeOK, BucketAssumption
<1>3. r + 0 = r
  OBVIOUS
<1>4. Min({cap, r}) = IF cap <= r THEN cap ELSE r
  BY MinIsIf
<1> QED BY <1>1, <1>2, <1>3, <1>4 DEF Refilled

\* A thread that has just started has earned nothing yet.
LEMMA NothingEarnedYet ==
  ASSUME TypeOK', BucketAssumption, NEW t \in Threads, JustStarted(t)'
  PROVE  (Refilled >= Earned(t))'
<1>1. /\ now' - lastRefill' \in Nat /\ tokens' \in Nat /\ now' \in Nat
      /\ Rate \in Nat /\ Burst * Scale \in Nat
  <2>1. Burst * Scale \in Nat /\ Rate \in Nat
    BY DEF BucketAssumption
  <2>2. PICK c \in Nat : c = Burst * Scale
    BY <2>1
  <2>3. tokens' \in 0..c /\ lastRefill' \in 0..now' /\ now' \in Nat
    BY <2>2 DEF TypeOK
  <2>4. tokens' \in Nat
    BY <2>2, <2>3
  <2>5. now' - lastRefill' \in Nat
    <3>1. PICK n \in Nat, r \in Nat : n = now' /\ r = lastRefill' /\ r <= n
      BY <2>3
    <3>2. n - r \in Nat
      BY <3>1, DifferenceIsNat
    <3> QED BY <3>1, <3>2
  <2> QED BY <2>1, <2>3, <2>4, <2>5
<1>2. PICK cap \in Nat, c \in Nat, d \in Nat :
        cap = Burst * Scale /\ c = tokens' /\ d = now' - lastRefill'
  BY <1>1
<1>3. d * Rate \in Nat
  BY <1>1
<1>4. PICK x \in Nat : x = c + d * Rate
  BY <1>3
<1>5. Min({cap, x}) = IF cap <= x THEN cap ELSE x
  BY MinIsIf
<1>6. Min({cap, 0}) = IF cap <= 0 THEN cap ELSE 0
  BY MinIsIf
<1>7. Earned(t)' = Min({cap, 0})
  <2>1. (now' - Start(t)') * Rate = 0
    <3>1. Start(t)' = now'
      BY DEF JustStarted
    <3>3. now' - now' = 0
      <4>1. PICK n \in Nat : n = now'
        BY <1>1
      <4>2. n - n = 0
        OBVIOUS
      <4> QED BY <4>1, <4>2
    <3>2. 0 * Rate = 0
      BY <1>1
    <3> QED BY <3>1, <3>2, <3>3
  <2> QED BY <1>2, <2>1 DEF Earned
<1>8. Refilled' = Min({cap, x})
  BY <1>2, <1>4 DEF Refilled
<1> QED BY <1>5, <1>6, <1>7, <1>8

\* A quantum credits the bucket as much as the waiting thread.
LEMMA TickEarns ==
  ASSUME TypeOK, BucketAssumption, CallAssumption, Tick, WaitingEarns
  PROVE  WaitingEarns'
<1> SUFFICES ASSUME NEW t \in Threads, Waiting(t)'
             PROVE  Start(t)' <= now' /\ (Undisturbed(t)' => (Refilled >= Earned(t))')
  BY DEF WaitingEarns
<1>1. /\ now' = now + 1 /\ tokens' = tokens /\ lastRefill' = lastRefill
      /\ deadline' = deadline /\ grants' = grants /\ phase' = phase
  BY DEF Tick
<1>2. /\ now \in Nat /\ tokens \in Nat /\ lastRefill \in Nat /\ Rate \in Nat
      /\ Start(t) \in Int /\ Burst * Scale \in Nat
  BY DEF TypeOK, BucketAssumption, CallAssumption, Start
<1>3. Start(t) <= now /\ (Undisturbed(t) => Refilled >= Earned(t))
  BY <1>1 DEF WaitingEarns, Waiting
<1>4. Start(t)' = Start(t) /\ Undisturbed(t)' = Undisturbed(t)
  BY <1>1 DEF Start, Undisturbed
<1>5. ASSUME Undisturbed(t) PROVE (Refilled >= Earned(t))'
  <2>1. PICK cap \in Nat, s \in Int : cap = Burst * Scale /\ s = Start(t)
    BY <1>2
  <2>2. PICK in \in Int, own \in Int :
          in = (now - lastRefill) * Rate /\ own = (now - s) * Rate
    BY <1>2
  <2>3. /\ (now + 1 - lastRefill) * Rate = in + Rate
        /\ (now + 1 - s) * Rate = own + Rate
    <3>1. \A a \in Int : (now + 1 - a) * Rate = (now - a) * Rate + Rate
      <4> TAKE a \in Int
      <4>1. now - a \in Int /\ now + 1 - a = (now - a) + 1
        BY <1>2
      <4> QED BY <1>2, <4>1, OneMore
    <3> QED BY <1>2, <2>2, <3>1
  <2>4. PICK x \in Int : x = tokens + in
    BY <1>2
  <2>5. Min({cap, x}) >= Min({cap, own})
    BY <1>3, <1>5, <2>1, <2>2, <2>4 DEF Refilled, Earned
  <2>6. Min({cap, x + Rate}) >= Min({cap, own + Rate})
    BY <1>2, <2>5, CappedGrow
  <2>7. Refilled' = Min({cap, x + Rate})
    <3>1. tokens + (in + Rate) = x + Rate
      BY <1>2, <2>4
    <3>2. Refilled' = Min({Burst * Scale, tokens + (now + 1 - lastRefill) * Rate})
      BY <1>1, <1>2 DEF Refilled
    <3> QED BY <2>1, <2>3, <3>1, <3>2
  <2>8. Earned(t)' = Min({cap, own + Rate})
    <3>1. Earned(t)' = Min({Burst * Scale, (now' - Start(t)') * Rate})
      BY DEF Earned
    <3>2. now' - Start(t)' = now + 1 - s
      BY <1>1, <1>2, <1>4, <2>1
    <3> QED BY <2>1, <2>3, <3>1, <3>2
  <2> QED BY <2>6, <2>7, <2>8
<1> QED BY <1>1, <1>2, <1>3, <1>4, <1>5

\* A try takes a token now, or leaves what the bucket had earned: whoever has
\* waited since an earlier time is disturbed, or has it still.
LEMMA TryEarns ==
  ASSUME TypeOK, TypeOK', BucketAssumption, CallAssumption, WaitingEarns,
         NEW u \in Threads, TryAcquire(u)
  PROVE  WaitingEarns'
<1> SUFFICES ASSUME NEW t \in Threads, Waiting(t)'
             PROVE  Start(t)' <= now' /\ (Undisturbed(t)' => (Refilled >= Earned(t))')
  BY DEF WaitingEarns
<1>1. now' = now /\ deadline' = deadline /\ lastRefill' = now
  BY DEF TryAcquire
<1>2. Waiting(t)
  BY DEF TryAcquire, Waiting, TypeOK
<1>3. Start(t) <= now /\ (Undisturbed(t) => Refilled >= Earned(t))
  BY <1>2 DEF WaitingEarns
<1>4. Start(t)' = Start(t) /\ Earned(t)' = Earned(t)
  BY <1>1 DEF Start, Earned
<1>5. CASE Refilled >= Scale
  <2>1. grants' = Append(grants, now) /\ grants \in Seq(Nat) /\ now \in Nat
    BY <1>5 DEF TryAcquire, TypeOK
  <2>2. Len(grants') = Len(grants) + 1 /\ grants'[Len(grants) + 1] = now
    BY <2>1
  <2>3. Len(grants) + 1 \in 1..Len(grants')
    BY <2>1, <2>2
  <2>4. Undisturbed(t)' => Start(t)' >= now
    BY <1>1, <1>4, <2>2, <2>3 DEF Undisturbed, Start, TypeOK, CallAssumption
  <2>5. Start(t) \in Int
    <3>1. deadline[t] \in Nat /\ Timeout \in Nat
      BY DEF TypeOK, CallAssumption
    <3> QED BY <3>1 DEF Start
  <2>6. Undisturbed(t)' => JustStarted(t)'
    BY <1>1, <1>3, <1>4, <2>1, <2>4, <2>5 DEF JustStarted
  <2>7. JustStarted(t)' => (Refilled >= Earned(t))'
    BY NothingEarnedYet, BucketAssumption
  <2> QED BY <1>1, <1>3, <1>4, <2>6, <2>7
<1>6. CASE ~(Refilled >= Scale)
  <2>1. grants' = grants /\ tokens' = Refilled
    BY <1>6 DEF TryAcquire
  <2>2. Refilled' = Refilled
    BY <1>1, <2>1, RefillTwice
  <2>3. Undisturbed(t)' => Undisturbed(t)
    BY <1>4, <2>1 DEF Undisturbed
  <2> QED BY <1>1, <1>3, <1>4, <2>2, <2>3
<1> QED BY <1>5, <1>6

\* A new wait starts now, with nothing earned.
LEMMA EnterEarns ==
  ASSUME TypeOK, TypeOK', BucketAssumption, CallAssumption, WaitingEarns,
         NEW u \in Threads, NEW n, EnterAcquire(u, n)
  PROVE  WaitingEarns'
<1> SUFFICES ASSUME NEW t \in Threads, Waiting(t)'
             PROVE  Start(t)' <= now' /\ (Undisturbed(t)' => (Refilled >= Earned(t))')
  BY DEF WaitingEarns
<1>1. /\ now' = now /\ tokens' = tokens /\ lastRefill' = lastRefill /\ grants' = grants
  BY DEF EnterAcquire, bucket
<1>2. CASE t = u
  <2>1. deadline'[t] = now + Timeout
    BY <1>2 DEF EnterAcquire, TypeOK
  <2>2. deadline'[t] - Timeout = now'
    BY <1>1, <2>1 DEF TypeOK, CallAssumption
  <2>3. JustStarted(t)' /\ Start(t)' <= now'
    BY <2>2 DEF JustStarted, Start, TypeOK
  <2>4. (Refilled >= Earned(t))'
    BY <2>3, NothingEarnedYet, BucketAssumption
  <2> QED BY <2>3, <2>4
<1>3. CASE t # u
  <2>1. deadline'[t] = deadline[t] /\ phase'[t] = phase[t]
    BY <1>3 DEF EnterAcquire, TypeOK
  <2>2. Waiting(t)
    BY <2>1 DEF Waiting
  <2>3. Start(t) <= now /\ (Undisturbed(t) => Refilled >= Earned(t))
    BY <2>2 DEF WaitingEarns
  <2>4. /\ Start(t)' = Start(t) /\ Undisturbed(t)' = Undisturbed(t)
        /\ Earned(t)' = Earned(t) /\ Refilled' = Refilled
    BY <1>1, <2>1 DEF Start, Undisturbed, Earned, Refilled
  <2> QED BY <1>1, <2>3, <2>4
<1> QED BY <1>2, <1>3

\* A step that touches neither the bucket nor the clock, and lets nobody start to
\* wait, keeps what was earned.
LEMMA StillEarns ==
  ASSUME WaitingEarns, UNCHANGED <<now, deadline, bucket>>,
         \A t \in Threads : Waiting(t)' => Waiting(t)
  PROVE  WaitingEarns'
BY DEF WaitingEarns, Waiting, Start, Undisturbed, Earned, Refilled, bucket

\* Every step keeps what the waiting threads have earned.
LEMMA StepWaitingEarns ==
  ASSUME IInv, IInv', WaitingEarns, [NextPrompt]_vars
  PROVE  WaitingEarns'
<1> USE BucketAssumption, CallAssumption
<1>1. TypeOK /\ TypeOK'
  BY DEF IInv
<1>2. CASE Tick
  BY <1>1, <1>2, TickEarns
<1>3. ASSUME NEW t \in Threads, StartCall(t)
      PROVE  WaitingEarns'
  BY <1>1, <1>3, EnterEarns DEF StartCall
<1>4. ASSUME NEW t \in Threads, TryAcquire(t)
      PROVE  WaitingEarns'
  BY <1>1, <1>4, TryEarns
<1>5. ASSUME NEW t \in Threads, CheckDeadline(t)
      PROVE  WaitingEarns'
  BY <1>1, <1>5, StillEarns DEF CheckDeadline, Waiting, TypeOK
<1>6. ASSUME NEW t \in Threads, PollAgain(t)
      PROVE  WaitingEarns'
  BY <1>1, <1>6, StillEarns DEF PollAgain, Waiting, TypeOK
<1>7. ASSUME NEW t \in Threads, RequestEnds(t)
      PROVE  WaitingEarns'
  BY <1>1, <1>7, StillEarns DEF RequestEnds, Waiting, TypeOK
<1>8. ASSUME NEW t \in Threads, NEW delay \in Backoffs(attempt[t]), RequestThrottled(t, delay)
      PROVE  WaitingEarns'
  BY <1>1, <1>8, StillEarns DEF RequestThrottled, Waiting, TypeOK
<1>9. ASSUME NEW t \in Threads, EndBackoff(t)
      PROVE  WaitingEarns'
  BY <1>1, <1>9, EnterEarns DEF EndBackoff
<1>10. CASE UNCHANGED vars
  BY <1>10, StillEarns DEF vars, bucket, Waiting
<1> QED BY <1>2, <1>3, <1>4, <1>5, <1>6, <1>7, <1>8, <1>9, <1>10 DEF NextPrompt, Step

\* A refused thread looks at its deadline before the clock moves, and no other
\* thread finds a token at the same time.
LEMMA StepRefusedJustNow ==
  ASSUME IInv, RefusedJustNow, [NextPrompt]_vars
  PROVE  RefusedJustNow'
<1> USE BucketAssumption, CallAssumption DEF IInv
<1>1. CASE AllWaiting /\ Tick
  <2>1. \A t \in Threads : phase[t] # "check"
    BY <1>1 DEF AllWaiting, Sleeping, Ended
  <2> QED BY <1>1, <2>1 DEF Tick, RefusedJustNow
<1>2. CASE \E u \in Threads : TryAcquire(u)
  <2>1. PICK u \in Threads : TryAcquire(u)
    BY <1>2
  <2>2. lastRefill' = now'
    BY <2>1 DEF TryAcquire
  <2>3. ASSUME NEW t \in Threads, phase'[t] = "check"
        PROVE  tokens' < Scale
    <3>1. Refilled \in Nat /\ Scale \in Nat
      BY RefilledIsNat DEF BucketAssumption
    <3>2. CASE Refilled >= Scale
      <4>1. t # u /\ phase[t] = "check"
        BY <2>1, <2>3, <3>2 DEF TryAcquire, TypeOK
      <4>2. lastRefill = now /\ tokens < Scale
        BY <4>1 DEF RefusedJustNow
      <4>3. Refilled = tokens
        BY <4>2, RefilledNow
      <4> QED BY <3>1, <3>2, <4>2, <4>3
    <3>3. CASE ~(Refilled >= Scale)
      <4>1. tokens' = Refilled
        BY <2>1, <3>3 DEF TryAcquire
      <4> QED BY <3>1, <3>3, <4>1
    <3> QED BY <3>2, <3>3
  <2> QED BY <2>2, <2>3 DEF RefusedJustNow
<1>3. CASE UNCHANGED <<now, bucket>> /\ \A t \in Threads : phase'[t] = "check" => phase[t] = "check"
  BY <1>3 DEF RefusedJustNow, bucket
<1>4. ASSUME NEW u \in Threads, StartCall(u) \/ CheckDeadline(u) \/ PollAgain(u) \/ RequestEnds(u)
                                \/ EndBackoff(u)
      PROVE  UNCHANGED <<now, bucket>> /\ \A t \in Threads : phase'[t] = "check" => phase[t] = "check"
  BY <1>4 DEF StartCall, CheckDeadline, PollAgain, RequestEnds, EndBackoff, EnterAcquire,
              bucket, TypeOK
<1>5. ASSUME NEW u \in Threads, NEW delay \in Backoffs(attempt[u]), RequestThrottled(u, delay)
      PROVE  UNCHANGED <<now, bucket>> /\ \A t \in Threads : phase'[t] = "check" => phase[t] = "check"
  BY <1>5 DEF RequestThrottled, bucket, TypeOK
<1>6. CASE UNCHANGED vars
  BY <1>6 DEF vars, RefusedJustNow
<1> QED BY <1>1, <1>2, <1>3, <1>4, <1>5, <1>6 DEF NextPrompt, Step

\* A thread that times out undisturbed had earned a token.
LEMMA TimeoutIsDisturbed ==
  ASSUME TypeOK, RefusedJustNow, WaitingEarns, BucketAssumption, CallAssumption,
         Rate * Timeout >= Scale,
         NEW t \in Threads, phase[t] = "check", now >= deadline[t]
  PROVE  ~Undisturbed(t)
<1> SUFFICES ASSUME Undisturbed(t) PROVE FALSE
  OBVIOUS
<1>1. /\ Refilled = tokens /\ tokens < Scale
      /\ Refilled >= Earned(t)
  BY RefilledNow DEF RefusedJustNow, WaitingEarns, Waiting
<1>2. /\ tokens \in Nat /\ now \in Nat /\ deadline[t] \in Nat /\ Timeout \in Nat
      /\ Scale \in Nat /\ Rate \in Nat /\ Burst \in Nat \ {0} /\ Burst * Scale \in Nat
  <2>1. Burst * Scale \in Nat /\ Scale \in Nat /\ Rate \in Nat /\ Burst \in Nat \ {0}
    BY DEF BucketAssumption
  <2>2. PICK c \in Nat : c = Burst * Scale
    BY <2>1
  <2>3. tokens \in 0..c /\ now \in Nat /\ deadline[t] \in Nat
    BY <2>2 DEF TypeOK
  <2> QED BY <2>1, <2>3 DEF CallAssumption
<1>3. PICK waited \in Nat : waited = now - Start(t) /\ waited >= Timeout
  BY <1>2 DEF Start
<1>4. PICK cap \in Nat, in \in Nat : cap = Burst * Scale /\ in = waited * Rate
  BY <1>2
<1>5. in >= Scale
  <2>1. Timeout * Rate <= waited * Rate
    BY <1>2, <1>3, TimesMonotone
  <2>2. Timeout * Rate = Rate * Timeout
    BY <1>2
  <2>3. PICK p \in Nat : p = Timeout * Rate
    BY <1>2
  <2> QED BY <1>2, <1>4, <2>1, <2>2, <2>3
<1>6. cap >= Scale
  <2>1. 1 * Scale <= Burst * Scale
    BY <1>2, TimesMonotone
  <2>2. 1 * Scale = Scale
    BY <1>2
  <2> QED BY <1>2, <1>4, <2>1, <2>2
<1>7. Earned(t) = Min({cap, in})
  BY <1>3, <1>4 DEF Earned
<1>8. Min({cap, in}) = IF cap <= in THEN cap ELSE in
  BY MinIsIf
<1> QED BY <1>1, <1>2, <1>5, <1>6, <1>7, <1>8

\* A number above the start of a wait is what disturbs it.
LEMMA DisturbedMeansGrant ==
  ASSUME TypeOK, CallAssumption, NEW t \in Threads
  PROVE  ~Undisturbed(t) <=> \E k \in 1..Len(grants) : grants[k] > deadline[t] - Timeout
<1>1. deadline[t] - Timeout \in Int /\ \A k \in 1..Len(grants) : grants[k] \in Int
  BY DEF TypeOK, CallAssumption
<1>2. \A k \in 1..Len(grants) : ~(grants[k] <= deadline[t] - Timeout) <=> grants[k] > deadline[t] - Timeout
  BY <1>1
<1> QED BY <1>2 DEF Undisturbed, Start

\* A step leaves the wait of a timed-out thread, and what disturbed it.
LEMMA StillDisturbed ==
  ASSUME TypeOK, [NextPrompt]_vars, NEW t \in Threads, phase[t] = "timed_out",
         phase'[t] = "timed_out", ~Undisturbed(t)
  PROVE  ~Undisturbed(t)'
<1> USE DEF TypeOK
<1>1. deadline'[t] = deadline[t] /\ (grants' = grants \/ grants' = Append(grants, now))
  BY DEF NextPrompt, Step, Tick, StartCall, TryAcquire, CheckDeadline, PollAgain, RequestEnds,
         RequestThrottled, EndBackoff, EnterAcquire, bucket, vars
<1>2. PICK k \in 1..Len(grants) : ~(grants[k] <= Start(t))
  BY DEF Undisturbed
<1>3. k \in 1..Len(grants)' /\ grants'[k] = grants[k]
  <2>1. grants \in Seq(Nat) /\ now \in Nat
    OBVIOUS
  <2>2. CASE grants' = grants
    BY <2>2
  <2>3. CASE grants' = Append(grants, now)
    BY <2>1, <2>3
  <2> QED BY <1>1, <2>2, <2>3
<1>4. Start(t)' = Start(t)
  BY <1>1 DEF Start
<1>5. ~(grants'[k] <= Start(t)')
  BY <1>2, <1>3, <1>4
<1> QED BY <1>3, <1>5 DEF Undisturbed

\* A thread times out only if it was disturbed, and those that had stay so.
LEMMA StepTimeouts ==
  ASSUME IInv, RefusedJustNow, WaitingEarns, [NextPrompt]_vars,
         Rate * Timeout >= Scale, DisturbedTimeouts
  PROVE  DisturbedTimeouts'
<1> USE BucketAssumption, CallAssumption DEF IInv
<1> SUFFICES ASSUME NEW t \in Threads, phase'[t] = "timed_out"
             PROVE  ~Undisturbed(t)'
  BY DEF DisturbedTimeouts
<1>1. CASE phase[t] = "timed_out"
  BY <1>1, StillDisturbed DEF DisturbedTimeouts
<1>2. CASE phase[t] # "timed_out"
  <2>1. CheckDeadline(t) /\ now >= deadline[t] /\ phase[t] = "check"
    BY <1>2 DEF NextPrompt, Step, Tick, StartCall, TryAcquire, CheckDeadline, PollAgain,
                RequestEnds, RequestThrottled, EndBackoff, EnterAcquire, vars, TypeOK
  <2>2. ~Undisturbed(t)
    BY <2>1, TimeoutIsDisturbed
  <2>3. Undisturbed(t)' = Undisturbed(t)
    BY <2>1 DEF CheckDeadline, bucket, Undisturbed, Start
  <2> QED BY <2>2, <2>3
<1> QED BY <1>1, <1>2

\* Nobody waits at the start, and no prompt step breaks the invariant.
LEMMA InitPromptIInv == Init => PromptIInv
<1> SUFFICES ASSUME Init PROVE PromptIInv
  OBVIOUS
<1>1. IInv
  BY InitIInv
<1>2. \A t \in Threads : phase[t] = "over"
  BY DEF Init
<1> QED BY <1>1, <1>2 DEF PromptIInv, RefusedJustNow, WaitingEarns, Waiting, DisturbedTimeouts

LEMMA NextPromptIInv == PromptIInv /\ [NextPrompt]_vars => PromptIInv'
<1> SUFFICES ASSUME PromptIInv, [NextPrompt]_vars PROVE PromptIInv'
  OBVIOUS
<1>1. [Next]_vars
  BY DEF NextPrompt, Next
<1>2. IInv'
  BY <1>1, NextIInv DEF PromptIInv
<1>3. RefusedJustNow'
  BY StepRefusedJustNow DEF PromptIInv
<1>4. WaitingEarns'
  BY <1>2, StepWaitingEarns DEF PromptIInv
<1>5. Rate * Timeout >= Scale => DisturbedTimeouts'
  BY StepTimeouts DEF PromptIInv
<1> QED BY <1>2, <1>3, <1>4, <1>5 DEF PromptIInv

\* Where threads are not held up, acquire times out only for a caller that lost a
\* token to another one while it waited (ratelimit.py:27-31, 35-43).
THEOREM TimeoutsAreContended == PromptSpec => []TimeoutOnlyUnderContention
<1>1. PromptIInv => TimeoutOnlyUnderContention
  BY CallAssumption, DisturbedMeansGrant
  DEF PromptIInv, IInv, DisturbedTimeouts, TimeoutOnlyUnderContention
<1> QED BY InitPromptIInv, NextPromptIInv, <1>1, PTL DEF PromptSpec

=============================================================================
