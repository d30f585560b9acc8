----------------------------- MODULE RateLimiter -----------------------------
(***************************************************************************)
(* broker/ratelimit.py: one endpoint's token bucket, shared by threads     *)
(* that each run call_with_retry.  A thread takes a token under the lock,  *)
(* or polls for one until its deadline; a throttled request is retried     *)
(* after a random backoff.  A step of a thread is what it does between two *)
(* points at which another thread, or the clock, may come in between.      *)
(*                                                                         *)
(* Time counts in polling quanta, and a token is Scale units, so that the  *)
(* fractional tokens of the code are whole numbers here.                   *)
(***************************************************************************)
EXTENDS Integers, Sequences, FiniteSets, FiniteSetsExt

CONSTANTS
  Threads,
  Burst,         \* EndpointLimit.burst: the capacity in tokens
  Rate,          \* units refilled in one quantum (requests_per_second)
  Scale,         \* units that make one token
  Timeout,       \* acquire's timeout
  Poll,          \* the sleep between two tries
  MaxAttempts,   \* call_with_retry's max_attempts
  BackoffBase, BackoffCap,   \* backoff_with_jitter's base and cap
  LastStart,     \* bound: no call starts after this time
  MaxTime        \* bound on the clock

ASSUME BucketAssumption ==
  /\ Burst \in Nat \ {0}
  /\ Rate \in Nat \ {0}
  /\ Scale \in Nat \ {0}

ASSUME CallAssumption ==
  /\ Timeout \in Nat
  /\ Poll \in Nat \ {0}
  /\ MaxAttempts \in Nat \ {0}
  /\ BackoffBase \in Nat
  /\ BackoffCap \in Nat
  /\ LastStart \in Nat
  /\ MaxTime \in Nat

VARIABLES
  now,         \* time.monotonic()
  tokens,      \* _tokens, in units
  lastRefill,  \* _last_refill
  phase,       \* where each thread stands
  attempt,     \* the attempt each thread is on
  deadline,    \* the deadline of its acquire
  wake,        \* when its sleep ends
  grants       \* history: the time of every token taken, oldest first

vars == <<now, tokens, lastRefill, phase, attempt, deadline, wake, grants>>
bucket == <<tokens, lastRefill, grants>>

\* "timed_out" and "over" are a call's ends: TimeoutError, or fn's result or error.
Ended == {"timed_out", "over"}
Phases == {"try", "check", "poll", "request", "backoff"} \cup Ended

-----------------------------------------------------------------------------
\* Mutant of Refilled: what came in since the last refill is not capped.
RefilledUncapped == tokens + (now - lastRefill) * Rate

\* Mutant of Refilled: only whole tokens are credited.
RefilledInWholeTokens ==
  Min({Burst * Scale, tokens + (((now - lastRefill) * Rate) \div Scale) * Scale})

\* _refill: the tokens after crediting the time since the last refill.
Refilled == Min({Burst * Scale, tokens + (now - lastRefill) * Rate})

\* Mutant of IsLastAttempt: one attempt too many.
IsLastAttemptLate(t) == attempt[t] = MaxAttempts

IsLastAttempt(t) == attempt[t] = MaxAttempts - 1

\* The delays backoff_with_jitter may draw.
Backoffs(n) == 0..Min({BackoffCap, BackoffBase * 2^n})

Init ==
  /\ now = 0
  /\ tokens = Burst * Scale
  /\ lastRefill = 0
  /\ phase = [t \in Threads |-> "over"]
  /\ attempt = [t \in Threads |-> 0]
  /\ deadline = [t \in Threads |-> 0]
  /\ wake = [t \in Threads |-> 0]
  /\ grants = <<>>

Tick ==
  /\ now < MaxTime
  /\ now' = now + 1
  /\ UNCHANGED <<tokens, lastRefill, phase, attempt, deadline, wake, grants>>

\* The start of acquire for attempt n: the deadline counts from here.
EnterAcquire(t, n) ==
  /\ attempt' = [attempt EXCEPT ![t] = n]
  /\ deadline' = [deadline EXCEPT ![t] = now + Timeout]
  /\ phase' = [phase EXCEPT ![t] = "try"]
  /\ UNCHANGED <<now, wake, bucket>>

\* A new call_with_retry.
StartCall(t) ==
  /\ phase[t] \in Ended
  /\ now <= LastStart
  /\ EnterAcquire(t, 0)

\* The block under the lock: refill, and take a token if there is one.
TryAcquire(t) ==
  /\ phase[t] = "try"
  /\ lastRefill' = now
  /\ IF Refilled >= Scale
     THEN /\ tokens' = Refilled - Scale
          /\ grants' = Append(grants, now)
          /\ phase' = [phase EXCEPT ![t] = "request"]
     ELSE /\ tokens' = Refilled
          /\ phase' = [phase EXCEPT ![t] = "check"]
          /\ UNCHANGED grants
  /\ UNCHANGED <<now, attempt, deadline, wake>>

\* The deadline is looked at after the lock was released.
CheckDeadline(t) ==
  /\ phase[t] = "check"
  /\ IF now >= deadline[t]
     THEN /\ phase' = [phase EXCEPT ![t] = "timed_out"]
          /\ UNCHANGED wake
     ELSE /\ phase' = [phase EXCEPT ![t] = "poll"]
          /\ wake' = [wake EXCEPT ![t] = now + Poll]
  /\ UNCHANGED <<now, attempt, deadline, bucket>>

PollAgain(t) ==
  /\ phase[t] = "poll"
  /\ now >= wake[t]
  /\ phase' = [phase EXCEPT ![t] = "try"]
  /\ UNCHANGED <<now, attempt, deadline, wake, bucket>>

\* fn returns, or raises anything but RateLimitedError: the call is over.
RequestEnds(t) ==
  /\ phase[t] = "request"
  /\ phase' = [phase EXCEPT ![t] = "over"]
  /\ UNCHANGED <<now, attempt, deadline, wake, bucket>>

\* fn raises RateLimitedError: the last attempt re-raises it, another backs off.
RequestThrottled(t, delay) ==
  /\ phase[t] = "request"
  /\ IF IsLastAttempt(t)
     THEN /\ phase' = [phase EXCEPT ![t] = "over"]
          /\ UNCHANGED wake
     ELSE /\ phase' = [phase EXCEPT ![t] = "backoff"]
          /\ wake' = [wake EXCEPT ![t] = now + delay]
  /\ UNCHANGED <<now, attempt, deadline, bucket>>

\* Mutant of EndBackoff: the attempt is not counted.
EndBackoffUncounted(t) ==
  /\ phase[t] = "backoff"
  /\ now >= wake[t]
  /\ EnterAcquire(t, attempt[t])

EndBackoff(t) ==
  /\ phase[t] = "backoff"
  /\ now >= wake[t]
  /\ EnterAcquire(t, attempt[t] + 1)

Step(t) ==
  \/ TryAcquire(t)
  \/ CheckDeadline(t)
  \/ PollAgain(t)
  \/ RequestEnds(t)
  \/ \E delay \in Backoffs(attempt[t]) : RequestThrottled(t, delay)
  \/ EndBackoff(t)

Next ==
  \/ Tick
  \/ \E t \in Threads : StartCall(t) \/ Step(t)

\* Any thread may be held up for any time between two of its steps.
Spec == Init /\ [][Next]_vars

\* Threads that are held up for no whole quantum: the clock moves only while
\* every thread sleeps or is outside a call.
Sleeping(t) == phase[t] \in {"poll", "backoff"} /\ now < wake[t]
AllWaiting == \A t \in Threads : Sleeping(t) \/ phase[t] \in Ended
NextPrompt ==
  \/ AllWaiting /\ Tick
  \/ \E t \in Threads : StartCall(t) \/ Step(t)

\* The clock goes on and each thread is scheduled; nobody has to start a call.
PromptSpec ==
  /\ Init
  /\ [][NextPrompt]_vars
  /\ WF_vars(AllWaiting /\ Tick)
  /\ \A t \in Threads : WF_vars(Step(t))

-----------------------------------------------------------------------------
(* Properties.                                                             *)

\* The bucket holds between nothing and its capacity, and no call goes beyond
\* its last attempt.
TypeOK ==
  /\ now \in Nat
  /\ tokens \in 0..(Burst * Scale)
  /\ lastRefill \in 0..now
  /\ phase \in [Threads -> Phases]
  /\ attempt \in [Threads -> 0..(MaxAttempts - 1)]
  /\ deadline \in [Threads -> Nat]
  /\ wake \in [Threads -> Nat]
  /\ grants \in Seq(Nat)

\* Between any two grants, whichever threads took them and however the threads
\* interleave, no more tokens are granted than one full bucket and what the
\* rate brought in meanwhile (ratelimit.py:27-40).
WindowBound ==
  \A i, j \in 1..Len(grants) :
    i <= j => (j - i + 1) * Scale <= Burst * Scale + Rate * (grants[j] - grants[i])

\* Where a timeout lasts at least as long as one token takes, acquire raises
\* TimeoutError only when another call took a token while it waited: a caller
\* that is alone is never refused (ratelimit.py:27-31, 35-43).
TimeoutOnlyUnderContention ==
  Rate * Timeout >= Scale =>
    \A t \in Threads :
      phase[t] = "timed_out" =>
        \E k \in 1..Len(grants) : grants[k] > deadline[t] - Timeout

\* Every call ends, by its result, its error or a TimeoutError: nobody polls or
\* retries forever (ratelimit.py:33-43, 80-90).
CallTerminates ==
  \A t \in Threads : phase[t] \notin Ended ~> phase[t] \in Ended

=============================================================================
