-------------------------- MODULE ResilientClient --------------------------
(***************************************************************************)
(* ResilientAPIClient (integrations/resilient_client): retries that never   *)
(* repeat a side effect, and a circuit breaker that threads share without a *)
(* lock.  A partner may act on a request and still answer 5xx, or have its  *)
(* answer lost.  A call is "safe" when its method is idempotent or it       *)
(* carries an idempotency key.  Delays are not modelled, only that the      *)
(* reset timeout passes at some moment.                                     *)
(*                                                                          *)
(* CPython switches threads where a function is called, so the methods of   *)
(* the breaker are cut into steps at their calls: of the state property, of *)
(* the clock, of the logger, and of _trip().                                *)
(***************************************************************************)
EXTENDS Naturals

CONSTANTS Caller,        \* threads that use the client
          MaxAttempts,   \* RetryConfig.max_attempts
          Threshold,     \* CircuitBreaker.failure_threshold
          MaxCalls       \* bound on the calls one caller makes

\* _validate_config
ASSUME ConfigAssumption == MaxAttempts \in Nat \ {0} /\ Threshold \in Nat \ {0}
ASSUME MaxCallsAssumption == MaxCalls \in Nat

VARIABLES circuit,   \* CircuitBreaker._state
          fails,     \* _consecutive_failures
          opened,    \* _opened_at: None, or set and reset_timeout_s not yet or long past
          call,      \* the call each caller is in, or its last one
          made       \* calls begun so far

vars == <<circuit, fails, opened, call, made>>
breaker == <<circuit, fails, opened>>

Circuit == {"CLOSED", "OPEN", "HALF_OPEN"}
\* The exceptions the README of the client tells its callers to handle.
Documented == {"CircuitOpenError", "AuthError", "RateLimitError", "ServerError",
               "RetryExhaustedError"}
\* Inside before_call or on_failure.
InBreaker == {"look", "compare", "move", "judge", "trip", "stamp"}
InFlight == {"token", "send"} \cup InBreaker
Over == {"ok", "ClientError", "TypeError"} \cup Documented
Call == [at : {"idle"} \cup InFlight \cup Over,
         safe : BOOLEAN,        \* replay_safe
         attempt : Nat,
         acted : Nat,           \* how often the partner acted on it
         error : Documented \cup {"none"},   \* what is raised after on_failure
         unknown : BOOLEAN]     \* its outcome_unknown

TypeOK ==
    /\ circuit \in Circuit /\ fails \in Nat /\ opened \in {"none", "waiting", "elapsed"}
    /\ call \in [Caller -> Call]
    /\ \A k \in Caller : call[k].attempt \in 0 .. MaxAttempts
    /\ made \in [Caller -> 0 .. MaxCalls]

NoCall == [at |-> "idle", safe |-> TRUE, attempt |-> 0, acted |-> 0,
           error |-> "none", unknown |-> FALSE]
Init ==
    /\ circuit = "CLOSED" /\ fails = 0 /\ opened = "none"
    /\ call = [k \in Caller |-> NoCall]
    /\ made = [k \in Caller |-> 0]

Put(k, record) == call' = [call EXCEPT ![k] = record]
Goes(k, at) == Put(k, [call[k] EXCEPT !.at = at])
-----------------------------------------------------------------------------
(* CircuitBreaker *)

ResetTimeoutElapses ==
    /\ opened = "waiting" /\ opened' = "elapsed"
    /\ UNCHANGED <<circuit, fails, call, made>>

\* The value s of the state property, back in before_call or in on_failure.
SawState(k, s) ==
    IF call[k].error = "none"
    THEN Goes(k, IF s = "OPEN" THEN "CircuitOpenError" ELSE "token")
    ELSE Goes(k, IF s = "HALF_OPEN" THEN "trip" ELSE "judge")

\* The state property up to its call of the clock.
Look(k) ==
    /\ call[k].at = "look"
    /\ IF circuit = "OPEN" /\ opened # "none"
       THEN Goes(k, "compare")
       ELSE SawState(k, circuit)
    /\ UNCHANGED <<breaker, made>>

\* _opened_at is read again after the clock was: another thread's success may
\* have set it to None, which is a TypeError, and the time may be an old one.
Compare(k) ==
    /\ call[k].at = "compare"
    /\ \/ opened = "none" /\ Goes(k, "TypeError")
       \/ opened = "elapsed" /\ Goes(k, "move")
       \/ opened # "none" /\ SawState(k, circuit)
    /\ UNCHANGED <<breaker, made>>

MoveToHalfOpen(k) ==
    /\ call[k].at = "move"
    /\ circuit' = "HALF_OPEN"
    /\ SawState(k, "HALF_OPEN")
    /\ UNCHANGED <<fails, opened, made>>

\* Mutant: the circuit trips when the count meets the threshold exactly.
MutJudge(k) ==
    /\ call[k].at = "judge"
    /\ Goes(k, IF fails = Threshold THEN "trip" ELSE call[k].error)
    /\ UNCHANGED <<breaker, made>>
\* on_failure: is the threshold reached?  If not, the call ends.
Judge(k) ==
    /\ call[k].at = "judge"
    /\ Goes(k, IF fails >= Threshold THEN "trip" ELSE call[k].error)
    /\ UNCHANGED <<breaker, made>>

\* _trip(), up to its call of the clock and after it.
Trip(k) ==
    /\ call[k].at = "trip"
    /\ circuit' = "OPEN" /\ Goes(k, "stamp")
    /\ UNCHANGED <<fails, opened, made>>
Stamp(k) ==
    /\ call[k].at = "stamp"
    /\ opened' = "waiting" /\ Goes(k, call[k].error)
    /\ UNCHANGED <<circuit, fails, made>>

Breaker(k) == \/ Look(k) \/ Compare(k) \/ MoveToHalfOpen(k)
              \/ Judge(k) \/ Trip(k) \/ Stamp(k)

\* Its three assignments have no call between them.
OnSuccess == circuit' = "CLOSED" /\ fails' = 0 /\ opened' = "none"
-----------------------------------------------------------------------------
(* ResilientAPIClient._request *)

Begin(k, safe) ==
    /\ call[k].at \notin InFlight /\ made[k] < MaxCalls
    /\ made' = [made EXCEPT ![k] = @ + 1]
    /\ Put(k, [NoCall EXCEPT !.at = "look", !.safe = safe])
    /\ UNCHANGED breaker

\* _get_access_token: cached, fetched, or an AuthError.
GetAccessToken(k) ==
    /\ call[k].at = "token"
    /\ \/ Put(k, [call[k] EXCEPT !.at = "send", !.attempt = 1])
       \/ Goes(k, "AuthError")
    /\ UNCHANGED <<breaker, made>>

\* Mutant: the test for the last attempt is one too late.
MutLastAttempt(k) == call[k].attempt > MaxAttempts
LastAttempt(k) == call[k].attempt = MaxAttempts

\* _sleep_before_retry and the next turn of the loop; n is 1 if the partner acted.
Again(k, n) ==
    /\ Put(k, [call[k] EXCEPT !.attempt = @ + 1, !.acted = @ + n])
    /\ UNCHANGED breaker

\* Mutant: outcome_unknown is left at its default.
MutGiveUp(k, n, how, unknown) ==
    /\ fails' = fails + 1
    /\ Put(k, [call[k] EXCEPT !.at = "look", !.acted = @ + n, !.error = how])
    /\ UNCHANGED <<circuit, opened>>
\* on_failure counts, and asks for the state; the exception is raised after it.
GiveUp(k, n, how, unknown) ==
    /\ fails' = fails + 1
    /\ Put(k, [call[k] EXCEPT !.at = "look", !.acted = @ + n,
                              !.error = how, !.unknown = unknown])
    /\ UNCHANGED <<circuit, opened>>

\* Mutant: an ambiguous failure is retried like any other, as before ADR 0049.
MutFailed(k, n, how, mayHaveActed) ==
    IF LastAttempt(k)
    THEN GiveUp(k, n, how, mayHaveActed /\ ~call[k].safe)
    ELSE Again(k, n)
\* A failed attempt ends the call if it was the last one, or if the partner may
\* have acted and the call is not safe to replay; else it is retried.
Failed(k, n, how, mayHaveActed) ==
    IF LastAttempt(k) \/ (mayHaveActed /\ ~call[k].safe)
    THEN GiveUp(k, n, how, mayHaveActed /\ ~call[k].safe)
    ELSE Again(k, n)

\* A body that is not JSON raises after this; the breaker has its success.
Succeeds(k) ==
    /\ call[k].at = "send"
    /\ OnSuccess
    /\ Put(k, [call[k] EXCEPT !.at = "ok", !.acted = @ + 1])
    /\ UNCHANGED made

\* ConnectError, ConnectTimeout, PoolTimeout: no byte was sent.
NeverSent(k) ==
    /\ call[k].at = "send"
    /\ Failed(k, 0, "RetryExhaustedError", FALSE)
    /\ UNCHANGED made

\* Any other transport error: the partner may have acted.
Lost(k) ==
    /\ call[k].at = "send"
    /\ \E n \in {0, 1} : Failed(k, n, "RetryExhaustedError", TRUE)
    /\ UNCHANGED made

\* 429: declined before anything was done.
RateLimited(k) ==
    /\ call[k].at = "send"
    /\ Failed(k, 0, "RateLimitError", FALSE)
    /\ UNCHANGED made

\* 500, 502, 503, 504.
ServerFails(k) ==
    /\ call[k].at = "send"
    /\ \E n \in {0, 1} : Failed(k, n, "ServerError", TRUE)
    /\ UNCHANGED made

\* Every status outside retryable_statuses is a ClientError and leaves the
\* breaker alone: the 4xx, and also a 501 or 507, after which the partner may
\* have acted.
NotRetryable(k) ==
    /\ call[k].at = "send"
    /\ \E n \in {0, 1} : Put(k, [call[k] EXCEPT !.at = "ClientError", !.acted = @ + n])
    /\ UNCHANGED <<breaker, made>>

Request(k) ==
    \/ \E safe \in BOOLEAN : Begin(k, safe)
    \/ GetAccessToken(k)
    \/ Succeeds(k) \/ NeverSent(k) \/ Lost(k) \/ RateLimited(k)
    \/ ServerFails(k) \/ NotRetryable(k)

Next == ResetTimeoutElapses \/ \E k \in Caller : Request(k) \/ Breaker(k)

Spec == Init /\ [][Next]_vars
-----------------------------------------------------------------------------
\* Replay safety (ADR 0049): the partner acts at most once on a call that is not
\* safe to replay, whatever mix of refused connections, lost answers, 429s and
\* 5xx its attempts meet.
AtMostOnce == \A k \in Caller : ~call[k].safe => call[k].acted <= 1

\* A documented failure that is not marked outcome_unknown is a real one: the
\* partner did nothing for an unsafe call that ended in it, so the caller may
\* send it again.  ClientError makes no such promise.
KnownFailureDidNothing ==
    \A k \in Caller :
        call[k].at \in Documented /\ ~call[k].safe /\ ~call[k].unknown => call[k].acted = 0

\* Whatever thread switches the breaker's methods meet, once no thread is inside
\* them it has not missed its threshold, and an open circuit has the time from
\* which its reset timeout counts, without which it would never be probed again.
BreakerSettled ==
    (\A k \in Caller : call[k].at \notin InBreaker) =>
        /\ circuit = "CLOSED" => fails < Threshold
        /\ circuit = "OPEN" => opened # "none"
=============================================================================
