----------------------- MODULE ResilientClientProofs -----------------------
(***************************************************************************)
(* Replay safety and the breaker's bookkeeping, for any number of threads   *)
(* and calls, any max_attempts and any failure_threshold.                   *)
(***************************************************************************)
EXTENDS ResilientClient, TLAPS

\* What one call promises at any moment; the calls of different callers are
\* independent.  A call that is not safe to replay and has not been given up
\* has had no effect yet, which is what makes its next attempt harmless.
CallOK(r) ==
    /\ r \in Call
    /\ r.attempt <= MaxAttempts
    /\ ~r.safe => r.acted <= 1
    /\ r.at \in Documented \cup InFlight /\ ~r.safe /\ ~r.unknown => r.acted = 0
    /\ r.error = "none" => ~r.unknown
    /\ r.at \in {"token", "send"} => r.error = "none"
    /\ r.at \in {"judge", "trip", "stamp"} => r.error # "none"
Calls == call \in [Caller -> Call] /\ \A k \in Caller : CallOK(call[k])

\* The thread that will notice the threshold, and the one that will set the time.
Heeding(r) == r.at \in {"look", "judge", "trip"} /\ r.error # "none"
Heeded == circuit = "CLOSED" /\ fails >= Threshold => \E k \in Caller : Heeding(call[k])
Stamped == circuit = "OPEN" /\ opened = "none" => \E k \in Caller : call[k].at = "stamp"

BreakerType == circuit \in Circuit /\ fails \in Nat /\ opened \in {"none", "waiting", "elapsed"}
MadeType == made \in [Caller -> 0 .. MaxCalls]

IInv == BreakerType /\ MadeType /\ Calls /\ Heeded /\ Stamped
-----------------------------------------------------------------------------
\* The invariant contains the four properties of the run.
LEMMA IInvParts == IInv => TypeOK /\ AtMostOnce /\ KnownFailureDidNothing /\ BreakerSettled
<1> SUFFICES ASSUME IInv PROVE TypeOK /\ AtMostOnce /\ KnownFailureDidNothing /\ BreakerSettled
    OBVIOUS
<1>1. ASSUME NEW k \in Caller PROVE call[k].attempt \in 0 .. MaxAttempts
      <2> DEFINE a == call[k].attempt
      <2>1. a \in Nat /\ a <= MaxAttempts /\ MaxAttempts \in Nat
            BY ConfigAssumption DEF IInv, Calls, CallOK, Call
      <2> HIDE DEF a
      <2>2. a \in 0 .. MaxAttempts
            BY <2>1
      <2> QED BY <2>2 DEF a
<1>2. TypeOK
      BY <1>1 DEF IInv, BreakerType, MadeType, Calls, TypeOK
<1>3. AtMostOnce /\ KnownFailureDidNothing
      BY DEF IInv, Calls, CallOK, AtMostOnce, KnownFailureDidNothing
<1>4. ASSUME \A k \in Caller : call[k].at \notin InBreaker
      PROVE  (circuit = "CLOSED" => fails < Threshold) /\ (circuit = "OPEN" => opened # "none")
      <2>1. \A k \in Caller : ~Heeding(call[k]) /\ call[k].at # "stamp"
            BY <1>4 DEF Heeding, InBreaker
      <2>2. fails \in Nat /\ (fails >= Threshold \/ fails < Threshold)
            BY ConfigAssumption DEF IInv, BreakerType
      <2> QED BY <2>1, <2>2 DEF IInv, Heeded, Stamped
<1> QED BY <1>2, <1>3, <1>4 DEF BreakerSettled

\* A client that has made no call satisfies the invariant.
LEMMA InitIInv == Init => IInv
<1> SUFFICES ASSUME Init PROVE IInv
    OBVIOUS
<1>1. NoCall \in Call /\ CallOK(NoCall)
      BY ConfigAssumption DEF NoCall, Call, CallOK, Documented, InFlight, InBreaker
<1>2. Calls
      BY <1>1 DEF Init, Calls
<1>3. fails \in Nat /\ ~(fails >= Threshold) /\ circuit = "CLOSED"
      BY ConfigAssumption DEF Init
<1>4. BreakerType /\ Heeded /\ Stamped
      BY <1>3 DEF Init, BreakerType, Circuit, Heeded, Stamped
<1>5. MadeType
      BY MaxCallsAssumption DEF Init, MadeType
<1> QED BY <1>2, <1>4, <1>5 DEF IInv
-----------------------------------------------------------------------------
\* Only the caller's own record changes.
LEMMA OthersStay ==
    ASSUME NEW k \in Caller, NEW r, Put(k, r), call \in [Caller -> Call]
    PROVE  call'[k] = r /\ \A i \in Caller : i # k => call'[i] = call[i]
BY DEF Put

\* So the invariant of the calls needs to be shown of the new record alone.
LEMMA PutKeeps ==
    ASSUME NEW k \in Caller, NEW r, CallOK(r), Put(k, r), Calls
    PROVE  Calls'
<1>1. r \in Call /\ call \in [Caller -> Call]
      BY DEF CallOK, Calls
<1>2. call' \in [Caller -> Call]
      BY <1>1 DEF Put
<1>3. ASSUME NEW i \in Caller PROVE CallOK(call'[i])
      BY <1>1, OthersStay DEF Calls
<1> QED BY <1>2, <1>3 DEF Calls, CallOK

\* A step that only moves a call on, from a place inside _request.
LEMMA GoesKeeps ==
    ASSUME NEW k \in Caller, NEW a \in InFlight \cup {"TypeError"} \cup Documented,
           Calls, Goes(k, a), call[k].at \in InFlight,
           a \in {"token", "send"} => call[k].error = "none",
           a \in {"judge", "trip", "stamp"} => call[k].error # "none"
    PROVE  Calls'
<1> DEFINE r == call[k]
           new == [r EXCEPT !.at = a]
<1>1. r \in Call /\ CallOK(r)
      BY DEF Calls
<1>2. new \in Call
      BY <1>1 DEF Call, Over
<1>3. /\ new.at = a /\ new.safe = r.safe /\ new.attempt = r.attempt
      /\ new.acted = r.acted /\ new.error = r.error /\ new.unknown = r.unknown
      BY <1>1 DEF Call
<1>4. CallOK(new)
      <2> HIDE DEF new
      <2> QED BY <1>1, <1>2, <1>3 DEF CallOK
<1>5. Put(k, new)
      BY DEF Goes
<1> HIDE DEF new
<1> QED BY <1>4, <1>5, PutKeeps

\* The value of the state property never moves a call to a place it may not be.
LEMMA SawStateKeeps ==
    ASSUME NEW k \in Caller, NEW s, Calls, SawState(k, s), call[k].at \in InFlight
    PROVE  Calls'
<1>1. CASE call[k].error = "none"
      <2>1. Goes(k, "CircuitOpenError") \/ Goes(k, "token")
            BY <1>1 DEF SawState
      <2> QED BY <1>1, <2>1, GoesKeeps DEF Documented, InFlight
<1>2. CASE call[k].error # "none"
      <2>1. Goes(k, "trip") \/ Goes(k, "judge")
            BY <1>2 DEF SawState
      <2> QED BY <1>2, <2>1, GoesKeeps DEF InFlight, InBreaker
<1> QED BY <1>1, <1>2

\* Every step of the breaker's methods keeps the calls in order.
LEMMA BreakerCalls ==
    ASSUME NEW k \in Caller, Calls, Breaker(k)
    PROVE  Calls'
<1>0. call[k].error \in Documented \cup {"none"} /\ CallOK(call[k])
      BY DEF Calls, CallOK, Call
<1>1. CASE Look(k)
      <2>1. call[k].at \in InFlight
            BY <1>1 DEF Look, InFlight, InBreaker
      <2>2. Goes(k, "compare") \/ SawState(k, circuit)
            BY <1>1 DEF Look
      <2> QED BY <2>1, <2>2, GoesKeeps, SawStateKeeps DEF InFlight, InBreaker
<1>2. CASE Compare(k)
      <2>1. call[k].at \in InFlight
            BY <1>2 DEF Compare, InFlight, InBreaker
      <2>2. Goes(k, "TypeError") \/ Goes(k, "move") \/ SawState(k, circuit)
            BY <1>2 DEF Compare
      <2> QED BY <2>1, <2>2, GoesKeeps, SawStateKeeps DEF InFlight, InBreaker
<1>3. CASE MoveToHalfOpen(k)
      BY <1>3, SawStateKeeps DEF MoveToHalfOpen, InFlight, InBreaker
<1>4. CASE Judge(k)
      <2>1. call[k].at \in InFlight /\ call[k].error # "none" /\ call[k].error \in Documented
            BY <1>0, <1>4 DEF Judge, InFlight, InBreaker, CallOK
      <2>2. Goes(k, "trip") \/ Goes(k, call[k].error)
            BY <1>4 DEF Judge
      <2> QED BY <2>1, <2>2, GoesKeeps DEF InFlight, InBreaker, Documented
<1>5. CASE Trip(k)
      <2>1. call[k].at \in InFlight /\ call[k].error # "none" /\ Goes(k, "stamp")
            BY <1>0, <1>5 DEF Trip, InFlight, InBreaker, CallOK
      <2> QED BY <2>1, GoesKeeps DEF InFlight, InBreaker
<1>6. CASE Stamp(k)
      <2>1. call[k].at \in InFlight /\ call[k].error \in Documented /\ Goes(k, call[k].error)
            BY <1>0, <1>6 DEF Stamp, InFlight, InBreaker, CallOK
      <2> QED BY <2>1, GoesKeeps DEF Documented
<1> QED BY <1>1, <1>2, <1>3, <1>4, <1>5, <1>6 DEF Breaker

\* A call ends with an answer, or with a ClientError, which promises nothing.
LEMMA EndKeeps ==
    ASSUME NEW k \in Caller, NEW n \in {0, 1}, NEW how \in {"ok", "ClientError"},
           Calls, call[k].at = "send",
           Put(k, [call[k] EXCEPT !.at = how, !.acted = call[k].acted + n])
    PROVE  Calls'
<1> DEFINE r == call[k]
           m == r.acted + n
           new == [r EXCEPT !.at = how, !.acted = m]
<1>1. r \in Call /\ CallOK(r)
      BY DEF Calls
<1>2. /\ r.acted \in Nat /\ (~r.safe => r.acted = 0) /\ m \in Nat
      /\ (~r.safe => m <= 1)
      BY <1>1 DEF Call, CallOK, InFlight
<1> HIDE DEF m
<1>3. /\ new \in Call /\ new.at = how /\ new.acted = m /\ new.safe = r.safe
      /\ new.attempt = r.attempt /\ new.error = r.error /\ new.unknown = r.unknown
      BY <1>1, <1>2 DEF Call, Over
<1>4. Put(k, new)
      BY DEF m
<1>5. how \notin Documented \cup InFlight \cup {"token", "send", "judge", "trip", "stamp"}
      BY DEF Documented, InFlight, InBreaker
<1> HIDE DEF new
<1>6. CallOK(new)
      BY <1>1, <1>2, <1>3, <1>5 DEF CallOK
<1> QED BY <1>4, <1>6, PutKeeps

\* One failed attempt: the call is tried again, or given up.  n is 1 when the
\* partner acted on it.
LEMMA FailedCalls ==
    ASSUME NEW k \in Caller, NEW n \in {0, 1}, NEW how \in Documented, NEW may \in BOOLEAN,
           ~may => n = 0, Calls, call[k].at = "send", Failed(k, n, how, may)
    PROVE  Calls'
<1> DEFINE r == call[k]
           m == r.acted + n
           t == r.attempt + 1
           u == may /\ ~r.safe
           given == [r EXCEPT !.at = "look", !.acted = m, !.error = how, !.unknown = u]
           again == [r EXCEPT !.attempt = t, !.acted = m]
<1>1. r \in Call /\ CallOK(r)
      BY DEF Calls
<1>2. /\ r.acted \in Nat /\ r.attempt \in Nat /\ r.safe \in BOOLEAN /\ r.error = "none"
      /\ ~r.unknown /\ (~r.safe => r.acted = 0) /\ r.attempt <= MaxAttempts
      BY <1>1 DEF Call, CallOK, InFlight
<1>3. m \in Nat /\ t \in Nat /\ u \in BOOLEAN /\ (~r.safe => m <= 1)
      BY <1>2
<1>4. ~r.safe /\ ~u => m = 0
      BY <1>2
<1>5. CASE LastAttempt(k) \/ (may /\ ~r.safe)
      <2>1. Put(k, given)
            BY <1>5 DEF Failed, GiveUp
      <2> HIDE DEF m, u
      <2>2. given \in Call
            BY <1>1, <1>3 DEF Call, InFlight, InBreaker
      <2>3. /\ given.at = "look" /\ given.acted = m /\ given.safe = r.safe
            /\ given.attempt = r.attempt /\ given.error = how /\ given.unknown = u
            BY <1>1, <1>3 DEF Call
      <2> HIDE DEF given
      <2>4. how # "none"
            BY DEF Documented
      <2>5. CallOK(given)
            BY <1>2, <1>3, <1>4, <2>2, <2>3, <2>4 DEF CallOK
      <2> QED BY <2>1, <2>5, PutKeeps
<1>6. CASE ~(LastAttempt(k) \/ (may /\ ~r.safe))
      <2>1. Put(k, again) /\ r.attempt # MaxAttempts /\ ~u
            BY <1>6 DEF Failed, Again, LastAttempt
      <2>2. t <= MaxAttempts
            BY <1>2, <2>1, ConfigAssumption
      <2> HIDE DEF m, u, t
      <2>3. /\ again \in Call /\ again.at = "send" /\ again.acted = m /\ again.safe = r.safe
            /\ again.attempt = t /\ again.error = "none" /\ again.unknown = r.unknown
            BY <1>1, <1>2, <1>3 DEF Call
      <2> HIDE DEF again
      <2>4. CallOK(again)
            BY <1>2, <1>3, <1>4, <2>1, <2>2, <2>3 DEF CallOK
      <2> QED BY <2>1, <2>4, PutKeeps
<1> QED BY <1>5, <1>6

\* before_call begins with a fresh record.
LEMMA BeginCalls ==
    ASSUME NEW k \in Caller, NEW safe \in BOOLEAN, Calls, Begin(k, safe)
    PROVE  Calls'
<1> DEFINE new == [NoCall EXCEPT !.at = "look", !.safe = safe]
<1>1. NoCall \in Call /\ NoCall.attempt = 0 /\ NoCall.acted = 0 /\ ~NoCall.unknown
      BY DEF NoCall, Call
<1>2. /\ new \in Call /\ new.attempt = 0 /\ new.acted = 0 /\ ~new.unknown
      /\ new.at = "look"
      BY <1>1 DEF Call, InFlight, InBreaker
<1>3. Put(k, new)
      BY DEF Begin
<1> HIDE DEF new
<1>4. CallOK(new)
      BY <1>2, ConfigAssumption DEF CallOK
<1> QED BY <1>3, <1>4, PutKeeps

\* The token is there, and the first attempt begins, or there is none.
LEMMA TokenCalls ==
    ASSUME NEW k \in Caller, Calls, GetAccessToken(k)
    PROVE  Calls'
<1> DEFINE r == call[k]
           new == [r EXCEPT !.at = "send", !.attempt = 1]
<1>1. r \in Call /\ CallOK(r) /\ r.at = "token" /\ r.at \in InFlight
      BY DEF Calls, GetAccessToken, InFlight
<1>2. CASE Put(k, new)
      <2>1. /\ new \in Call /\ new.at = "send" /\ new.acted = r.acted /\ new.safe = r.safe
            /\ new.attempt = 1 /\ new.error = r.error /\ new.unknown = r.unknown
            BY <1>1 DEF Call, InFlight
      <2> HIDE DEF new
      <2>2. CallOK(new)
            BY <1>1, <2>1, ConfigAssumption DEF CallOK
      <2> QED BY <1>2, <2>2, PutKeeps
<1>3. CASE Goes(k, "AuthError")
      BY <1>1, <1>3, GoesKeeps DEF Documented
<1> QED BY <1>2, <1>3 DEF GetAccessToken
-----------------------------------------------------------------------------
\* A thread that is neither heeding nor stamping, and leaves the breaker alone,
\* takes nobody's duty away.
LEMMA BystanderKeeps ==
    ASSUME NEW k \in Caller, NEW r, Put(k, r), IInv, UNCHANGED breaker,
           call[k].at \notin {"look", "judge", "trip", "stamp"}
    PROVE  Heeded' /\ Stamped'
<1>1. \A i \in Caller : i # k => call'[i] = call[i]
      BY OthersStay DEF IInv, Calls
<1>2. circuit' = circuit /\ fails' = fails /\ opened' = opened
      BY DEF breaker
<1>3. ASSUME circuit = "CLOSED", fails >= Threshold
      PROVE  \E i \in Caller : Heeding(call'[i])
      <2>1. PICK i \in Caller : Heeding(call[i])
            BY <1>3 DEF IInv, Heeded
      <2>2. i # k
            BY <2>1 DEF Heeding
      <2> QED BY <1>1, <2>1, <2>2
<1>4. ASSUME circuit = "OPEN", opened = "none"
      PROVE  \E i \in Caller : call'[i].at = "stamp"
      BY <1>1, <1>4 DEF IInv, Stamped
<1> QED BY <1>2, <1>3, <1>4 DEF Heeded, Stamped, Heeding

\* The state property and the judgement pass the duty on: the thread that finds
\* the circuit closed and the threshold reached goes on to trip it.
LEMMA HeedPassedOn ==
    ASSUME NEW k \in Caller, NEW a, Goes(k, a), IInv, UNCHANGED breaker,
           call[k].at # "stamp",
           Heeding(call[k]) /\ circuit = "CLOSED" /\ fails >= Threshold => a \in {"judge", "trip"}
    PROVE  Heeded' /\ Stamped'
<1> DEFINE new == [call[k] EXCEPT !.at = a]
<1>0. Put(k, new) /\ call[k] \in Call
      BY DEF Goes, IInv, Calls
<1>1. new.at = a /\ new.error = call[k].error
      BY <1>0 DEF Call
<1> HIDE DEF new
<1>2. call'[k] = new /\ \A i \in Caller : i # k => call'[i] = call[i]
      BY <1>0, OthersStay DEF IInv, Calls
<1>3. circuit' = circuit /\ fails' = fails /\ opened' = opened
      BY DEF breaker
<1>4. ASSUME circuit = "CLOSED", fails >= Threshold
      PROVE  \E i \in Caller : Heeding(call'[i])
      <2>1. PICK i \in Caller : Heeding(call[i])
            BY <1>4 DEF IInv, Heeded
      <2>2. CASE i = k
            <3>1. Heeding(call'[k])
                  BY <1>1, <1>2, <1>4, <2>1, <2>2 DEF Heeding
            <3> QED BY <3>1
      <2>3. CASE i # k
            BY <1>2, <2>1, <2>3
      <2> QED BY <2>2, <2>3
<1>5. ASSUME circuit = "OPEN", opened = "none"
      PROVE  \E i \in Caller : call'[i].at = "stamp"
      BY <1>2, <1>5 DEF IInv, Stamped
<1> QED BY <1>3, <1>4, <1>5 DEF Heeded, Stamped, Heeding

\* The steps inside the breaker's methods.
LEMMA BreakerKeeps ==
    ASSUME NEW k \in Caller, IInv, Breaker(k)
    PROVE  BreakerType' /\ Heeded' /\ Stamped'
<1>0. BreakerType /\ call \in [Caller -> Call]
      BY DEF IInv, Calls
<1>1. CASE Look(k)
      <2>1. UNCHANGED breaker /\ call[k].at = "look"
            BY <1>1 DEF Look
      <2>2. CASE circuit = "OPEN" /\ opened # "none"
            <3>1. Goes(k, "compare")
                  BY <1>1, <2>2 DEF Look
            <3> QED BY <1>0, <2>1, <2>2, <3>1, HeedPassedOn DEF breaker, BreakerType
      <2>3. CASE ~(circuit = "OPEN" /\ opened # "none") /\ call[k].error = "none"
            <3>1. Goes(k, "CircuitOpenError") \/ Goes(k, "token")
                  BY <1>1, <2>3 DEF Look, SawState
            <3>2. ~Heeding(call[k])
                  BY <2>3 DEF Heeding
            <3> QED BY <1>0, <2>1, <3>1, <3>2, HeedPassedOn DEF breaker, BreakerType
      <2>4. CASE ~(circuit = "OPEN" /\ opened # "none") /\ call[k].error # "none"
            <3>1. Goes(k, "trip") \/ Goes(k, "judge")
                  BY <1>1, <2>4 DEF Look, SawState
            <3> QED BY <1>0, <2>1, <3>1, HeedPassedOn DEF breaker, BreakerType
      <2> QED BY <2>2, <2>3, <2>4
<1>2. CASE Compare(k)
      <2>1. UNCHANGED breaker /\ call[k].at = "compare"
            BY <1>2 DEF Compare
      <2>2. \E r : Put(k, r)
            BY <1>2 DEF Compare, SawState, Goes
      <2> QED BY <1>0, <2>1, <2>2, BystanderKeeps DEF breaker, BreakerType
<1>3. CASE MoveToHalfOpen(k)
      BY <1>0, <1>3 DEF MoveToHalfOpen, BreakerType, Circuit, Heeded, Stamped
<1>4. CASE Judge(k)
      <2>1. UNCHANGED breaker /\ call[k].at = "judge"
            BY <1>4 DEF Judge
      <2>2. CASE fails >= Threshold
            <3>1. Goes(k, "trip")
                  BY <1>4, <2>2 DEF Judge
            <3> QED BY <1>0, <2>1, <3>1, HeedPassedOn DEF breaker, BreakerType
      <2>3. CASE ~(fails >= Threshold)
            <3>1. Goes(k, call[k].error)
                  BY <1>4, <2>3 DEF Judge
            <3> QED BY <1>0, <2>1, <2>3, <3>1, HeedPassedOn DEF breaker, BreakerType
      <2> QED BY <2>2, <2>3
<1>5. CASE Trip(k)
      <2>1. circuit' = "OPEN" /\ fails' = fails /\ opened' = opened
            BY <1>5 DEF Trip
      <2>2. call'[k].at = "stamp"
            BY <1>0, <1>5 DEF Trip, Goes, Put, Call
      <2> QED BY <1>0, <2>1, <2>2 DEF BreakerType, Circuit, Heeded, Stamped
<1>6. CASE Stamp(k)
      <2>1. circuit' = circuit /\ fails' = fails /\ opened' = "waiting" /\ call[k].at = "stamp"
            BY <1>6 DEF Stamp
      <2>2. \A i \in Caller : i # k => call'[i] = call[i]
            BY <1>0, <1>6, OthersStay DEF Stamp, Goes
      <2>3. ASSUME circuit = "CLOSED", fails >= Threshold
            PROVE  \E i \in Caller : Heeding(call'[i])
            <3>1. PICK i \in Caller : Heeding(call[i])
                  BY <2>3 DEF IInv, Heeded
            <3>2. i # k
                  BY <2>1, <3>1 DEF Heeding
            <3> QED BY <2>2, <3>1, <3>2
      <2> QED BY <1>0, <2>1, <2>3 DEF BreakerType, Heeded, Stamped, Heeding
<1> QED BY <1>1, <1>2, <1>3, <1>4, <1>5, <1>6 DEF Breaker

\* A failed attempt: the thread that counts the failure takes on the duty.
LEMMA FailedKeeps ==
    ASSUME NEW k \in Caller, NEW n \in {0, 1}, NEW how \in Documented, NEW may \in BOOLEAN,
           IInv, call[k].at = "send", Failed(k, n, how, may)
    PROVE  BreakerType' /\ Heeded' /\ Stamped'
<1>0. BreakerType /\ call \in [Caller -> Call] /\ call[k] \in Call
      BY DEF IInv, Calls
<1>1. CASE Again(k, n)
      <2>1. UNCHANGED breaker /\ \E r : Put(k, r)
            BY <1>1 DEF Again
      <2> QED BY <1>0, <2>1, BystanderKeeps DEF breaker, BreakerType
<1>2. CASE GiveUp(k, n, how, may /\ ~call[k].safe)
      <2>1. circuit' = circuit /\ opened' = opened /\ fails' = fails + 1
            BY <1>2 DEF GiveUp
      <2> DEFINE m == call[k].acted + n
                 u == may /\ ~call[k].safe
                 new == [call[k] EXCEPT !.at = "look", !.acted = m, !.error = how, !.unknown = u]
      <2>2. Put(k, new)
            BY <1>2 DEF GiveUp
      <2> HIDE DEF m, u
      <2>3. new.at = "look" /\ new.error = how
            BY <1>0 DEF Call
      <2> HIDE DEF new
      <2>4. call'[k] = new /\ \A i \in Caller : i # k => call'[i] = call[i]
            BY <1>0, <2>2, OthersStay
      <2>5. Heeding(call'[k])
            BY <2>3, <2>4 DEF Heeding, Documented
      <2>6. Heeded'
            BY <2>5 DEF Heeded, Heeding
      <2>7. Stamped'
            BY <2>1, <2>4 DEF IInv, Stamped
      <2>8. BreakerType'
            BY <1>0, <2>1 DEF BreakerType
      <2> QED BY <2>6, <2>7, <2>8
<1> QED BY <1>1, <1>2 DEF Failed

\* Every step of the client, and the passing of the reset timeout, keeps the
\* invariant.
LEMMA NextIInv == IInv /\ [Next]_vars => IInv'
<1> SUFFICES ASSUME IInv, [Next]_vars PROVE IInv'
    OBVIOUS
<1>0. BreakerType /\ MadeType /\ Calls /\ Heeded /\ Stamped
      BY DEF IInv
<1>1. CASE ResetTimeoutElapses
      <2>1. UNCHANGED <<circuit, fails, call, made>> /\ opened' = "elapsed"
            BY <1>1 DEF ResetTimeoutElapses
      <2>2. Calls' /\ MadeType' /\ BreakerType'
            BY <1>0, <2>1 DEF Calls, CallOK, MadeType, BreakerType
      <2>3. Heeded' /\ Stamped'
            BY <1>0, <2>1 DEF Heeded, Stamped, Heeding
      <2> QED BY <2>2, <2>3 DEF IInv
<1>2. ASSUME NEW k \in Caller, Breaker(k) PROVE IInv'
      <2>1. made' = made
            BY <1>2 DEF Breaker, Look, Compare, MoveToHalfOpen, Judge, Trip, Stamp
      <2>2. Calls' /\ MadeType'
            BY <1>0, <1>2, <2>1, BreakerCalls DEF MadeType
      <2> QED BY <1>2, <2>2, BreakerKeeps DEF IInv
<1>3. ASSUME NEW k \in Caller, NEW safe \in BOOLEAN, Begin(k, safe) PROVE IInv'
      <2>1. UNCHANGED breaker /\ call[k].at \notin InFlight /\ \E r : Put(k, r)
            BY <1>3 DEF Begin
      <2>2. Heeded' /\ Stamped' /\ BreakerType'
            BY <1>0, <2>1, BystanderKeeps DEF InFlight, InBreaker, breaker, BreakerType
      <2>3. MadeType'
            BY <1>0, <1>3, MaxCallsAssumption DEF Begin, MadeType
      <2> QED BY <1>0, <1>3, <2>2, <2>3, BeginCalls DEF IInv
<1>4. ASSUME NEW k \in Caller, GetAccessToken(k) PROVE IInv'
      <2>1. UNCHANGED breaker /\ made' = made /\ call[k].at = "token" /\ \E r : Put(k, r)
            BY <1>4 DEF GetAccessToken, Goes
      <2>2. Heeded' /\ Stamped' /\ BreakerType' /\ MadeType'
            BY <1>0, <2>1, BystanderKeeps DEF breaker, BreakerType, MadeType
      <2> QED BY <1>0, <1>4, <2>2, TokenCalls DEF IInv
<1>5. ASSUME NEW k \in Caller, Succeeds(k) PROVE IInv'
      <2>1. OnSuccess /\ made' = made /\ call[k].at = "send"
            BY <1>5 DEF Succeeds
      <2>2. fails' \in Nat /\ ~(fails' >= Threshold)
            BY <2>1, ConfigAssumption DEF OnSuccess
      <2>3. Heeded' /\ Stamped' /\ BreakerType' /\ MadeType'
            BY <1>0, <2>1, <2>2 DEF OnSuccess, Heeded, Stamped, BreakerType, Circuit, MadeType
      <2>4. Put(k, [call[k] EXCEPT !.at = "ok", !.acted = call[k].acted + 1])
            BY <1>5 DEF Succeeds
      <2>5. Calls'
            BY <1>0, <2>1, <2>4, EndKeeps
      <2> QED BY <2>3, <2>5 DEF IInv
<1>6. ASSUME NEW k \in Caller, NotRetryable(k) PROVE IInv'
      <2>1. UNCHANGED breaker /\ made' = made /\ call[k].at = "send"
            BY <1>6 DEF NotRetryable
      <2>2. PICK n \in {0, 1} :
                 Put(k, [call[k] EXCEPT !.at = "ClientError", !.acted = call[k].acted + n])
            BY <1>6 DEF NotRetryable
      <2>3. Heeded' /\ Stamped' /\ BreakerType' /\ MadeType'
            BY <1>0, <2>1, <2>2, BystanderKeeps DEF breaker, BreakerType, MadeType
      <2>4. Calls'
            BY <1>0, <2>1, <2>2, EndKeeps
      <2> QED BY <2>3, <2>4 DEF IInv
<1>7. ASSUME NEW k \in Caller, NeverSent(k) \/ RateLimited(k) \/ Lost(k) \/ ServerFails(k)
      PROVE  IInv'
      <2>1. call[k].at = "send" /\ made' = made
            BY <1>7 DEF NeverSent, RateLimited, Lost, ServerFails
      <2>2. PICK n \in {0, 1}, may \in BOOLEAN, how \in Documented :
                 (~may => n = 0) /\ Failed(k, n, how, may)
            <3>0. {"RetryExhaustedError", "RateLimitError", "ServerError"} \subseteq Documented
                  BY DEF Documented
            <3>1. CASE NeverSent(k)
                  BY <3>0, <3>1, Zenon DEF NeverSent
            <3>2. CASE RateLimited(k)
                  BY <3>0, <3>2, Zenon DEF RateLimited
            <3>3. CASE Lost(k)
                  BY <3>0, <3>3, Zenon DEF Lost
            <3>4. CASE ServerFails(k)
                  BY <3>0, <3>4, Zenon DEF ServerFails
            <3> QED BY <1>7, <3>1, <3>2, <3>3, <3>4, Zenon
      <2>3. Calls'
            BY <1>0, <2>1, <2>2, FailedCalls
      <2>4. BreakerType' /\ Heeded' /\ Stamped'
            BY <2>1, <2>2, FailedKeeps
      <2> QED BY <1>0, <2>1, <2>3, <2>4 DEF IInv, MadeType
<1>8. CASE UNCHANGED vars
      <2>1. UNCHANGED <<circuit, fails, opened, call, made>>
            BY <1>8 DEF vars
      <2>2. Calls' /\ MadeType' /\ BreakerType'
            BY <1>0, <2>1 DEF Calls, CallOK, MadeType, BreakerType
      <2>3. Heeded' /\ Stamped'
            BY <1>0, <2>1 DEF Heeded, Stamped, Heeding
      <2> QED BY <2>2, <2>3 DEF IInv
<1> QED BY <1>1, <1>2, <1>3, <1>4, <1>5, <1>6, <1>7, <1>8 DEF Next, Request

\* The invariant holds of every reachable state.
LEMMA SpecIInv == Spec => []IInv
<1> QED BY InitIInv, NextIInv, PTL DEF Spec

\* Types, with the attempt number bounded by max_attempts, for every number of
\* threads, attempts and calls.
THEOREM ClientTypeCorrect == Spec => []TypeOK
BY SpecIInv, IInvParts, PTL

\* _request never lets the partner act twice on a call that is not safe to
\* replay (ADR 0049), whatever max_attempts is.
THEOREM ReplaySafe == Spec => []AtMostOnce
BY SpecIInv, IInvParts, PTL

\* A documented exception of _request without outcome_unknown tells the truth:
\* the partner did nothing for that unsafe call.
THEOREM KnownFailures == Spec => []KnownFailureDidNothing
BY SpecIInv, IInvParts, PTL

\* The breaker's unlocked on_failure, on_success and state neither miss the
\* threshold nor leave a circuit open for ever, for any number of threads.
THEOREM BreakerSettles == Spec => []BreakerSettled
BY SpecIInv, IInvParts, PTL
=============================================================================
