------------------------------ MODULE Providers ------------------------------
(* Model providers: the circuit breaker of provider/health.py, the router's      *)
(* selection by health (provider/router.py) and what one HTTP completion reports *)
(* (provider/openai_compat.py).  Callers select, call and record concurrently;   *)
(* nothing under src/ does so yet, so they are the modules' documented use.      *)
(* Each provider offers one capability; the ranking by policy is left out.       *)
EXTENDS Naturals, Sequences, FiniteSets

CONSTANTS Provider,
          Delay,         \* what a Retry-After may say, in moments
          RateCooldown,  \* the rest after a 429 that says nothing
          DownCooldown,  \* the rest after Threshold failures
          Threshold,
          MaxCalls,      \* calls made (bound)
          LastTime       \* the last moment of the clock (bound)

Call == 1 .. MaxCalls
Health == {"healthy", "rate-limited", "unavailable", "cooldown"}
Error == {"rate-limit", "down", "auth", "schema"}

ASSUME ProvidersAssumption ==
  /\ Delay \subseteq Nat /\ RateCooldown \in Nat /\ DownCooldown \in Nat
  /\ Threshold \in Nat \ {0} /\ MaxCalls \in Nat /\ LastTime \in Nat

VARIABLES time,     \* the monotonic clock
          health,   \* _states: [state, until, failures]; until is 0 for None
          call,     \* of each call: [to, begun, answer], answer "none" while it is away
          history,  \* of each provider: the outcomes recorded and the rests it had
          promised  \* the deadline its last 429 gave, and when: [until, at]

providerVars == <<time, health, call, history, promised>>

Fit == [state |-> "healthy", until |-> 0, failures |-> 0]
Unused == [to |-> "nobody", begun |-> 0, answer |-> "none"]
Ended(what, i) == [what |-> what, at |-> time, begun |-> call[i].begun]

ProvidersInit ==
  /\ time = 0
  /\ health = [p \in Provider |-> Fit]
  /\ call = [i \in Call |-> Unused]
  /\ history = [p \in Provider |-> <<>>]
  /\ promised = [p \in Provider |-> [until |-> 0, at |-> 0]]

\* A moment passes; none is 0 but the first, so that a deadline is never 0.
ProviderClock ==
  /\ time < LastTime
  /\ time' = time + 1
  /\ UNCHANGED <<health, call, history, promised>>

-----------------------------------------------------------------------------
(* is_available() and select().                                                  *)

Barred(p) == health[p].state \in {"rate-limited", "cooldown"}
Rested(p) == Barred(p) /\ time >= health[p].until
is_available(p) == ~Barred(p) \/ Rested(p)

\* The router asks for every provider it was not told to leave out: whoever has rested
\* is healthy from then on.  The caller takes one of those that are left.
select(i, exclude) ==
  /\ call[i] = Unused /\ \A j \in 1 .. i - 1 : call[j] # Unused
  /\ health' = [p \in Provider |-> IF p \notin exclude /\ Rested(p) THEN Fit ELSE health[p]]
  /\ history' = [p \in Provider |->
       IF p \notin exclude /\ Rested(p) THEN Append(history[p], Ended("rest", i)) ELSE history[p]]
  /\ \E p \in Provider \ exclude :
       /\ is_available(p)
       /\ call' = [call EXCEPT ![i] = [to |-> p, begun |-> time, answer |-> "none"]]
  /\ UNCHANGED <<time, promised>>

-----------------------------------------------------------------------------
(* complete() answers, and the caller records it.                                *)

\* What an HTTP status, or its absence, stands for.
Status == {"ok", "junk", "401", "429", "5xx", "other", "lost"}
Error_of(status) ==
  CASE status = "401" -> "auth"
    [] status = "429" -> "rate-limit"
    [] status \in {"5xx", "lost"} -> "down"
    [] OTHER -> "schema"

complete(i, status) ==
  /\ call[i] # Unused /\ call[i].answer = "none"
  /\ call' = [call EXCEPT ![i].answer = IF status = "ok" THEN "ok" ELSE Error_of(status)]
  /\ UNCHANGED <<time, health, history, promised>>

Recording(i, answers) == call[i].answer \in answers
Recorded(i) == call' = [call EXCEPT ![i].answer = "recorded"]
Noted(i, what) ==
  history' = [history EXCEPT ![call[i].to] = Append(@, Ended(what, i))]

record_success(i) ==
  /\ Recording(i, {"ok"}) /\ Recorded(i) /\ Noted(i, "success")
  /\ health' = [health EXCEPT ![call[i].to] = Fit]
  /\ UNCHANGED <<time, promised>>

\* Mutant of RecordRateLimit: what the provider asked for is not looked at.
RestAsUsual(i, delay) ==
  LET p == call[i].to IN
  /\ Recording(i, {"rate-limit"}) /\ Recorded(i) /\ Noted(i, "rate-limit")
  /\ health' = [health EXCEPT ![p] = [state |-> "rate-limited", until |-> time + RateCooldown,
                                      failures |-> @.failures + 1]]
  /\ promised' = [promised EXCEPT ![p] = [until |-> time + delay, at |-> time]]
  /\ UNCHANGED time

\* A 429, with or without a Retry-After.
RecordRateLimit(i, delay) ==
  LET p == call[i].to IN
  /\ Recording(i, {"rate-limit"}) /\ Recorded(i) /\ Noted(i, "rate-limit")
  /\ health' = [health EXCEPT ![p] = [state |-> "rate-limited", until |-> time + delay,
                                      failures |-> @.failures + 1]]
  /\ promised' = [promised EXCEPT ![p] = [until |-> time + delay, at |-> time]]
  /\ UNCHANGED time

\* Below the threshold the provider stays routable, and a deadline it had is dropped.
RecordTransient(i) ==
  LET p == call[i].to
      failures == health[p].failures + 1 IN
  /\ Recording(i, {"down"}) /\ Recorded(i) /\ Noted(i, "down")
  /\ health' = [health EXCEPT ![p] =
       IF failures >= Threshold
         THEN [state |-> "cooldown", until |-> time + DownCooldown, failures |-> failures]
         ELSE [state |-> "unavailable", until |-> 0, failures |-> failures]]
  /\ UNCHANGED <<time, promised>>

\* The breaker does not look at permanent errors.
RecordPermanent(i) ==
  /\ Recording(i, {"auth", "schema"}) /\ Recorded(i)
  /\ UNCHANGED <<time, health, history, promised>>

ProvidersNext ==
  \/ ProviderClock
  \/ \E i \in Call :
       \/ \E exclude \in SUBSET Provider : select(i, exclude)
       \/ \E status \in Status : complete(i, status)
       \/ record_success(i) \/ RecordTransient(i) \/ RecordPermanent(i)
       \/ \E delay \in Delay \cup {RateCooldown} : RecordRateLimit(i, delay)

ProvidersSpec == ProvidersInit /\ [][ProvidersNext]_providerVars

-----------------------------------------------------------------------------
\* The answer to a call begun before the last 429 was recorded after it.
Overtaken(p) ==
  \E k \in DOMAIN history[p] :
    /\ history[p][k].what \in {"success", "down"}
    /\ history[p][k].at >= promised[p].at
    /\ history[p][k].begun <= promised[p].at

\* "429 -> RateLimitError (honors Retry-After)" (ADR-005) and "moves the provider to
\* 'rate-limited' with the advertised Retry-After" (health.py:42): no call goes to a
\* provider before the deadline its last 429 gave, unless the answer to a call that
\* was under way by then was recorded after it: a success, or a failure too few.
RetryAfterHonored ==
  \A p \in Provider : time < promised[p].until /\ is_available(p) => Overtaken(p)
=============================================================================
