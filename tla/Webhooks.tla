------------------------------ MODULE Webhooks ------------------------------
(* The inbound webhook surface of the dashboard (web/webhooks.py): each request  *)
(* reads the clock and the rate bucket when it arrives, awaits its body, and is  *)
(* then adjudicated in one go, so that requests overtake each other in between.  *)
(* A sender repeats an event, under the same nonce, as often as it likes.        *)
EXTENDS Integers, Sequences, FiniteSets, SequencesExt

CONSTANTS Source,       \* all that post; Known are those with a configured secret
          Known,
          Nonce,
          Letter,       \* what requests may say (bound)
          MaxRequests,  \* requests of a behaviour, numbered as they arrive (bound)
          Skew,         \* MAX_CLOCK_SKEW_SECONDS
          Ttl,          \* NONCE_TTL_SECONDS
          Window,       \* the rate bucket's minute
          RateLimit,    \* RATE_LIMIT_PER_MINUTE
          Horizon,      \* the last moment of the clock (bound)
          MaxBoots      \* starts of the server (bound)

\* What may be wrong with a request, in the order in which it would be noticed.
Flaw == {"none", "body-too-large", "bad-signature", "non-json",
         "event-type-not-allowed", "missing-nonce", "invalid-payload"}
Reason == (Flaw \ {"none"}) \cup {"unknown-source", "rate-limited", "stale-timestamp",
                                  "replayed-nonce", "task"}
Request == 1 .. MaxRequests
Never == -1

ASSUME WebhooksAssumption ==
  /\ Known \subseteq Source
  /\ Letter \subseteq [source : Source, nonce : Nonce, stamp : Nat, flaw : Flaw]
  /\ MaxRequests \in Nat
  /\ Skew \in Nat /\ Ttl \in Nat
  /\ Ttl >= 2 * Skew   \* NONCE_TTL_SECONDS = 2 * MAX_CLOCK_SKEW_SECONDS
  /\ Window \in Nat \ {0} /\ RateLimit \in Nat \ {0}
  /\ Horizon \in Nat /\ MaxBoots \in Nat

VARIABLES now,      \* config.clock
          boot,     \* which start of the server this is
          seen,     \* _NonceRegistry: when each nonce was spent, or Never
          hits,     \* _RateBucket: the recent arrivals of each source
          state,    \* of each request: "unsent", "reading", "answered" or "raised"
          sent,     \* what each request says
          captured, \* its reading of the clock
          verdict,  \* its answer
          order     \* the requests as they came to the registry, with the boot

registry == <<seen, hits>>
webhookVars == <<now, boot, registry, state, sent, captured, verdict, order>>

Forgotten == [s \in Known |-> [n \in Nonce |-> Never]]
NoHits == [s \in Known |-> <<>>]

WebhooksInit ==
  /\ now = 0 /\ boot = 1
  /\ seen = Forgotten /\ hits = NoHits
  /\ state = [r \in Request |-> "unsent"]
  /\ sent = [r \in Request |-> CHOOSE l \in Letter : TRUE]
  /\ captured = [r \in Request |-> 0]
  /\ verdict = [r \in Request |-> "none"]
  /\ order = <<>>

WebClock ==
  /\ now < Horizon
  /\ now' = now + 1
  /\ UNCHANGED <<boot, registry, state, sent, captured, verdict, order>>

\* The registry and the bucket live in the process; requests under way are cut off.
WebRestart ==
  /\ boot < MaxBoots
  /\ boot' = boot + 1
  /\ seen' = Forgotten /\ hits' = NoHits
  /\ state' = [r \in Request |-> IF state[r] = "reading" THEN "raised" ELSE state[r]]
  /\ UNCHANGED <<now, sent, captured, verdict, order>>

-----------------------------------------------------------------------------
Answer(r, reason) ==
  /\ verdict' = [verdict EXCEPT ![r] = reason]
  /\ state' = [state EXCEPT ![r] = "answered"]

Recent(s) == SelectSeq(hits[s], LAMBDA t : now - t < Window)

\* receive() up to the body: the clock is read, the source and the bucket checked.
Arrive(r) ==
  \E letter \in Letter :
    LET s == letter.source IN
    /\ state[r] = "unsent" /\ \A q \in 1 .. r - 1 : state[q] # "unsent"
    /\ sent' = [sent EXCEPT ![r] = letter]
    /\ captured' = [captured EXCEPT ![r] = now]
    /\ IF s \notin Known
         THEN Answer(r, "unknown-source") /\ UNCHANGED hits
       ELSE IF Len(Recent(s)) >= RateLimit
         THEN /\ Answer(r, "rate-limited")
              /\ hits' = [hits EXCEPT ![s] = Recent(s)]
       ELSE /\ hits' = [hits EXCEPT ![s] = Append(Recent(s), now)]
            /\ state' = [state EXCEPT ![r] = "reading"]
            /\ UNCHANGED verdict
    /\ UNCHANGED <<now, boot, seen, order>>

_timestamp_ok(r) ==
  /\ captured[r] - sent[r].stamp <= Skew
  /\ sent[r].stamp - captured[r] <= Skew

\* Mutant of Swept: the registry forgets at once.
SweptAtOnce(s, at) ==
  [n \in Nonce |-> IF seen[s][n] # Never /\ at > seen[s][n] THEN Never ELSE seen[s][n]]

\* _NonceRegistry.fresh(): what is too old by this request's clock is swept first.
Swept(s, at) ==
  [n \in Nonce |-> IF seen[s][n] # Never /\ at - seen[s][n] > Ttl THEN Never ELSE seen[s][n]]

fresh(r) == Swept(sent[r].source, captured[r])[sent[r].nonce] = Never
Spend(r) ==
  LET s == sent[r].source
      kept == Swept(s, captured[r]) IN
  seen' = [seen EXCEPT ![s] =
             IF fresh(r) THEN [kept EXCEPT ![sent[r].nonce] = captured[r]] ELSE kept]

Early == {"body-too-large", "bad-signature"}
Late == {"non-json", "event-type-not-allowed", "missing-nonce"}
Registered(r) == order' = Append(order, [request |-> r, boot |-> boot])

\* Mutant of Reject: the nonce is spent before the event type is looked at.
RejectSpends(r) ==
  LET flaw == sent[r].flaw IN
  /\ state[r] = "reading"
  /\ flaw \in Late /\ _timestamp_ok(r) /\ Answer(r, flaw) /\ Spend(r)
  /\ UNCHANGED <<now, boot, hits, sent, captured, order>>

\* _adjudicate() from the body on, when the nonce is not reached.
Reject(r) ==
  LET flaw == sent[r].flaw IN
  /\ state[r] = "reading"
  /\ \/ flaw \in Early /\ Answer(r, flaw)
     \/ flaw \notin Early /\ ~_timestamp_ok(r) /\ Answer(r, "stale-timestamp")
     \/ flaw \in Late /\ _timestamp_ok(r) /\ Answer(r, flaw)
  /\ UNCHANGED <<now, boot, registry, sent, captured, order>>

\* _adjudicate() once all else is in order: the nonce is spent, then the task made.
Judge(r) ==
  /\ state[r] = "reading"
  /\ sent[r].flaw \notin Early \cup Late /\ _timestamp_ok(r)
  /\ Spend(r)
  /\ IF ~fresh(r)
       THEN Answer(r, "replayed-nonce")
     ELSE IF sent[r].flaw = "invalid-payload"
       THEN Answer(r, "invalid-payload")
     ELSE Answer(r, "task")
  /\ Registered(r)
  /\ UNCHANGED <<now, boot, hits, sent, captured>>

\* TaskStore.create() raises: the server answers 500, nothing is journaled, and the
\* nonce stays spent.
CreateRaises(r) ==
  /\ state[r] = "reading"
  /\ sent[r].flaw = "none" /\ _timestamp_ok(r) /\ fresh(r)
  /\ Spend(r)
  /\ state' = [state EXCEPT ![r] = "raised"]
  /\ Registered(r)
  /\ UNCHANGED <<now, boot, hits, sent, captured, verdict>>

WebhooksNext ==
  \/ WebClock \/ WebRestart
  \/ \E r \in Request : Arrive(r) \/ Reject(r) \/ Judge(r) \/ CreateRaises(r)

WebhooksSpec == WebhooksInit /\ [][WebhooksNext]_webhookVars

-----------------------------------------------------------------------------
Same(r, q) == sent[r].source = sent[q].source /\ sent[r].nonce = sent[q].nonce
Accepted(i) == verdict[order[i].request] = "task"

\* The j-th to reach the registry was so slow with its body that a request of the same
\* source which had come later was judged before it.
Outrun(i, j) ==
  \E k \in i + 1 .. j - 1 :
    /\ sent[order[k].request].source = sent[order[j].request].source
    /\ captured[order[k].request] > captured[order[j].request]

\* The j-th repeats the i-th under a later timestamp, which the signature does not cover,
\* when the registry's memory of the first has run out.
Restamped(i, j) ==
  LET r == order[i].request
      q == order[j].request IN
  captured[q] - captured[r] > Ttl /\ sent[q].stamp > sent[r].stamp

\* Both, of one source and nonce, made a task, in one life of the server.
TwoTasks(i, j) ==
  /\ i < j /\ Accepted(i) /\ Accepted(j)
  /\ Same(order[i].request, order[j].request)
  /\ order[i].boot = order[j].boot

\* "a replayed nonce is rejected" (ADR-025, and webhooks.py:55), as far as the code can:
\* however the copies of an event are delayed and whatever timestamp each carries, a
\* second one makes a task only if it was overtaken on its way, or arrived more than the
\* registry's memory after the first and under a timestamp of its own. So no copy with
\* the timestamp it was sent with does, since the registry outlives the window. ADR-025
\* has no second case: it calls the timestamp signed content that nobody can refresh
\* (.adr/025-webhook-inbound.md:36-39), where the code signs the body alone.
ReplayRejected ==
  \A i, j \in DOMAIN order : TwoTasks(i, j) => Outrun(i, j) \/ Restamped(i, j)

\* A sender told that its event is a replay can rely on the event having been seen
\* no longer than the registry's memory ago, by its clocks, and being a task: unless
\* the request that spent the nonce had an unusable payload or raised.
ReplayMeansTask ==
  \A j \in DOMAIN order :
    LET q == order[j].request IN
    verdict[q] = "replayed-nonce" =>
      \E i \in 1 .. j - 1 :
        LET r == order[i].request IN
        /\ Same(r, q) /\ order[i].boot = order[j].boot
        /\ captured[q] - captured[r] <= Ttl
        /\ verdict[r] \in {"task", "invalid-payload"} \/ state[r] = "raised"
=============================================================================
