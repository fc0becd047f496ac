--------------------------- MODULE ServicesProofs ----------------------------
(* Theorems about the webhook surface, the notification router and the provider  *)
(* health tracker, each for any number of requests, events and calls.            *)
EXTENDS Webhooks, Notifications, Providers, FiniteSetTheorems, TLAPS

-----------------------------------------------------------------------------
(* Webhooks.                                                                     *)

\* A request that came to the registry has been answered, or raised, for good; it is of
\* a source with a secret and its stamp was in the window.
Settled(r) ==
  /\ state[r] \in {"answered", "raised"}
  /\ sent[r] \in Letter /\ sent[r].source \in Known
  /\ _timestamp_ok(r)

WebhooksType ==
  /\ now \in Nat /\ boot \in Nat
  /\ seen \in [Known -> [Nonce -> Nat \cup {Never}]]
  /\ state \in [Request -> {"unsent", "reading", "answered", "raised"}]
  /\ sent \in [Request -> {CHOOSE l \in Letter : TRUE} \cup Letter]
  /\ captured \in [Request -> Nat]
  /\ verdict \in [Request -> Reason \cup {"none"}]
  /\ order \in Seq([request : Request, boot : Nat])

InLine == \A i \in DOMAIN order : order[i].boot <= boot /\ Settled(order[i].request)

Lined ==
  /\ \A r \in Request : state[r] = "reading" => sent[r] \in Letter /\ sent[r].source \in Known
  /\ \A r \in Request : state[r] \in {"unsent", "reading"} => verdict[r] = "none"
  /\ InLine

\* A nonce that made a task is remembered as long as the server is up, or was swept for a
\* later request whose clock was beyond its time to live.
Remembered ==
  \A i \in DOMAIN order :
    LET r == order[i].request IN
    order[i].boot = boot /\ Accepted(i) =>
      \/ seen[sent[r].source][sent[r].nonce] = captured[r]
      \/ \E k \in DOMAIN order :
           /\ i < k /\ sent[order[k].request].source = sent[r].source
           /\ captured[order[k].request] - captured[r] > Ttl

\* Whatever is remembered was spent by a request of this boot.
Spender(i, s, n) ==
  LET r == order[i].request IN
  /\ sent[r].source = s /\ sent[r].nonce = n
  /\ order[i].boot = boot
  /\ captured[r] = seen[s][n]
  /\ verdict[r] \in {"task", "invalid-payload"} \/ state[r] = "raised"

SpentByOne ==
  \A s \in Known, n \in Nonce :
    seen[s][n] # Never => \E i \in DOMAIN order : Spender(i, s, n)

WebhooksInv ==
  WebhooksType /\ Lined /\ Remembered /\ SpentByOne /\ ReplayRejected /\ ReplayMeansTask

LEMMA Entries ==
  ASSUME WebhooksType
  PROVE  /\ Len(order) \in Nat /\ DOMAIN order = 1 .. Len(order)
         /\ \A i \in DOMAIN order : order[i].request \in Request /\ order[i].boot \in Nat
<1>1. order \in Seq([request : Request, boot : Nat])
  BY DEF WebhooksType
<1> DEFINE E == [request : Request, boot : Nat]
<1> HIDE DEF E
<1>2. order \in Seq(E)
  BY <1>1 DEF E
<1>3. /\ Len(order) \in Nat /\ DOMAIN order = 1 .. Len(order)
      /\ \A i \in DOMAIN order : order[i] \in E
  BY <1>2
<1>4. \A e \in E : e.request \in Request /\ e.boot \in Nat
  BY DEF E
<1> QED BY <1>3, <1>4

LEMMA WebhooksStart == WebhooksInit => WebhooksInv
<1> SUFFICES ASSUME WebhooksInit PROVE WebhooksInv
  OBVIOUS
<1>1. WebhooksType
  <2>1. order = <<>> /\ <<>> \in Seq([request : Request, boot : Nat])
    BY DEF WebhooksInit
  <2> QED BY <2>1 DEF WebhooksInit, WebhooksType, Forgotten, Never
<1>2. DOMAIN order = {}
  BY DEF WebhooksInit
<1>3. Lined
  BY <1>2 DEF WebhooksInit, Lined, InLine
<1>4. Remembered /\ ReplayRejected /\ ReplayMeansTask
  BY <1>2 DEF Remembered, ReplayRejected, ReplayMeansTask
<1>5. SpentByOne
  BY DEF WebhooksInit, SpentByOne, Forgotten
<1> QED BY <1>1, <1>3, <1>4, <1>5 DEF WebhooksInv

\* Nothing about the registry changes while no request comes to it.
LEMMA NobodyRegisters ==
  ASSUME WebhooksInv, order' = order, boot' = boot, seen' = seen,
         \A i \in DOMAIN order :
           LET r == order[i].request IN
           sent'[r] = sent[r] /\ captured'[r] = captured[r] /\ verdict'[r] = verdict[r]
             /\ state'[r] = state[r]
  PROVE  /\ Remembered' /\ SpentByOne' /\ ReplayRejected' /\ ReplayMeansTask'
         /\ InLine'
<1>1. Remembered'
  BY DEF WebhooksInv, Remembered, Accepted
<1>2. SpentByOne'
  BY DEF WebhooksInv, SpentByOne, Spender
<1>3. ReplayRejected'
  <2> SUFFICES ASSUME NEW i \in DOMAIN order, NEW j \in DOMAIN order, TwoTasks(i, j)'
               PROVE  Outrun(i, j)' \/ Restamped(i, j)'
    BY DEF ReplayRejected
  <2>1. TwoTasks(i, j)
    BY DEF TwoTasks, Accepted, Same
  <2>2. Outrun(i, j) \/ Restamped(i, j)
    BY <2>1 DEF WebhooksInv, ReplayRejected
  <2>3. \A k \in i + 1 .. j - 1 : k \in DOMAIN order
    BY DEF WebhooksInv, WebhooksType
  <2> QED BY <2>2, <2>3 DEF Outrun, Restamped
<1>4. ReplayMeansTask'
  <2> SUFFICES ASSUME NEW j \in DOMAIN order, verdict'[order[j].request] = "replayed-nonce"
               PROVE  \E i \in 1 .. j - 1 :
                        LET r == order[i].request
                            q == order[j].request IN
                        /\ Same(r, q)' /\ order[i].boot = order[j].boot
                        /\ captured'[q] - captured'[r] <= Ttl
                        /\ verdict'[r] \in {"task", "invalid-payload"} \/ state'[r] = "raised"
    BY DEF ReplayMeansTask
  <2>1. PICK i \in 1 .. j - 1 :
          LET r == order[i].request
              q == order[j].request IN
          /\ Same(r, q) /\ order[i].boot = order[j].boot
          /\ captured[q] - captured[r] <= Ttl
          /\ verdict[r] \in {"task", "invalid-payload"} \/ state[r] = "raised"
    BY DEF WebhooksInv, ReplayMeansTask
  <2>2. i \in DOMAIN order
    BY DEF WebhooksInv, WebhooksType
  <2> QED BY <2>1, <2>2 DEF Same
<1>5. InLine'
  BY DEF WebhooksInv, Lined, InLine, Settled, _timestamp_ok
<1> QED BY <1>1, <1>2, <1>3, <1>4, <1>5

\* What Spend leaves of the registry: what was too old is gone, the nonce is the request's
\* if it was fresh, all else stands.
LEMMA Spending ==
  ASSUME WebhooksInv, NEW r \in Request, state[r] = "reading", Spend(r)
  PROVE  LET at == captured[r]
             own(s, n) == s = sent[r].source /\ n = sent[r].nonce IN
         /\ seen' \in [Known -> [Nonce -> Nat \cup {Never}]]
         /\ fresh(r) => seen'[sent[r].source][sent[r].nonce] = at
         /\ ~fresh(r) => /\ seen[sent[r].source][sent[r].nonce] # Never
                         /\ at - seen[sent[r].source][sent[r].nonce] <= Ttl
         /\ \A s \in Known, n \in Nonce :
              \/ seen'[s][n] = seen[s][n]
              \/ /\ s = sent[r].source /\ seen'[s][n] = Never
                 /\ at - seen[s][n] > Ttl
              \/ /\ own(s, n) /\ fresh(r) /\ seen'[s][n] = at
                 /\ seen[s][n] = Never \/ at - seen[s][n] > Ttl
<1> DEFINE src == sent[r].source
           non == sent[r].nonce
           at == captured[r]
           kept == Swept(src, at)
<1>1. src \in Known /\ non \in Nonce /\ at \in Nat
  BY WebhooksAssumption DEF WebhooksInv, WebhooksType, Lined
<1>2. seen[src] \in [Nonce -> Nat \cup {Never}] /\ seen \in [Known -> [Nonce -> Nat \cup {Never}]]
  BY <1>1 DEF WebhooksInv, WebhooksType
<1>3. kept \in [Nonce -> Nat \cup {Never}]
      /\ \A n \in Nonce : \/ kept[n] = seen[src][n]
                          \/ kept[n] = Never /\ at - seen[src][n] > Ttl
  BY <1>2 DEF Swept
<1>4. fresh(r) <=> kept[non] = Never
  BY DEF fresh
<1>5. seen' = [seen EXCEPT ![src] = IF fresh(r) THEN [kept EXCEPT ![non] = at] ELSE kept]
  BY DEF Spend
<1>6. ~fresh(r) => seen[src][non] # Never /\ at - seen[src][non] <= Ttl
  BY <1>1, <1>2, <1>4, WebhooksAssumption DEF Swept, Never
<1> HIDE DEF kept
<1>7. seen' \in [Known -> [Nonce -> Nat \cup {Never}]]
  BY <1>1, <1>2, <1>3, <1>5
<1>8. fresh(r) => seen'[src][non] = at
  BY <1>1, <1>2, <1>3, <1>5
<1>9. ASSUME NEW s \in Known, NEW n \in Nonce
      PROVE  \/ seen'[s][n] = seen[s][n]
             \/ s = src /\ seen'[s][n] = Never /\ at - seen[s][n] > Ttl
             \/ /\ s = src /\ n = non /\ fresh(r) /\ seen'[s][n] = at
                /\ seen[s][n] = Never \/ at - seen[s][n] > Ttl
  <2>1. CASE s # src
    BY <1>2, <1>5, <2>1
  <2>2. CASE s = src /\ ~fresh(r)
    BY <1>1, <1>2, <1>3, <1>5, <2>2
  <2>3. CASE s = src /\ fresh(r) /\ n # non
    BY <1>1, <1>2, <1>3, <1>5, <2>3
  <2>4. CASE s = src /\ fresh(r) /\ n = non
    BY <1>1, <1>2, <1>3, <1>4, <1>8, <2>4
  <2> QED BY <2>1, <2>2, <2>3, <2>4
<1> QED BY <1>6, <1>7, <1>8, <1>9

\* A request is judged, or raises: it is the last in line, and is accepted or raises only
\* if its nonce was fresh.
LEMMA OneRegisters ==
  ASSUME WebhooksInv, NEW r \in Request, state[r] = "reading", _timestamp_ok(r),
         Spend(r), Registered(r), boot' = boot, sent' = sent, captured' = captured,
         \A q \in Request \ {r} : verdict'[q] = verdict[q] /\ state'[q] = state[q],
         state'[r] \in {"answered", "raised"},
         \/ fresh(r) /\ verdict'[r] \in {"task", "invalid-payload"}
         \/ fresh(r) /\ verdict'[r] = "none" /\ state'[r] = "raised"
         \/ ~fresh(r) /\ verdict'[r] = "replayed-nonce"
  PROVE  /\ Remembered' /\ SpentByOne' /\ ReplayRejected' /\ ReplayMeansTask'
         /\ InLine'
         /\ order' \in Seq([request : Request, boot : Nat])
<1> DEFINE src == sent[r].source
           non == sent[r].nonce
           at == captured[r]
           last == Len(order) + 1
<1>0. /\ order \in Seq([request : Request, boot : Nat]) /\ Len(order) \in Nat /\ boot \in Nat
      /\ captured \in [Request -> Nat] /\ sent[r] \in Letter /\ src \in Known /\ non \in Nonce
      /\ Skew \in Nat /\ Ttl \in Nat /\ Ttl >= 2 * Skew
  BY WebhooksAssumption DEF WebhooksInv, WebhooksType, Lined
<1>1. /\ order' \in Seq([request : Request, boot : Nat])
      /\ DOMAIN order' = 1 .. last /\ DOMAIN order = 1 .. last - 1 /\ last \in Nat
      /\ order'[last] = [request |-> r, boot |-> boot]
      /\ \A i \in DOMAIN order : order'[i] = order[i] /\ order[i].request \in Request
  <2> DEFINE e == [request |-> r, boot |-> boot]
  <2>1. e \in [request : Request, boot : Nat]
    BY <1>0
  <2>2. order' = Append(order, e)
    BY DEF Registered
  <2>3. \A i \in DOMAIN order : order[i].request \in Request
    BY Entries DEF WebhooksInv
  <2> HIDE DEF e
  <2>4. /\ order' \in Seq([request : Request, boot : Nat])
        /\ DOMAIN order' = 1 .. last /\ DOMAIN order = 1 .. last - 1 /\ last \in Nat
        /\ order'[last] = e
        /\ \A i \in DOMAIN order : order'[i] = order[i]
    BY <1>0, <2>1, <2>2
  <2> QED BY <2>3, <2>4 DEF e
<1>2. \A i \in DOMAIN order : Settled(order[i].request) /\ order[i].boot <= boot
  BY DEF WebhooksInv, Lined, InLine
<1>3. \A i \in DOMAIN order : order[i].request # r
  BY <1>2 DEF Settled
<1>4. \A i \in DOMAIN order :
        verdict'[order[i].request] = verdict[order[i].request]
        /\ state'[order[i].request] = state[order[i].request]
  BY <1>1, <1>3
<1>5. /\ fresh(r) => seen'[src][non] = at
      /\ ~fresh(r) => seen[src][non] # Never /\ at - seen[src][non] <= Ttl
      /\ \A s \in Known, n \in Nonce :
           \/ seen'[s][n] = seen[s][n]
           \/ s = src /\ seen'[s][n] = Never /\ at - seen[s][n] > Ttl
           \/ /\ s = src /\ n = non /\ fresh(r) /\ seen'[s][n] = at
              /\ seen[s][n] = Never \/ at - seen[s][n] > Ttl
  BY Spending
<1>6. InLine'
  <2>1. \A q \in Request \ {r} : Settled(q) => Settled(q)'
    BY DEF Settled, _timestamp_ok
  <2>2. Settled(r)'
    BY <1>0 DEF Settled, _timestamp_ok
  <2>3. SUFFICES ASSUME NEW i \in DOMAIN order'
                 PROVE  order'[i].boot <= boot' /\ (\E q \in Request : q = order'[i].request /\ Settled(q)')
    BY DEF InLine, Settled, _timestamp_ok
  <2>4. CASE i = last
    BY <1>0, <1>1, <2>2, <2>4
  <2>5. CASE i \in DOMAIN order
    BY <1>1, <1>2, <1>3, <2>1, <2>5
  <2> QED BY <1>1, <2>4, <2>5
<1>7. Remembered'
  <2> SUFFICES ASSUME NEW i \in DOMAIN order', order'[i].boot = boot', Accepted(i)'
               PROVE  LET q == order'[i].request IN
                      \/ seen'[sent[q].source][sent[q].nonce] = captured[q]
                      \/ \E k \in DOMAIN order' :
                           /\ i < k /\ sent[order'[k].request].source = sent[q].source
                           /\ captured[order'[k].request] - captured[q] > Ttl
    BY DEF Remembered
  <2>1. CASE i = last
    BY <1>1, <1>5, <2>1 DEF Accepted
  <2>2. CASE i \in DOMAIN order
    <3> DEFINE q == order[i].request
    <3>1. order'[i] = order[i] /\ q \in Request /\ verdict[q] = "task" /\ order[i].boot = boot
      BY <1>1, <1>4, <2>2 DEF Accepted
    <3>2. sent[q].source \in Known /\ sent[q].nonce \in Nonce
      BY <1>2, <2>2, WebhooksAssumption DEF Settled
    <3>3. \/ seen[sent[q].source][sent[q].nonce] = captured[q]
          \/ \E k \in DOMAIN order :
               /\ i < k /\ sent[order[k].request].source = sent[q].source
               /\ captured[order[k].request] - captured[q] > Ttl
      BY <2>2, <3>1 DEF WebhooksInv, Remembered, Accepted
    <3>4. CASE seen[sent[q].source][sent[q].nonce] = captured[q]
      <4>1. captured[q] # Never
        BY <1>0, <3>1 DEF Never
      <4>2. \/ seen'[sent[q].source][sent[q].nonce] = captured[q]
            \/ sent[q].source = src /\ at - captured[q] > Ttl
        BY <1>5, <3>2, <3>4, <4>1
      <4> QED BY <1>1, <2>2, <3>1, <4>2
    <3>5. CASE \E k \in DOMAIN order :
                 /\ i < k /\ sent[order[k].request].source = sent[q].source
                 /\ captured[order[k].request] - captured[q] > Ttl
      BY <1>1, <3>1, <3>5
    <3> QED BY <3>3, <3>4, <3>5
  <2> QED BY <1>1, <2>1, <2>2
<1>8. SpentByOne'
  <2> SUFFICES ASSUME NEW s \in Known, NEW n \in Nonce, seen'[s][n] # Never
               PROVE  \E i \in DOMAIN order' : Spender(i, s, n)'
    BY DEF SpentByOne
  <2>1. CASE seen'[s][n] = seen[s][n]
    <3>1. PICK i \in DOMAIN order : Spender(i, s, n)
      BY <2>1 DEF WebhooksInv, SpentByOne
    <3>2. Spender(i, s, n)'
      BY <1>1, <1>4, <2>1, <3>1 DEF Spender
    <3> QED BY <1>1, <3>2
  <2>2. CASE s = src /\ n = non /\ fresh(r) /\ seen'[s][n] = at
    <3>1. ASSUME NEW i \in DOMAIN order', i = last PROVE Spender(i, s, n)'
      <4>1. order'[i].request = r /\ order'[i].boot = boot
        BY <1>1, <3>1
      <4> QED BY <2>2, <4>1 DEF Spender
    <3> QED BY <1>1, <3>1
  <2> QED BY <1>5, <2>1, <2>2
<1>9. ReplayRejected'
  <2> SUFFICES ASSUME NEW i \in DOMAIN order', NEW j \in DOMAIN order', TwoTasks(i, j)'
               PROVE  Outrun(i, j)' \/ Restamped(i, j)'
    BY DEF ReplayRejected
  <2>1. /\ i \in DOMAIN order /\ \A k \in i + 1 .. j - 1 : k \in DOMAIN order
        /\ i < j /\ order'[i] = order[i]
    BY <1>1 DEF TwoTasks
  <2>2. CASE j \in DOMAIN order
    <3>1. TwoTasks(i, j) /\ order'[j] = order[j]
      BY <1>1, <1>4, <2>1, <2>2 DEF TwoTasks, Accepted, Same
    <3>2. Outrun(i, j) \/ Restamped(i, j)
      BY <2>1, <2>2, <3>1 DEF WebhooksInv, ReplayRejected
    <3> QED BY <1>1, <2>1, <3>1, <3>2 DEF Outrun, Restamped
  <2>3. CASE j = last
    <3> DEFINE q == order[i].request
    <3>1. /\ q \in Request /\ verdict[q] = "task" /\ fresh(r)
          /\ order'[j].request = r /\ order'[j].boot = boot /\ order[i].boot = boot
          /\ sent[q].source = src /\ sent[q].nonce = non
      BY <1>1, <1>4, <2>1, <2>3 DEF TwoTasks, Accepted, Same
    <3>2. SUFFICES ASSUME ~(at - captured[q] > Ttl)
                   PROVE  Outrun(i, j)'
      <4>1. at \in Nat /\ captured[q] \in Nat /\ sent[r].stamp \in Nat /\ sent[q].stamp \in Nat
        BY <1>0, <1>2, <2>1, <3>1, WebhooksAssumption DEF Settled
      <4>2. at - sent[r].stamp <= Skew /\ sent[q].stamp - captured[q] <= Skew
        BY <1>2, <2>1, <3>1 DEF Settled, _timestamp_ok
      <4>3. at - captured[q] > Ttl => sent[r].stamp > sent[q].stamp
        <5> HIDE DEF at, q
        <5> QED BY <4>1, <4>2, WebhooksAssumption
      <4> QED BY <2>1, <3>1, <4>3 DEF Restamped
    <3>3. \A c \in Nat : c - captured[q] > Ttl => c > at
      <4>1. at \in Nat /\ captured[q] \in Nat
        BY <1>0, <3>1
      <4> HIDE DEF at, q
      <4> QED BY <3>2, <4>1, WebhooksAssumption
    <3>4. seen[src][non] # captured[q]
      <4>1. captured[q] # Never /\ captured[q] \in Nat
        BY <1>0, <3>1 DEF Never
      <4>2. seen[src][non] = Never \/ at - seen[src][non] > Ttl
        BY <1>0, <3>1 DEF Swept, fresh
      <4> HIDE DEF at, q, src, non
      <4> QED BY <3>2, <4>1, <4>2
    <3>5. PICK k \in DOMAIN order :
            /\ i < k /\ sent[order[k].request].source = src
            /\ captured[order[k].request] - captured[q] > Ttl
      BY <2>1, <3>1, <3>4 DEF WebhooksInv, Remembered, Accepted
    <3>6. captured[order[k].request] \in Nat /\ k \in i + 1 .. j - 1
      <4>1. order[k].request \in Request
        BY <1>1, <3>5
      <4>2. i \in Nat /\ k \in 1 .. j - 1 /\ j \in Nat /\ i < k
        BY <1>1, <2>1, <2>3, <3>5
      <4> QED BY <1>0, <4>1, <4>2
    <3>7. captured[order[k].request] > at
      BY <3>3, <3>5, <3>6
    <3>8. order'[k] = order[k]
      BY <1>1, <3>5
    <3> QED BY <3>1, <3>5, <3>6, <3>7, <3>8 DEF Outrun
  <2> QED BY <1>1, <2>2, <2>3
<1>10. ReplayMeansTask'
  <2> SUFFICES ASSUME NEW j \in DOMAIN order', verdict'[order'[j].request] = "replayed-nonce"
               PROVE  \E i \in 1 .. j - 1 :
                        LET p == order'[i].request
                            q == order'[j].request IN
                        /\ Same(p, q) /\ order'[i].boot = order'[j].boot
                        /\ captured[q] - captured[p] <= Ttl
                        /\ verdict'[p] \in {"task", "invalid-payload"} \/ state'[p] = "raised"
    BY DEF ReplayMeansTask, Same
  <2>1. CASE j \in DOMAIN order
    <3>1. PICK i \in 1 .. j - 1 :
            LET p == order[i].request
                q == order[j].request IN
            /\ Same(p, q) /\ order[i].boot = order[j].boot
            /\ captured[q] - captured[p] <= Ttl
            /\ verdict[p] \in {"task", "invalid-payload"} \/ state[p] = "raised"
      BY <1>1, <1>4, <2>1 DEF WebhooksInv, ReplayMeansTask
    <3>2. i \in DOMAIN order
      BY <1>1, <2>1
    <3> QED BY <1>1, <1>4, <2>1, <3>1, <3>2
  <2>2. CASE j = last
    <3>1. ~fresh(r)
      BY <1>1, <2>2
    <3>2. PICK i \in DOMAIN order : Spender(i, src, non)
      BY <1>0, <1>5, <3>1 DEF WebhooksInv, SpentByOne
    <3>3. at - captured[order[i].request] <= Ttl
      BY <1>5, <3>1, <3>2 DEF Spender
    <3>4. Same(order[i].request, r)
      BY <3>2 DEF Spender, Same
    <3> QED BY <1>1, <1>4, <2>2, <3>2, <3>3, <3>4 DEF Spender
  <2> QED BY <1>1, <2>1, <2>2
<1> QED BY <1>1, <1>6, <1>7, <1>8, <1>9, <1>10

LEMMA WebhooksStep ==
  ASSUME WebhooksInv, [WebhooksNext]_webhookVars
  PROVE  WebhooksInv'
<1>0. WebhooksType /\ Lined
  BY DEF WebhooksInv
<1>1. CASE UNCHANGED webhookVars \/ WebClock
  <2>1. /\ UNCHANGED <<boot, seen, hits, state, sent, captured, verdict, order>>
        /\ now' \in Nat
    BY <1>0, <1>1 DEF webhookVars, registry, WebClock, WebhooksType
  <2>2. WebhooksType' /\ Lined'
    <3>1. WebhooksType'
      BY <1>0, <2>1 DEF WebhooksType
    <3>2. Lined'
      BY <1>0, <2>1 DEF Lined, InLine, Settled, _timestamp_ok
    <3> QED BY <3>1, <3>2
  <2> QED BY <2>1, <2>2, NobodyRegisters DEF WebhooksInv
<1>2. CASE WebRestart
  <2>1. /\ UNCHANGED <<now, sent, captured, verdict, order>>
        /\ boot' = boot + 1 /\ seen' = Forgotten
        /\ \A r \in Request : state'[r] = IF state[r] = "reading" THEN "raised" ELSE state[r]
    BY <1>2 DEF WebRestart
  <2>2. WebhooksType'
    BY <1>0, <1>2 DEF WebhooksType, WebRestart, Forgotten, Never
  <2>3. \A i \in DOMAIN order :
          /\ order[i].request \in Request /\ state'[order[i].request] = state[order[i].request]
          /\ order[i].boot < boot'
    <3> SUFFICES ASSUME NEW i \in DOMAIN order
                 PROVE  /\ order[i].request \in Request
                        /\ state'[order[i].request] = state[order[i].request]
                        /\ order[i].boot < boot'
      OBVIOUS
    <3>1. order[i].request \in Request /\ order[i].boot \in Nat /\ boot \in Nat
      BY <1>0, Entries DEF WebhooksType
    <3>2. order[i].boot <= boot /\ state[order[i].request] # "reading"
      BY <1>0 DEF Lined, InLine, Settled
    <3> QED BY <2>1, <3>1, <3>2
  <2>4. Lined'
    <3>1. \A i \in DOMAIN order : Settled(order[i].request) /\ order[i].boot < boot'
      BY <1>0, <2>3 DEF Lined, InLine
    <3>2. \A i \in DOMAIN order : order[i].boot \in Nat /\ boot' \in Nat
      BY <1>0, <2>2, Entries DEF WebhooksType
    <3>3. InLine'
      BY <2>1, <2>3, <3>1, <3>2 DEF InLine, Settled, _timestamp_ok
    <3> QED BY <1>0, <2>1, <3>3 DEF Lined
  <2>5. Remembered' /\ SpentByOne'
    <3>1. \A i \in DOMAIN order : order[i].boot # boot'
      BY <1>0, <2>2, <2>3, Entries DEF WebhooksType
    <3> QED BY <2>1, <3>1 DEF Remembered, SpentByOne, Forgotten
  <2>6. ReplayRejected'
    BY <2>1 DEF WebhooksInv, ReplayRejected, TwoTasks, Accepted, Same, Outrun, Restamped
  <2>7. ReplayMeansTask'
    <3>1. \A r \in Request : state[r] = "raised" => state'[r] = "raised"
      BY <2>1
    <3>2. \A j \in DOMAIN order : \A i \in 1 .. j - 1 : order[i].request \in Request
      BY <1>0, Entries
    <3> QED BY <2>1, <3>1, <3>2 DEF WebhooksInv, ReplayMeansTask, Same
  <2> QED BY <2>2, <2>4, <2>5, <2>6, <2>7 DEF WebhooksInv
<1>3. ASSUME NEW r \in Request, Arrive(r) \/ Reject(r) PROVE WebhooksInv'
  <2>1. /\ UNCHANGED <<now, boot, seen, order>>
        /\ state[r] \in {"unsent", "reading"}
        /\ \A q \in Request \ {r} : /\ sent'[q] = sent[q] /\ captured'[q] = captured[q]
                                    /\ verdict'[q] = verdict[q] /\ state'[q] = state[q]
    BY <1>0, <1>3 DEF Arrive, Reject, Answer, registry, WebhooksType
  <2>2. \A i \in DOMAIN order : order[i].request \in Request /\ order[i].request # r
    BY <1>0, <2>1, Entries DEF Lined, InLine, Settled
  <2>3. WebhooksType'
    <3>1. CASE Arrive(r)
      <4>1. PICK letter \in Letter :
              /\ sent' = [sent EXCEPT ![r] = letter]
              /\ captured' = [captured EXCEPT ![r] = now]
              /\ \/ Answer(r, "unknown-source") \/ Answer(r, "rate-limited")
                 \/ state' = [state EXCEPT ![r] = "reading"] /\ UNCHANGED verdict
        BY <3>1 DEF Arrive
      <4>2. /\ sent' \in [Request -> {CHOOSE l \in Letter : TRUE} \cup Letter]
            /\ captured' \in [Request -> Nat]
        BY <1>0, <4>1 DEF WebhooksType
      <4>3. /\ state' \in [Request -> {"unsent", "reading", "answered", "raised"}]
            /\ verdict' \in [Request -> Reason \cup {"none"}]
        BY <1>0, <4>1 DEF WebhooksType, Answer, Reason
      <4> QED BY <1>0, <2>1, <4>2, <4>3 DEF WebhooksType
    <3>2. CASE Reject(r)
      BY <1>0, <3>2 DEF Reject, Answer, WebhooksType, Reason, Early, Late, Flaw, registry
    <3> QED BY <1>3, <3>1, <3>2
  <2>4. /\ state'[r] = "reading" => sent'[r] \in Letter /\ sent'[r].source \in Known
        /\ state'[r] \in {"unsent", "reading"} => verdict'[r] = "none"
    BY <1>0, <1>3 DEF Arrive, Reject, Answer, WebhooksType, Lined
  <2>5. /\ Remembered' /\ SpentByOne' /\ ReplayRejected' /\ ReplayMeansTask'
        /\ InLine'
    BY <2>1, <2>2, NobodyRegisters
  <2>6. Lined'
    <3> SUFFICES ASSUME NEW q \in Request
                 PROVE  /\ state'[q] = "reading" => sent'[q] \in Letter /\ sent'[q].source \in Known
                        /\ state'[q] \in {"unsent", "reading"} => verdict'[q] = "none"
      BY <2>5 DEF Lined
    <3>1. CASE q = r
      BY <2>4, <3>1
    <3>2. CASE q # r
      BY <1>0, <2>1, <3>2 DEF Lined
    <3> QED BY <3>1, <3>2
  <2> QED BY <2>3, <2>5, <2>6 DEF WebhooksInv
<1>4. ASSUME NEW r \in Request, Judge(r) \/ CreateRaises(r) PROVE WebhooksInv'
  <2>1. /\ UNCHANGED <<now, boot, hits, sent, captured>>
        /\ state[r] = "reading" /\ _timestamp_ok(r) /\ Spend(r) /\ Registered(r)
    BY <1>4 DEF Judge, CreateRaises
  <2>2. /\ state' \in [Request -> {"unsent", "reading", "answered", "raised"}]
        /\ verdict' \in [Request -> Reason \cup {"none"}]
        /\ \A q \in Request \ {r} : verdict'[q] = verdict[q] /\ state'[q] = state[q]
    BY <1>0, <1>4 DEF Judge, CreateRaises, Answer, WebhooksType, Reason, Flaw
  <2>3. /\ state'[r] \in {"answered", "raised"}
        /\ \/ fresh(r) /\ verdict'[r] \in {"task", "invalid-payload"}
           \/ fresh(r) /\ verdict'[r] = "none" /\ state'[r] = "raised"
           \/ ~fresh(r) /\ verdict'[r] = "replayed-nonce"
    BY <1>0, <1>4 DEF Judge, CreateRaises, Answer, WebhooksType, Lined
  <2>4. /\ Remembered' /\ SpentByOne' /\ ReplayRejected' /\ ReplayMeansTask'
        /\ InLine'
        /\ order' \in Seq([request : Request, boot : Nat])
    BY <2>1, <2>2, <2>3, OneRegisters
  <2>5. seen' \in [Known -> [Nonce -> Nat \cup {Never}]]
    BY <2>1, Spending
  <2>6. WebhooksType'
    BY <1>0, <2>1, <2>2, <2>4, <2>5 DEF WebhooksType
  <2>7. Lined'
    <3> SUFFICES ASSUME NEW q \in Request
                 PROVE  /\ state'[q] = "reading" => sent'[q] \in Letter /\ sent'[q].source \in Known
                        /\ state'[q] \in {"unsent", "reading"} => verdict'[q] = "none"
      BY <2>4 DEF Lined
    <3>1. CASE q = r
      BY <2>3, <3>1
    <3>2. CASE q # r
      BY <1>0, <2>1, <2>2, <3>2 DEF Lined
    <3> QED BY <3>1, <3>2
  <2> QED BY <2>4, <2>6, <2>7 DEF WebhooksInv
<1> QED BY <1>1, <1>2, <1>3, <1>4 DEF WebhooksNext

LEMMA WebhooksInvariant == WebhooksSpec => []WebhooksInv
BY WebhooksStart, WebhooksStep, PTL DEF WebhooksSpec

\* A nonce makes a second task (webhooks.py:55-77) only under a later timestamp and when the
\* registry's memory of the first has run out, or when a request that came after the copy was
\* judged before it: for any number of sources, nonces and requests, whatever timestamps the
\* copies carry.  That the registry outlives the window is what it rests on.
THEOREM NoncesMakeOneTask == WebhooksSpec => []ReplayRejected
<1>1. WebhooksInv => ReplayRejected
  BY DEF WebhooksInv
<1> QED BY <1>1, WebhooksInvariant, PTL

\* A request is called a replay only of one that spent the nonce in this run of the
\* server and in the time the registry goes back (webhooks.py:66).
THEOREM ReplaysHaveOriginals == WebhooksSpec => []ReplayMeansTask
<1>1. WebhooksInv => ReplayMeansTask
  BY DEF WebhooksInv
<1> QED BY <1>1, WebhooksInvariant, PTL

-----------------------------------------------------------------------------
(* Notifications.                                                                *)

NotifyType ==
  /\ moment \in Nat /\ ends \in Nat /\ attached \in BOOLEAN
  /\ routed \in Seq([priority : Priority, at : Nat]) /\ Len(routed) <= MaxEvents
  /\ fate \in [Event -> [Place -> Fate]]
  /\ {unwritten, recent} \subseteq [Place -> SUBSET Event]
  /\ {digest, feed, buffer} \subseteq [Place -> Seq(Nat)]
  /\ {summed, toasted} \subseteq [Place -> SUBSET Nat]
  /\ {sending, chatted} \subseteq [Place -> SUBSET (Nat \X Nat)]

\* What counts against a limit was delivered or held, or raised; an event that has not been
\* routed has no fate.
Counts ==
  /\ \A p \in Place : \A e \in recent[p] :
       e \in DOMAIN routed /\ fate[e][p] \in {"delivered", "held", "raised"}
  /\ \A e \in Event, p \in Place : e > Len(routed) => fate[e][p] = "none"
  /\ \A p \in Place : unwritten[p] \subseteq DOMAIN routed

NotifyInv == NotifyType /\ Counts /\ CriticalThrough /\ JournalHolds

\* What JournalHolds says of one event and subscriber.
JournalOf(e, p) ==
  /\ Journaled(e, p) = "held" => e \in ToSet(digest[p]) \cup summed[p]
  /\ e \in ToSet(digest[p]) \cup summed[p] => Journaled(e, p) = "held" \/ e \in unwritten[p]
  /\ e \in summed[p] => HandedOver(Summary, p)
  /\ Journaled(e, p) = "delivered" => HandedOver(e, p)

LEMMA Appended ==
  ASSUME NEW s \in Seq(Nat), NEW x \in Nat
  PROVE  /\ Append(s, x) \in Seq(Nat) /\ Len(Append(s, x)) = Len(s) + 1
         /\ ToSet(Append(s, x)) = ToSet(s) \cup {x}
<1>1. /\ Append(s, x) \in Seq(Nat) /\ Len(s) \in Nat /\ Len(Append(s, x)) = Len(s) + 1
      /\ DOMAIN Append(s, x) = 1 .. Len(s) + 1 /\ DOMAIN s = 1 .. Len(s)
      /\ Append(s, x)[Len(s) + 1] = x
      /\ \A i \in DOMAIN s : Append(s, x)[i] = s[i]
  OBVIOUS
<1>2. ToSet(Append(s, x)) \subseteq ToSet(s) \cup {x}
  BY <1>1 DEF ToSet
<1>3. ToSet(s) \subseteq ToSet(Append(s, x)) /\ x \in ToSet(Append(s, x))
  BY <1>1 DEF ToSet
<1> QED BY <1>1, <1>2, <1>3

\* A bounded queue takes what comes, never gets shorter, and drops nothing until it is full.
LEMMA Pushed ==
  ASSUME NEW q \in Seq(Nat), NEW x \in Nat
  PROVE  /\ Push(q, x) \in Seq(Nat) /\ Len(Push(q, x)) >= Len(q)
         /\ x \in ToSet(Push(q, x)) \/ Len(Push(q, x)) >= Capacity
         /\ ToSet(q) \subseteq ToSet(Push(q, x)) \/ Len(Push(q, x)) >= Capacity
<1> DEFINE a == Append(q, x)
<1>1. a \in Seq(Nat) /\ Len(a) = Len(q) + 1 /\ ToSet(a) = ToSet(q) \cup {x} /\ Len(q) \in Nat
  BY Appended
<1>2. Capacity \in Nat
  BY NotificationsAssumption
<1> HIDE DEF a
<1>3. CASE Len(a) > Capacity
  <2>1. Tail(a) \in Seq(Nat) /\ Len(Tail(a)) = Len(q)
    BY <1>1, <1>3
  <2> QED BY <1>1, <1>2, <1>3, <2>1 DEF Push, a
<1>4. CASE ~(Len(a) > Capacity)
  BY <1>1, <1>4 DEF Push, a
<1> QED BY <1>3, <1>4

LEMMA Subscribed ==
  ASSUME NEW p \in Place
  PROVE  /\ Place = 1 .. Len(Subscribers) /\ Len(Subscribers) \in Nat
         /\ Subscribers[p].sink \in Sinks /\ Subscribers[p].digest \in BOOLEAN
         /\ Subscribers[p].quiet \in BOOLEAN /\ Subscribers[p].limit \in Nat
         /\ Chats(p) \subseteq Nat
<1> DEFINE S == [sink : Sinks, digest : BOOLEAN, quiet : BOOLEAN, limit : Nat, chats : Nat]
<1>1. Subscribers \in Seq(S)
  BY NotificationsAssumption
<1>2. \A s \in S : /\ s.sink \in Sinks /\ s.digest \in BOOLEAN /\ s.quiet \in BOOLEAN
                   /\ s.limit \in Nat
  OBVIOUS
<1>3. Chats(p) \subseteq Nat
  BY DEF Chats
<1> HIDE DEF S
<1> QED BY <1>1, <1>2, <1>3 DEF Place

\* A delivery to a sink: it is handed over at the places it goes to, and what was still is.
LEMMA Delivered ==
  ASSUME NotifyType, NEW ps \in SUBSET Place, NEW x \in Nat, Deliver(ps, x)
  PROVE  /\ {feed', buffer'} \subseteq [Place -> Seq(Nat)]
         /\ toasted' \in [Place -> SUBSET Nat]
         /\ {sending', chatted'} \subseteq [Place -> SUBSET (Nat \X Nat)]
         /\ \A p \in ps : HandedOver(x, p)'
         /\ \A p \in Place, e \in Nat : HandedOver(e, p) => HandedOver(e, p)'
<1>1. /\ {feed, buffer} \subseteq [Place -> Seq(Nat)]
      /\ toasted \in [Place -> SUBSET Nat]
      /\ {sending, chatted} \subseteq [Place -> SUBSET (Nat \X Nat)]
      /\ Capacity \in Nat
  BY NotificationsAssumption DEF NotifyType
<1>2. \A p \in Place : /\ Push(feed[p], x) \in Seq(Nat) /\ Push(buffer[p], x) \in Seq(Nat)
                       /\ Len(feed[p]) \in Nat /\ Len(buffer[p]) \in Nat
  <2>1. \A p \in Place : feed[p] \in Seq(Nat) /\ buffer[p] \in Seq(Nat)
    BY <1>1
  <2> QED BY <2>1, Pushed
<1>3. {feed', buffer'} \subseteq [Place -> Seq(Nat)]
  BY <1>1, <1>2 DEF Deliver, ToFeed, ToTerminal
<1>4. /\ toasted' \in [Place -> SUBSET Nat]
      /\ {sending', chatted'} \subseteq [Place -> SUBSET (Nat \X Nat)]
  <2>1. \A p \in Place : {x} \X Chats(p) \subseteq Nat \X Nat
    BY Subscribed
  <2> QED BY <1>1, <2>1 DEF Deliver, ToTerminal, ToChats
<1>5. ASSUME NEW p \in Place
      PROVE  /\ p \in ps => HandedOver(x, p)'
             /\ \A e \in Nat : HandedOver(e, p) => HandedOver(e, p)'
  <2>1. /\ feed'[p] = IF p \in ps /\ Subscribers[p].sink = "feed" THEN Push(feed[p], x) ELSE feed[p]
        /\ buffer'[p] = IF p \in ps /\ Subscribers[p].sink = "toasts" /\ ~attached
                          THEN Push(buffer[p], x) ELSE buffer[p]
        /\ toasted'[p] = IF p \in ps /\ Subscribers[p].sink = "toasts" /\ attached
                           THEN toasted[p] \cup {x} ELSE toasted[p]
        /\ sending'[p] = IF p \in ps /\ Subscribers[p].sink = "chat"
                           THEN sending[p] \cup ({x} \X Chats(p)) ELSE sending[p]
        /\ chatted'[p] = chatted[p]
    BY DEF Deliver, ToFeed, ToTerminal, ToChats
  <2>2. /\ Len(feed'[p]) \in Nat /\ Len(feed'[p]) >= Len(feed[p])
        /\ ToSet(feed[p]) \subseteq ToSet(feed'[p]) \/ Len(feed'[p]) >= Capacity
    <3>1. feed[p] \in Seq(Nat) /\ Len(feed[p]) \in Nat
      BY <1>1
    <3>2. Len(Push(feed[p], x)) \in Nat
      BY <1>2
    <3> QED BY <2>1, <3>1, <3>2, Pushed
  <2>3. /\ Len(buffer'[p]) \in Nat /\ Len(buffer'[p]) >= Len(buffer[p])
        /\ ToSet(buffer[p]) \subseteq ToSet(buffer'[p]) \/ Len(buffer'[p]) >= Capacity
    <3>1. buffer[p] \in Seq(Nat) /\ Len(buffer[p]) \in Nat
      BY <1>1
    <3>2. Len(Push(buffer[p], x)) \in Nat
      BY <1>2
    <3> QED BY <2>1, <3>1, <3>2, Pushed
  <2>4. \A e \in Nat : HandedOver(e, p) => HandedOver(e, p)'
    <3> SUFFICES ASSUME NEW e \in Nat, HandedOver(e, p) PROVE HandedOver(e, p)'
      OBVIOUS
    <3>1. sending[p] \cup chatted[p] \subseteq sending'[p] \cup chatted'[p]
          /\ toasted[p] \subseteq toasted'[p]
      BY <2>1
    <3>2. Subscribers[p].sink = "feed" => e \in ToSet(feed'[p]) \/ Len(feed'[p]) >= Capacity
      BY <1>1, <1>2, <2>2 DEF HandedOver
    <3>3. Subscribers[p].sink = "toasts" =>
            e \in toasted'[p] \cup ToSet(buffer'[p]) \/ Len(buffer'[p]) >= Capacity
      BY <1>1, <1>2, <2>3, <3>1 DEF HandedOver
    <3> QED BY <3>1, <3>2, <3>3 DEF HandedOver
  <2>5. ASSUME p \in ps PROVE HandedOver(x, p)'
    <3>1. CASE Subscribers[p].sink = "feed"
      BY <1>1, <1>2, <2>1, <2>5, <3>1, Pushed DEF HandedOver
    <3>2. CASE Subscribers[p].sink = "toasts"
      BY <1>1, <1>2, <2>1, <2>5, <3>2, Pushed DEF HandedOver
    <3>3. CASE Subscribers[p].sink = "chat"
      BY <2>1, <2>5, <3>3 DEF HandedOver
    <3> QED BY <3>1, <3>2, <3>3, Subscribed DEF Sinks
  <2> QED BY <2>4, <2>5
<1> QED BY <1>3, <1>4, <1>5

LEMMA NotifyStart == NotificationsInit => NotifyInv
<1> SUFFICES ASSUME NotificationsInit PROVE NotifyInv
  OBVIOUS
<1>1. NotifyType
  <2>1. <<>> \in Seq(Nat) /\ <<>> \in Seq([priority : Priority, at : Nat]) /\ Len(<<>>) = 0
    OBVIOUS
  <2>2. 0 <= MaxEvents
    BY NotificationsAssumption
  <2> QED BY <2>1, <2>2 DEF NotificationsInit, NotifyType, Each, Fate
<1>2. Counts
  BY DEF NotificationsInit, Counts, Each
<1>3. CriticalThrough
  BY DEF NotificationsInit, CriticalThrough
<1>4. JournalHolds
  BY DEF NotificationsInit, JournalHolds, Journaled, Each, ToSet
<1> QED BY <1>1, <1>2, <1>3, <1>4 DEF NotifyInv

\* As long as nothing is routed, no fate changes.
LEMMA NothingRouted ==
  ASSUME NotifyInv, UNCHANGED <<routed, fate, unwritten>>, recent' \in [Place -> SUBSET Event],
         \A p \in Place : recent'[p] \subseteq recent[p]
  PROVE  Counts' /\ CriticalThrough'
<1>1. Counts'
  BY DEF NotifyInv, Counts
<1>2. CriticalThrough'
  BY DEF NotifyInv, CriticalThrough
<1> QED BY <1>1, <1>2

LEMMA RouteKeeps ==
  ASSUME NotifyInv, NEW priority \in Priority, NEW last \in Nat,
         NEW sinkRaised \in BOOLEAN, NEW journalRaised \in BOOLEAN,
         RouteTo(priority, last, sinkRaised, journalRaised),
         \/ sinkRaised /\ ~journalRaised /\ last \in Place /\ Decide(last, priority) = "delivered"
         \/ ~sinkRaised /\ journalRaised /\ last \in Place
         \/ ~sinkRaised /\ ~journalRaised /\ last = Len(Subscribers)
  PROVE  NotifyInv'
<1> DEFINE n == Len(routed) + 1
           f == Fates(priority, last, sinkRaised)
<1>0. NotifyType /\ Counts
  BY DEF NotifyInv
<1>1. /\ n \in Event /\ n \in Nat /\ n \notin DOMAIN routed
      /\ routed' \in Seq([priority : Priority, at : Nat]) /\ Len(routed') = n
      /\ DOMAIN routed' = 1 .. n /\ DOMAIN routed = 1 .. n - 1
      /\ routed'[n].priority = priority /\ routed'[n].at = moment
      /\ \A i \in DOMAIN routed : routed'[i] = routed[i]
  <2> DEFINE r == [priority |-> priority, at |-> moment]
             R == [priority : Priority, at : Nat]
  <2>1. /\ routed' = Append(routed, r) /\ routed \in Seq(R) /\ r \in R
        /\ Len(routed) < MaxEvents /\ MaxEvents \in Nat /\ r.priority = priority /\ r.at = moment
    BY <1>0, NotificationsAssumption DEF NotifyType, RouteTo
  <2> HIDE DEF r, R
  <2>2. /\ routed' \in Seq(R) /\ n \in Nat /\ Len(routed') = n
        /\ DOMAIN routed' = 1 .. n /\ DOMAIN routed = 1 .. n - 1 /\ routed'[n] = r
        /\ \A i \in DOMAIN routed : routed'[i] = routed[i]
    BY <2>1
  <2>3. n \in Event
    BY <2>1, <2>2 DEF Event
  <2> QED BY <2>1, <2>2, <2>3 DEF R
<1>2. ASSUME NEW p \in Place
      PROVE  /\ Decide(p, priority) \in {"silent", "quiet-hours", "held", "rate-limited", "delivered"}
             /\ Counted(p, priority) => Decide(p, priority) \in {"held", "delivered"}
             /\ Decide(p, priority) = "rate-limited" => ~Under(p)
             /\ priority = "CRITICAL" => Decide(p, priority) \in {"rate-limited", "delivered"}
  BY DEF Decide, Counted, Priority
<1>3. ASSUME NEW p \in Place
      PROVE  /\ f[p] \in Fate /\ p \in Nat
             /\ p > last => f[p] = "none"
             /\ p = last /\ sinkRaised => f[p] = "raised" /\ Decide(p, priority) = "delivered"
             /\ p <= last /\ ~(p = last /\ sinkRaised) => f[p] = Decide(p, priority)
  <2>1. p \in Nat
    BY Subscribed
  <2> QED BY <1>2, <2>1 DEF Fates, Fate
<1>4. /\ fate' \in [Event -> [Place -> Fate]] /\ fate'[n] = f
      /\ \A e \in Event : e # n => fate'[e] = fate[e]
  <2>1. f \in [Place -> Fate]
    BY <1>3 DEF Fates
  <2>2. fate' = [fate EXCEPT ![n] = f]
    BY DEF RouteTo
  <2> HIDE DEF f, n
  <2> QED BY <1>0, <1>1, <2>1, <2>2 DEF NotifyType
<1>5. /\ recent' \in [Place -> SUBSET Event]
      /\ \A p \in Place : recent'[p] \subseteq recent[p] \cup {n}
      /\ \A p \in Place : n \in recent'[p] => f[p] \in {"delivered", "held", "raised"}
  <2>1. recent' = [p \in Place |->
           IF p <= last /\ Counted(p, priority)
             THEN Fresh(p) \cup {n} ELSE recent[p]]
    BY DEF RouteTo
  <2>2. \A p \in Place : Fresh(p) \subseteq recent[p] /\ recent[p] \subseteq Event /\ n \notin recent[p]
    BY <1>0, <1>1 DEF Fresh, NotifyType, Counts
  <2> HIDE DEF n, f
  <2>4. \A p \in Place : n \in recent'[p] => f[p] \in {"delivered", "held", "raised"}
    BY <1>2, <1>3, <2>1, <2>2
  <2> QED BY <1>1, <2>1, <2>2, <2>4
<1>6. /\ unwritten' \in [Place -> SUBSET Event]
      /\ \A p \in Place : unwritten'[p] = IF p = last /\ journalRaised THEN unwritten[p] \cup {n}
                                          ELSE unwritten[p]
      /\ \A p \in Place : n \notin unwritten[p]
  <2>1. unwritten' = [p \in Place |-> IF p = last /\ journalRaised THEN unwritten[p] \cup {n}
                                      ELSE unwritten[p]]
    BY DEF RouteTo
  <2>2. unwritten \in [Place -> SUBSET Event] /\ \A p \in Place : unwritten[p] \subseteq DOMAIN routed
    BY <1>0 DEF NotifyType, Counts
  <2> HIDE DEF n
  <2> QED BY <1>1, <2>1, <2>2
<1>7. Counts'
  <2>1. ASSUME NEW p \in Place, NEW e \in recent'[p]
        PROVE  e \in DOMAIN routed' /\ fate'[e][p] \in {"delivered", "held", "raised"}
    <3>1. CASE e = n
      BY <1>1, <1>4, <1>5, <2>1, <3>1
    <3>2. CASE e # n
      <4>1. e \in recent[p] /\ e \in Event
        BY <1>5, <3>2
      <4> HIDE DEF n
      <4> QED BY <1>0, <1>1, <1>4, <3>2, <4>1 DEF Counts
    <3> QED BY <3>1, <3>2
  <2>2. ASSUME NEW e \in Event, NEW p \in Place, e > Len(routed') PROVE fate'[e][p] = "none"
    <3>1. e > Len(routed) /\ e # n
      BY <1>1, <2>2 DEF Event
    <3> QED BY <1>0, <1>4, <3>1 DEF Counts
  <2>3. \A p \in Place : unwritten'[p] \subseteq DOMAIN routed'
    <3>1. \A p \in Place : unwritten[p] \subseteq DOMAIN routed
      BY <1>0 DEF Counts
    <3> QED BY <1>1, <1>6, <3>1
  <2> QED BY <2>1, <2>2, <2>3 DEF Counts
<1>8. /\ digest' \in [Place -> Seq(Nat)]
      /\ \A p \in Place : ToSet(digest'[p]) = IF f[p] = "held" THEN ToSet(digest[p]) \cup {n}
                                              ELSE ToSet(digest[p])
  <2>1. digest' = [p \in Place |-> IF f[p] = "held" THEN Append(digest[p], n) ELSE digest[p]]
    BY DEF RouteTo
  <2>2. \A p \in Place : digest[p] \in Seq(Nat)
    BY <1>0 DEF NotifyType
  <2> HIDE DEF f, n
  <2> QED BY <1>1, <2>1, <2>2, Appended
<1>9. /\ {feed', buffer'} \subseteq [Place -> Seq(Nat)]
      /\ toasted' \in [Place -> SUBSET Nat]
      /\ {sending', chatted'} \subseteq [Place -> SUBSET (Nat \X Nat)]
      /\ \A p \in Place, e \in Nat : e = n /\ f[p] = "delivered" => HandedOver(e, p)'
      /\ \A p \in Place, e \in Nat : HandedOver(e, p) => HandedOver(e, p)'
  <2> DEFINE ps == {p \in Place : f[p] = "delivered"}
  <2>1. PICK x \in Nat : x = n
    BY <1>1
  <2>2. Deliver(ps, x) /\ ps \in SUBSET Place /\ \A p \in Place : f[p] = "delivered" => p \in ps
    BY <2>1 DEF RouteTo
  <2> HIDE DEF f, n, ps
  <2>3. /\ {feed', buffer'} \subseteq [Place -> Seq(Nat)]
        /\ toasted' \in [Place -> SUBSET Nat]
        /\ {sending', chatted'} \subseteq [Place -> SUBSET (Nat \X Nat)]
        /\ \A p \in ps : HandedOver(x, p)'
        /\ \A p \in Place, e \in Nat : HandedOver(e, p) => HandedOver(e, p)'
    BY <1>0, <2>2, Delivered
  <2>4. ASSUME NEW p \in Place, NEW e \in Nat, e = n, f[p] = "delivered" PROVE HandedOver(e, p)'
    <3>1. e = x /\ p \in ps
      BY <2>1, <2>2, <2>4
    <3> QED BY <2>3, <3>1
  <2> QED BY <2>3, <2>4
<1>10. NotifyType'
  <2>1. UNCHANGED <<moment, ends, attached, summed>>
    BY DEF RouteTo, Deliver
  <2>2. Len(routed') <= MaxEvents
    BY <1>1, NotificationsAssumption DEF Event
  <2> QED BY <1>0, <1>1, <1>4, <1>5, <1>6, <1>8, <1>9, <2>1, <2>2 DEF NotifyType
<1>11. CriticalThrough'
  <2> DEFINE others(e, p) == {i \in 1 .. e - 1 : /\ routed[e].at - routed[i].at < LimitWindow
                                                 /\ fate[i][p] \in {"delivered", "held", "raised"}}
             now_(e, p) == {i \in 1 .. e - 1 : /\ routed'[e].at - routed'[i].at < LimitWindow
                                               /\ fate'[i][p] \in {"delivered", "held", "raised"}}
  <2> SUFFICES ASSUME NEW e \in DOMAIN routed', NEW p \in Place, routed'[e].priority = "CRITICAL"
               PROVE  /\ fate'[e][p] \in {"delivered", "raised", "rate-limited", "none"}
                      /\ fate'[e][p] = "rate-limited" =>
                           Cardinality(now_(e, p)) >= Subscribers[p].limit
                      /\ fate'[e][p] = "none" =>
                           \E q \in 1 .. p - 1 : fate'[e][q] = "raised" \/ e \in unwritten'[q]
    BY DEF CriticalThrough
  <2>1. CASE e # n
    <3>1. e \in DOMAIN routed /\ 1 .. e - 1 \subseteq DOMAIN routed /\ DOMAIN routed \subseteq Event
      <4>1. MaxEvents \in Nat /\ n <= MaxEvents
        BY <1>1, NotificationsAssumption DEF Event
      <4> QED BY <1>1, <2>1, <4>1 DEF Event
    <3>2. /\ routed'[e] = routed[e] /\ fate'[e] = fate[e]
          /\ \A i \in 1 .. e - 1 : routed'[i] = routed[i] /\ fate'[i] = fate[i]
      BY <1>1, <1>4, <3>1
    <3>3. now_(e, p) = others(e, p)
      BY <3>2
    <3>4. /\ fate[e][p] \in {"delivered", "raised", "rate-limited", "none"}
          /\ fate[e][p] = "rate-limited" => Cardinality(others(e, p)) >= Subscribers[p].limit
          /\ fate[e][p] = "none" =>
               \E q \in 1 .. p - 1 : fate[e][q] = "raised" \/ e \in unwritten[q]
      <4>1. CriticalThrough /\ routed[e].priority = "CRITICAL"
        BY <3>2 DEF NotifyInv
      <4> QED BY <3>1, <4>1, Zenon DEF CriticalThrough
    <3>5. \A q \in 1 .. p - 1 : e \in unwritten[q] => e \in unwritten'[q]
      <4>1. \A q \in 1 .. p - 1 : q \in Place
        BY Subscribed
      <4> HIDE DEF n
      <4> QED BY <1>6, <4>1
    <3> HIDE DEF others, now_
    <3> QED BY <3>2, <3>3, <3>4, <3>5
  <2>2. CASE e = n
    <3>1. priority = "CRITICAL" /\ fate'[e] = f
      BY <1>1, <1>4, <2>2
    <3>2. ASSUME fate'[e][p] = "rate-limited"
          PROVE  Cardinality(now_(e, p)) >= Subscribers[p].limit
      <4>1. ~Under(p)
        BY <1>2, <1>3, <3>1, <3>2
      <4>2. Cardinality(Fresh(p)) \in Nat /\ IsFiniteSet(now_(e, p))
            /\ Cardinality(now_(e, p)) \in Nat /\ Fresh(p) \subseteq now_(e, p)
        <5>1. Fresh(p) \subseteq now_(e, p)
          <6> SUFFICES ASSUME NEW i \in Fresh(p) PROVE i \in now_(e, p)
            OBVIOUS
          <6>1. i \in DOMAIN routed /\ fate[i][p] \in {"delivered", "held", "raised"}
                /\ moment - routed[i].at < LimitWindow /\ i \in Event
            BY <1>0 DEF Fresh, Counts, NotifyType
          <6> QED BY <1>1, <1>4, <2>2, <6>1
        <5>2. IsFiniteSet(1 .. e - 1)
          BY <1>1, <2>2, FS_Interval
        <5> QED BY <5>1, <5>2, FS_Subset, FS_CardinalityType
      <4>3. Cardinality(Fresh(p)) <= Cardinality(now_(e, p))
        BY <4>2, FS_Subset
      <4> HIDE DEF now_
      <4> QED BY <4>1, <4>2, <4>3, Subscribed DEF Under
    <3>3. ASSUME fate'[e][p] = "none"
          PROVE  \E q \in 1 .. p - 1 : fate'[e][q] = "raised" \/ e \in unwritten'[q]
      <4>1. p > last /\ p \in Nat
        BY <1>2, <1>3, <3>1, <3>3
      <4>2. last \in Place /\ last \in 1 .. p - 1 /\ (sinkRaised \/ journalRaised)
        BY <4>1, Subscribed
      <4>3. sinkRaised => f[last] = "raised"
        BY <1>3, <4>2
      <4>4. journalRaised => e \in unwritten'[last]
        BY <1>6, <2>2, <4>2
      <4> HIDE DEF f, n
      <4> QED BY <3>1, <4>2, <4>3, <4>4
    <3>4. fate'[e][p] \in {"delivered", "raised", "rate-limited", "none"}
      BY <1>2, <1>3, <3>1
    <3> QED BY <3>2, <3>3, <3>4
  <2> QED BY <2>1, <2>2
<1>12. JournalHolds'
  <2> SUFFICES ASSUME ends' = 0, NEW e \in Event, NEW p \in Place
               PROVE  JournalOf(e, p)'
    BY DEF JournalHolds, JournalOf
  <2>1. ends = 0 /\ summed' = summed /\ e \in Nat /\ Summary \in Nat
    BY DEF RouteTo, Event, Summary
  <2>2. JournalOf(e, p)
    BY <2>1 DEF NotifyInv, JournalHolds, JournalOf
  <2>3. CASE e # n
    <3>1. Journaled(e, p)' = Journaled(e, p) /\ (e \in unwritten'[p] <=> e \in unwritten[p])
      BY <1>4, <1>6, <2>3 DEF Journaled
    <3>2. e \in ToSet(digest'[p]) <=> e \in ToSet(digest[p])
      BY <1>8, <2>3
    <3> HIDE DEF n, f
    <3> QED BY <1>9, <2>1, <2>2, <3>1, <3>2 DEF JournalOf
  <2>4. CASE e = n
    <3>1. fate[e][p] = "none" /\ e \notin unwritten[p]
      BY <1>0, <1>1, <1>6, <2>4 DEF Counts, NotifyType
    <3>2. e \notin ToSet(digest[p]) \cup summed[p]
      BY <2>2, <3>1 DEF JournalOf, Journaled
    <3>3. \/ Journaled(e, p)' = f[p]
          \/ Journaled(e, p)' = "none" /\ e \in unwritten'[p]
      <4>1. fate'[e] = f
        BY <1>4, <2>4
      <4> HIDE DEF n, f
      <4> QED BY <4>1 DEF Journaled
    <3> HIDE DEF n, f
    <3>4. Journaled(e, p)' = "delivered" => HandedOver(e, p)'
      BY <1>9, <2>1, <2>4, <3>3
    <3> QED BY <1>8, <2>1, <2>4, <3>2, <3>3, <3>4 DEF JournalOf
  <2> QED BY <2>3, <2>4
<1> QED BY <1>7, <1>10, <1>11, <1>12 DEF NotifyInv

LEMMA NotifyStep ==
  ASSUME NotifyInv, [NotificationsNext]_notifyVars
  PROVE  NotifyInv'
<1>0. NotifyType
  BY DEF NotifyInv
<1>1. CASE UNCHANGED notifyVars \/ NotifyClock
  <2>1. /\ UNCHANGED <<routed, fate, unwritten, recent, digest, summed, sinkVars, ends>>
        /\ moment' \in Nat
    BY <1>0, <1>1 DEF notifyVars, NotifyClock, NotifyType
  <2>2. NotifyType'
    BY <1>0, <2>1 DEF NotifyType, sinkVars
  <2>3. JournalHolds'
    BY <2>1 DEF NotifyInv, JournalHolds, Journaled, HandedOver, sinkVars
  <2>4. recent' \in [Place -> SUBSET Event]
    BY <1>0, <2>1 DEF NotifyType
  <2> QED BY <2>1, <2>2, <2>3, <2>4, NothingRouted DEF NotifyInv
<1>2. ASSUME NEW priority \in Priority, route(priority) PROVE NotifyInv'
  <2>1. Len(Subscribers) \in Nat
    BY NotificationsAssumption
  <2> QED BY <1>2, <2>1, RouteKeeps DEF route
<1>3. ASSUME NEW priority \in Priority, NEW p \in Place,
             DeliverRaises(priority, p) \/ RecordRaises(priority, p)
      PROVE  NotifyInv'
  <2>1. p \in Nat
    BY Subscribed
  <2> QED BY <1>3, <2>1, RouteKeeps DEF DeliverRaises, RecordRaises
<1>4. ASSUME NEW p \in Place, flush_digest(p) PROVE NotifyInv'
  <2>1. /\ UNCHANGED <<moment, routed, fate, unwritten, recent, ends, attached>>
        /\ Deliver({p}, Summary) /\ Summary \in Nat
        /\ summed' = [summed EXCEPT ![p] = @ \cup ToSet(digest[p])]
        /\ digest' = [digest EXCEPT ![p] = <<>>]
    BY <1>4 DEF flush_digest, Deliver, Summary
  <2>2. /\ {feed', buffer'} \subseteq [Place -> Seq(Nat)]
        /\ toasted' \in [Place -> SUBSET Nat]
      /\ {sending', chatted'} \subseteq [Place -> SUBSET (Nat \X Nat)]
        /\ HandedOver(Summary, p)'
        /\ \A q \in Place, e \in Nat : HandedOver(e, q) => HandedOver(e, q)'
    BY <1>0, <2>1, Delivered
  <2>3. /\ digest' \in [Place -> Seq(Nat)] /\ summed' \in [Place -> SUBSET Nat]
        /\ \A q \in Place : ToSet(digest'[q]) \cup summed'[q] = ToSet(digest[q]) \cup summed[q]
    <3>1. digest \in [Place -> Seq(Nat)] /\ summed \in [Place -> SUBSET Nat]
      BY <1>0 DEF NotifyType
    <3>2. <<>> \in Seq(Nat) /\ ToSet(<<>>) = {}
      BY DEF ToSet
    <3>3. ToSet(digest[p]) \subseteq Nat
      BY <3>1 DEF ToSet
    <3> QED BY <2>1, <3>1, <3>2, <3>3
  <2>4. NotifyType'
    BY <1>0, <2>1, <2>2, <2>3 DEF NotifyType
  <2>5. JournalHolds'
    <3> SUFFICES ASSUME ends = 0, NEW e \in Event, NEW q \in Place
                 PROVE  JournalOf(e, q)'
      BY <2>1 DEF JournalHolds, JournalOf
    <3>1. JournalOf(e, q) /\ e \in Nat
      BY DEF NotifyInv, JournalHolds, JournalOf, Event
    <3>2. Journaled(e, q)' = Journaled(e, q) /\ unwritten'[q] = unwritten[q]
      BY <2>1 DEF Journaled
    <3>3. e \in summed'[q] => e \in summed[q] \/ q = p
      BY <1>0, <2>1 DEF NotifyType
    <3> QED BY <2>1, <2>2, <2>3, <3>1, <3>2, <3>3 DEF JournalOf
  <2>6. recent' \in [Place -> SUBSET Event]
    BY <1>0, <2>1 DEF NotifyType
  <2> QED BY <2>1, <2>4, <2>5, <2>6, NothingRouted DEF NotifyInv
<1>5. ASSUME NEW p \in Place, NEW x \in {Summary} \cup Event, NEW c \in Chats(p), SendEnds(p, x, c)
      PROVE  NotifyInv'
  <2>1. /\ UNCHANGED <<moment, routed, fate, unwritten, recent, digest, summed, feed, toasted, buffer,
                       attached, ends>>
        /\ sending' = [sending EXCEPT ![p] = @ \ {<<x, c>>}]
        /\ chatted' = [chatted EXCEPT ![p] = @ \cup {<<x, c>>}]
        /\ <<x, c>> \in Nat \X Nat
    BY <1>5, Subscribed DEF SendEnds, Event, Summary
  <2>2. /\ {sending, chatted} \subseteq [Place -> SUBSET (Nat \X Nat)]
        /\ {sending', chatted'} \subseteq [Place -> SUBSET (Nat \X Nat)]
    BY <1>0, <2>1 DEF NotifyType
  <2>3. NotifyType'
    BY <1>0, <2>1, <2>2 DEF NotifyType
  <2>4. \A q \in Place : sending[q] \cup chatted[q] \subseteq sending'[q] \cup chatted'[q]
    BY <2>1, <2>2
  <2>5. JournalHolds'
    BY <2>1, <2>4 DEF NotifyInv, JournalHolds, Journaled, HandedOver
  <2>6. recent' \in [Place -> SUBSET Event]
    BY <1>0, <2>1 DEF NotifyType
  <2> QED BY <2>1, <2>3, <2>5, <2>6, NothingRouted DEF NotifyInv
<1>6. CASE attach
  <2>1. /\ UNCHANGED <<moment, routed, fate, unwritten, recent, digest, summed, feed, buffer, sending,
                       chatted, ends>>
        /\ attached' = TRUE
        /\ toasted' = [p \in Place |-> toasted[p] \cup ToSet(buffer[p])]
    BY <1>6 DEF attach
  <2>2. toasted' \in [Place -> SUBSET Nat]
    <3>1. buffer \in [Place -> Seq(Nat)] /\ toasted \in [Place -> SUBSET Nat]
      BY <1>0 DEF NotifyType
    <3>2. \A p \in Place : ToSet(buffer[p]) \subseteq Nat
      BY <3>1 DEF ToSet
    <3> QED BY <2>1, <3>1, <3>2
  <2>3. NotifyType'
    BY <1>0, <2>1, <2>2 DEF NotifyType
  <2>4. JournalHolds'
    BY <2>1 DEF NotifyInv, JournalHolds, Journaled, HandedOver
  <2>5. recent' \in [Place -> SUBSET Event]
    BY <1>0, <2>1 DEF NotifyType
  <2> QED BY <2>1, <2>3, <2>4, <2>5, NothingRouted DEF NotifyInv
<1>7. CASE detach
  <2>1. /\ UNCHANGED <<moment, routed, fate, unwritten, recent, digest, summed, feed, toasted, buffer,
                       sending, chatted, ends>>
        /\ attached' = FALSE
    BY <1>7 DEF detach
  <2>2. NotifyType'
    BY <1>0, <2>1 DEF NotifyType
  <2>3. JournalHolds'
    BY <2>1 DEF NotifyInv, JournalHolds, Journaled, HandedOver
  <2>4. recent' \in [Place -> SUBSET Event]
    BY <1>0, <2>1 DEF NotifyType
  <2> QED BY <2>1, <2>2, <2>3, <2>4, NothingRouted DEF NotifyInv
<1>8. CASE ProcessEnds
  <2>1. /\ UNCHANGED <<moment, routed, fate, unwritten, summed, toasted, chatted>>
        /\ ends' = ends + 1 /\ attached' = FALSE
        /\ recent' = Each({}) /\ sending' = Each({})
        /\ digest' = Each(<<>>) /\ feed' = Each(<<>>) /\ buffer' = Each(<<>>)
    BY <1>8 DEF ProcessEnds
  <2>2. <<>> \in Seq(Nat)
    OBVIOUS
  <2>3. NotifyType'
    <3>1. /\ {digest', feed', buffer'} \subseteq [Place -> Seq(Nat)]
          /\ recent' \in [Place -> SUBSET Event] /\ sending' \in [Place -> SUBSET (Nat \X Nat)]
      BY <2>1, <2>2 DEF Each
    <3>2. /\ {summed', toasted'} \subseteq [Place -> SUBSET Nat]
          /\ {sending', chatted'} \subseteq [Place -> SUBSET (Nat \X Nat)]
          /\ {unwritten', recent'} \subseteq [Place -> SUBSET Event]
      BY <1>0, <2>1, <3>1 DEF NotifyType
    <3>3. /\ moment' \in Nat /\ ends' \in Nat /\ attached' \in BOOLEAN
          /\ routed' \in Seq([priority : Priority, at : Nat]) /\ Len(routed') <= MaxEvents
          /\ fate' \in [Event -> [Place -> Fate]]
      <4>1. /\ moment \in Nat /\ ends \in Nat /\ Len(routed) <= MaxEvents
            /\ routed \in Seq([priority : Priority, at : Nat])
            /\ fate \in [Event -> [Place -> Fate]]
        BY <1>0 DEF NotifyType
      <4>2. moment' = moment /\ ends' = ends + 1 /\ attached' = FALSE /\ routed' = routed /\ fate' = fate
        BY <2>1
      <4>3. attached' \in BOOLEAN
        BY <4>2, Zenon
      <4>4. ends' \in Nat
        BY <4>1, <4>2
      <4> QED BY <4>1, <4>2, <4>3, <4>4, Zenon
    <3> QED BY <3>1, <3>2, <3>3 DEF NotifyType
  <2>4. JournalHolds'
    BY <1>0, <2>1 DEF NotifyType, JournalHolds
  <2>5. recent' \in [Place -> SUBSET Event] /\ \A p \in Place : recent'[p] \subseteq recent[p]
    BY <2>1 DEF Each
  <2> QED BY <2>1, <2>3, <2>4, <2>5, NothingRouted DEF NotifyInv
<1> QED BY <1>1, <1>2, <1>3, <1>4, <1>5, <1>6, <1>7, <1>8 DEF NotificationsNext

LEMMA NotifyInvariant == NotificationsSpec => []NotifyInv
BY NotifyStart, NotifyStep, PTL DEF NotificationsSpec

\* A critical event is withheld only for the limit, or behind a sink or a record that raised
\* (notifications.py:33, 181-230), for any subscribers, hours, limits and capacity.
THEOREM CriticalGetsThrough == NotificationsSpec => []CriticalThrough
<1>1. NotifyInv => CriticalThrough
  BY DEF NotifyInv
<1> QED BY <1>1, NotifyInvariant, PTL

\* What the journal calls held is in a digest or went out in a summary, and what it calls
\* delivered was handed to the sink, and so to every chat that is configured, be it none
\* (notifications.py:194-254), until a bounded sink is full or the process ends; and that for
\* any subscribers, and whatever sink or record raises when.
THEOREM JournalIsBelievable == NotificationsSpec => []JournalHolds
<1>1. NotifyInv => JournalHolds
  BY DEF NotifyInv
<1> QED BY <1>1, NotifyInvariant, PTL

-----------------------------------------------------------------------------
(* Providers.  A deadline that has not passed is either what the health record   *)
(* says, or was overtaken by an answer that was under way when it was given; and *)
(* it was: whoever began a call after the 429 found the provider available, so it *)
(* was overtaken by then.  The two facts hold each other up (Standing, NoneSince). *)

What == {"rest", "success", "rate-limit", "down"}
CallAnswer == Error \cup {"none", "ok", "recorded"}

ProvidersType ==
  /\ time \in Nat
  /\ health \in [Provider -> [state : Health, until : Nat, failures : Nat]]
  /\ call \in [Call -> [to : Provider \cup {"nobody"}, begun : Nat, answer : CallAnswer]]
  /\ history \in [Provider -> Seq([what : What, at : Nat, begun : Nat])]
  /\ promised \in [Provider -> [until : Nat, at : Nat]]

\* Nothing is dated in the future.
Past ==
  /\ \A i \in Call : call[i].begun <= time
  /\ \A p \in Provider : promised[p].at <= time

\* A deadline ahead is the provider's, unless it was overtaken.
Standing ==
  \A p \in Provider : time < promised[p].until =>
    \/ Overtaken(p)
    \/ health[p].state = "rate-limited" /\ health[p].until = promised[p].until

\* No call went out since the 429, unless it was overtaken by then.
NoneSince ==
  \A i \in Call, p \in Provider :
    call[i].to = p /\ time < promised[p].until =>
      call[i].begun <= promised[p].at \/ Overtaken(p)

ProvidersInv == ProvidersType /\ Past /\ Standing /\ NoneSince

-----------------------------------------------------------------------------
LEMMA LogGrows ==
  ASSUME NEW S, NEW s \in Seq(S), NEW e \in S
  PROVE  Append(s, e) \in Seq(S)
OBVIOUS

\* What was overtaken stays so while the promise is the same and history grows.
LEMMA OvertakenStays ==
  ASSUME NEW p \in Provider, ProvidersType, ProvidersType',
         promised'[p] = promised[p], Overtaken(p),
         \/ history'[p] = history[p]
         \/ \E e \in [what : What, at : Nat, begun : Nat] : history'[p] = Append(history[p], e)
  PROVE  Overtaken(p)'
<1>1. PICK k \in DOMAIN history[p] :
        /\ history[p][k].what \in {"success", "down"}
        /\ history[p][k].at >= promised[p].at
        /\ history[p][k].begun <= promised[p].at
  BY DEF Overtaken
<1>2. history[p] \in Seq([what : What, at : Nat, begun : Nat])
  BY DEF ProvidersType
<1>3. k \in DOMAIN history'[p] /\ history'[p][k] = history[p][k]
  <2>1. CASE history'[p] = history[p]
    BY <1>1, <2>1
  <2>2. CASE \E e \in [what : What, at : Nat, begun : Nat] : history'[p] = Append(history[p], e)
    <3>1. PICK e \in [what : What, at : Nat, begun : Nat] : history'[p] = Append(history[p], e)
      BY <2>2
    <3>2. k \in 1 .. Len(history[p]) /\ DOMAIN Append(history[p], e) = 1 .. Len(history[p]) + 1
      BY <1>1, <1>2
    <3>3. Append(history[p], e)[k] = history[p][k]
      BY <1>2, <3>2
    <3> QED BY <1>2, <3>1, <3>2, <3>3
  <2> QED BY <2>1, <2>2
<1> QED BY <1>1, <1>3 DEF Overtaken

\* An answer recorded now overtakes a deadline, if its call is as old as that.
LEMMA AnswerOvertakes ==
  ASSUME NEW i \in Call, NEW p \in Provider, NEW what \in {"success", "down"},
         ProvidersType, Past, call[i].to = p, promised'[p] = promised[p],
         history'[p] = Append(history[p], [what |-> what, at |-> time, begun |-> call[i].begun]),
         call[i].begun <= promised[p].at
  PROVE  Overtaken(p)'
<1>1. history[p] \in Seq([what : What, at : Nat, begun : Nat])
  BY DEF ProvidersType
<1>2. [what |-> what, at |-> time, begun |-> call[i].begun] \in [what : What, at : Nat, begun : Nat]
  BY DEF ProvidersType, What
<1> DEFINE k == Len(history[p]) + 1
<1>3. k \in DOMAIN history'[p]
      /\ history'[p][k] = [what |-> what, at |-> time, begun |-> call[i].begun]
  BY <1>1, <1>2
<1>4. time >= promised[p].at
  BY DEF Past, ProvidersType
<1>5. /\ history'[p][k].what \in {"success", "down"}
      /\ history'[p][k].at >= promised'[p].at
      /\ history'[p][k].begun <= promised'[p].at
  BY <1>3, <1>4
<1> QED BY <1>3, <1>5 DEF Overtaken
\* What every record_*() does to the calls and the history.
LEMMA RecordingTyped ==
  ASSUME NEW i \in Call, NEW what \in What, ProvidersType, Past,
         Recorded(i), Noted(i, what)
  PROVE  /\ call' \in [Call -> [to : Provider \cup {"nobody"}, begun : Nat, answer : CallAnswer]]
         /\ \A j \in Call : call'[j].begun = call[j].begun /\ call'[j].to = call[j].to
         /\ history' \in [Provider -> Seq([what : What, at : Nat, begun : Nat])]
<1>1. call' \in [Call -> [to : Provider \cup {"nobody"}, begun : Nat, answer : CallAnswer]]
  BY DEF Recorded, ProvidersType, CallAnswer
<1>2. \A j \in Call : call'[j].begun = call[j].begun /\ call'[j].to = call[j].to
  BY DEF Recorded, ProvidersType
<1>3. Ended(what, i) \in [what : What, at : Nat, begun : Nat]
  BY DEF Ended, ProvidersType
<1>4. \A p \in Provider : Append(history[p], Ended(what, i))
                          \in Seq([what : What, at : Nat, begun : Nat])
  BY <1>3, LogGrows DEF ProvidersType
<1>5. history' \in [Provider -> Seq([what : What, at : Nat, begun : Nat])]
  BY <1>4 DEF Noted, ProvidersType
<1> QED BY <1>1, <1>2, <1>5

\* A success or a transient failure overtakes a deadline ahead, or leaves it alone.
LEMMA AnswerKeeps ==
  ASSUME NEW i \in Call, NEW what \in {"success", "down"},
         ProvidersInv, ProvidersType', Recorded(i), Noted(i, what),
         time' = time, promised' = promised,
         \A p \in Provider : p # call[i].to => health'[p] = health[p]
  PROVE  Standing' /\ NoneSince'
<1> USE DEF ProvidersInv
<1>1. what \in What
  BY DEF What
<1>2. \A j \in Call : call'[j].begun = call[j].begun /\ call'[j].to = call[j].to
  BY <1>1, RecordingTyped
<1>3. Ended(what, i) \in [what : What, at : Nat, begun : Nat]
  BY <1>1 DEF Ended, ProvidersType
<1>4. ASSUME NEW p \in Provider, Overtaken(p)
      PROVE  Overtaken(p)'
  <2>1. history'[p] = history[p] \/ history'[p] = Append(history[p], Ended(what, i))
    BY DEF Noted, ProvidersType
  <2> QED BY <1>3, <1>4, <2>1, OvertakenStays
<1>5. ASSUME NEW p \in Provider, time < promised[p].until, p = call[i].to
      PROVE  Overtaken(p)'
  <2>1. CASE Overtaken(p)
    BY <1>4, <2>1
  <2>2. CASE call[i].begun <= promised[p].at
    <3>1. history'[p] = Append(history[p], [what |-> what, at |-> time, begun |-> call[i].begun])
      BY <1>5 DEF Noted, Ended, ProvidersType
    <3> QED BY <1>5, <2>2, <3>1, AnswerOvertakes
  <2> QED BY <1>5, <2>1, <2>2 DEF NoneSince
<1>6. Standing'
  BY <1>4, <1>5 DEF Standing
<1>7. NoneSince'
  BY <1>2, <1>4 DEF NoneSince
<1> QED BY <1>6, <1>7

-----------------------------------------------------------------------------
(* The initial states.                                                           *)
LEMMA ProvidersStart == ProvidersInit => ProvidersInv
<1> SUFFICES ASSUME ProvidersInit PROVE ProvidersInv
  OBVIOUS
<1>1. ProvidersType
  <2>1. <<>> \in Seq([what : What, at : Nat, begun : Nat])
    OBVIOUS
  <2> QED BY <2>1 DEF ProvidersInit, ProvidersType, Fit, Unused, Health, CallAnswer
<1>2. Past
  BY DEF ProvidersInit, Past, Unused
<1>3. Standing /\ NoneSince
  BY DEF ProvidersInit, Standing, NoneSince
<1> QED BY <1>1, <1>2, <1>3 DEF ProvidersInv

(* Types and dates, step by step.                                                *)
LEMMA ProvidersTyped ==
  ASSUME ProvidersType, Past, [ProvidersNext]_providerVars
  PROVE  ProvidersType' /\ Past'
<1> USE ProvidersAssumption
<1>1. CASE UNCHANGED providerVars
  BY <1>1 DEF ProvidersType, Past, providerVars
<1>2. CASE ProviderClock
  <2>1. ProvidersType'
    <3>1. time' \in Nat
      BY <1>2 DEF ProviderClock, ProvidersType
    <3>2. UNCHANGED <<health, call, history, promised>>
      BY <1>2 DEF ProviderClock
    <3> QED BY <3>1, <3>2 DEF ProvidersType
  <2>2. Past'
    BY <1>2 DEF ProviderClock, ProvidersType, Past
  <2> QED BY <2>1, <2>2
<1>3. ASSUME NEW i \in Call, NEW exclude \in SUBSET Provider, select(i, exclude)
      PROVE  ProvidersType' /\ Past'
  <2>1. PICK q \in Provider \ exclude :
          call' = [call EXCEPT ![i] = [to |-> q, begun |-> time, answer |-> "none"]]
    BY <1>3 DEF select
  <2>2. time' = time /\ promised' = promised
    BY <1>3 DEF select
  <2>3. call' \in [Call -> [to : Provider \cup {"nobody"}, begun : Nat, answer : CallAnswer]]
    BY <2>1 DEF ProvidersType, CallAnswer
  <2>4. health' \in [Provider -> [state : Health, until : Nat, failures : Nat]]
    BY <1>3 DEF select, ProvidersType, Fit, Health
  <2>5. history' \in [Provider -> Seq([what : What, at : Nat, begun : Nat])]
    <3>1. Ended("rest", i) \in [what : What, at : Nat, begun : Nat]
      BY DEF Ended, ProvidersType, What
    <3>2. \A p \in Provider : Append(history[p], Ended("rest", i))
                              \in Seq([what : What, at : Nat, begun : Nat])
      BY <3>1, LogGrows DEF ProvidersType
    <3> QED BY <1>3, <3>2 DEF select, ProvidersType
  <2>6. Past'
    BY <2>1, <2>2 DEF Past, ProvidersType
  <2> QED BY <2>2, <2>3, <2>4, <2>5, <2>6 DEF ProvidersType
<1>4. ASSUME NEW i \in Call, NEW status \in Status, complete(i, status)
      PROVE  ProvidersType' /\ Past'
  <2>1. (IF status = "ok" THEN "ok" ELSE Error_of(status)) \in CallAnswer
    BY DEF Error_of, Status, CallAnswer, Error
  <2>2. call' \in [Call -> [to : Provider \cup {"nobody"}, begun : Nat, answer : CallAnswer]]
    BY <1>4, <2>1 DEF complete, ProvidersType
  <2>3. \A j \in Call : call'[j].begun = call[j].begun
    BY <1>4 DEF complete, ProvidersType
  <2> QED BY <1>4, <2>2, <2>3 DEF complete, ProvidersType, Past
<1>5. ASSUME NEW i \in Call, record_success(i)
      PROVE  ProvidersType' /\ Past'
  <2>1. Recorded(i) /\ Noted(i, "success") /\ time' = time /\ promised' = promised
    BY <1>5 DEF record_success
  <2>2. health' \in [Provider -> [state : Health, until : Nat, failures : Nat]]
    BY <1>5 DEF record_success, ProvidersType, Fit, Health
  <2> QED BY <2>1, <2>2, RecordingTyped DEF What, ProvidersType, Past
<1>6. ASSUME NEW i \in Call, RecordTransient(i)
      PROVE  ProvidersType' /\ Past'
  <2>1. Recorded(i) /\ Noted(i, "down") /\ time' = time /\ promised' = promised
    BY <1>6 DEF RecordTransient
  <2>2. health' \in [Provider -> [state : Health, until : Nat, failures : Nat]]
    <3> DEFINE failures == health[call[i].to].failures + 1
               rest == IF failures >= Threshold
                 THEN [state |-> "cooldown", until |-> time + DownCooldown, failures |-> failures]
                 ELSE [state |-> "unavailable", until |-> 0, failures |-> failures]
    <3>1. health' = [health EXCEPT ![call[i].to] = rest]
      BY <1>6 DEF RecordTransient
    <3>2. CASE call[i].to \in Provider
      <4>1. failures \in Nat /\ time + DownCooldown \in Nat
        BY <3>2 DEF ProvidersType
      <4>2. rest \in [state : Health, until : Nat, failures : Nat]
        BY <4>1 DEF Health
      <4> HIDE DEF rest
      <4> QED BY <3>1, <4>2 DEF ProvidersType
    <3>3. CASE call[i].to \notin Provider
      BY <3>1, <3>3 DEF ProvidersType
    <3> QED BY <3>2, <3>3
  <2> QED BY <2>1, <2>2, RecordingTyped DEF What, ProvidersType, Past
<1>7. ASSUME NEW i \in Call, RecordPermanent(i)
      PROVE  ProvidersType' /\ Past'
  <2>1. Recorded(i) /\ UNCHANGED <<time, health, history, promised>>
    BY <1>7 DEF RecordPermanent
  <2>2. call' \in [Call -> [to : Provider \cup {"nobody"}, begun : Nat, answer : CallAnswer]]
    BY <2>1 DEF Recorded, ProvidersType, CallAnswer
  <2>3. \A j \in Call : call'[j].begun = call[j].begun
    BY <2>1 DEF Recorded, ProvidersType
  <2> QED BY <2>1, <2>2, <2>3 DEF ProvidersType, Past
<1>8. ASSUME NEW i \in Call, NEW delay \in Delay \cup {RateCooldown}, RecordRateLimit(i, delay)
      PROVE  ProvidersType' /\ Past'
  <2>1. Recorded(i) /\ Noted(i, "rate-limit") /\ time' = time
    BY <1>8 DEF RecordRateLimit
  <2>2. delay \in Nat
    BY DEF ProvidersAssumption
  <2>3. health' \in [Provider -> [state : Health, until : Nat, failures : Nat]]
    <3> DEFINE rest == [state |-> "rate-limited", until |-> time + delay,
                        failures |-> health[call[i].to].failures + 1]
    <3>1. CASE call[i].to \in Provider
      <4>1. health' = [health EXCEPT ![call[i].to] = rest]
        BY <1>8, <3>1 DEF RecordRateLimit, ProvidersType
      <4>2. health[call[i].to].failures + 1 \in Nat /\ time + delay \in Nat
        BY <2>2, <3>1 DEF ProvidersType
      <4>3. rest \in [state : Health, until : Nat, failures : Nat]
        BY <4>2 DEF Health
      <4> HIDE DEF rest
      <4> QED BY <4>1, <4>3 DEF ProvidersType
    <3>2. CASE call[i].to \notin Provider
      BY <1>8, <3>2 DEF RecordRateLimit, ProvidersType
    <3> QED BY <3>1, <3>2
  <2>4. promised' \in [Provider -> [until : Nat, at : Nat]]
    <3>1. time + delay \in Nat
      BY <2>2 DEF ProvidersType
    <3>2. [until |-> time + delay, at |-> time] \in [until : Nat, at : Nat]
      BY <3>1 DEF ProvidersType
    <3> QED BY <1>8, <3>2 DEF RecordRateLimit, ProvidersType
  <2>5. \A p \in Provider : promised'[p].at <= time
    BY <1>8 DEF RecordRateLimit, ProvidersType, Past
  <2> QED BY <2>1, <2>3, <2>4, <2>5, RecordingTyped DEF What, ProvidersType, Past
<1> QED BY <1>1, <1>2, <1>3, <1>4, <1>5, <1>6, <1>7, <1>8 DEF ProvidersNext

(* A standing deadline and the calls since, step by step.                        *)
LEMMA DeadlinesStand ==
  ASSUME ProvidersInv, ProvidersType', Past', [ProvidersNext]_providerVars
  PROVE  Standing' /\ NoneSince'
<1> USE ProvidersAssumption DEF ProvidersInv
<1>1. CASE UNCHANGED providerVars
  BY <1>1 DEF Standing, NoneSince, Overtaken, providerVars
<1>2. CASE ProviderClock
  <2>1. /\ UNCHANGED <<health, call, history, promised>>
        /\ time' = time + 1
    BY <1>2 DEF ProviderClock
  <2>2. \A p \in Provider : /\ Overtaken(p)' <=> Overtaken(p)
                            /\ time' < promised'[p].until => time < promised[p].until
    BY <2>1 DEF Overtaken, ProvidersType
  <2> QED BY <2>1, <2>2 DEF Standing, NoneSince
<1>3. ASSUME NEW i \in Call, NEW exclude \in SUBSET Provider, select(i, exclude)
      PROVE  Standing' /\ NoneSince'
  <2>1. PICK q \in Provider \ exclude :
          /\ is_available(q)
          /\ call' = [call EXCEPT ![i] = [to |-> q, begun |-> time, answer |-> "none"]]
    BY <1>3 DEF select
  <2>2. time' = time /\ promised' = promised
    BY <1>3 DEF select
  <2>3. ASSUME NEW p \in Provider, Overtaken(p)
        PROVE  Overtaken(p)'
    <3>1. Ended("rest", i) \in [what : What, at : Nat, begun : Nat]
      BY DEF Ended, ProvidersType, What
    <3>2. history'[p] = history[p] \/ history'[p] = Append(history[p], Ended("rest", i))
      BY <1>3 DEF select
    <3> QED BY <2>2, <2>3, <3>1, <3>2, OvertakenStays
  <2>4. ASSUME NEW p \in Provider, time < promised[p].until, ~Overtaken(p)
        PROVE  health'[p] = health[p] /\ ~is_available(p)
    <3>1. health[p].state = "rate-limited" /\ health[p].until = promised[p].until
      BY <2>4 DEF Standing
    <3>2. Barred(p) /\ ~Rested(p)
      <4>1. time \in Nat /\ promised[p].until \in Nat
        BY DEF ProvidersType
      <4> QED BY <2>4, <3>1, <4>1 DEF Barred, Rested
    <3> QED BY <1>3, <3>2 DEF select, is_available
  <2>5. Standing'
    BY <2>2, <2>3, <2>4 DEF Standing
  <2>6. ASSUME NEW j \in Call, NEW p \in Provider,
               call'[j].to = p, time < promised[p].until, ~Overtaken(p)
        PROVE  call'[j].begun <= promised[p].at
    <3>1. ~is_available(p)
      BY <2>4, <2>6
    <3>2. j # i
      BY <2>1, <2>6, <3>1 DEF ProvidersType
    <3>3. call'[j] = call[j]
      BY <2>1, <3>2 DEF ProvidersType
    <3> QED BY <2>6, <3>3 DEF NoneSince
  <2>7. NoneSince'
    BY <2>2, <2>3, <2>6 DEF NoneSince
  <2> QED BY <2>5, <2>7
<1>4. ASSUME NEW i \in Call, NEW status \in Status, complete(i, status)
      PROVE  Standing' /\ NoneSince'
  <2>1. UNCHANGED <<time, health, history, promised>>
    BY <1>4 DEF complete
  <2>2. \A j \in Call : call'[j].begun = call[j].begun /\ call'[j].to = call[j].to
    BY <1>4 DEF complete, ProvidersType
  <2> QED BY <2>1, <2>2 DEF Standing, NoneSince, Overtaken
<1>5. ASSUME NEW i \in Call, record_success(i)
      PROVE  Standing' /\ NoneSince'
  <2>1. Recorded(i) /\ Noted(i, "success") /\ time' = time /\ promised' = promised
    BY <1>5 DEF record_success
  <2>2. \A p \in Provider : p # call[i].to => health'[p] = health[p]
    BY <1>5 DEF record_success, ProvidersType
  <2> QED BY <2>1, <2>2, AnswerKeeps DEF What
<1>6. ASSUME NEW i \in Call, RecordTransient(i)
      PROVE  Standing' /\ NoneSince'
  <2>1. Recorded(i) /\ Noted(i, "down") /\ time' = time /\ promised' = promised
    BY <1>6 DEF RecordTransient
  <2>2. \A p \in Provider : p # call[i].to => health'[p] = health[p]
    BY <1>6 DEF RecordTransient, ProvidersType
  <2> QED BY <2>1, <2>2, AnswerKeeps DEF What
<1>7. ASSUME NEW i \in Call, RecordPermanent(i)
      PROVE  Standing' /\ NoneSince'
  <2>1. Recorded(i) /\ UNCHANGED <<time, health, history, promised>>
    BY <1>7 DEF RecordPermanent
  <2>2. \A j \in Call : call'[j].begun = call[j].begun /\ call'[j].to = call[j].to
    BY <2>1 DEF Recorded, ProvidersType
  <2> QED BY <2>1, <2>2 DEF Standing, NoneSince, Overtaken
<1>8. ASSUME NEW i \in Call, NEW delay \in Delay \cup {RateCooldown}, RecordRateLimit(i, delay)
      PROVE  Standing' /\ NoneSince'
  <2>1. Recorded(i) /\ Noted(i, "rate-limit") /\ time' = time
    BY <1>8 DEF RecordRateLimit
  <2>2. \A j \in Call : call'[j].begun = call[j].begun /\ call'[j].to = call[j].to
    BY <2>1 DEF Recorded, ProvidersType, CallAnswer
  <2>3. ASSUME NEW p \in Provider, p = call[i].to
        PROVE  /\ promised'[p] = [until |-> time + delay, at |-> time]
               /\ health'[p].state = "rate-limited"
               /\ health'[p].until = time + delay
    BY <1>8, <2>3 DEF RecordRateLimit, ProvidersType
  <2>4. ASSUME NEW p \in Provider, p # call[i].to
        PROVE  /\ promised'[p] = promised[p]
               /\ health'[p] = health[p]
               /\ history'[p] = history[p]
    BY <1>8, <2>1, <2>4 DEF RecordRateLimit, Noted, ProvidersType
  <2>5. ASSUME NEW p \in Provider, p # call[i].to
        PROVE  Overtaken(p)' <=> Overtaken(p)
    BY <2>4, <2>5 DEF Overtaken
  <2>6. Standing'
    BY <2>1, <2>3, <2>4, <2>5 DEF Standing
  <2>7. \A j \in Call : call[j].begun <= time
    BY DEF Past
  <2>8. NoneSince'
    BY <2>1, <2>2, <2>3, <2>4, <2>5, <2>7 DEF NoneSince
  <2> QED BY <2>6, <2>8
<1> QED BY <1>1, <1>2, <1>3, <1>4, <1>5, <1>6, <1>7, <1>8 DEF ProvidersNext

-----------------------------------------------------------------------------
(* What is promised is what is asked.                                            *)
LEMMA HonoredByInvariant == ProvidersInv => RetryAfterHonored
<1> SUFFICES ASSUME ProvidersInv, NEW p \in Provider,
                    time < promised[p].until, is_available(p)
             PROVE  Overtaken(p)
  BY DEF RetryAfterHonored
<1>1. CASE health[p].state = "rate-limited" /\ health[p].until = promised[p].until
  <2>1. Barred(p) /\ ~Rested(p)
    BY <1>1 DEF Barred, Rested, ProvidersInv, ProvidersType
  <2> QED BY <2>1 DEF is_available
<1> QED BY <1>1 DEF ProvidersInv, Standing

(* The invariant holds in every reachable state.                                 *)
LEMMA ProvidersInvariant == ProvidersSpec => []ProvidersInv
<1>1. ProvidersInit => ProvidersInv
  BY ProvidersStart
<1>2. ProvidersInv /\ [ProvidersNext]_providerVars => ProvidersInv'
  <2> SUFFICES ASSUME ProvidersInv, [ProvidersNext]_providerVars PROVE ProvidersInv'
    OBVIOUS
  <2>1. ProvidersType' /\ Past'
    BY ProvidersTyped DEF ProvidersInv
  <2>2. Standing' /\ NoneSince'
    BY <2>1, DeadlinesStand
  <2> QED BY <2>1, <2>2 DEF ProvidersInv
<1> QED BY <1>1, <1>2, PTL DEF ProvidersSpec

\* A provider that asked for a rest is left alone until the deadline it gave, but for
\* answers that were under way (health.py:82-129): for any number of concurrent calls,
\* delays and thresholds.
THEOREM RestsAreHonored == ProvidersSpec => []RetryAfterHonored
<1>1. ProvidersInv => RetryAfterHonored
  BY HonoredByInvariant
<1> QED BY <1>1, ProvidersInvariant, PTL
=============================================================================
