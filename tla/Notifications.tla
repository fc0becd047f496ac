---------------------------- MODULE Notifications ----------------------------
(* The notification router and its three kinds of sink: the dashboard's bounded  *)
(* feed, the terminal app's toasts and the chat channels (runtime/               *)
(* notifications.py, web/sink.py, tui/sink.py, gateway/telegram.py and           *)
(* gateway/discord.py).  Messages, wording and the default priority of each event *)
(* type are left out: an event has a priority.                                   *)
EXTENDS Naturals, Sequences, FiniteSets, SequencesExt

CONSTANTS Subscribers,   \* in the order they subscribed: [sink, digest, quiet,
                         \* limit, chats]: how many chats a sink is configured with, 0 by default
          LimitWindow,   \* the minute of _WindowCounter
          Day,           \* moments of a day
          QuietFrom, QuietUntil,
          Capacity,      \* of the feed, and of the buffer of the terminal sink
          MaxEvents,     \* events routed (bound)
          MaxRaises,     \* times a sink or the journal raises (bound)
          LastMoment,    \* the last moment of the clock (bound)
          MaxEnds        \* times the process ends (bound)

Place == DOMAIN Subscribers
Event == 1 .. MaxEvents
Priority == {"SILENT", "NORMAL", "CRITICAL"}
Sinks == {"feed", "toasts", "chat"}
Fate == {"none", "silent", "quiet-hours", "held", "rate-limited", "delivered", "raised"}
Summary == 0    \* the number a summary is delivered under

ASSUME NotificationsAssumption ==
  /\ Subscribers \in Seq([sink : Sinks, digest : BOOLEAN, quiet : BOOLEAN, limit : Nat,
                          chats : Nat])
  /\ {LimitWindow, Day, Capacity} \subseteq Nat \ {0}
  /\ QuietFrom \in 0 .. Day - 1 /\ QuietUntil \in 0 .. Day - 1
  /\ {MaxEvents, MaxRaises, LastMoment, MaxEnds} \subseteq Nat

VARIABLES moment,    \* the router's clock
          routed,    \* the events so far: [priority, at]
          fate,      \* what became of each event for each subscriber, as the journal says
          unwritten, \* but for the events whose record for it was not written
          recent,    \* _hits: the events that count against each limit
          digest,    \* what is held for each subscriber
          summed,    \* events that went out in a summary
          feed,      \* the dashboard's recent notifications
          toasted,   \* what has been shown as a toast
          buffer,    \* lines of the terminal sink while no app is attached
          attached,  \* the terminal app runs
          sending,   \* sends that have been scheduled: <<event or summary, chat>>
          chatted,   \* sends that ended
          ends       \* times the process ended

sinkVars == <<feed, toasted, buffer, attached, sending, chatted>>
notifyVars == <<moment, routed, fate, unwritten, recent, digest, summed, sinkVars, ends>>

Each(x) == [p \in Place |-> x]

NotificationsInit ==
  /\ moment = 0 /\ routed = <<>> /\ ends = 0
  /\ fate = [e \in Event |-> Each("none")]
  /\ unwritten = Each({})
  /\ recent = Each({}) /\ digest = Each(<<>>) /\ summed = Each({})
  /\ feed = Each(<<>>) /\ toasted = Each({})
  /\ buffer = Each(<<>>) /\ attached = FALSE
  /\ sending = Each({}) /\ chatted = Each({})

-----------------------------------------------------------------------------
(* The policy.                                                                   *)

\* QuietHours.is_quiet(), for windows within a day and across midnight.
is_quiet(at) ==
  LET m == at % Day IN
  IF QuietFrom <= QuietUntil THEN QuietFrom <= m /\ m < QuietUntil
                             ELSE m >= QuietFrom \/ m < QuietUntil

\* _WindowCounter.allow() keeps moments, one for each event it let through.
Fresh(p) == {e \in recent[p] : moment - routed[e].at < LimitWindow}
Under(p) == Cardinality(Fresh(p)) < Subscribers[p].limit

\* Mutant of Decide: quiet hours silence what is critical, too.
DecideQuietly(p, priority) ==
  LET s == Subscribers[p] IN
  IF priority = "SILENT" THEN "silent"
  ELSE IF s.quiet /\ is_quiet(moment) THEN "quiet-hours"
  ELSE IF ~Under(p) THEN "rate-limited" ELSE "delivered"

\* The fate route() decides for a subscriber, in the order of its checks.
Decide(p, priority) ==
  LET s == Subscribers[p] IN
  IF priority = "SILENT" THEN "silent"
  ELSE IF priority = "NORMAL" /\ s.quiet /\ is_quiet(moment)
    THEN IF s.digest THEN "held" ELSE "quiet-hours"
  ELSE IF ~Under(p) THEN "rate-limited"
  ELSE IF priority = "NORMAL" /\ s.digest THEN "held" ELSE "delivered"

\* Quiet traffic does not count against the limit; what a digest holds does.
Counted(p, priority) ==
  /\ priority # "SILENT"
  /\ ~(priority = "NORMAL" /\ Subscribers[p].quiet /\ is_quiet(moment))
  /\ Under(p)

-----------------------------------------------------------------------------
(* The sinks.  A deque of bounded length drops its oldest entry.                 *)

Push(queue, x) == LET q == Append(queue, x) IN IF Len(q) > Capacity THEN Tail(q) ELSE q

ToFeed(ps, x) ==
  feed' = [p \in Place |->
    IF p \in ps /\ Subscribers[p].sink = "feed" THEN Push(feed[p], x) ELSE feed[p]]

\* A toast in the app that is attached, a line of the buffer without one.
ToTerminal(ps, x) ==
  LET terminals == {p \in ps : Subscribers[p].sink = "toasts"} IN
  /\ toasted' = [p \in Place |-> IF p \in terminals /\ attached THEN toasted[p] \cup {x}
                                 ELSE toasted[p]]
  /\ buffer' = [p \in Place |-> IF p \in terminals /\ ~attached THEN Push(buffer[p], x)
                                ELSE buffer[p]]

Chats(p) == 1 .. Subscribers[p].chats

\* Mutant of ToChats: only one of the sends is kept.
ToOneChat(ps, x) ==
  sending' = [p \in Place |->
    IF p \in ps /\ Subscribers[p].sink = "chat" /\ Chats(p) # {} THEN sending[p] \cup {<<x, 1>>}
                                                                ELSE sending[p]]

\* A send is scheduled on the running loop for each chat that is configured, which may be
\* none: then nothing is, and the delivery is over.
ToChats(ps, x) ==
  sending' = [p \in Place |->
    IF p \in ps /\ Subscribers[p].sink = "chat" THEN sending[p] \cup ({x} \X Chats(p))
                                                 ELSE sending[p]]

\* deliver() of the sinks in the places ps, for an event or a summary.
Deliver(ps, x) ==
  ToFeed(ps, x) /\ ToTerminal(ps, x) /\ ToChats(ps, x) /\ UNCHANGED <<attached, chatted>>

\* TextualSink.attach(): what is buffered is shown, and stays in the buffer.
attach ==
  /\ ~attached
  /\ attached' = TRUE
  /\ toasted' = [p \in Place |-> toasted[p] \cup ToSet(buffer[p])]
  /\ UNCHANGED <<moment, routed, fate, unwritten, recent, digest, summed, feed, buffer, sending,
                 chatted, ends>>

detach ==
  /\ attached
  /\ attached' = FALSE
  /\ UNCHANGED <<moment, routed, fate, unwritten, recent, digest, summed, feed, toasted, buffer,
                 sending, chatted, ends>>

\* A scheduled send ends, well or not; either is journaled once more, if that can be.
SendEnds(p, x, c) ==
  /\ <<x, c>> \in sending[p]
  /\ sending' = [sending EXCEPT ![p] = @ \ {<<x, c>>}]
  /\ chatted' = [chatted EXCEPT ![p] = @ \cup {<<x, c>>}]
  /\ UNCHANGED <<moment, routed, fate, unwritten, recent, digest, summed, feed, toasted, buffer,
                 attached, ends>>

-----------------------------------------------------------------------------
(* route(): the subscribers are served in turn, until a sink or the journal raises. *)

\* The last that is reached is served as well if it is the journal that raises: then what
\* was decided for it has been done when the record of it is not written.
Fates(priority, last, sinkRaised) ==
  [p \in Place |-> IF p > last THEN "none"
                   ELSE IF p = last /\ sinkRaised THEN "raised" ELSE Decide(p, priority)]

RouteTo(priority, last, sinkRaised, journalRaised) ==
  LET e == Len(routed) + 1
      f == Fates(priority, last, sinkRaised) IN
  /\ Len(routed) < MaxEvents
  /\ routed' = Append(routed, [priority |-> priority, at |-> moment])
  /\ fate' = [fate EXCEPT ![e] = f]
  /\ unwritten' = [p \in Place |-> IF p = last /\ journalRaised THEN unwritten[p] \cup {e}
                                   ELSE unwritten[p]]
  /\ recent' = [p \in Place |-> IF p <= last /\ Counted(p, priority)
                                  THEN Fresh(p) \cup {e} ELSE recent[p]]
  /\ digest' = [p \in Place |-> IF f[p] = "held" THEN Append(digest[p], e) ELSE digest[p]]
  /\ Deliver({p \in Place : f[p] = "delivered"}, e)
  /\ UNCHANGED <<moment, summed, ends>>

route(priority) == RouteTo(priority, Len(Subscribers), FALSE, FALSE)

MayRaise ==
  Cardinality({x \in Event \X Place : fate[x[1]][x[2]] = "raised" \/ x[1] \in unwritten[x[2]]})
    < MaxRaises

\* sink.deliver() raises: the event counts against the limit, and nothing is journaled.
DeliverRaises(priority, p) ==
  /\ MayRaise
  /\ Decide(p, priority) = "delivered"
  /\ RouteTo(priority, p, TRUE, FALSE)

\* EventJournal.append() raises in _record(), whatever was decided (persistence/journal.py:54).
RecordRaises(priority, p) == MayRaise /\ RouteTo(priority, p, FALSE, TRUE)

\* The summary goes out before what is held is dropped, whatever the hour, and is
\* not counted; that its record is written last changes nothing of this.
flush_digest(p) ==
  /\ digest[p] # <<>>
  /\ Deliver({p}, Summary)
  /\ summed' = [summed EXCEPT ![p] = @ \cup ToSet(digest[p])]
  /\ digest' = [digest EXCEPT ![p] = <<>>]
  /\ UNCHANGED <<moment, routed, fate, unwritten, recent, ends>>

NotifyClock ==
  /\ moment < LastMoment
  /\ moment' = moment + 1
  /\ UNCHANGED <<routed, fate, unwritten, recent, digest, summed, sinkVars, ends>>

\* All of it but the journal is in memory; sends under way are cancelled.
ProcessEnds ==
  /\ ends < MaxEnds
  /\ ends' = ends + 1
  /\ recent' = Each({}) /\ digest' = Each(<<>>) /\ feed' = Each(<<>>) /\ buffer' = Each(<<>>)
  /\ attached' = FALSE /\ sending' = Each({})
  /\ UNCHANGED <<moment, routed, fate, unwritten, summed, toasted, chatted>>

NotificationsNext ==
  \/ \E priority \in Priority :
       route(priority) \/ \E p \in Place : DeliverRaises(priority, p) \/ RecordRaises(priority, p)
  \/ \E p \in Place :
       flush_digest(p) \/ \E x \in {Summary} \cup Event, c \in Chats(p) : SendEnds(p, x, c)
  \/ attach \/ detach \/ NotifyClock \/ ProcessEnds

NotificationsSpec == NotificationsInit /\ [][NotificationsNext]_notifyVars

-----------------------------------------------------------------------------
\* "CRITICAL: always deliver, even in quiet hours" (notifications.py:33) holds but
\* for the limit: a critical event is withheld only from a subscriber for whom, in
\* the minute before, as many others as the limit were delivered or held (those a
\* raising sink did not take count as well), or behind an earlier subscriber whose sink
\* raised or whose record could not be written.
CriticalThrough ==
  \A e \in DOMAIN routed, p \in Place :
    routed[e].priority = "CRITICAL" =>
      /\ fate[e][p] \in {"delivered", "raised", "rate-limited", "none"}
      /\ fate[e][p] = "rate-limited" =>
           Cardinality({i \in 1 .. e - 1 :
             /\ routed[e].at - routed[i].at < LimitWindow
             /\ fate[i][p] \in {"delivered", "held", "raised"}}) >= Subscribers[p].limit
      /\ fate[e][p] = "none" => \E q \in 1 .. p - 1 : fate[e][q] = "raised" \/ e \in unwritten[q]

\* What the journal says of an event for a subscriber.
Journaled(e, p) == IF e \in unwritten[p] THEN "none" ELSE fate[e][p]

\* What was handed to the sink of p is shown there or was pushed out by newer lines, waits
\* for an app, or has a send to every chat under way or ended: to no chat, if there is none.
HandedOver(x, p) ==
  LET sink == Subscribers[p].sink IN
  /\ sink = "feed" => x \in ToSet(feed[p]) \/ Len(feed[p]) >= Capacity
  /\ sink = "toasts" => x \in toasted[p] \cup ToSet(buffer[p]) \/ Len(buffer[p]) >= Capacity
  /\ sink = "chat" => {x} \X Chats(p) \subseteq sending[p] \cup chatted[p]

\* The journal can be believed, while the process lives: what it calls held for the digest
\* is still held, or went out in a summary that was handed over; what it calls delivered was
\* handed over (by a channel without chats to nobody: there the word "delivered" is all there
\* is).  Nothing else is held or summed up, but for an event whose record was not written
\* after it had been put in the digest.
JournalHolds ==
  ends = 0 => \A e \in Event, p \in Place :
    /\ Journaled(e, p) = "held" => e \in ToSet(digest[p]) \cup summed[p]
    /\ e \in ToSet(digest[p]) \cup summed[p] => Journaled(e, p) = "held" \/ e \in unwritten[p]
    /\ e \in summed[p] => HandedOver(Summary, p)
    /\ Journaled(e, p) = "delivered" => HandedOver(e, p)
=============================================================================
