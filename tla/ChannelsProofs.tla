---------------------------- MODULE ChannelsProofs ----------------------------
(***************************************************************************)
(* For any number of chats, messages, crashes and failed requests, on both *)
(* transports: a kill switch fires only as the answer to its question, and *)
(* messages are handled once but for the ones a host ended on.  The        *)
(* invariant behind both: a host's batch has no gaps, it goes on where the *)
(* last dispatched message ended, and a host that ends forgets the chat it *)
(* awaits; so while a chat is awaited, every message between its question  *)
(* and the next one in line was dispatched and is neither.                 *)
(***************************************************************************)
EXTENDS Channels, TLAPS

\* The messages up to this one are behind the host.
Reached == IF transport = "telegram" THEN Cursor ELSE Len(log) - Len(batch)

InLine ==
  /\ confirmed <= Cursor
  /\ Reached \in Nat /\ Reached + Len(batch) <= Len(log)
  /\ \A k \in 1 .. Len(batch) : batch[k] = Reached + k
  /\ ~up => batch = <<>> /\ awaiting = NoChat

\* chat asked at a; up to r no chat has asked since, and this one has not confirmed.
AskedAt(a, chat, r) ==
  /\ log[a] = [chat |-> chat, cmd |-> "killswitch"]
  /\ \A i \in a + 1 .. r :
       /\ ~(log[i].cmd = "killswitch" /\ Serves(log[i].chat))
       /\ log[i] # [chat |-> chat, cmd |-> "confirm"]

AwaitedAsked ==
  awaiting # NoChat => Serves(awaiting) /\ \E a \in 1 .. Reached : AskedAt(a, awaiting, Reached)

\* A message behind the host was handled; a host that ended may have handled it before.
Counted ==
  /\ transport = "telegram" => \A m \in Message : m <= Cursor => handled[m] > 0
  /\ \A m \in Message : handled[m] <= (IF transport = "telegram" THEN replayable[m] ELSE 0)
                                        + (IF m <= Reached THEN 1 ELSE 0)

\* Nothing fires that was not posted.
FiredPosted == \A m \in Message : fired[m] > 0 => m \in Posted

CInv ==
  ChannelsTypeOK /\ InLine /\ AwaitedAsked /\ Counted /\ FiredPosted /\ ConfirmFollowsAsk

LEMMA Element == ASSUME NEW S, NEW s \in Seq(S), NEW i \in 1 .. Len(s) PROVE s[i] \in S
OBVIOUS

LEMMA InitCInv == ChannelsInit => CInv
<1> SUFFICES ASSUME ChannelsInit PROVE CInv
  OBVIOUS
<1> USE ChannelsAssumption
<1>1. ChannelsTypeOK
  <2>1. <<>> \in Seq([chat : Chat, cmd : Command]) /\ <<>> \in Seq(Message) /\ Len(<<>>) = 0
    OBVIOUS
  <2>2. 0 \in 0 .. MaxMessages /\ 0 \in 0 .. MaxMessages + 1 /\ 0 <= MaxMessages
    OBVIOUS
  <2> QED BY <2>1, <2>2 DEF ChannelsInit, ChannelsTypeOK
<1>2. /\ Len(log) = 0 /\ Len(batch) = 0 /\ offset = 0 /\ confirmed = 0 /\ awaiting = NoChat
      /\ batch = <<>> /\ \A m \in Message : handled[m] = 0 /\ fired[m] = 0 /\ replayable[m] = 0
  BY DEF ChannelsInit
<1>3. Cursor = 0 /\ Reached = 0
  BY <1>2 DEF Cursor, Reached
<1>4. InLine
  BY <1>2, <1>3 DEF InLine
<1>5. Counted
  BY <1>2, <1>3 DEF Counted, Message
<1>6. ConfirmFollowsAsk
  BY <1>2 DEF ConfirmFollowsAsk, Posted
<1>7. FiredPosted
  BY <1>2 DEF FiredPosted
<1> QED BY <1>1, <1>2, <1>4, <1>5, <1>6, <1>7 DEF CInv, AwaitedAsked

-------------------------------------------------------------------------------
(* What a host that ends leaves.                                                  *)

LEMMA EndsLine ==
  ASSUME ChannelsTypeOK, InLine, NEW seen \in [Message -> Nat], HostEnds(seen),
         UNCHANGED <<transport, log, confirmed>>
  PROVE  /\ InLine' /\ AwaitedAsked'
         /\ transport = "telegram" => Reached' = confirmed /\ Cursor' = confirmed
         /\ transport = "discord" => Reached' = Len(log)
<1> USE ChannelsAssumption
<1>1. /\ up' = FALSE /\ offset' = 0 /\ batch' = <<>> /\ awaiting' = NoChat
      /\ Len(batch') = 0 /\ transport' = transport /\ log' = log /\ confirmed' = confirmed
  BY DEF HostEnds
<1>2. /\ Cursor \in Nat /\ confirmed \in Nat /\ Len(log) \in Nat /\ Len(batch) \in Nat
      /\ transport \in {"telegram", "discord"}
  BY DEF ChannelsTypeOK, Cursor, InLine
<1>3. Cursor' = confirmed
  BY <1>1 DEF Cursor
<1>4. transport = "telegram" => Reached' = confirmed
  BY <1>1, <1>3 DEF Reached
<1>5. transport = "discord" => Reached' = Len(log)
  BY <1>1, <1>2 DEF Reached
<1>6. transport = "telegram" => confirmed <= Len(log)
  BY <1>2 DEF InLine, Reached
<1>7. InLine'
  BY <1>1, <1>2, <1>3, <1>4, <1>5, <1>6 DEF InLine
<1> QED BY <1>1, <1>3, <1>4, <1>5, <1>7 DEF AwaitedAsked

LEMMA EndsType ==
  ASSUME ChannelsTypeOK, NEW seen \in [Message -> Nat], HostEnds(seen)
  PROVE  /\ up' \in BOOLEAN /\ offset' \in 0 .. MaxMessages + 1 /\ batch' \in Seq(Message)
         /\ outbox' \subseteq Message /\ awaiting' \in Chat \cup {NoChat}
         /\ missed' \subseteq Message /\ replayable' \in [Message -> Nat]
<1> USE ChannelsAssumption
<1>1. ToSet(batch) \subseteq Message
  BY DEF ChannelsTypeOK, ToSet
<1>2. missed' \subseteq Message
  BY <1>1 DEF HostEnds, ChannelsTypeOK
<1>3. replayable' \in [Message -> Nat]
  BY DEF HostEnds, ChannelsTypeOK
<1>4. <<>> \in Seq(Message) /\ 0 \in 0 .. MaxMessages + 1
  OBVIOUS
<1> QED BY <1>2, <1>3, <1>4 DEF HostEnds

(* The message in front of the host is the one after those behind it.             *)
LEMMA InFront ==
  ASSUME ChannelsTypeOK, InLine, batch # <<>>
  PROVE  /\ Foremost \in Message /\ Foremost \in Posted /\ Foremost = Reached + 1
         /\ Tail(batch) \in Seq(Message) /\ Len(Tail(batch)) = Len(batch) - 1
         /\ \A k \in 1 .. Len(batch) - 1 : Tail(batch)[k] = Foremost + k
<1> USE ChannelsAssumption
<1>1. batch \in Seq(Message) /\ Len(batch) \in Nat \ {0} /\ Len(log) \in Nat
  BY DEF ChannelsTypeOK
<1>2. Foremost = batch[1] /\ batch[1] = Reached + 1 /\ Reached \in Nat
  BY <1>1 DEF Foremost, InLine
<1>3. Foremost \in Message /\ Foremost \in Posted
  BY <1>1, <1>2 DEF InLine, Posted
<1>4. Tail(batch) \in Seq(Message) /\ Len(Tail(batch)) = Len(batch) - 1
  BY <1>1
<1>5. ASSUME NEW k \in 1 .. Len(batch) - 1 PROVE Tail(batch)[k] = Foremost + k
  <2>1. Tail(batch)[k] = batch[k + 1] /\ k + 1 \in 1 .. Len(batch)
    BY <1>1, <1>4
  <2>2. batch[k + 1] = Reached + (k + 1)
    BY <2>1 DEF InLine
  <2> QED BY <1>2, <2>1, <2>2
<1> QED BY <1>2, <1>3, <1>4, <1>5

(* A dispatched message moves the host on by one.                                 *)
LEMMA MoveOn ==
  ASSUME ChannelsTypeOK, InLine, up, batch # <<>>, batch' = Tail(batch),
         UNCHANGED <<transport, log, confirmed, up>>,
         offset' = IF transport = "telegram" THEN Foremost + 1 ELSE offset
  PROVE  InLine' /\ Reached' = Foremost /\ (transport = "telegram" => Cursor' = Foremost)
<1> USE ChannelsAssumption
<1>1. /\ Foremost = Reached + 1 /\ Len(batch') = Len(batch) - 1
      /\ \A k \in 1 .. Len(batch) - 1 : batch'[k] = Foremost + k
  BY InFront
<1>2. /\ Reached \in Nat /\ Len(batch) \in Nat \ {0} /\ Len(log) \in Nat /\ offset \in Nat
      /\ confirmed \in Nat /\ Reached + Len(batch) <= Len(log) /\ confirmed <= Cursor
      /\ transport \in {"telegram", "discord"}
  <2>1. batch \in Seq(Message) /\ Len(batch) \in Nat \ {0} /\ Len(log) \in Nat
    BY DEF ChannelsTypeOK
  <2>2. offset \in Nat /\ confirmed \in Nat /\ transport \in {"telegram", "discord"}
    BY DEF ChannelsTypeOK
  <2>3. Reached \in Nat /\ Reached + Len(batch) <= Len(log) /\ confirmed <= Cursor
    BY DEF InLine
  <2> QED BY <2>1, <2>2, <2>3
<1>3. CASE transport = "telegram"
  <2>1. Reached = Cursor /\ Cursor' = Foremost /\ Reached' = Foremost
    BY <1>1, <1>2, <1>3 DEF Reached, Cursor
  <2> QED BY <1>1, <1>2, <2>1 DEF InLine
<1>4. CASE transport = "discord"
  <2>1. Cursor' = Cursor /\ Reached' = Foremost
    BY <1>1, <1>2, <1>4 DEF Reached, Cursor
  <2> QED BY <1>1, <1>2, <1>4, <2>1 DEF InLine
<1> QED BY <1>2, <1>3, <1>4
-------------------------------------------------------------------------------
(* Types.                                                                         *)

LEMMA PollType ==
  ASSUME ChannelsTypeOK, InLine, transport = "telegram", get_updates
  PROVE  /\ Cursor \in 0 .. Len(log) /\ Len(log) \in Nat /\ confirmed' = Cursor
         /\ batch' \in Seq(Message) /\ Len(batch') = Len(log) - Cursor
         /\ \A k \in 1 .. Len(log) - Cursor : batch'[k] = Cursor + k
<1> USE ChannelsAssumption
<1>1. /\ Len(log) \in Nat /\ Len(log) <= MaxMessages /\ Len(batch) \in Nat
      /\ Cursor \in Nat /\ Cursor <= Len(log)
  <2>1. Len(log) \in Nat /\ Len(log) <= MaxMessages /\ Len(batch) \in Nat
    BY DEF ChannelsTypeOK
  <2>2. Cursor \in Nat /\ Cursor + Len(batch) <= Len(log)
    BY DEF InLine, Reached
  <2> QED BY <2>1, <2>2
<1>2. \A i \in 1 .. Len(log) - Cursor : Cursor + i \in Message
  BY <1>1 DEF Message
<1>3. /\ confirmed' = Cursor
      /\ batch' = [i \in 1 .. Len(log) - Cursor |-> Cursor + i]
  BY DEF get_updates
<1>4. Len(log) - Cursor \in Nat
  BY <1>1
<1>5. batch' \in Seq(Message)
  BY <1>2, <1>3, <1>4
<1>6. Len(batch') = Len(log) - Cursor
  BY <1>3, <1>4
<1> QED BY <1>1, <1>3, <1>5, <1>6

LEMMA TypeStep == ASSUME ChannelsTypeOK, InLine, [ChannelsNext]_channelVars PROVE ChannelsTypeOK'
<1> USE ChannelsAssumption
<1>1. CASE UNCHANGED channelVars
  BY <1>1 DEF ChannelsTypeOK, channelVars, host, effects
<1>2. ASSUME NEW chat \in Chat, NEW cmd \in Command, Post(chat, cmd) PROVE ChannelsTypeOK'
  <2>1. Len(log) \in Nat /\ Len(log) + 1 \in Message
    <3>1. Len(log) \in Nat /\ Len(log) < MaxMessages
      BY <1>2 DEF Post, ChannelsTypeOK
    <3> QED BY <3>1 DEF Message
  <2>2. log' \in Seq([chat : Chat, cmd : Command]) /\ Len(log') <= MaxMessages
    <3>1. [chat |-> chat, cmd |-> cmd] \in [chat : Chat, cmd : Command]
      OBVIOUS
    <3>2. log' = Append(log, [chat |-> chat, cmd |-> cmd]) /\ Len(log) < MaxMessages
      BY <1>2 DEF Post
    <3>3. log \in Seq([chat : Chat, cmd : Command])
      BY DEF ChannelsTypeOK
    <3>4. log' \in Seq([chat : Chat, cmd : Command]) /\ Len(log') = Len(log) + 1
      BY <3>1, <3>2, <3>3
    <3> QED BY <2>1, <3>2, <3>4
  <2>3. batch' \in Seq(Message) /\ missed' \subseteq Message
    <3>1. batch \in Seq(Message) /\ missed \subseteq Message
      BY DEF ChannelsTypeOK
    <3>2. batch' \in {batch, Append(batch, Len(log) + 1)}
      BY <1>2 DEF Post
    <3>3. missed' \in {missed, missed \cup {Len(log) + 1}}
      BY <1>2 DEF Post
    <3>4. Append(batch, Len(log) + 1) \in Seq(Message)
      BY <2>1, <3>1
    <3> QED BY <2>1, <3>1, <3>2, <3>3, <3>4
  <2> QED BY <1>2, <2>2, <2>3 DEF Post, ChannelsTypeOK, effects
<1>3. CASE StartHost
  BY <1>3 DEF StartHost, ChannelsTypeOK, effects
<1>4. CASE StopHost
  <2>1. handled \in [Message -> Nat] /\ HostEnds(handled)
    BY <1>4 DEF StopHost, ChannelsTypeOK
  <2> QED BY <1>4, <2>1, EndsType DEF StopHost, ChannelsTypeOK, effects
<1>5. CASE Poll
  <2>1. confirmed' \in 0 .. MaxMessages /\ batch' \in Seq(Message)
    <3>1. transport = "telegram" /\ get_updates
      BY <1>5 DEF Poll
    <3>2. /\ Cursor \in 0 .. Len(log) /\ Len(log) \in Nat /\ confirmed' = Cursor
          /\ batch' \in Seq(Message)
      BY <3>1, PollType
    <3>3. Len(log) <= MaxMessages
      BY DEF ChannelsTypeOK
    <3> QED BY <3>2, <3>3
  <2> QED BY <1>5, <2>1 DEF Poll, ChannelsTypeOK, effects
<1>6. CASE PollFails
  <2>1. Cursor \in 0 .. MaxMessages
    BY <1>6 DEF PollFails, ChannelsTypeOK, InLine, Reached, Cursor
  <2> QED BY <1>6, <2>1 DEF PollFails, ChannelsTypeOK, effects, host
<1>7. CASE Handle \/ HandleRaises
  <2> DEFINE m == Foremost
  <2>1. m \in Message /\ m \in Posted /\ Tail(batch) \in Seq(Message)
    BY <1>7, InFront DEF Handle, HandleRaises, Turn
  <2>2. log[m].chat \in Chat
    <3>1. log \in Seq([chat : Chat, cmd : Command]) /\ m \in 1 .. Len(log)
      BY <2>1 DEF ChannelsTypeOK, Posted
    <3>2. log[m] \in [chat : Chat, cmd : Command]
      BY ONLY <3>1, Element
    <3> QED BY <3>2
  <2> HIDE DEF m
  <2>3. /\ Bump(handled, m) \in [Message -> Nat] /\ Bump(made, m) \in [Message -> Nat]
        /\ Bump(fired, m) \in [Message -> Nat]
    <3>1. \A f \in [Message -> Nat] : Bump(f, m) \in [Message -> Nat]
      BY <2>1 DEF Bump
    <3> QED BY <3>1 DEF ChannelsTypeOK
  <2>4. CASE Handle
    <3>1. /\ offset' = (IF transport = "telegram" THEN m + 1 ELSE offset)
          /\ batch' = Tail(batch) /\ handled' = Bump(handled, m)
          /\ \/ Dispatch(m) /\ outbox' = outbox \cup {m}
             \/ UNCHANGED <<effects, awaiting, outbox>>
          /\ UNCHANGED <<transport, log, missed, confirmed, up, replayable>>
      BY <2>4 DEF Handle, _advance_offset, m
    <3>2. made' \in [Message -> Nat] /\ fired' \in [Message -> Nat]
      BY <2>3, <3>1 DEF Dispatch, ChannelsTypeOK, effects
    <3>3. awaiting' \in Chat \cup {NoChat} /\ outbox' \subseteq Message
      BY <2>1, <2>2, <3>1 DEF Dispatch, ChannelsTypeOK
    <3>4. offset' \in 0 .. MaxMessages + 1
      <4>1. m \in 1 .. MaxMessages /\ MaxMessages \in Nat /\ offset \in 0 .. MaxMessages + 1
        BY <2>1 DEF ChannelsTypeOK, Message
      <4>2. m + 1 \in 0 .. MaxMessages + 1
        BY <4>1
      <4>3. offset' \in {m + 1, offset}
        BY <3>1
      <4> QED BY <4>1, <4>2, <4>3
    <3> QED BY <2>1, <2>3, <3>1, <3>2, <3>3, <3>4 DEF ChannelsTypeOK
  <2>5. CASE HandleRaises
    <3>1. /\ handled' = Bump(handled, m)
          /\ made' \in {made, Bump(made, m)} /\ fired' \in {fired, Bump(fired, m)}
          /\ UNCHANGED <<transport, log, confirmed>>
      BY <2>5 DEF HandleRaises, m
    <3>2. made' \in [Message -> Nat] /\ fired' \in [Message -> Nat] /\ handled' \in [Message -> Nat]
      BY <2>3, <3>1 DEF ChannelsTypeOK
    <3>3. CASE HostEnds(Bump(handled, m))
      BY <2>3, <3>1, <3>2, <3>3, EndsType DEF ChannelsTypeOK
    <3>4. CASE /\ batch' = Tail(batch) /\ awaiting' \in {NoChat, awaiting}
               /\ UNCHANGED <<up, offset, outbox, missed, replayable>>
      BY <2>1, <3>1, <3>2, <3>4 DEF ChannelsTypeOK
    <3> QED BY <2>5, <3>3, <3>4 DEF HandleRaises, m
  <2> QED BY <1>7, <2>4, <2>5
<1>8. ASSUME NEW m \in Message, Reply(m) PROVE ChannelsTypeOK'
  BY <1>8 DEF Reply, ChannelsTypeOK, effects
<1> QED BY <1>1, <1>2, <1>3, <1>4, <1>5, <1>6, <1>7, <1>8 DEF ChannelsNext
-------------------------------------------------------------------------------
(* The line, step by step.                                                        *)

LEMMA PostLine ==
  ASSUME ChannelsTypeOK, InLine, NEW chat \in Chat, NEW cmd \in Command, Post(chat, cmd)
  PROVE  /\ InLine' /\ Cursor' = Cursor
         /\ Reached' = IF transport = "discord" /\ ~up THEN Reached + 1 ELSE Reached
         /\ Len(log') = Len(log) + 1 /\ \A i \in Posted : log'[i] = log[i]
<1>1. /\ UNCHANGED <<transport, confirmed, up, offset, awaiting>>
      /\ log' = Append(log, [chat |-> chat, cmd |-> cmd])
      /\ batch' = IF transport = "discord" /\ up THEN Append(batch, Len(log) + 1) ELSE batch
  BY DEF Post
<1>2. /\ Len(log) \in Nat /\ Len(log') = Len(log) + 1 /\ \A i \in Posted : log'[i] = log[i]
  <2>1. log \in Seq([chat : Chat, cmd : Command])
    BY DEF ChannelsTypeOK
  <2> QED BY <1>1, <2>1 DEF Posted
<1>3. /\ batch \in Seq(Message) /\ Len(batch) \in Nat /\ transport \in {"telegram", "discord"}
      /\ Reached \in Nat /\ Reached + Len(batch) <= Len(log) /\ confirmed <= Cursor
      /\ \A k \in 1 .. Len(batch) : batch[k] = Reached + k
  BY DEF ChannelsTypeOK, InLine
<1>4. Cursor' = Cursor /\ confirmed' <= Cursor'
  BY <1>1, <1>3 DEF Cursor
<1>0. ~up => batch = <<>> /\ awaiting = NoChat
  BY DEF InLine
<1>5. CASE transport = "telegram"
  <2>1. Reached' = Reached /\ batch' = batch
    BY <1>1, <1>4, <1>5 DEF Reached
  <2>2. Reached' \in Nat /\ Reached' + Len(batch') <= Len(log')
    BY <1>2, <1>3, <2>1
  <2>3. \A k \in 1 .. Len(batch') : batch'[k] = Reached' + k
    BY <1>3, <2>1
  <2>4. ~up' => batch' = <<>> /\ awaiting' = NoChat
    BY <1>0, <1>1, <2>1
  <2>5. InLine'
    BY <1>4, <2>2, <2>3, <2>4 DEF InLine
  <2> QED BY <1>2, <1>4, <1>5, <2>1, <2>5
<1>6. CASE transport = "discord" /\ ~up
  <2>1. batch' = <<>> /\ Len(batch') = 0 /\ Len(batch) = 0
    BY <1>1, <1>6 DEF InLine
  <2>2. Reached' = Reached + 1 /\ Reached' = Len(log')
    BY <1>1, <1>2, <1>6, <2>1 DEF Reached
  <2>3. Reached' \in Nat /\ Reached' + Len(batch') <= Len(log')
    BY <1>2, <1>3, <2>1, <2>2
  <2>4. (~up' => batch' = <<>> /\ awaiting' = NoChat) /\ 1 .. Len(batch') = {}
    BY <1>0, <1>1, <2>1
  <2>5. InLine'
    BY <1>4, <2>3, <2>4 DEF InLine
  <2> QED BY <1>2, <1>4, <1>6, <2>2, <2>5
<1>7. CASE transport = "discord" /\ up
  <2>1. /\ Len(batch') = Len(batch) + 1 /\ batch'[Len(batch) + 1] = Len(log) + 1
        /\ \A k \in 1 .. Len(batch) : batch'[k] = batch[k]
    BY <1>1, <1>3, <1>7
  <2>2. Reached = Len(log) - Len(batch) /\ Reached' = Reached
    BY <1>1, <1>2, <1>3, <1>7, <2>1 DEF Reached
  <2>3. \A k \in 1 .. Len(batch') : batch'[k] = Reached' + k
    <3>1. \A k \in 1 .. Len(batch') : k \in 1 .. Len(batch) \/ k = Len(batch) + 1
      BY <1>3, <2>1
    <3> QED BY <1>2, <1>3, <2>1, <2>2, <3>1
  <2>4. Reached' + Len(batch') <= Len(log')
    BY <1>2, <1>3, <2>1, <2>2
  <2> QED BY <1>1, <1>2, <1>3, <1>4, <1>7, <2>2, <2>3, <2>4 DEF InLine
<1> QED BY <1>2, <1>3, <1>4, <1>5, <1>6, <1>7

LEMMA PollLine ==
  ASSUME ChannelsTypeOK, InLine, Poll \/ PollFails
  PROVE  InLine' /\ Cursor' = Cursor /\ Reached' = Reached
<1>1. /\ transport = "telegram" /\ up /\ UNCHANGED <<transport, log, up, offset, awaiting>>
      /\ batch = <<>>
  BY DEF Poll, PollFails, Idle, host
<1>2. Reached = Cursor /\ confirmed <= Cursor /\ Cursor \in Nat /\ Cursor <= Len(log)
  BY <1>1 DEF InLine, Reached
<1>3. Cursor' = Cursor /\ Reached' = Cursor /\ confirmed' <= Cursor
  <2>1. confirmed' \in {confirmed, Cursor}
    BY DEF Poll, PollFails, get_updates
  <2> QED BY <1>1, <1>2, <2>1 DEF Cursor, Reached
<1>4. CASE PollFails
  BY <1>1, <1>2, <1>3, <1>4 DEF InLine, PollFails, host
<1>5. CASE Poll
  <2>1. get_updates
    BY <1>5 DEF Poll
  <2>2. /\ Len(batch') = Len(log) - Cursor /\ Len(log) \in Nat
        /\ \A k \in 1 .. Len(log) - Cursor : batch'[k] = Cursor + k
    BY <1>1, <2>1, PollType
  <2> QED BY <1>1, <1>2, <1>3, <2>2 DEF InLine
<1> QED BY <1>2, <1>3, <1>4, <1>5

\* A step of the host or the outside that leaves the line as it is.
Aside == UNCHANGED channelVars \/ StartHost \/ \E m \in Message : Reply(m)

LEMMA AsideLine ==
  ASSUME InLine, Aside
  PROVE  /\ InLine' /\ Cursor' = Cursor /\ Reached' = Reached
         /\ UNCHANGED <<transport, log, confirmed, awaiting, handled, fired, replayable>>
<1>1. /\ UNCHANGED <<transport, log, confirmed, awaiting, handled, fired, replayable>>
      /\ UNCHANGED <<batch, offset>> /\ (up' = up \/ up' = TRUE)
  BY DEF Aside, channelVars, host, effects, StartHost, Reply
<1>2. Cursor' = Cursor /\ Reached' = Reached
  BY <1>1 DEF Cursor, Reached
<1> QED BY <1>1, <1>2 DEF InLine

\* A message is dispatched, and the host lives on.
HandledAlive ==
  /\ up /\ batch # <<>> /\ batch' = Tail(batch)
  /\ UNCHANGED <<transport, log, confirmed, up>>
  /\ offset' = IF transport = "telegram" THEN Foremost + 1 ELSE offset
  /\ handled' = Bump(handled, Foremost)
  /\ UNCHANGED replayable

\* The engine call for a message raises on Telegram, and the host ends.
HandledDead ==
  /\ up /\ batch # <<>> /\ transport = "telegram"
  /\ UNCHANGED <<transport, log, confirmed>>
  /\ handled' = Bump(handled, Foremost)
  /\ HostEnds(Bump(handled, Foremost))

LEMMA HandledCases ==
  ASSUME ChannelsTypeOK, Handle \/ HandleRaises
  PROVE  HandledAlive \/ HandledDead
<1>1. CASE Handle
  BY <1>1 DEF Handle, HandledAlive, Turn, _advance_offset
<1>2. CASE HandleRaises
  <2>1. CASE transport = "telegram"
    BY <1>2, <2>1 DEF HandleRaises, HandledDead, Turn
  <2>2. CASE transport # "telegram"
    BY <1>2, <2>2 DEF HandleRaises, HandledAlive, Turn
  <2> QED BY <2>1, <2>2
<1> QED BY <1>1, <1>2

LEMMA HandledLine ==
  ASSUME ChannelsTypeOK, InLine, HandledAlive
  PROVE  /\ InLine' /\ Reached' = Foremost /\ (transport = "telegram" => Cursor' = Foremost)
         /\ Foremost \in Message /\ Foremost \in Posted /\ Foremost = Reached + 1
BY MoveOn, InFront DEF HandledAlive
LEMMA LineStep == ASSUME ChannelsTypeOK, InLine, [ChannelsNext]_channelVars PROVE InLine'
<1>1. CASE StopHost
  <2>1. handled \in [Message -> Nat]
    BY DEF ChannelsTypeOK
  <2> QED BY <1>1, <2>1, EndsLine DEF StopHost
<1>2. CASE Handle \/ HandleRaises
  <2>1. CASE HandledDead
    <3>1. Bump(handled, Foremost) \in [Message -> Nat]
      <4>1. Foremost \in Message /\ handled \in [Message -> Nat]
        BY <2>1, InFront DEF HandledDead, ChannelsTypeOK
      <4> HIDE DEF Foremost
      <4> QED BY <4>1 DEF Bump
    <3> QED BY <2>1, <3>1, EndsLine DEF HandledDead
  <2> QED BY <1>2, <2>1, HandledCases, HandledLine
<1> QED BY <1>1, <1>2, PostLine, PollLine, AsideLine DEF ChannelsNext, Aside

-------------------------------------------------------------------------------
(* How often messages are handled.                                                *)

LEMMA CountedStep ==
  ASSUME ChannelsTypeOK, InLine, Counted, [ChannelsNext]_channelVars
  PROVE  Counted'
<1>0. /\ handled \in [Message -> Nat] /\ replayable \in [Message -> Nat]
      /\ Message \subseteq Nat /\ Reached \in Nat /\ confirmed \in Nat /\ confirmed <= Cursor
      /\ Cursor \in Nat /\ transport \in {"telegram", "discord"} /\ Len(log) \in Nat
      /\ offset \in Nat
  BY DEF ChannelsTypeOK, Message, InLine, Cursor
<1>1. CASE Aside \/ Poll \/ PollFails
  <2>1. /\ Cursor' = Cursor /\ Reached' = Reached
        /\ UNCHANGED <<transport, handled, replayable>>
    BY <1>1, PollLine, AsideLine DEF Poll, PollFails
  <2> QED BY <2>1 DEF Counted
<1>2. ASSUME NEW chat \in Chat, NEW cmd \in Command, Post(chat, cmd) PROVE Counted'
  <2>1. Cursor' = Cursor /\ Reached' \in {Reached, Reached + 1}
        /\ UNCHANGED <<transport, handled, replayable>>
    BY <1>2, PostLine DEF Post
  <2>2. \A m \in Message : m <= Reached => m <= Reached'
    BY <1>0, <2>1
  <2>3. ASSUME NEW m \in Message
        PROVE  handled[m] <= (IF transport = "telegram" THEN replayable[m] ELSE 0)
                               + (IF m <= Reached' THEN 1 ELSE 0)
    BY <1>0, <2>2 DEF Counted
  <2> QED BY <2>1, <2>3 DEF Counted
<1>3. ASSUME NEW seen \in [Message -> Nat], HostEnds(seen), UNCHANGED <<transport, log, confirmed>>,
             handled' = seen,
             transport = "discord" => seen = handled,
             transport = "telegram" => \A m \in Message : m <= confirmed => seen[m] > 0,
             transport = "telegram" => \A m \in Message : seen[m] <= replayable[m] + 1,
             transport = "telegram" => \A m \in Message : m <= confirmed => handled[m] = seen[m]
      PROVE  Counted'
  <2>1. /\ transport = "telegram" => Reached' = confirmed /\ Cursor' = confirmed
        /\ transport = "discord" => Reached' = Len(log)
    BY <1>3, EndsLine
  <2>2. \A m \in Message : replayable'[m] =
            IF seen[m] > 0 /\ m > confirmed THEN replayable[m] + 1 ELSE replayable[m]
    BY <1>3 DEF HostEnds
  <2>3. CASE transport = "telegram"
    <3>1. \A m \in Message : m <= Cursor' => handled'[m] > 0
      BY <1>3, <2>1, <2>3
    <3>2. ASSUME NEW m \in Message
          PROVE  handled'[m] <= replayable'[m] + (IF m <= Reached' THEN 1 ELSE 0)
      <4>1. m \in Nat /\ seen[m] \in Nat /\ replayable[m] \in Nat /\ seen[m] <= replayable[m] + 1
        BY <1>0, <1>3, <2>3
      <4>2. Reached' = confirmed /\ handled'[m] = seen[m]
        BY <1>3, <2>1, <2>3
      <4> QED BY <1>0, <2>2, <4>1, <4>2
    <3> QED BY <1>3, <2>3, <3>1, <3>2 DEF Counted
  <2>4. CASE transport = "discord"
    <3>1. Reached <= Len(log)
      BY <1>0 DEF InLine, ChannelsTypeOK
    <3>2. \A m \in Message : handled[m] <= (IF m <= Reached' THEN 1 ELSE 0)
      BY <1>0, <2>1, <2>4, <3>1 DEF Counted
    <3> QED BY <1>3, <2>4, <3>2 DEF Counted
  <2> QED BY <1>0, <2>3, <2>4
<1>4. CASE StopHost
  <2>1. transport = "telegram" => \A m \in Message : handled[m] <= replayable[m] + 1
    BY <1>0 DEF Counted
  <2>2. transport = "telegram" => \A m \in Message : m <= confirmed => handled[m] > 0
    BY <1>0 DEF Counted
  <2> QED BY <1>0, <1>3, <1>4, <2>1, <2>2 DEF StopHost
<1>5. CASE HandledDead
  <2> DEFINE seen == Bump(handled, Foremost)
  <2>1. /\ Foremost \in Message /\ Foremost = Reached + 1 /\ transport = "telegram"
        /\ Reached = Cursor
    BY <1>5, InFront DEF HandledDead, Reached
  <2>2. /\ seen \in [Message -> Nat]
        /\ \A m \in Message : seen[m] = IF m = Foremost THEN handled[m] + 1 ELSE handled[m]
    BY <1>0, <2>1 DEF Bump
  <2> HIDE DEF seen
  <2>3. ASSUME NEW m \in Message PROVE seen[m] <= replayable[m] + 1
    <3>1. handled[m] <= replayable[m] + (IF m <= Reached THEN 1 ELSE 0)
      BY <2>1 DEF Counted
    <3> QED BY <1>0, <2>1, <2>2, <3>1
  <2>4. ASSUME NEW m \in Message, m <= confirmed PROVE seen[m] > 0 /\ seen[m] = handled[m]
    <3>1. handled[m] > 0
      BY <1>0, <2>1, <2>4 DEF Counted
    <3> QED BY <1>0, <2>1, <2>2, <2>4, <3>1
  <2>5. HostEnds(seen) /\ handled' = seen /\ UNCHANGED <<transport, log, confirmed>>
    BY <1>5 DEF HandledDead, seen
  <2> QED BY <1>3, <2>1, <2>2, <2>3, <2>4, <2>5
<1>6. CASE HandledAlive
  <2>1. /\ Foremost \in Message /\ Foremost = Reached + 1 /\ Reached' = Foremost
        /\ transport = "telegram" => Cursor' = Foremost /\ Reached = Cursor
        /\ transport' = transport /\ replayable' = replayable
    BY <1>6, HandledLine DEF HandledAlive, Reached
  <2>2. \A m \in Message : handled'[m] = IF m = Foremost THEN handled[m] + 1 ELSE handled[m]
    BY <1>0, <1>6, <2>1 DEF HandledAlive, Bump
  <2>3. ASSUME transport = "telegram", NEW m \in Message, m <= Cursor' PROVE handled'[m] > 0
    <3>1. m = Foremost \/ m <= Cursor
      BY <1>0, <2>1, <2>3
    <3> QED BY <1>0, <2>2, <2>3, <3>1 DEF Counted
  <2>4. ASSUME NEW m \in Message
        PROVE  handled'[m] <= (IF transport = "telegram" THEN replayable[m] ELSE 0)
                                + (IF m <= Reached' THEN 1 ELSE 0)
    <3>1. handled[m] <= (IF transport = "telegram" THEN replayable[m] ELSE 0)
                          + (IF m <= Reached THEN 1 ELSE 0)
      BY DEF Counted
    <3> QED BY <1>0, <2>1, <2>2, <3>1
  <2> QED BY <2>1, <2>3, <2>4 DEF Counted
<1> QED BY <1>1, <1>2, <1>4, <1>5, <1>6, HandledCases DEF ChannelsNext, Aside
-------------------------------------------------------------------------------
(* The two steps of the kill switch.                                              *)

\* Someone's question is open: chat may confirm at r + 1.
Open(chat, r) == Serves(chat) /\ \E a \in 1 .. r : AskedAt(a, chat, r)

(* An answer that is not the chat's confirmation, nor a new question, leaves it open. *)
LEMMA OpenStays ==
  ASSUME NEW chat, NEW r \in Nat, Open(chat, r),
         ~(log[r + 1].cmd = "killswitch" /\ Serves(log[r + 1].chat)),
         log[r + 1] # [chat |-> chat, cmd |-> "confirm"]
  PROVE  Open(chat, r + 1)
<1>1. PICK a \in 1 .. r : AskedAt(a, chat, r)
  BY DEF Open
<1>2. a \in 1 .. r + 1
  OBVIOUS
<1>3. \A i \in a + 1 .. r + 1 : i \in a + 1 .. r \/ i = r + 1
  OBVIOUS
<1>4. AskedAt(a, chat, r + 1)
  BY <1>1, <1>3 DEF AskedAt
<1> QED BY <1>2, <1>4 DEF Open

(* Posting does not change what was posted.                                       *)
LEMMA OpenPosted ==
  ASSUME NEW chat, NEW r \in Nat, Open(chat, r), r <= Len(log), Len(log) \in Nat,
         \A i \in Posted : log'[i] = log[i]
  PROVE  Serves(chat) /\ \E a \in 1 .. r : AskedAt(a, chat, r)'
<1>1. PICK a \in 1 .. r : AskedAt(a, chat, r)
  BY DEF Open
<1>2. a \in Posted /\ \A i \in a + 1 .. r : i \in Posted
  BY DEF Posted
<1>3. AskedAt(a, chat, r)'
  BY <1>1, <1>2 DEF AskedAt, Serves
<1> QED BY <1>3 DEF Open

LEMMA AwaitedStep ==
  ASSUME ChannelsTypeOK, InLine, AwaitedAsked, [ChannelsNext]_channelVars
  PROVE  AwaitedAsked'
<1>0. /\ awaiting # NoChat => Open(awaiting, Reached)
      /\ Reached \in Nat /\ Len(log) \in Nat /\ Reached <= Len(log)
  BY DEF AwaitedAsked, Open, InLine, ChannelsTypeOK
<1>1. CASE Aside \/ Poll \/ PollFails
  <2>1. Reached' = Reached /\ UNCHANGED <<log, awaiting>>
    BY <1>1, PollLine, AsideLine DEF Poll, PollFails, host
  <2> QED BY <2>1 DEF AwaitedAsked, AskedAt, Serves
<1>2. ASSUME NEW chat \in Chat, NEW cmd \in Command, Post(chat, cmd) PROVE AwaitedAsked'
  <2>1. /\ Reached' = IF transport = "discord" /\ ~up THEN Reached + 1 ELSE Reached
        /\ \A i \in Posted : log'[i] = log[i]
        /\ awaiting' = awaiting
    BY <1>2, PostLine DEF Post
  <2>2. CASE awaiting = NoChat
    BY <2>1, <2>2 DEF AwaitedAsked
  <2>3. CASE awaiting # NoChat
    <3>1. Reached' = Reached
      BY <2>1, <2>3 DEF InLine
    <3>2. PICK chosen \in Chat \cup {NoChat}, r \in Nat : chosen = awaiting /\ r = Reached
      BY <1>0 DEF ChannelsTypeOK
    <3>3. Serves(chosen) /\ \E a \in 1 .. r : AskedAt(a, chosen, r)'
      BY <1>0, <2>1, <2>3, <3>2, OpenPosted
    <3>4. awaiting' = chosen /\ Reached' = r
      BY <2>1, <3>1, <3>2
    <3> QED BY <3>3, <3>4 DEF AwaitedAsked, AskedAt, Serves
  <2> QED BY <2>2, <2>3
<1>3. CASE StopHost \/ HandledDead
  <2>1. awaiting' = NoChat
    BY <1>3 DEF StopHost, HandledDead, HostEnds
  <2> QED BY <2>1 DEF AwaitedAsked
<1>4. CASE (Handle \/ HandleRaises) /\ HandledAlive
  <2>1. /\ Foremost = Reached + 1 /\ Reached' = Reached + 1 /\ log' = log
        /\ Foremost \in Posted
    BY <1>4, HandledLine DEF HandledAlive
  <2> DEFINE m == Foremost
             asks == log[m].cmd = "killswitch" /\ Serves(log[m].chat)
             confirms == Serves(log[m].chat) /\ log[m].cmd = "confirm" /\ awaiting = log[m].chat
  <2>2. log[m] \in [chat : Chat, cmd : Command]
    BY <2>1, Element DEF ChannelsTypeOK, Posted
  <2>3. \/ asks /\ awaiting' = log[m].chat
        \/ awaiting' = NoChat
        \/ ~asks /\ ~confirms /\ awaiting' = awaiting
    BY <1>4 DEF Handle, Dispatch, HandleRaises, HandledAlive, HostEnds, effects
  <2>4. CASE asks /\ awaiting' = log[m].chat
    <3>1. log[m] = [chat |-> awaiting', cmd |-> "killswitch"]
      BY <2>2, <2>4
    <3>2. m + 1 .. Reached' = {} /\ m \in 1 .. Reached'
      BY <1>0, <2>1
    <3> QED BY <2>1, <2>4, <3>1, <3>2 DEF AwaitedAsked, AskedAt, Serves
  <2>5. CASE ~asks /\ ~confirms /\ awaiting' = awaiting /\ awaiting # NoChat
    <3>1. log[m] # [chat |-> awaiting, cmd |-> "confirm"]
      BY <1>0, <2>5 DEF Open
    <3>2. Open(awaiting, Reached + 1)
      BY <1>0, <2>1, <2>5, <3>1, OpenStays
    <3> QED BY <2>1, <2>5, <3>2 DEF Open, AwaitedAsked, AskedAt, Serves
  <2> QED BY <2>3, <2>4, <2>5 DEF AwaitedAsked
<1> QED BY <1>1, <1>2, <1>3, <1>4, HandledCases DEF ChannelsNext, Aside

LEMMA ConfirmStep ==
  ASSUME ChannelsTypeOK, InLine, AwaitedAsked, FiredPosted, ConfirmFollowsAsk,
         [ChannelsNext]_channelVars
  PROVE  FiredPosted' /\ ConfirmFollowsAsk'
<1> USE ChannelsAssumption
<1>0. Len(log) \in Nat /\ fired \in [Message -> Nat] /\ Posted \subseteq Message
  BY DEF ChannelsTypeOK, Posted, Message
<1> DEFINE Right(m) ==
      /\ log[m].cmd = "confirm" /\ Serves(log[m].chat)
      /\ \E a \in 1 .. m - 1 :
           /\ log[a] = [chat |-> log[m].chat, cmd |-> "killswitch"]
           /\ \A i \in a + 1 .. m - 1 :
                /\ ~(log[i].cmd = "killswitch" /\ Serves(log[i].chat))
                /\ log[i] # log[m]
<1>1. CASE UNCHANGED <<log, fired>>
  BY <1>1 DEF ConfirmFollowsAsk, FiredPosted, Posted, Serves
<1>2. ASSUME NEW chat \in Chat, NEW cmd \in Command, Post(chat, cmd)
      PROVE  FiredPosted' /\ ConfirmFollowsAsk'
  <2>1. /\ Len(log') = Len(log) + 1 /\ \A i \in Posted : log'[i] = log[i]
        /\ fired' = fired /\ Len(log) < MaxMessages
    BY <1>2, PostLine DEF Post, effects
  <2>2. FiredPosted'
    BY <1>0, <2>1 DEF FiredPosted, Posted
  <2>3. ASSUME NEW m \in Posted', fired'[m] > 0 PROVE Right(m)'
    <3>0. m \in Message
      BY <1>0, <2>1, <2>3 DEF Posted, Message
    <3>1. m \in Posted /\ Right(m) /\ m \in Nat
      <4>1. m \in Posted
        BY <2>1, <2>3, <3>0 DEF FiredPosted
      <4>2. Right(m)
        BY <2>1, <2>3, <4>1 DEF ConfirmFollowsAsk
      <4> QED BY <4>1, <4>2 DEF Posted
    <3>2. \A i \in 1 .. m : i \in Posted
      BY <1>0, <3>1 DEF Posted
    <3>3. PICK a \in 1 .. m - 1 :
           /\ log[a] = [chat |-> log[m].chat, cmd |-> "killswitch"]
           /\ \A i \in a + 1 .. m - 1 :
                /\ ~(log[i].cmd = "killswitch" /\ Serves(log[i].chat))
                /\ log[i] # log[m]
      BY <3>1
    <3>4. \A i \in a .. m : i \in Posted /\ log'[i] = log[i]
      BY <2>1, <3>1, <3>2
    <3>5. a \in a .. m /\ m \in a .. m /\ \A i \in a + 1 .. m - 1 : i \in a .. m
      BY <3>1
    <3> QED BY <3>1, <3>3, <3>4, <3>5 DEF Serves
  <2> QED BY <2>2, <2>3 DEF ConfirmFollowsAsk
<1>3. CASE Handle \/ HandleRaises
  <2> DEFINE m == Foremost
             confirms == Serves(log[m].chat) /\ log[m].cmd = "confirm" /\ awaiting = log[m].chat
  <2>1. /\ m = Reached + 1 /\ m \in Posted /\ m \in Message /\ Reached \in Nat
        /\ log' = log /\ m - 1 = Reached
    BY <1>3, InFront DEF Handle, HandleRaises, Turn, InLine
  <2>2. log[m] \in [chat : Chat, cmd : Command]
    BY <2>1, Element DEF ChannelsTypeOK, Posted
  <2>3. fired' = fired \/ (confirms /\ fired' = Bump(fired, m))
    BY <1>3 DEF Handle, Dispatch, HandleRaises, effects
  <2>4. CASE confirms /\ fired' = Bump(fired, m)
    <3>1. log[m] = [chat |-> awaiting, cmd |-> "confirm"] /\ awaiting # NoChat
      BY <2>2, <2>4
    <3>2. PICK a \in 1 .. Reached : AskedAt(a, awaiting, Reached)
      BY <3>1 DEF AwaitedAsked
    <3>3. Right(m)
      BY <2>1, <2>4, <3>1, <3>2 DEF AskedAt
    <3>4. \A n \in Message : fired'[n] > 0 => n = m \/ fired[n] > 0
      BY <1>0, <2>1, <2>4 DEF Bump
    <3>5. FiredPosted'
      BY <2>1, <3>4 DEF FiredPosted, Posted
    <3>6. ASSUME NEW n \in Posted', fired'[n] > 0 PROVE Right(n)'
      <4>1. n \in Posted /\ Right(n)
        BY <1>0, <2>1, <3>3, <3>4, <3>6 DEF ConfirmFollowsAsk, Posted
      <4> QED BY <2>1, <4>1 DEF Serves
    <3> QED BY <3>5, <3>6 DEF ConfirmFollowsAsk
  <2> QED BY <1>1, <2>1, <2>3, <2>4
<1>4. CASE Aside \/ Poll \/ PollFails \/ StopHost
  BY <1>1, <1>4, AsideLine DEF Poll, PollFails, StopHost, effects
<1> QED BY <1>2, <1>3, <1>4 DEF ChannelsNext, Aside

-------------------------------------------------------------------------------
LEMMA StepCInv == CInv /\ [ChannelsNext]_channelVars => CInv'
BY TypeStep, LineStep, AwaitedStep, CountedStep, ConfirmStep DEF CInv

(* Types, on both transports.                                                     *)
THEOREM TypeCorrect == ChannelsSpec => []ChannelsTypeOK
<1>1. CInv => ChannelsTypeOK
  BY DEF CInv
<1> QED BY InitCInv, StepCInv, <1>1, PTL DEF ChannelsSpec

(* A kill switch fires only on the confirmation of the chat that asked for it     *)
(* last, whatever is replayed, lost or interleaved.                               *)
THEOREM TwoSteps == ChannelsSpec => []ConfirmFollowsAsk
<1>1. CInv => ConfirmFollowsAsk
  BY DEF CInv
<1> QED BY InitCInv, StepCInv, <1>1, PTL DEF ChannelsSpec

(* Telegram forgets nothing unhandled, and a message is handled once more at most *)
(* for every host that ended between handling and confirming it.                  *)
THEOREM HandledOnceOnly == ChannelsSpec => []HandledOnce
<1>1. CInv => HandledOnce
  <2> SUFFICES ASSUME CInv PROVE HandledOnce
    OBVIOUS
  <2>1. /\ confirmed \in 0 .. MaxMessages /\ handled \in [Message -> Nat]
        /\ replayable \in [Message -> Nat] /\ Reached \in Nat /\ confirmed <= Cursor
        /\ Cursor \in Nat
    BY ChannelsAssumption DEF CInv, ChannelsTypeOK, InLine, Cursor
  <2>2. transport = "telegram" => \A m \in 1 .. confirmed : handled[m] > 0
    <3>1. \A m \in 1 .. confirmed : m \in Message /\ m <= Cursor
      BY <2>1, ChannelsAssumption DEF Message
    <3> QED BY <3>1 DEF CInv, Counted
  <2>3. ASSUME NEW m \in Message
        PROVE  handled[m] <= 1 + IF transport = "telegram" THEN replayable[m] ELSE 0
    <3>1. handled[m] <= (IF transport = "telegram" THEN replayable[m] ELSE 0)
                          + (IF m <= Reached THEN 1 ELSE 0)
      BY DEF CInv, Counted
    <3> QED BY <2>1, <3>1
  <2> QED BY <2>2, <2>3 DEF HandledOnce
<1> QED BY InitCInv, StepCInv, <1>1, PTL DEF ChannelsSpec
===============================================================================
