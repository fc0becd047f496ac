------------------------------ MODULE Channels ------------------------------
(* The two chat channels as operator surfaces: the host loop that fetches or     *)
(* receives messages, and the commander that maps the allow-listed commands to   *)
(* the task store, the approval ledger and the kill switch                       *)
(* (gateway/telegram.py, gateway/discord.py, cli.py).                            *)
(*                                                                               *)
(* Telegram keeps what was posted until a later getUpdates confirms it; Discord  *)
(* pushes a message once, to a host that is up.  The engines are reduced to what *)
(* a command leaves behind in them.                                              *)
EXTENDS Naturals, Sequences, FiniteSets, SequencesExt

CONSTANTS Chat,         \* chats (Telegram) or channels (Discord) that write to the bot
          Listed,       \* the configured allow-list
          NoChat,
          Supply,       \* how often each command is posted (bound)
          MaxMessages,  \* messages posted in all (bound)
          MaxFaults,    \* requests to the chat service that fail (bound)
          MaxCrashes    \* times the host process ends (bound)

Command == {"new", "grant", "killswitch", "confirm", "other"}
Message == 1 .. MaxMessages

ASSUME ChannelsAssumption ==
  /\ NoChat \notin Chat /\ Listed \subseteq Chat
  /\ Supply \in [Command -> Nat]
  /\ MaxMessages \in Nat /\ MaxFaults \in Nat /\ MaxCrashes \in Nat

VARIABLES transport,  \* "telegram" or "discord", never changes
          log,        \* everything posted; a message's number is its place
          missed,     \* messages Discord pushed to nobody, or to a host that ended
          confirmed,  \* Telegram's server forgets the messages up to this one
          up,         \* the host runs
          offset,     \* _offset: 0 stands for None, else the next number wanted
          batch,      \* fetched or pushed, not dispatched yet
          awaiting,   \* _pending_killswitch
          outbox,     \* dispatched messages whose reply is being sent
          handled,    \* how often each message was dispatched or dropped
          made,       \* tasks each message created
          fired,      \* kill switches each message triggered
          faults,
          crashes,
          replayable  \* host ends that found the message handled, not confirmed

host == <<up, offset, batch, awaiting, outbox>>
effects == <<made, fired>>
channelVars == <<transport, log, missed, confirmed, host, handled, effects,
                 faults, crashes, replayable>>

ChannelsInit ==
  /\ transport \in {"telegram", "discord"}
  /\ log = <<>> /\ missed = {} /\ confirmed = 0
  /\ up = FALSE /\ offset = 0 /\ batch = <<>> /\ awaiting = NoChat /\ outbox = {}
  /\ handled = [m \in Message |-> 0]
  /\ made = [m \in Message |-> 0]
  /\ fired = [m \in Message |-> 0]
  /\ faults = 0 /\ crashes = 0
  /\ replayable = [m \in Message |-> 0]

Posted == 1 .. Len(log)
Bump(f, m) == [f EXCEPT ![m] = @ + 1]

\* An empty allow-list serves every chat.
Serves(chat) == Listed = {} \/ chat \in Listed

\* The process ends: the cursor, the rest of the batch, the pending confirmation
\* and the replies under way are gone.
HostEnds(seen) ==
  /\ up' = FALSE /\ offset' = 0 /\ batch' = <<>> /\ awaiting' = NoChat /\ outbox' = {}
  /\ crashes' = crashes + 1
  /\ missed' = IF transport = "discord" THEN missed \cup ToSet(batch) ELSE missed
  /\ replayable' = [m \in Message |->
       IF seen[m] > 0 /\ m > confirmed THEN replayable[m] + 1 ELSE replayable[m]]

-----------------------------------------------------------------------------
(* The outside: chats post, the operator starts the host, the host dies.         *)

Post(chat, cmd) ==
  /\ Len(log) < MaxMessages
  /\ Cardinality({m \in Posted : log[m].cmd = cmd}) < Supply[cmd]
  /\ log' = Append(log, [chat |-> chat, cmd |-> cmd])
  /\ IF transport = "discord" /\ up
       THEN batch' = Append(batch, Len(log) + 1) /\ UNCHANGED missed
       ELSE /\ UNCHANGED batch
            /\ missed' = IF transport = "discord" THEN missed \cup {Len(log) + 1} ELSE missed
  /\ UNCHANGED <<transport, confirmed, up, offset, awaiting, outbox, handled, effects,
                 faults, crashes, replayable>>

StartHost ==
  /\ ~up
  /\ up' = TRUE
  /\ UNCHANGED <<transport, log, missed, confirmed, offset, batch, awaiting, outbox,
                 handled, effects, faults, crashes, replayable>>

\* Stopped, killed, or ended by a scheduler tick that raises (Telegram, Discord) or
\* by the gateway connection (Discord).
StopHost ==
  /\ up /\ crashes < MaxCrashes
  /\ HostEnds(handled)
  /\ UNCHANGED <<transport, log, confirmed, handled, effects, faults>>

-----------------------------------------------------------------------------
(* Telegram's poll: the offset confirms everything below it, and all that is     *)
(* left comes back, whether this host has seen it before or not.                 *)

Idle == batch = <<>> /\ outbox = {}
Cursor == IF offset = 0 THEN confirmed ELSE offset - 1

get_updates ==
  /\ confirmed' = Cursor
  /\ batch' = [i \in 1 .. Len(log) - Cursor |-> Cursor + i]

\* Mutant of Poll: a host polls once.
PollsOnce ==
  /\ transport = "telegram" /\ up /\ Idle /\ offset = 0
  /\ Cursor < Len(log)
  /\ get_updates
  /\ UNCHANGED <<transport, log, missed, up, offset, awaiting, outbox, handled, effects,
                 faults, crashes, replayable>>

Poll ==
  /\ transport = "telegram" /\ up /\ Idle
  /\ Cursor < Len(log) \/ Cursor # confirmed
  /\ get_updates
  /\ UNCHANGED <<transport, log, missed, up, offset, awaiting, outbox, handled, effects,
                 faults, crashes, replayable>>

\* The request or its answer is lost; poll_once() journals that and returns.
PollFails ==
  /\ transport = "telegram" /\ up /\ Idle /\ faults < MaxFaults
  /\ faults' = faults + 1
  /\ confirmed' \in {confirmed, Cursor}
  /\ UNCHANGED <<transport, log, missed, host, handled, effects, crashes, replayable>>

-----------------------------------------------------------------------------
(* The commander.  Its dispatch is synchronous; only the reply is awaited.       *)

\* Mutant of Dispatch: any chat may confirm what another has asked for.
DispatchAnyChat(m) ==
  LET chat == log[m].chat
      cmd == log[m].cmd
      confirms == cmd = "confirm" /\ awaiting # NoChat IN
  /\ made' = IF cmd = "new" THEN Bump(made, m) ELSE made
  /\ fired' = IF confirms THEN Bump(fired, m) ELSE fired
  /\ awaiting' = IF cmd = "killswitch" THEN chat ELSE IF confirms THEN NoChat ELSE awaiting

\* What a command does when the engine call returns.
Dispatch(m) ==
  LET chat == log[m].chat
      cmd == log[m].cmd
      confirms == cmd = "confirm" /\ awaiting = chat IN
  /\ made' = IF cmd = "new" THEN Bump(made, m) ELSE made
  /\ fired' = IF confirms THEN Bump(fired, m) ELSE fired
  /\ awaiting' = IF cmd = "killswitch" THEN chat
                 ELSE IF confirms THEN NoChat ELSE awaiting

\* Telegram serves one update after the other, its reply included; Discord runs a
\* task for each message, and only the dispatch of one precedes that of the next.
Foremost == Head(batch)
Turn == up /\ batch # <<>> /\ (transport = "telegram" => outbox = {})

\* Mutant of _advance_offset: what was fetched last is fetched again.
OffsetAtLast(m) == offset' = IF transport = "telegram" THEN m ELSE offset

_advance_offset(m) == offset' = IF transport = "telegram" THEN m + 1 ELSE offset

Handle ==
  LET m == Foremost IN
  /\ Turn
  /\ _advance_offset(m)
  /\ batch' = Tail(batch)
  /\ handled' = Bump(handled, m)
  /\ IF Serves(log[m].chat)
       THEN Dispatch(m) /\ outbox' = outbox \cup {m}
       ELSE UNCHANGED <<effects, awaiting, outbox>>
  /\ UNCHANGED <<transport, log, missed, confirmed, up, faults, crashes, replayable>>

\* The engine call raises, before or after it has written; only the approval calls
\* are caught.  Telegram's loop ends with it, py-cord logs it and goes on.
HandleRaises ==
  LET m == Foremost
      confirms == log[m].cmd = "confirm" /\ awaiting = log[m].chat IN
  /\ Turn /\ crashes < MaxCrashes /\ Serves(log[m].chat)
  /\ log[m].cmd \in {"new", "other"} \/ confirms
  /\ handled' = Bump(handled, m)
  /\ made' \in {made, IF log[m].cmd = "new" THEN Bump(made, m) ELSE made}
  /\ fired' \in {fired, IF confirms THEN Bump(fired, m) ELSE fired}
  /\ IF transport = "telegram"
       THEN HostEnds(Bump(handled, m))
       ELSE /\ batch' = Tail(batch)
            /\ awaiting' = IF confirms THEN NoChat ELSE awaiting
            /\ crashes' = crashes + 1
            /\ UNCHANGED <<up, offset, outbox, missed, replayable>>
  /\ UNCHANGED <<transport, log, confirmed, faults>>

\* A reply that cannot be sent is journaled and given up.
Reply(m) ==
  /\ m \in outbox
  /\ outbox' = outbox \ {m}
  /\ faults' \in {faults, faults + 1} /\ faults' <= MaxFaults
  /\ UNCHANGED <<transport, log, missed, confirmed, up, offset, batch, awaiting, handled,
                 effects, crashes, replayable>>

ChannelsNext ==
  \/ \E chat \in Chat, cmd \in Command : Post(chat, cmd)
  \/ StartHost \/ StopHost
  \/ Poll \/ PollFails
  \/ Handle \/ HandleRaises
  \/ \E m \in Message : Reply(m)

\* A host that is up goes on polling and dispatching; nobody has to start it.
ChannelsFairness ==
  /\ WF_channelVars(Poll)
  /\ WF_channelVars(Handle)
  /\ \A m \in Message : WF_channelVars(Reply(m))

ChannelsSpec == ChannelsInit /\ [][ChannelsNext]_channelVars /\ ChannelsFairness

-----------------------------------------------------------------------------
ChannelsTypeOK ==
  /\ transport \in {"telegram", "discord"}
  /\ log \in Seq([chat : Chat, cmd : Command]) /\ Len(log) <= MaxMessages
  /\ missed \subseteq Message /\ confirmed \in 0 .. MaxMessages
  /\ up \in BOOLEAN
  /\ offset \in 0 .. MaxMessages + 1
  /\ batch \in Seq(Message) /\ outbox \subseteq Message
  /\ awaiting \in Chat \cup {NoChat}
  /\ handled \in [Message -> Nat] /\ replayable \in [Message -> Nat]
  /\ made \in [Message -> Nat] /\ fired \in [Message -> Nat]

\* "killswitch requires the explicit /confirm two-step" (telegram.py:244, and
\* discord.py:241): whatever is lost, replayed or interleaved, a kill switch fires
\* on the confirmation of a chat that had asked for it, and between the two no other
\* chat asked and that chat did not already confirm.
ConfirmFollowsAsk ==
  \A m \in Posted : fired[m] > 0 =>
    /\ log[m].cmd = "confirm" /\ Serves(log[m].chat)
    /\ \E a \in 1 .. m - 1 :
         /\ log[a] = [chat |-> log[m].chat, cmd |-> "killswitch"]
         /\ \A i \in a + 1 .. m - 1 :
              /\ ~(log[i].cmd = "killswitch" /\ Serves(log[i].chat))
              /\ log[i] # log[m]

\* Telegram forgets no message that no host has handled, and none is handled again
\* but for a host that ended before it had confirmed it: then the whole of its last
\* batch is, commands already carried out included.  Discord handles none twice.
HandledOnce ==
  /\ transport = "telegram" => \A m \in 1 .. confirmed : handled[m] > 0
  /\ \A m \in Message : handled[m] <= 1 + IF transport = "telegram" THEN replayable[m] ELSE 0

\* A message posted to a host that stays up is handled: those Discord could not push
\* are the only ones lost.
MessagesHandled ==
  \A m \in Message :
    (m \in Posted \ missed /\ up) ~> (handled[m] > 0 \/ ~up)
=============================================================================
