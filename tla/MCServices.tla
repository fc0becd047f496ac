------------------------------ MODULE MCServices ------------------------------
(***************************************************************************)
(* Three components that do not call each other, one in each behaviour:    *)
(* the webhook surface, the notification router and the provider health    *)
(* tracker.                                                                *)
(***************************************************************************)
EXTENDS Webhooks, Notifications, Providers

VARIABLE focus

MCInit ==
  /\ WebhooksInit /\ NotificationsInit /\ ProvidersInit
  /\ focus \in {"webhooks", "notifications", "providers"}

MCNext ==
  /\ UNCHANGED focus
  /\ \/ focus = "webhooks" /\ WebhooksNext /\ UNCHANGED <<notifyVars, providerVars>>
     \/ focus = "notifications" /\ NotificationsNext /\ UNCHANGED <<webhookVars, providerVars>>
     \/ focus = "providers" /\ ProvidersNext /\ UNCHANGED <<webhookVars, notifyVars>>

MCSpec == MCInit /\ [][MCNext]_<<webhookVars, notifyVars, providerVars, focus>>

\* Providers are alike.
Alike == Permutations(Provider)

\* Sound letters, one of them early and one late enough for the first nonce to be
\* forgotten, and one flawed letter of each kind.
aNonce == CHOOSE n \in Nonce : TRUE
Sound(n, s) == [source |-> CHOOSE k \in Known : TRUE, nonce |-> n, stamp |-> s, flaw |-> "none"]
MCLetter ==
  {Sound(aNonce, 1)} \cup {Sound(n, 3) : n \in Nonce} \cup
  [source : Known, nonce : {aNonce}, stamp : {1},
   flaw : {"invalid-payload", "bad-signature", "event-type-not-allowed"}] \cup
  [source : Source \ Known, nonce : {aNonce}, stamp : {1}, flaw : {"none"}]

\* The dashboard's feed, with a digest, the terminal app, and a chat channel with two chats.
Policy(kind, digests, hushed, most, count) ==
  [sink |-> kind, digest |-> digests, quiet |-> hushed, limit |-> most, chats |-> count]
MCSubscribers ==
  <<Policy("feed", TRUE, TRUE, 2, 0), Policy("toasts", FALSE, TRUE, 1, 0),
    Policy("chat", FALSE, TRUE, 2, 2)>>
===============================================================================
