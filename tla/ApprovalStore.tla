----------------------------- MODULE ApprovalStore -----------------------------
(***************************************************************************)
(* The durable approval ledger (persistence/approvals_store.py): one       *)
(* SQLite table, opened by every surface (TUI, web, Telegram, Discord, the *)
(* runtime) through a connection and an ApprovalStore object of its own.   *)
(*                                                                         *)
(* Each statement is a transaction; a call is not.  grant(), deny(),       *)
(* resolve() and reap_expired() read the table and later write the status  *)
(* by request id alone, so the calls of two surfaces interleave between    *)
(* the read and the write.  create() numbers requests with a counter of    *)
(* the object, which a restart sets back to 0; the table survives.         *)
(*                                                                         *)
(* consent and raced are history variables: no code reads them.            *)
(***************************************************************************)
EXTENDS Naturals

CONSTANTS
  Surface,   \* processes with the ledger open
  Action,    \* what subject and action_hash tell apart
  Validity,  \* validity_seconds of create()
  MaxId,     \* bound: requests a counter may number
  MaxTime    \* bound: the clock

ASSUME ApprovalAssumption ==
  /\ Validity \in Nat \ {0}   \* create() refuses 0 and less
  /\ MaxId \in Nat
  /\ MaxTime \in Nat

Id == 1..MaxId
Settled == {"GRANTED", "DENIED", "EXPIRED"}   \* ApprovalStatus without PENDING
Status == {"ABSENT", "PENDING"} \cup Settled

VARIABLES
  status,   \* status[i]: the status column of request i; ABSENT: no row
  action,   \* action[i]: the action the row of i is bound to
  expires,  \* expires[i]: its deadline
  counter,  \* counter[s]: requests numbered by the store object of surface s
  due,      \* due[s]: the rows the running call of s has still to write
  verdict,  \* verdict[s]: the status it writes
  shown,    \* shown[s]: what list_pending() told the operator at s: id -> action
  now,      \* the wall clock
  consent,  \* consent[i]: the actions an operator granted under id i
  raced     \* ids two surfaces have decided on at once

approvals == <<status, action, expires>>
process == <<counter, due, verdict>>
vars == <<status, action, expires, counter, due, verdict, shown, now, consent, raced>>

Shown == Action \cup {"nothing"}

TypeOK ==
  /\ status \in [Id -> Status]
  /\ action \in [Id -> Shown]
  /\ expires \in [Id -> Nat]
  /\ counter \in [Surface -> Nat]
  /\ due \in [Surface -> SUBSET Id]
  /\ verdict \in [Surface -> Settled]
  /\ shown \in [Surface -> [Id -> Shown]]
  /\ now \in Nat
  /\ consent \in [Id -> SUBSET Shown]
  /\ raced \in SUBSET Id

Init ==
  /\ status = [i \in Id |-> "ABSENT"]
  /\ action = [i \in Id |-> "nothing"]
  /\ expires = [i \in Id |-> 0]
  /\ counter = [s \in Surface |-> 0]
  /\ due = [s \in Surface |-> {}]
  /\ verdict = [s \in Surface |-> "DENIED"]
  /\ shown = [s \in Surface |-> [i \in Id |-> "nothing"]]
  /\ now = 0
  /\ consent = [i \in Id |-> {}]
  /\ raced = {}

Idle(s) == due[s] = {}

-------------------------------------------------------------------------------
(* The calls.                                                              *)

\* Mutant: INSERT OR REPLACE.
InsertOrReplace(i, a) ==
  /\ status' = [status EXCEPT ![i] = "PENDING"]
  /\ action' = [action EXCEPT ![i] = a]
  /\ expires' = [expires EXCEPT ![i] = now + Validity]

\* INSERT with request_id as PRIMARY KEY: a number already taken raises.
Insert(i, a) ==
  IF status[i] = "ABSENT"
  THEN /\ status' = [status EXCEPT ![i] = "PENDING"]
       /\ action' = [action EXCEPT ![i] = a]
       /\ expires' = [expires EXCEPT ![i] = now + Validity]
  ELSE UNCHANGED approvals

\* create(): the number is used up even when the INSERT raises.
Create(s, a) ==
  /\ Idle(s)
  /\ counter[s] < MaxId
  /\ counter' = [counter EXCEPT ![s] = @ + 1]
  /\ Insert(counter[s] + 1, a)
  /\ UNCHANGED <<due, verdict, shown, now, consent, raced>>

\* list_pending(): the operator at s sees each open request and its action.
View(s) ==
  /\ Idle(s)
  /\ shown' = [shown EXCEPT ![s] =
       [i \in Id |-> IF status[i] = "PENDING" THEN action[i] ELSE "nothing"]]
  /\ UNCHANGED <<status, action, expires, counter, due, verdict, now, consent, raced>>

\* A call has read its rows and goes on to write v to each of them.
Judge(s, ids, v) ==
  /\ due' = [due EXCEPT ![s] = ids]
  /\ verdict' = [verdict EXCEPT ![s] = v]
  /\ UNCHANGED <<status, action, expires, counter, shown, now>>

\* Mutant: an answer may be revised until the request has expired.
OpenUntilExpired(i) == status[i] # "EXPIRED"

\* What grant() and deny() check on the row get() has fetched.
Open(i) == status[i] = "PENDING"

\* grant() and deny() up to the write, for a request the operator was shown.
Decide(s, i, v) ==
  /\ Idle(s)
  /\ shown[s][i] # "nothing"
  /\ Open(i)
  /\ Judge(s, {i}, v)
  /\ consent' = [consent EXCEPT ![i] = IF v = "GRANTED" THEN @ \cup {shown[s][i]} ELSE @]
  /\ raced' = raced \cup {j \in {i} : \E p \in Surface \ {s} : j \in due[p]}

\* resolve() up to the write of EXPIRED; in its other outcomes it only reads.
Lapsed(i) == status[i] = "GRANTED" /\ now > expires[i]

Resolve(s, i) ==
  /\ Idle(s)
  /\ Lapsed(i)
  /\ Judge(s, {i}, "EXPIRED")
  /\ UNCHANGED <<consent, raced>>

\* reap_expired(): the SELECT; the rows are then written one by one.
Reapable == {i \in Id : status[i] = "GRANTED" /\ expires[i] <= now}

Reap(s) ==
  /\ Idle(s)
  /\ Reapable # {}
  /\ Judge(s, Reapable, "EXPIRED")
  /\ UNCHANGED <<consent, raced>>

\* _update_status(): UPDATE ... WHERE request_id = ?
Write(s) ==
  \E i \in due[s] :
    /\ status' = [status EXCEPT ![i] = verdict[s]]
    /\ due' = [due EXCEPT ![s] = @ \ {i}]
    /\ UNCHANGED <<action, expires, counter, verdict, shown, now, consent, raced>>

\* The process dies and comes back with a new ApprovalStore object.
Restart(s) ==
  /\ due' = [due EXCEPT ![s] = {}]
  /\ counter' = [counter EXCEPT ![s] = 0]
  /\ UNCHANGED <<status, action, expires, verdict, shown, now, consent, raced>>

Tick ==
  /\ now < MaxTime
  /\ now' = now + 1
  /\ UNCHANGED <<status, action, expires, counter, due, verdict, shown, consent, raced>>

Next ==
  \/ \E s \in Surface :
       \/ \E a \in Action : Create(s, a)
       \/ View(s)
       \/ \E i \in Id : Resolve(s, i) \/ \E v \in {"GRANTED", "DENIED"} : Decide(s, i, v)
       \/ Reap(s)
       \/ Write(s)
       \/ Restart(s)
  \/ Tick

Spec == Init /\ [][Next]_vars

-------------------------------------------------------------------------------
(* Properties.                                                             *)

\* resolve() returns the row for this action.
Accepts(i, a) == status[i] = "GRANTED" /\ now <= expires[i] /\ action[i] = a

\* Whatever the surfaces and their restarts do, resolve() accepts a request id
\* for an action only if an operator granted that id with that very action on
\* the screen: an id that is numbered twice, or a grant on its way when the
\* other surface acts, never hands a consent to another action.
ConsentBinds == \A i \in Id : \A a \in Action : Accepts(i, a) => a \in consent[i]

\* The only way on from a decided request is the expiry of a grant.
Final(i) ==
  status[i] \in Settled =>
    \/ status'[i] = status[i]
    \/ status[i] = "GRANTED" /\ status'[i] = "EXPIRED"

Standing == \A i \in Id \ raced' : Final(i)

\* "Single-use - only PENDING may transition" holds for every request that no
\* two surfaces have decided on at the same time, although grant() and deny()
\* check in one transaction and write in another, and although a reaper or a
\* resolve() may hold an old list of grants to expire.
DecisionStands == [][Standing]_vars

===============================================================================
