-------------------------------- MODULE Memory --------------------------------
(***************************************************************************)
(* The memory store (memory/store.py) and its promotion gate               *)
(* (memory/types.py): one SQLite row per item of one scope, in the order   *)
(* of creation.                                                            *)
(*                                                                         *)
(* promote(), reject() and mark_stale() fetch the item, judge it and then  *)
(* UPDATE its status by id in another transaction; supersede() creates the *)
(* replacement in one transaction and retires the old item in another;     *)
(* expire_stale() selects and then writes all it selected in one           *)
(* transaction.  Two processes interleave between the two, and one may die *)
(* there.  This module has the calls; Reflection says who makes them.      *)
(*                                                                         *)
(* An item is what the gate and the de-duplication tell apart: whether it  *)
(* has evidence, whether its confidence reaches the threshold, the subject *)
(* its content names, and its deadline.  superseded_by, a pointer nothing  *)
(* in the store follows, is left out.                                      *)
(*                                                                         *)
(* stale is a history variable: no code reads it.                          *)
(***************************************************************************)
EXTENDS Callers, Naturals, Sequences

CONSTANTS
  Subject,  \* tools and agents with outcomes; a smaller number is earlier in name order
  Ttl,      \* MEMORY_TTL_SECONDS, on the clock
  MaxTime   \* bound: the clock

ASSUME MemoryAssumption ==
  /\ Subject \subseteq Nat \ {0}
  /\ Ttl \in Nat \ {0}   \* compute_expiry() refuses 0 and less
  /\ MaxTime \in Nat

\* MemoryStatus; ARCHIVED is declared there too, and nothing sets it.
Status == {"CANDIDATE", "ACTIVE", "STALE", "SUPERSEDED", "EXPIRED", "REJECTED"}

Other == 0     \* content that names no subject
Forever == 0   \* expires_at is NULL

Draft == [subject : Subject \cup {Other}, evidence : BOOLEAN, confident : BOOLEAN, lasts : BOOLEAN]
Item == [status : Status, subject : Subject \cup {Other}, evidence : BOOLEAN,
         confident : BOOLEAN, expires : Nat]

Hold == [ids : SUBSET Nat, status : Status]
Free == [ids |-> {}, status |-> "CANDIDATE"]

VARIABLES
  items,  \* the rows
  now,    \* the clock
  hold,   \* hold[c]: rows the running call of c has to write, and what
  stale   \* callers that hold a row which has changed since they read it

memoryVars == <<items, now, hold, stale>>

MemoryTypeOK ==
  /\ items \in Seq(Item)
  /\ now \in Nat
  /\ hold \in [Caller -> Hold]
  /\ \A c \in Caller : hold[c].ids \subseteq DOMAIN items
  /\ stale \in SUBSET Caller

MemoryInit ==
  /\ items = <<>>
  /\ now = 0
  /\ hold = [c \in Caller |-> Free]
  /\ stale = {}

-------------------------------------------------------------------------------
(* Creation.                                                               *)

\* Mutant: a draft that passes the gate is trusted at once.
ItemTrusted(d) ==
  [status |-> IF d.confident THEN "ACTIVE" ELSE "CANDIDATE", subject |-> d.subject,
   evidence |-> d.evidence, confident |-> d.confident,
   expires |-> IF d.lasts THEN Forever ELSE now + Ttl]

\* create()
ItemOf(d) ==
  [status |-> "CANDIDATE", subject |-> d.subject,
   evidence |-> d.evidence, confident |-> d.confident,
   expires |-> IF d.lasts THEN Forever ELSE now + Ttl]

Insert(d) == items' = Append(items, ItemOf(d))

Create(d) ==
  /\ Insert(d)
  /\ UNCHANGED <<now, hold, stale>>

-------------------------------------------------------------------------------
(* The other calls: up to the write, and the write.                        *)

Unheld(c) == hold[c].ids = {}

\* PromotionGate.evaluate()
Passes(m) == m.status = "CANDIDATE" /\ m.evidence /\ m.confident

Take(c, ids, t) ==
  /\ Unheld(c)
  /\ ids # {}
  /\ hold' = [hold EXCEPT ![c] = [ids |-> ids, status |-> t]]
  /\ UNCHANGED <<items, now, stale>>

\* promote(), reject() and mark_stale() up to the write; a refusal changes nothing.
Promote(c, i) == Passes(items[i]) /\ Take(c, {i}, "ACTIVE")

\* Mutant: an item may be rejected whatever its status.
RejectAny(c, i) == Take(c, {i}, "REJECTED")

Reject(c, i) == items[i].status = "CANDIDATE" /\ Take(c, {i}, "REJECTED")

MarkStale(c, i) == items[i].status = "ACTIVE" /\ Take(c, {i}, "STALE")

Expired(m) == m.status = "ACTIVE" /\ m.expires # Forever /\ m.expires <= now

\* expire_stale(): the SELECT.
Expire(c) == Take(c, {i \in DOMAIN items : Expired(items[i])}, "EXPIRED")

\* supersede(): the replacement is stored; the status of the old item is not looked at.
Supersede(c, i, d) ==
  /\ Unheld(c)
  /\ Insert(d)
  /\ hold' = [hold EXCEPT ![c] = [ids |-> {i}, status |-> "SUPERSEDED"]]
  /\ UNCHANGED <<now, stale>>

Updated(c, i) ==
  IF i \in hold[c].ids THEN [items[i] EXCEPT !.status = hold[c].status] ELSE items[i]

\* _replace_status() and the UPDATEs of supersede() and expire_stale(): by id alone.
Store(c) ==
  /\ hold[c].ids # {}
  /\ items' = [i \in DOMAIN items |-> Updated(c, i)]
  /\ hold' = [hold EXCEPT ![c] = Free]
  /\ stale' = (stale \cup {p \in Caller : hold[p].ids \cap hold[c].ids # {}}) \ {c}
  /\ UNCHANGED now

\* The process of c dies, or its call raises: what it had to write is not written.
Abandon(c) ==
  /\ hold' = [hold EXCEPT ![c] = Free]
  /\ stale' = stale \ {c}
  /\ UNCHANGED <<items, now>>

Tick ==
  /\ now < MaxTime
  /\ now' = now + 1
  /\ UNCHANGED <<items, hold, stale>>

\* search() with include_stale: the items it finds.
Lookable(m) == m.status \in {"ACTIVE", "STALE"}

-------------------------------------------------------------------------------
(* Properties.                                                             *)

\* "Only the promotion gate moves CANDIDATE -> ACTIVE, and only with declared evidence"
\* (types.py:24): whoever writes over whom, what was ever trusted had the evidence and
\* the confidence, and a replacement has to pass by itself: "supersession never
\* auto-trusts" (store.py:144).
TrustedByGate ==
  \A i \in DOMAIN items :
    items[i].status \in {"ACTIVE", "STALE", "EXPIRED"} => items[i].evidence /\ items[i].confident

\* The life of an item: nothing that was rejected, superseded or has expired is looked
\* up again, unless the writer holds a row that has changed since it judged it.
Onwards(i) ==
  \/ items'[i].status = items[i].status
  \/ items'[i].status = "SUPERSEDED"
  \/ items[i].status = "CANDIDATE" /\ items'[i].status \in {"ACTIVE", "REJECTED"}
  \/ items[i].status = "ACTIVE" /\ items'[i].status \in {"STALE", "EXPIRED"}
===============================================================================
