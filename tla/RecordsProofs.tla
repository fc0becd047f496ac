---------------------------- MODULE RecordsProofs -----------------------------
(***************************************************************************)
(* What is kept and what is computed from it: the approval ledger, the     *)
(* recycle bin, the sessions, the evidence of a team run, the context of   *)
(* a conversation, plans, the agent's state machine.  They share no        *)
(* state, and each section names what its invariants say.  For the ledger  *)
(* two facts carry it.  Bound: what an operator was shown of a request,    *)
(* and consented to, is what its row still says, because an INSERT never   *)
(* touches an existing row.  Lone: a request not raced for has at most     *)
(* one decision on its way, and its row still waits for it; an expiry on   *)
(* its way finds a grant or its expiry.  What is computed from claims and  *)
(* observations is proved of every state of their types: only the types    *)
(* are an invariant there.  The search for a cycle in a plan goes step by  *)
(* step and has an invariant of its own, PlansInv.                         *)
(***************************************************************************)
EXTENDS ApprovalStore, Sessions, Recycle, Evidence, Context, Plans, AgentFsm,
        FiniteSetTheorems, FunctionTheorems, WellFoundedInduction, TLAPS

Answer == {"GRANTED", "DENIED"}

Bound ==
  \A i \in Id :
    /\ status[i] = "GRANTED" => action[i] \in consent[i]
    /\ \A s \in Surface :
         /\ shown[s][i] # "nothing" => status[i] # "ABSENT" /\ shown[s][i] = action[i]
         /\ i \in due[s] => status[i] # "ABSENT"
         /\ i \in due[s] /\ verdict[s] = "GRANTED" => action[i] \in consent[i]

Lone ==
  \A i \in Id \ raced :
    \A s \in Surface :
      i \in due[s] =>
        /\ verdict[s] \in Answer =>
             status[i] = "PENDING" /\ \A p \in Surface \ {s} : i \notin due[p]
        /\ verdict[s] = "EXPIRED" => status[i] \in {"GRANTED", "EXPIRED"}

IInv == TypeOK /\ Bound /\ Lone

LEMMA InitInv == Init => IInv
<1> USE ApprovalAssumption
<1>1. Init => TypeOK
  BY DEF Init, TypeOK, Id, Status, Settled, Shown
<1>2. Init => Bound /\ Lone
  BY DEF Init, Bound, Lone, Id
<1> QED BY <1>1, <1>2 DEF IInv

(* Every action keeps the types: statuses and verdicts are ApprovalStatus values, *)
(* a call holds ids of rows.                                                      *)
LEMMA TypeStep == ASSUME TypeOK, [Next]_vars PROVE TypeOK'
<1> USE ApprovalAssumption
<1>0. Id \subseteq Nat
  BY DEF Id
<1>1. CASE UNCHANGED vars
  BY <1>1 DEF TypeOK, vars
<1>2. CASE Tick
  BY <1>2 DEF TypeOK, Tick
<1>3. ASSUME NEW s \in Surface, NEW a \in Action, Create(s, a) PROVE TypeOK'
  <2>1. counter[s] + 1 \in Id
    BY <1>3 DEF Create, TypeOK, Id
  <2>2. /\ status' \in [Id -> Status]
        /\ action' \in [Id -> Shown]
        /\ expires' \in [Id -> Nat]
    <3>1. now + Validity \in Nat
      BY DEF TypeOK
    <3>2. /\ [status EXCEPT ![counter[s] + 1] = "PENDING"] \in [Id -> Status]
          /\ [action EXCEPT ![counter[s] + 1] = a] \in [Id -> Shown]
          /\ [expires EXCEPT ![counter[s] + 1] = now + Validity] \in [Id -> Nat]
      BY <2>1, <3>1 DEF TypeOK, Status, Shown
    <3> QED BY <1>3, <3>2 DEF Create, Insert, TypeOK, approvals
  <2>3. counter' \in [Surface -> Nat]
    BY <1>3 DEF Create, TypeOK
  <2> QED BY <1>3, <2>2, <2>3 DEF Create, TypeOK
<1>4. ASSUME NEW s \in Surface, View(s) PROVE TypeOK'
  BY <1>4 DEF View, TypeOK, Shown
<1>5. ASSUME NEW s \in Surface, NEW i \in Id, NEW v \in Answer, Decide(s, i, v) PROVE TypeOK'
  BY <1>5 DEF Decide, Judge, TypeOK, Answer, Settled
<1>6. ASSUME NEW s \in Surface, NEW i \in Id, Resolve(s, i) PROVE TypeOK'
  BY <1>6 DEF Resolve, Judge, TypeOK, Settled
<1>7. ASSUME NEW s \in Surface, Reap(s) PROVE TypeOK'
  BY <1>7 DEF Reap, Reapable, Judge, TypeOK, Settled
<1>8. ASSUME NEW s \in Surface, Write(s) PROVE TypeOK'
  BY <1>8 DEF Write, TypeOK, Status
<1>9. ASSUME NEW s \in Surface, Restart(s) PROVE TypeOK'
  BY <1>9 DEF Restart, TypeOK
<1> QED BY <1>1, <1>2, <1>3, <1>4, <1>5, <1>6, <1>7, <1>8, <1>9 DEF Next, Answer

(* No call re-binds a row: what was shown and granted stays what the row says.    *)
LEMMA BoundStep == ASSUME IInv, [Next]_vars PROVE Bound'
<1> USE DEF IInv
<1>1. CASE UNCHANGED vars
  BY <1>1 DEF Bound, vars
<1>2. CASE Tick
  BY <1>2 DEF Bound, Tick
<1>3. ASSUME NEW s \in Surface, NEW a \in Action, Create(s, a) PROVE Bound'
  <2>1. \A i \in Id : status[i] # "ABSENT" => status'[i] = status[i] /\ action'[i] = action[i]
    BY <1>3 DEF Create, Insert, TypeOK, approvals
  <2>2. \A i \in Id : status'[i] = "GRANTED" => status[i] = "GRANTED"
    BY <1>3 DEF Create, Insert, TypeOK, approvals
  <2>3. UNCHANGED <<due, verdict, shown, consent>>
    BY <1>3 DEF Create
  <2> QED BY <2>1, <2>2, <2>3 DEF Bound
<1>4. ASSUME NEW s \in Surface, View(s) PROVE Bound'
  <2>1. \A p \in Surface : \A i \in Id :
          shown'[p][i] # "nothing" => status[i] # "ABSENT" /\ shown'[p][i] = action[i]
    BY <1>4 DEF View, TypeOK, Bound
  <2> QED BY <1>4, <2>1 DEF View, Bound
<1>5. ASSUME NEW s \in Surface, NEW i \in Id, NEW v \in Answer, Decide(s, i, v) PROVE Bound'
  <2>1. \A j \in Id : consent[j] \subseteq consent'[j]
    BY <1>5 DEF Decide, TypeOK
  <2>2. v = "GRANTED" => action[i] \in consent'[i]
    BY <1>5 DEF Decide, TypeOK, Bound
  <2>3. \A p \in Surface : p # s => due'[p] = due[p] /\ verdict'[p] = verdict[p]
    BY <1>5 DEF Decide, Judge, TypeOK
  <2>4. due'[s] = {i} /\ verdict'[s] = v /\ status[i] = "PENDING"
    BY <1>5 DEF Decide, Judge, Open, TypeOK
  <2>5. UNCHANGED <<status, action, shown>>
    BY <1>5 DEF Decide, Judge
  <2> QED BY <2>1, <2>2, <2>3, <2>4, <2>5 DEF Bound
<1>6. ASSUME NEW s \in Surface, NEW i \in Id, Resolve(s, i) PROVE Bound'
  BY <1>6 DEF Resolve, Lapsed, Judge, TypeOK, Bound
<1>7. ASSUME NEW s \in Surface, Reap(s) PROVE Bound'
  BY <1>7 DEF Reap, Reapable, Judge, TypeOK, Bound
<1>8. ASSUME NEW s \in Surface, Write(s) PROVE Bound'
  <2>1. PICK i \in due[s] :
          /\ status' = [status EXCEPT ![i] = verdict[s]]
          /\ due' = [due EXCEPT ![s] = @ \ {i}]
          /\ UNCHANGED <<action, verdict, shown, consent>>
    BY <1>8 DEF Write
  <2>2. verdict[s] # "ABSENT" /\ i \in Id
    BY DEF TypeOK, Settled
  <2>3. \A p \in Surface : due'[p] \subseteq due[p]
    BY <2>1 DEF TypeOK
  <2>4. \A j \in Id : status'[j] = IF j = i THEN verdict[s] ELSE status[j]
    BY <2>1 DEF TypeOK
  <2> QED BY <2>1, <2>2, <2>3, <2>4 DEF Bound
<1>9. ASSUME NEW s \in Surface, Restart(s) PROVE Bound'
  BY <1>9 DEF Restart, TypeOK, Bound
<1> QED BY <1>1, <1>2, <1>3, <1>4, <1>5, <1>6, <1>7, <1>8, <1>9 DEF Next, Answer

(* A decision on an open request is alone, or the request is raced for from then. *)
LEMMA LoneStep == ASSUME IInv, [Next]_vars PROVE Lone'
<1> USE DEF IInv
<1>1. CASE UNCHANGED vars
  BY <1>1 DEF Lone, vars
<1>2. CASE Tick
  BY <1>2 DEF Lone, Tick
<1>3. ASSUME NEW s \in Surface, NEW a \in Action, Create(s, a) PROVE Lone'
  <2>1. \A i \in Id : status[i] # "ABSENT" => status'[i] = status[i]
    BY <1>3 DEF Create, Insert, TypeOK, approvals
  <2>2. UNCHANGED <<due, verdict, raced>>
    BY <1>3 DEF Create
  <2>3. \A i \in Id : \A p \in Surface : i \in due[p] => status[i] # "ABSENT"
    BY DEF Bound
  <2> QED BY <2>1, <2>2, <2>3 DEF Lone
<1>4. ASSUME NEW s \in Surface, View(s) PROVE Lone'
  BY <1>4 DEF View, Lone
<1>5. ASSUME NEW s \in Surface, NEW i \in Id, NEW v \in Answer, Decide(s, i, v) PROVE Lone'
  <2>1. \A p \in Surface : p # s => due'[p] = due[p] /\ verdict'[p] = verdict[p]
    BY <1>5 DEF Decide, Judge, TypeOK
  <2>2. due'[s] = {i} /\ verdict'[s] = v /\ status[i] = "PENDING" /\ status' = status
    BY <1>5 DEF Decide, Judge, Open, TypeOK
  <2>3. /\ raced \subseteq raced'
        /\ i \notin raced' => \A p \in Surface \ {s} : i \notin due[p]
    BY <1>5 DEF Decide
  <2>4. due[s] = {}
    BY <1>5 DEF Decide, Idle
  <2> QED BY <2>1, <2>2, <2>3, <2>4 DEF Lone, Answer
<1>6. ASSUME NEW s \in Surface, NEW i \in Id, Resolve(s, i) PROVE Lone'
  <2>1. \A p \in Surface : p # s => due'[p] = due[p] /\ verdict'[p] = verdict[p]
    BY <1>6 DEF Resolve, Judge, TypeOK
  <2>2. due'[s] = {i} /\ verdict'[s] = "EXPIRED" /\ status[i] = "GRANTED" /\ status' = status
    BY <1>6 DEF Resolve, Lapsed, Judge, TypeOK
  <2>3. raced' = raced
    BY <1>6 DEF Resolve
  <2> QED BY <2>1, <2>2, <2>3 DEF Lone, Answer
<1>7. ASSUME NEW s \in Surface, Reap(s) PROVE Lone'
  <2>1. \A p \in Surface : p # s => due'[p] = due[p] /\ verdict'[p] = verdict[p]
    BY <1>7 DEF Reap, Judge, TypeOK
  <2>2. /\ verdict'[s] = "EXPIRED" /\ status' = status
        /\ \A i \in due'[s] : status[i] = "GRANTED"
    BY <1>7 DEF Reap, Reapable, Judge, TypeOK
  <2>3. raced' = raced
    BY <1>7 DEF Reap
  <2> QED BY <2>1, <2>2, <2>3 DEF Lone, Answer
<1>8. ASSUME NEW s \in Surface, Write(s) PROVE Lone'
  <2>1. PICK i \in due[s] :
          /\ status' = [status EXCEPT ![i] = verdict[s]]
          /\ due' = [due EXCEPT ![s] = @ \ {i}]
          /\ UNCHANGED <<verdict, raced>>
    BY <1>8 DEF Write
  <2>2. \A j \in Id : status'[j] = IF j = i THEN verdict[s] ELSE status[j]
    BY <2>1 DEF TypeOK
  <2>3. \A p \in Surface : due'[p] = IF p = s THEN due[s] \ {i} ELSE due[p]
    BY <2>1 DEF TypeOK
  <2>4. verdict[s] \in Answer \/ verdict[s] = "EXPIRED"
    BY DEF TypeOK, Settled, Answer
  <2> QED BY <2>1, <2>2, <2>3, <2>4 DEF Lone, Answer
<1>9. ASSUME NEW s \in Surface, Restart(s) PROVE Lone'
  BY <1>9 DEF Restart, TypeOK, Lone
<1> QED BY <1>1, <1>2, <1>3, <1>4, <1>5, <1>6, <1>7, <1>8, <1>9 DEF Next, Answer

LEMMA StepInv == IInv /\ [Next]_vars => IInv'
BY TypeStep, BoundStep, LoneStep DEF IInv

(* For any number of surfaces and requests the columns and the calls of the       *)
(* ledger hold the values they are declared for.                                  *)
THEOREM TypeCorrect == Spec => []TypeOK
<1>1. IInv => TypeOK
  BY DEF IInv
<1> QED BY InitInv, StepInv, <1>1, PTL DEF Spec

(* resolve() accepts an id only for the action an operator granted it for, through *)
(* restarts that number ids again and any interleaving of the surfaces' calls.    *)
THEOREM ConsentIsForTheAction == Spec => []ConsentBinds
<1>1. IInv => ConsentBinds
  BY DEF IInv, Bound, ConsentBinds, Accepts
<1> QED BY InitInv, StepInv, <1>1, PTL DEF Spec

(* A decision no other surface raced for stands: nothing but the expiry of a      *)
(* grant follows it.                                                              *)
THEOREM DecisionsStand == Spec => DecisionStands
<1>1. IInv /\ [Next]_vars => [Standing]_vars
  <2> SUFFICES ASSUME IInv, Next, NEW i \in Id, i \notin raced', status[i] \in Settled
               PROVE  \/ status'[i] = status[i]
                      \/ status[i] = "GRANTED" /\ status'[i] = "EXPIRED"
    BY DEF Standing, Final
  <2> USE DEF IInv
  <2>1. CASE Tick
    BY <2>1 DEF Tick
  <2>2. ASSUME NEW s \in Surface, NEW a \in Action, Create(s, a)
        PROVE  status'[i] = status[i]
    BY <2>2 DEF Create, Insert, TypeOK, Settled, approvals
  <2>3. ASSUME NEW s \in Surface, View(s) \/ Reap(s) \/ Restart(s)
        PROVE  status'[i] = status[i]
    BY <2>3 DEF View, Reap, Restart, Judge
  <2>4. ASSUME NEW s \in Surface, NEW j \in Id, Resolve(s, j) PROVE status'[i] = status[i]
    BY <2>4 DEF Resolve, Judge
  <2>5. ASSUME NEW s \in Surface, NEW j \in Id, NEW v \in Answer, Decide(s, j, v)
        PROVE  status'[i] = status[i]
    BY <2>5 DEF Decide, Judge
  <2>6. ASSUME NEW s \in Surface, Write(s)
        PROVE  \/ status'[i] = status[i]
               \/ status[i] = "GRANTED" /\ status'[i] = "EXPIRED"
    <3>1. PICK j \in due[s] :
            status' = [status EXCEPT ![j] = verdict[s]] /\ raced' = raced
      BY <2>6 DEF Write
    <3>2. CASE i # j
      BY <3>1, <3>2 DEF TypeOK
    <3>3. CASE i = j
      <4>1. verdict[s] = "EXPIRED" /\ status[i] \in {"GRANTED", "EXPIRED"}
        BY <3>1, <3>3 DEF Lone, TypeOK, Settled, Answer
      <4> QED BY <3>1, <3>3, <4>1 DEF TypeOK
    <3> QED BY <3>2, <3>3
  <2> QED BY <2>1, <2>2, <2>3, <2>4, <2>5, <2>6 DEF Next, Answer
<1> QED BY InitInv, StepInv, <1>1, PTL DEF Spec, DecisionStands

-----------------------------------------------------------------------------
(* The recycle bin.                                                              *)

BinType ==
  /\ files \in [World -> [File -> Int]] /\ written \in Nat
  /\ dirs \in [World -> SUBSET Dir]
  /\ from \in [Entry -> Int]
  /\ bin \in Seq(Place) /\ Len(bin) <= MaxEntries
  /\ doing.kind \in {"none", "deleted", "restoring", "moving", "purging"}
  /\ why \in [Entry -> {"no", "deletion cut short", "restoration failed", "purged"}]

\* A file is where it can be, and an entry holds what was put into it.
Housed ==
  /\ \A w \in World, f \in File : files[w][f] # None => Reachable(w, f)
  /\ \A w \in World \ {0} : \A d \in dirs[w] : w \in DOMAIN bin /\ d = Root(w)

\* A place that things were taken from, or are on the way back to, for entry e: the
\* workspace, or another entry, which is then one that was meddled with.
Origin(place, e) ==
  /\ place \in Place /\ place.path = Root(e)
  /\ place.world # 0 =>
       /\ place.world \in DOMAIN bin \cap meddled
       /\ place.path \in Dir => place.path = Root(place.world)

Origins == \A e \in DOMAIN bin : Origin(bin[e], e)

\* A record inside a directory names an entry of that directory, one beside an entry that.
Labels ==
  /\ \A w \in World, f \in File : files[w][f] < 0 =>
       /\ - files[w][f] \in DOMAIN bin
       /\ Root(- files[w][f]) \in Dir /\ DeletedFrom[Root(- files[w][f])] = f
  /\ \A e \in Entry :
       /\ from[e] < 0 => from[e] = - e
       /\ e \notin DOMAIN bin => from[e] = None /\ why[e] = "no"

\* An operation under way has its entry in the bin, and who is about to restore one has
\* found its place free.
UnderWay ==
  LET e == doing.entry
      to == doing.to IN
  /\ doing.kind = "none" => doing = Resting
  /\ doing.kind \in {"deleted", "restoring", "moving"} => e \in DOMAIN bin
  /\ doing.kind = "deleted" => There(e)
  /\ doing.kind = "purging" => doing.todo \subseteq DOMAIN bin
  /\ doing.kind \in {"restoring", "moving"} =>
       \/ to = Nowhere
       \/ /\ Origin(to, e) /\ to.world # e
          /\ to.path \in File => files[to.world][to.path] \in {None} \cup meanwhile

\* EntriesRestorable, also while an operation is under way.
Recorded ==
  \A e \in DOMAIN bin \ meddled :
    /\ from[e] \in {None, - e}
    /\ Root(e) \in Dir => from[e] = None
    /\ why[e] \in {"restoration failed", "purged"} => Root(e) \in File
    /\ There(e) /\ why[e] = "no" =>
         \/ Label(e) = - e
         \/ e = doing.entry /\ doing.kind = "deleted"
         \/ e = doing.entry /\ doing.kind = "moving" /\ Root(e) \in File

Fates == replaced \cup purged \cup elsewhere \cup labelled \cup meanwhile
Safe(k) == (\E w \in World, f \in File : files[w][f] = k) \/ k \in Fates
Saved == \A k \in 1 .. written : Safe(k)

BinInv == BinType /\ Housed /\ Origins /\ Labels /\ UnderWay /\ Recorded /\ Saved

LEMMA InBin ==
  ASSUME BinType, NEW e \in DOMAIN bin
  PROVE  /\ bin[e] \in Place /\ Root(e) \in Path
         /\ e \in Entry /\ e \in World \ {0} /\ e \in Nat \ {0} /\ - e < 0 /\ ~(- e > 0)
<1>1. bin \in Seq(Place) /\ Len(bin) <= MaxEntries /\ MaxEntries \in Nat
  BY RecycleAssumption DEF BinType
<1>2. bin[e] \in Place /\ e \in Nat \ {0} /\ e \in Entry /\ e \in World \ {0}
  BY <1>1 DEF Entry, World
<1>3. \A i \in Nat \ {0} : - i < 0 /\ ~(- i > 0)
  OBVIOUS
<1> QED BY <1>2, <1>3 DEF Place, Root

LEMMA BinIsKept == BinInv => BinKeeps
<1> SUFFICES ASSUME BinInv PROVE BinKeeps
  OBVIOUS
<1>1. NothingDestroyed
  <2> SUFFICES ASSUME NEW k \in 1 .. written
               PROVE  k \in Surviving \cup Fates
    BY DEF NothingDestroyed, Fates
  <2>1. CASE k \in Fates
    BY <2>1
  <2>2. ASSUME NEW w \in World, NEW f \in File, files[w][f] = k PROVE k \in Surviving
    <3>1. k \in Contents(files[w])
      BY <2>2 DEF Contents, Written, None
    <3> QED BY <3>1 DEF Surviving
  <2> QED BY <2>1, <2>2 DEF BinInv, Saved, Safe
<1>2. EntriesRestorable
  <2> SUFFICES ASSUME doing = Resting, NEW e \in DOMAIN bin \ meddled, There(e)
               PROVE  /\ why[e] = "no" => Label(e) = - e
                      /\ why[e] \in {"restoration failed", "purged"} => Root(e) \in File
                      /\ Label(e) > 0 => Root(e) \in Dir /\ why[e] = "deletion cut short"
    BY DEF EntriesRestorable
  <2>0. BinType
    BY DEF BinInv
  <2>1. /\ e \in Entry /\ e \in Nat \ {0} /\ e \in World /\ Root(e) \in Path /\ ~(- e > 0)
        /\ why[e] \in {"no", "deletion cut short", "restoration failed", "purged"}
        /\ dirs[e] \subseteq Dir
    <3>1. e \in Entry /\ e \in Nat \ {0} /\ e \in World /\ Root(e) \in Path /\ ~(- e > 0)
      BY <2>0, InBin
    <3> QED BY <2>0, <3>1 DEF BinType
  <2>2. doing.kind = "none"
    BY DEF Resting, Doing
  <2>3. why[e] = "no" => Label(e) = - e
    BY <2>2 DEF BinInv, Recorded
  <2>4. Label(e) > 0 => Root(e) \in Dir
    <3>1. from[e] \in {0, - e}
      BY DEF BinInv, Recorded, None
    <3>2. Label(e) = - e \/ Label(e) = 0 \/ Root(e) \in dirs[e]
      BY <3>1 DEF Label, None
    <3>3. ~(0 > 0)
      OBVIOUS
    <3>4. ASSUME Label(e) > 0 PROVE Label(e) # 0 /\ Label(e) # - e
      BY <2>1, <3>3, <3>4
    <3> QED BY <2>1, <3>2, <3>4
  <2>5. Label(e) > 0 => why[e] = "deletion cut short"
    <3>2. Root(e) \in Dir => Root(e) \notin File
      BY RecycleAssumption
    <3> QED BY <2>1, <2>3, <2>4, <3>2 DEF BinInv, Recorded
  <2> QED BY <2>3, <2>4, <2>5 DEF BinInv, Recorded
<1> QED BY <1>1, <1>2 DEF BinKeeps

\* What else is still to be had is as safe as it was.
LEMMA Accounted ==
  ASSUME Saved, written' = written, Fates \subseteq Fates',
         \A k \in Nat \ {0} : (\E w \in World, f \in File : files[w][f] = k) => Safe(k)'
  PROVE  Saved'
BY DEF Saved, Safe

LEMMA NothingMoves ==
  ASSUME BinInv, UNCHANGED <<files, dirs, bin, written, fates>>, meddled \subseteq meddled'
  PROVE  Housed' /\ Origins' /\ Saved'
<1>1. Housed' /\ Saved'
  BY DEF BinInv, Housed, Saved, Safe, Fates, fates, Reachable, Root
<1>2. Origins'
  BY DEF BinInv, Origins, Origin, Root
<1> QED BY <1>1, <1>2

LEMMA BinStart == RecycleInit => BinInv
<1> SUFFICES ASSUME RecycleInit PROVE BinInv
  OBVIOUS
<1>0. MaxEntries \in Nat /\ Entry \subseteq World /\ bin = <<>> /\ DOMAIN bin = {}
  BY RecycleAssumption DEF RecycleInit, Entry, World
<1>1. BinType
  BY <1>0 DEF RecycleInit, BinType, None, Resting, Doing, Empty
<1>2. Housed
  <2>1. \A w \in World, f \in File : files[w][f] = None
    BY DEF RecycleInit, Empty
  <2> QED BY <2>1 DEF RecycleInit, Housed
<1>3. Origins /\ Labels
  BY <1>0 DEF RecycleInit, Origins, Labels, Empty, None
<1>4. UnderWay /\ Recorded
  BY <1>0 DEF RecycleInit, UnderWay, Recorded, Resting, Doing
<1>5. Saved
  BY DEF RecycleInit, Saved
<1> QED BY <1>1, <1>2, <1>3, <1>4, <1>5 DEF BinInv

LEMMA WriteKeeps == ASSUME BinInv, NEW w \in World, NEW f \in File, WriteFile(w, f) PROVE BinInv'
<1> DEFINE k == written + 1
<1>0. BinType /\ Housed /\ Origins /\ Labels /\ UnderWay /\ Recorded /\ Saved
  BY DEF BinInv
<1>1. /\ written' = k /\ files' = [files EXCEPT ![w][f] = k] /\ Reachable(w, f)
      /\ replaced' = replaced \cup Written({files[w][f]})
      /\ meanwhile' = IF doing.to = [world |-> w, path |-> f] THEN meanwhile \cup {k} ELSE meanwhile
      /\ meddled' = meddled \cup ({w} \cap Entry)
      /\ UNCHANGED <<dirs, from, bin, doing, labelled, elsewhere, purged, why>>
  BY DEF WriteFile, Meddle
<1>2. /\ written \in Nat /\ k \in Nat /\ k > 0 /\ files'[w][f] = k
      /\ files' \in [World -> [File -> Int]]
      /\ \A v \in World, g \in File : <<v, g>> # <<w, f>> => files'[v][g] = files[v][g]
  <2>1. /\ written \in Nat /\ k \in Nat /\ k \in Int /\ k > 0
        /\ files \in [World -> [File -> Int]]
    <3>1. written \in Nat /\ files \in [World -> [File -> Int]]
      BY <1>0 DEF BinType
    <3> QED BY <3>1
  <2>2. files' = [files EXCEPT ![w] = [files[w] EXCEPT ![f] = k]]
    BY <1>1
  <2>3. [files[w] EXCEPT ![f] = k] \in [File -> Int]
    BY <2>1
  <2> HIDE DEF k
  <2> QED BY <2>1, <2>2, <2>3
<1>3. BinType'
  BY <1>0, <1>1, <1>2 DEF BinType
<1>4. Housed'
  <2>1. \A v \in World, g \in File : Reachable(v, g)' <=> Reachable(v, g)
    BY <1>1 DEF Reachable, Root
  <2>2. ASSUME NEW v \in World, NEW g \in File, files'[v][g] # None PROVE Reachable(v, g)
    BY <1>0, <1>1, <1>2, <2>2 DEF Housed
  <2>3. \A v \in World \ {0} : \A d \in dirs'[v] : v \in DOMAIN bin' /\ d = Root(v)'
    BY <1>0, <1>1 DEF Housed, Root
  <2> QED BY <2>1, <2>2, <2>3 DEF Housed
<1>5. Origins'
  BY <1>0, <1>1 DEF Origins, Origin, Root
<1>6. Labels'
  <2>1. \A v \in World, g \in File : files'[v][g] < 0 => files'[v][g] = files[v][g]
    BY <1>2
  <2> QED BY <1>0, <1>1, <2>1 DEF Labels, Root
<1>7. UnderWay'
  <2>1. ASSUME doing.kind \in {"restoring", "moving"}, doing.to # Nowhere
        PROVE  /\ Origin(doing.to, doing.entry)' /\ doing.to.world # doing.entry
               /\ doing.to.path \in File =>
                    files'[doing.to.world][doing.to.path] \in {None} \cup meanwhile'
    <3> DEFINE to == doing.to
    <3>1. /\ Origin(to, doing.entry) /\ to.world # doing.entry
          /\ to.path \in File => files[to.world][to.path] \in {None} \cup meanwhile
      BY <1>0, <2>1 DEF UnderWay
    <3>2. to \in Place
      BY <3>1 DEF Origin
    <3>3. to.path = f /\ to.world = w => to = [world |-> w, path |-> f]
      BY <3>2 DEF Place
    <3>4. to.world \in World
      BY <3>2 DEF Place
    <3>5. to.path \in File => files'[to.world][to.path] \in {None} \cup meanwhile'
      BY <1>1, <1>2, <3>1, <3>3, <3>4
    <3>6. Origin(to, doing.entry)'
      BY <1>1, <3>1 DEF Origin, Root
    <3> QED BY <3>1, <3>5, <3>6
  <2>2. doing.kind = "deleted" => There(doing.entry)'
    <3> SUFFICES ASSUME doing.kind = "deleted" PROVE There(doing.entry)'
      OBVIOUS
    <3>1. doing.entry \in DOMAIN bin /\ There(doing.entry) /\ doing.entry \in World
      BY <1>0, InBin DEF UnderWay
    <3>2. Root(doing.entry) \in Path
      BY <1>0, <3>1, InBin
    <3> QED BY <1>1, <1>2, <3>1, <3>2, RecycleAssumption DEF There, Exists, Root, None, Path
  <2> QED BY <1>0, <1>1, <2>1, <2>2 DEF UnderWay
<1>8. Recorded'
  <2> SUFFICES ASSUME NEW e \in DOMAIN bin \ meddled' PROVE
          /\ from[e] \in {None, - e}
          /\ Root(e) \in Dir => from[e] = None
          /\ why[e] \in {"restoration failed", "purged"} => Root(e) \in File
          /\ There(e)' /\ why[e] = "no" =>
               \/ Label(e)' = - e
               \/ e = doing.entry /\ doing.kind = "deleted"
               \/ e = doing.entry /\ doing.kind = "moving" /\ Root(e) \in File
    BY <1>1 DEF Recorded, Root
  <2>1. e \in Entry /\ e \in World /\ e \notin meddled
    BY <1>0, <1>1, InBin
  <2>2. e # w /\ files'[e] = files[e]
    BY <1>0, <1>1, <2>1 DEF BinType
  <2>3. There(e)' = There(e) /\ Label(e)' = Label(e)
    BY <1>1, <2>2 DEF There, Exists, Label, Root
  <2> QED BY <1>0, <2>1, <2>3 DEF Recorded
<1>9. Saved'
  <2> SUFFICES ASSUME NEW j \in 1 .. written' PROVE Safe(j)'
    BY DEF Saved
  <2>1. CASE j = k
    BY <1>2, <2>1 DEF Safe
  <2>2. CASE j \in 1 .. written
    <3>1. Safe(j) /\ j > 0 /\ Fates \subseteq Fates'
      BY <1>0, <1>1, <2>2 DEF Saved, Fates
    <3>2. ASSUME NEW v \in World, NEW g \in File, files[v][g] = j PROVE Safe(j)'
      <4>1. CASE <<v, g>> = <<w, f>>
        BY <1>1, <3>1, <3>2, <4>1 DEF Safe, Fates, Written, None
      <4>2. CASE <<v, g>> # <<w, f>>
        BY <1>2, <3>2, <4>2 DEF Safe
      <4> QED BY <4>1, <4>2
    <3> QED BY <3>1, <3>2 DEF Safe
  <2> QED BY <1>1, <1>2, <2>1, <2>2
<1> QED BY <1>3, <1>4, <1>5, <1>6, <1>7, <1>8, <1>9 DEF BinInv

LEMMA MakeDirKeeps == ASSUME BinInv, NEW d \in Dir, MakeDir(d) PROVE BinInv'
<1>0. BinType /\ Housed /\ Origins /\ Labels /\ UnderWay /\ Recorded /\ Saved
  BY DEF BinInv
<1>1. /\ dirs' = [dirs EXCEPT ![0] = @ \cup {d}] /\ UNCHANGED <<files, from, bin, doing>>
      /\ UNCHANGED <<written, fates, meddled, why>>
  BY DEF MakeDir
<1>2. /\ dirs' \in [World -> SUBSET Dir] /\ dirs[0] \subseteq dirs'[0] /\ 0 \in World
      /\ \A w \in World \ {0} : dirs'[w] = dirs[w]
  <2>1. 0 \in World
    BY RecycleAssumption DEF World
  <2>2. dirs \in [World -> SUBSET Dir]
    BY <1>0 DEF BinType
  <2>3. dirs[0] \cup {d} \in SUBSET Dir
    BY <2>1, <2>2
  <2> QED BY <1>1, <2>1, <2>2, <2>3
<1>3. BinType'
  BY <1>0, <1>1, <1>2 DEF BinType
<1>4. Housed'
  <2>1. \A v \in World, g \in File : Reachable(v, g) => Reachable(v, g)'
    BY <1>1, <1>2 DEF Reachable, Root
  <2> QED BY <1>0, <1>1, <1>2, <2>1 DEF Housed, Root
<1>5. Origins' /\ Labels'
  BY <1>0, <1>1 DEF Origins, Origin, Labels, Root
<1>6. \A e \in DOMAIN bin : There(e)' = There(e) /\ Label(e)' = Label(e)
  <2> SUFFICES ASSUME NEW e \in DOMAIN bin PROVE There(e)' = There(e) /\ Label(e)' = Label(e)
    OBVIOUS
  <2>1. e \in World \ {0}
    BY <1>0, InBin
  <2> QED BY <1>1, <1>2, <2>1 DEF There, Exists, Label, Root
<1>7. UnderWay'
  BY <1>0, <1>1, <1>6 DEF UnderWay, Origin, Root, fates
<1>8. Recorded'
  BY <1>0, <1>1, <1>6 DEF Recorded, Root
<1>9. Saved'
  BY <1>0, <1>1 DEF Saved, Safe, Fates, fates
<1> QED BY <1>3, <1>4, <1>5, <1>7, <1>8, <1>9 DEF BinInv

LEMMA SpoilKeeps == ASSUME BinInv, NEW e \in Entry, SpoilRecord(e) PROVE BinInv'
<1>0. BinType /\ Labels /\ UnderWay /\ Recorded
  BY DEF BinInv
<1>1. /\ e \in DOMAIN bin /\ meddled' = meddled \cup {e}
      /\ UNCHANGED <<files, dirs, bin, doing>> /\ UNCHANGED <<written, fates, why>>
  BY DEF SpoilRecord, Meddle
<1>2. PICK text \in {None, Foreign} : from' = [from EXCEPT ![e] = text]
  BY DEF SpoilRecord
<1>3. Housed' /\ Origins' /\ Saved'
  BY <1>1, NothingMoves
<1>4. from' \in [Entry -> Int] /\ ~(from'[e] < 0) /\ \A i \in Entry \ {e} : from'[i] = from[i]
  <2>0. from \in [Entry -> Int]
    BY <1>0 DEF BinType
  <2>1. text \in Int /\ ~(text < 0)
    BY DEF None, Foreign
  <2> QED BY <1>2, <2>0, <2>1
<1>5. BinType'
  BY <1>0, <1>1, <1>4 DEF BinType
<1>6. Labels'
  BY <1>0, <1>1, <1>4 DEF Labels, Root
<1>7. UnderWay'
  BY <1>0, <1>1 DEF UnderWay, Origin, There, Exists, Root, fates
<1>8. Recorded'
  <2> SUFFICES ASSUME NEW i \in DOMAIN bin \ meddled'
               PROVE  i \notin meddled /\ from'[i] = from[i] /\ Label(i)' = Label(i)
    BY <1>0, <1>1 DEF Recorded, There, Exists, Root
  <2>1. i \in Entry \ {e} /\ i \notin meddled
    BY <1>0, <1>1, InBin
  <2> QED BY <1>1, <1>4, <2>1 DEF Label, Root
<1> QED BY <1>3, <1>5, <1>6, <1>7, <1>8 DEF BinInv

LEMMA DeleteKeeps == ASSUME BinInv, NEW w \in World, NEW p \in Path, delete(w, p) PROVE BinInv'
<1> DEFINE place == [world |-> w, path |-> p]
<1> PICK n \in {Len(bin) + 1} : TRUE
  OBVIOUS
<1>0. BinType /\ Housed /\ Origins /\ Labels /\ UnderWay /\ Recorded /\ Saved
  BY DEF BinInv
<1>1. /\ doing = Resting /\ n <= MaxEntries /\ Exists(w, p) /\ bin' = Append(bin, place)
      /\ files' = [files EXCEPT ![n] = Only(files[w], Taken(p)),
                                ![w] = Only(files[w], File \ Taken(p))]
      /\ dirs' = [dirs EXCEPT ![n] = {p} \cap Dir, ![w] = @ \ {p}]
      /\ doing' = Doing("deleted", n)
      /\ meddled' = meddled \cup ({w} \cap Entry)
      /\ UNCHANGED <<from, written, fates, why>>
  BY DEF delete, Meddle
<1>2. /\ bin' \in Seq(Place) /\ Len(bin') = n /\ n \in Entry /\ n \in World /\ n # 0
      /\ DOMAIN bin' = DOMAIN bin \cup {n} /\ n \notin DOMAIN bin /\ bin'[n] = place
      /\ \A i \in DOMAIN bin : bin'[i] = bin[i] /\ i # n
  <2>1. bin \in Seq(Place) /\ MaxEntries \in Nat /\ place \in Place
    BY <1>0, RecycleAssumption DEF BinType, Place
  <2> HIDE DEF place
  <2> QED BY <1>1, <2>1 DEF Entry, World
<1>3. \A i \in DOMAIN bin : Root(i)' = Root(i)
  BY <1>2 DEF Root
<1>4. Root(n)' = p
  BY <1>2 DEF Root
<1>5. files \in [World -> [File -> Int]] /\ dirs \in [World -> SUBSET Dir]
  BY <1>0 DEF BinType
<1>6. \A f \in File : files[n][f] = None /\ dirs[n] = {}
  BY <1>0, <1>2 DEF Housed, Reachable
<1>7. n # w
  <2>1. Exists(n, p) => FALSE
    BY <1>6, RecycleAssumption DEF Exists, Path
  <2> QED BY <1>1, <2>1
<1>8. /\ files' \in [World -> [File -> Int]]
      /\ \A f \in File : files'[n][f] = IF f \in Taken(p) THEN files[w][f] ELSE None
      /\ \A f \in File : files'[w][f] = IF f \in Taken(p) THEN None ELSE files[w][f]
      /\ \A v \in World \ {n, w} : files'[v] = files[v]
  <2>1. /\ Only(files[w], Taken(p)) \in [File -> Int]
        /\ Only(files[w], File \ Taken(p)) \in [File -> Int]
    BY <1>5 DEF Only, None
  <2>2. files'[n] = Only(files[w], Taken(p)) /\ files'[w] = Only(files[w], File \ Taken(p))
    BY <1>1, <1>2, <1>5, <1>7
  <2>3. files' \in [World -> [File -> Int]] /\ \A v \in World \ {n, w} : files'[v] = files[v]
    BY <1>1, <1>5, <2>1
  <2> QED BY <2>2, <2>3 DEF Only
<1>9. /\ dirs' \in [World -> SUBSET Dir] /\ dirs'[n] = {p} \cap Dir /\ dirs'[w] = dirs[w] \ {p}
      /\ \A v \in World \ {n, w} : dirs'[v] = dirs[v]
  BY <1>1, <1>2, <1>5, <1>7
<1>10. w # 0 => w \in DOMAIN bin
  <2>1. w # 0 /\ w \notin DOMAIN bin => dirs[w] = {} /\ \A f \in File : files[w][f] = None
    BY <1>0 DEF Housed, Reachable
  <2> QED BY <1>1, <2>1, RecycleAssumption DEF Exists, Path
<1> HIDE DEF place
<1>11. BinType'
  <2>1. doing'.kind = "deleted" /\ Len(bin') <= MaxEntries
    BY <1>1, <1>2 DEF Doing
  <2> QED BY <1>0, <1>1, <1>2, <1>8, <1>9, <2>1 DEF BinType
<1>12. Housed'
  <2>1. ASSUME NEW v \in World, NEW f \in File, files'[v][f] # None PROVE Reachable(v, f)'
    <3>1. CASE v = n
      <4>1. f \in Taken(p)
        BY <1>8, <2>1, <3>1
      <4>2. f = p \/ (p \in Dir /\ Home[f] = p)
        BY <4>1 DEF Taken, Inside
      <4> QED BY <1>2, <1>4, <1>9, <3>1, <4>2 DEF Reachable
    <3>2. CASE v = w
      <4>1. f \notin Taken(p) /\ Reachable(w, f)
        BY <1>0, <1>7, <1>8, <2>1, <3>2 DEF Housed
      <4>2. Home[f] # p
        <5>1. p \in Dir => Home[f] # p
          BY <4>1 DEF Taken, Inside
        <5> QED BY <5>1, RecycleAssumption DEF Path
      <4>3. Home[f] \in dirs[w] \cup {Top} => Home[f] \in dirs'[w] \cup {Top}
        BY <1>9, <4>2
      <4>4. Home[f] \in dirs[w] => Home[f] \in dirs'[w]
        BY <1>9, <4>2
      <4>5. w \in DOMAIN bin => Root(w)' = Root(w) /\ w \in DOMAIN bin'
        BY <1>2, <1>3
      <4> QED BY <3>2, <4>1, <4>3, <4>4, <4>5 DEF Reachable
    <3>3. CASE v \notin {n, w}
      <4>1. files'[v] = files[v] /\ dirs'[v] = dirs[v]
        BY <1>8, <1>9, <3>3
      <4>2. Reachable(v, f)
        BY <1>0, <2>1, <4>1 DEF Housed
      <4>3. v \in DOMAIN bin => Root(v)' = Root(v) /\ v \in DOMAIN bin'
        BY <1>2, <1>3
      <4> QED BY <4>1, <4>2, <4>3 DEF Reachable
    <3> QED BY <3>1, <3>2, <3>3
  <2>2. ASSUME NEW v \in World \ {0}, NEW d \in dirs'[v] PROVE v \in DOMAIN bin' /\ d = Root(v)'
    <3>1. CASE v = n
      BY <1>2, <1>4, <1>9, <2>2, <3>1
    <3>2. CASE v # n
      <4>1. d \in dirs[v]
        BY <1>9, <2>2, <3>2
      <4>2. v \in DOMAIN bin /\ d = Root(v)
        BY <1>0, <4>1 DEF Housed
      <4> QED BY <1>2, <1>3, <4>2
    <3> QED BY <3>1, <3>2
  <2> QED BY <2>1, <2>2 DEF Housed
<1>13. Origins'
  <2>1. ASSUME NEW i \in DOMAIN bin PROVE Origin(bin[i], i)'
    <3>1. Origin(bin[i], i) /\ bin'[i] = bin[i] /\ Root(i)' = Root(i)
      BY <1>0, <1>2, <1>3 DEF Origins
    <3>2. DOMAIN bin \cap meddled \subseteq DOMAIN bin' \cap meddled'
      BY <1>1, <1>2
    <3>3. bin[i].world # 0 => Root(bin[i].world)' = Root(bin[i].world)
      BY <1>3, <3>1 DEF Origin
    <3> QED BY <3>1, <3>2, <3>3, <1>3 DEF Origin, Root
  <2>2. Origin(bin[n], n)'
    <3>1. place \in Place /\ place.world = w /\ place.path = p
      BY DEF place, Place
    <3>2. w # 0 => w \in DOMAIN bin' \cap meddled'
      <4>1. w # 0 => w \in Entry
        BY <1>0, <1>10, InBin
      <4> QED BY <1>1, <1>2, <1>10, <4>1
    <3>3. w # 0 /\ p \in Dir => p = Root(w)'
      <4>1. p \in Dir => p \in dirs[w]
        BY <1>1 DEF Exists
      <4>2. w # 0 /\ p \in Dir => w \in DOMAIN bin /\ p = Root(w)
        BY <1>0, <4>1 DEF Housed
      <4> QED BY <1>3, <4>2
    <3>4. bin'[n] = place /\ Root(n)' = p /\ place \in Place
      BY <1>2, <1>4, <3>1
    <3> QED BY <3>1, <3>2, <3>3, <3>4 DEF Origin, Root
  <2> QED BY <1>2, <2>1, <2>2 DEF Origins
<1>14. Labels'
  <2>1. ASSUME NEW v \in World, NEW f \in File, files'[v][f] < 0
        PROVE  /\ - files'[v][f] \in DOMAIN bin' /\ (Root(- files[v][f]) \in Dir)'
               /\ (DeletedFrom[Root(- files[v][f])] = f)'
    <3>1. PICK u \in World : files'[v][f] = files[u][f]
      <4>1. files'[v][f] # None
        BY <2>1 DEF None
      <4> QED BY <1>8, <4>1
    <3>2. PICK i \in DOMAIN bin : i = - files[u][f]
      BY <1>0, <2>1, <3>1 DEF Labels
    <3>3. Root(i) \in Dir /\ DeletedFrom[Root(i)] = f
      BY <1>0, <2>1, <3>1, <3>2 DEF Labels
    <3>4. i = - files'[v][f] /\ bin'[i] = bin[i] /\ i \in DOMAIN bin'
      BY <1>2, <3>1, <3>2
    <3> QED BY <3>3, <3>4 DEF Root
  <2>2. ASSUME NEW i \in Entry
        PROVE  /\ from'[i] < 0 => from'[i] = - i
               /\ i \notin DOMAIN bin' => from'[i] = None /\ why'[i] = "no"
    BY <1>0, <1>1, <1>2 DEF Labels
  <2> QED BY <2>1, <2>2 DEF Labels
<1>15. UnderWay'
  <2>1. There(n)'
    <3>1. p \in Dir => p \in dirs'[n]
      BY <1>9
    <3>2. p \notin Dir => files'[n][p] # None
      <4>1. p \notin Dir => p \in File /\ p \in Taken(p) /\ files[w][p] # None
        BY <1>1 DEF Path, Taken, Exists
      <4> QED BY <1>8, <4>1
    <3> QED BY <1>4, <3>1, <3>2 DEF There, Exists
  <2>2. doing'.kind = "deleted" /\ doing'.entry = n
    BY <1>1 DEF Doing
  <2> QED BY <1>2, <2>1, <2>2 DEF UnderWay
<1>16. Recorded'
  <2>0. doing'.kind = "deleted" /\ doing'.entry = n /\ doing.kind = "none"
    BY <1>1 DEF Doing, Resting
  <2>1. from[n] = None /\ why[n] = "no"
    BY <1>0, <1>2 DEF Labels
  <2>2. ASSUME NEW i \in DOMAIN bin \ meddled'
        PROVE  /\ i \notin meddled /\ Root(i)' = Root(i) /\ There(i)' = There(i) /\ Label(i)' = Label(i)
    <3>1. i \in World \ {n, w} /\ i \notin meddled
      BY <1>0, <1>1, <1>2, InBin
    <3>2. files'[i] = files[i] /\ dirs'[i] = dirs[i] /\ Root(i)' = Root(i) /\ from' = from
      BY <1>1, <1>3, <1>8, <1>9, <3>1
    <3> QED BY <3>1, <3>2 DEF There, Exists, Label
  <2>3. from' = from /\ why' = why
    BY <1>1
  <2> SUFFICES ASSUME NEW i \in DOMAIN bin' \ meddled' PROVE
          /\ from[i] \in {None, - i}
          /\ Root(i)' \in Dir => from[i] = None
          /\ why[i] \in {"restoration failed", "purged"} => Root(i)' \in File
          /\ There(i)' /\ why[i] = "no" => Label(i)' = - i \/ i = n
    BY <2>0, <2>3 DEF Recorded
  <2>4. CASE i = n
    BY <2>1, <2>4
  <2>5. CASE i # n
    <3>1. i \in DOMAIN bin \ meddled
      BY <1>2, <2>2, <2>5
    <3> QED BY <1>0, <2>0, <2>2, <3>1 DEF Recorded
  <2> QED BY <2>4, <2>5
<1>17. Saved'
  <2>1. ASSUME NEW k \in Nat \ {0}, NEW v \in World, NEW f \in File, files[v][f] = k PROVE Safe(k)'
    <3>1. v # n /\ k # None
      BY <1>6, <2>1 DEF None
    <3>2. CASE v = w /\ f \in Taken(p)
      BY <1>2, <1>8, <2>1, <3>2 DEF Safe
    <3>3. CASE ~(v = w /\ f \in Taken(p))
      <4>1. files'[v][f] = k
        BY <1>8, <2>1, <3>1, <3>3
      <4> QED BY <4>1 DEF Safe
    <3> QED BY <3>2, <3>3
  <2>2. Fates' = Fates /\ written' = written
    BY <1>1 DEF Fates, fates
  <2> QED BY <1>0, <2>1, <2>2, Accounted
<1> QED BY <1>11, <1>12, <1>13, <1>14, <1>15, <1>16, <1>17 DEF BinInv

LEMMA RecordKeeps == ASSUME BinInv, WriteRecord PROVE BinInv'
<1>0. BinType /\ Housed /\ Origins /\ Labels /\ UnderWay /\ Recorded /\ Saved
  BY DEF BinInv
<1>1. PICK e \in DOMAIN bin : e = doing.entry
  BY <1>0 DEF UnderWay, WriteRecord
<1>2. /\ doing.kind = "deleted" /\ doing' = Resting /\ doing'.kind = "none" /\ There(e)
      /\ UNCHANGED <<dirs, bin, written, replaced, meanwhile, elsewhere, purged, meddled, why>>
  BY <1>0, <1>1 DEF WriteRecord, UnderWay, Resting, Doing
<1>3. /\ e \in Entry /\ e \in World \ {0} /\ e \in Nat \ {0} /\ - e < 0 /\ - e \in Int
      /\ Root(e) \in Path /\ Root(e)' = Root(e)
  <2>1. /\ e \in Entry /\ e \in World \ {0} /\ e \in Nat \ {0} /\ - e < 0 /\ Root(e) \in Path
    BY <1>0, InBin
  <2> QED BY <1>2, <2>1 DEF Root
<1>4. UnderWay'
  BY <1>2 DEF UnderWay
<1>5. Origins'
  BY <1>0, <1>2 DEF Origins, Origin, Root
<1>6. CASE Root(e) \notin Dir
  <2>1. from' = [from EXCEPT ![e] = - e] /\ UNCHANGED <<files, labelled>>
    BY <1>1, <1>6 DEF WriteRecord
  <2>2. from' \in [Entry -> Int] /\ from'[e] = - e /\ \A i \in Entry \ {e} : from'[i] = from[i]
    BY <1>0, <1>3, <2>1 DEF BinType
  <2>3. BinType' /\ Labels'
    BY <1>0, <1>2, <2>1, <2>2 DEF BinType, Labels, Root
  <2>4. Housed' /\ Saved'
    BY <1>0, <1>2, <2>1 DEF Housed, Reachable, Root, Saved, Safe, Fates
  <2>5. Recorded'
    <3> SUFFICES ASSUME NEW i \in DOMAIN bin \ meddled PROVE
            /\ from'[i] \in {None, - i}
            /\ Root(i) \in Dir => from'[i] = None
            /\ why[i] \in {"restoration failed", "purged"} => Root(i) \in File
            /\ There(i) /\ why[i] = "no" => Label(i)' = - i
      BY <1>2, <2>1 DEF Recorded, Root, There, Exists
    <3>1. CASE i = e
      <4>1. Label(e)' = - e
        BY <1>3, <2>2 DEF Label, None
      <4> QED BY <1>0, <1>6, <2>2, <3>1, <4>1 DEF Recorded
    <3>2. CASE i # e
      <4>1. i \in Entry /\ from'[i] = from[i]
        BY <1>0, <2>2, <3>2, InBin
      <4>2. Label(i)' = Label(i)
        BY <1>2, <2>1, <4>1 DEF Label, Root
      <4> QED BY <1>0, <1>1, <1>2, <3>2, <4>1, <4>2 DEF Recorded
    <3> QED BY <3>1, <3>2
  <2> QED BY <1>4, <1>5, <2>3, <2>4, <2>5 DEF BinInv
<1>7. CASE Root(e) \in Dir
  <2> DEFINE d == Root(e)
             f == DeletedFrom[d]
  <2>1. /\ files' = [files EXCEPT ![e][f] = - e] /\ from' = from
        /\ labelled' = labelled \cup Written({files[e][f]})
    BY <1>1, <1>7 DEF WriteRecord
  <2>2. f \in File /\ Home[f] = d /\ d \in dirs[e]
    <3>1. d \in dirs[e]
      BY <1>2, <1>7 DEF There, Exists
    <3> QED BY <1>7, <3>1, RecycleAssumption
  <2>3. /\ files' \in [World -> [File -> Int]] /\ files'[e][f] = - e
        /\ \A v \in World, g \in File : <<v, g>> # <<e, f>> => files'[v][g] = files[v][g]
    <3>1. files \in [World -> [File -> Int]]
      BY <1>0 DEF BinType
    <3>2. files' = [files EXCEPT ![e] = [files[e] EXCEPT ![f] = - e]]
      BY <2>1
    <3>3. [files[e] EXCEPT ![f] = - e] \in [File -> Int]
      BY <1>3, <3>1
    <3> HIDE DEF f
    <3> QED BY <1>3, <2>2, <3>1, <3>2, <3>3
  <2>4. BinType'
    BY <1>0, <1>2, <2>1, <2>3 DEF BinType
  <2>5. Housed'
    <3>1. ASSUME NEW v \in World, NEW g \in File, files'[v][g] # None PROVE Reachable(v, g)
      <4>1. CASE <<v, g>> = <<e, f>>
        BY <2>2, <4>1 DEF Reachable
      <4>2. CASE <<v, g>> # <<e, f>>
        BY <1>0, <2>3, <3>1, <4>2 DEF Housed
      <4> QED BY <4>1, <4>2
    <3> QED BY <1>0, <1>2, <3>1 DEF Housed, Reachable, Root
  <2>6. Labels'
    <3>1. ASSUME NEW v \in World, NEW g \in File, files'[v][g] < 0
          PROVE  /\ - files'[v][g] \in DOMAIN bin
                 /\ Root(- files'[v][g]) \in Dir /\ DeletedFrom[Root(- files'[v][g])] = g
      <4>1. CASE <<v, g>> = <<e, f>>
        <5>1. - files'[v][g] = e
          <6>1. files'[v][g] = - e
            BY <2>3, <4>1
          <6> QED BY <1>3, <6>1
        <5> QED BY <1>7, <4>1, <5>1
      <4>2. CASE <<v, g>> # <<e, f>>
        BY <1>0, <2>3, <3>1, <4>2 DEF Labels
      <4> QED BY <4>1, <4>2
    <3> QED BY <1>0, <1>2, <2>1, <3>1 DEF Labels, Root
  <2>7. Recorded'
    <3> SUFFICES ASSUME NEW i \in DOMAIN bin \ meddled PROVE
            /\ from[i] \in {None, - i}
            /\ Root(i) \in Dir => from[i] = None
            /\ why[i] \in {"restoration failed", "purged"} => Root(i) \in File
            /\ There(i)' /\ why[i] = "no" => Label(i)' = - i
      BY <1>2, <2>1 DEF Recorded, Root
    <3>1. CASE i = e
      <4>1. from[e] = None
        BY <1>0, <1>7, <3>1 DEF Recorded
      <4>2. Label(e)' = - e
        BY <1>2, <1>3, <2>1, <2>2, <2>3, <4>1 DEF Label
      <4> QED BY <1>0, <3>1, <4>2 DEF Recorded
    <3>2. CASE i # e
      <4>1. i \in World /\ files'[i] = files[i]
        <5>1. i \in World
          BY <1>0, InBin
        <5> HIDE DEF f
        <5> QED BY <2>1, <3>2, <5>1, <1>0 DEF BinType
      <4>2. There(i)' = There(i) /\ Label(i)' = Label(i)
        BY <1>2, <2>1, <4>1 DEF There, Exists, Label, Root
      <4> QED BY <1>0, <1>1, <1>2, <3>2, <4>2 DEF Recorded
    <3> QED BY <3>1, <3>2
  <2>8. Saved'
    <3>1. ASSUME NEW k \in Nat \ {0}, NEW v \in World, NEW g \in File, files[v][g] = k PROVE Safe(k)'
      <4>1. CASE <<v, g>> = <<e, f>>
        BY <2>1, <3>1, <4>1 DEF Safe, Fates, Written, None
      <4>2. CASE <<v, g>> # <<e, f>>
        BY <2>3, <3>1, <4>2 DEF Safe
      <4> QED BY <4>1, <4>2
    <3>2. Fates \subseteq Fates' /\ written' = written
      BY <1>2, <2>1 DEF Fates
    <3> QED BY <1>0, <3>1, <3>2, Accounted
  <2> QED BY <1>4, <1>5, <2>4, <2>5, <2>6, <2>7, <2>8 DEF BinInv
<1> QED BY <1>6, <1>7

\* The operations that only change who does what, and what is known of it.
LEMMA BinStands ==
  ASSUME BinInv, RecordFails \/ purge \/ BinProcessEnds \/ UnlinkRecord \/ \E e \in Entry : restore(e)
  PROVE  BinInv'
<1>0. BinType /\ Housed /\ Origins /\ Labels /\ UnderWay /\ Recorded
  BY DEF BinInv
<1>1. UNCHANGED <<files, dirs, bin, written, fates>> /\ meddled' = meddled
  BY DEF RecordFails, purge, BinProcessEnds, UnlinkRecord, restore, space
<1>2. Housed' /\ Origins' /\ Saved'
  BY <1>1, NothingMoves
<1>3. \A e : Root(e)' = Root(e)
  BY <1>1 DEF Root
<1>4. \A e : There(e)' = There(e)
  BY <1>1, <1>3 DEF There, Exists
<1>5. CASE RecordFails \/ BinProcessEnds
  <2>1. doing' = Resting /\ doing'.kind = "none" /\ from' = from
    <3>1. doing' = Resting /\ from' = from
      BY <1>5 DEF RecordFails, BinProcessEnds, space
    <3> QED BY <3>1 DEF Resting, Doing
  <2>2. \/ why' = why /\ doing.kind # "deleted"
           /\ (doing.kind = "moving" => Root(doing.entry) \notin File)
        \/ /\ doing.kind = "deleted"
           /\ why' = [why EXCEPT ![doing.entry] = "deletion cut short"]
        \/ /\ doing.kind = "moving" /\ Root(doing.entry) \in File
           /\ why' = [why EXCEPT ![doing.entry] = "restoration failed"]
    BY <1>5 DEF RecordFails, BinProcessEnds
  <2>3. why' \in [Entry -> {"no", "deletion cut short", "restoration failed", "purged"}]
    BY <1>0, <2>2 DEF BinType
  <2>4. BinType' /\ UnderWay'
    BY <1>0, <1>1, <2>1, <2>3 DEF BinType, UnderWay
  <2>5. \A i \in Entry \ DOMAIN bin : why'[i] = why[i]
    BY <1>0, <2>2 DEF BinType, UnderWay
  <2>6. Labels'
    BY <1>0, <1>1, <1>3, <2>1, <2>5 DEF Labels
  <2>7. Recorded'
    <3> SUFFICES ASSUME NEW i \in DOMAIN bin \ meddled PROVE
            /\ why'[i] \in {"restoration failed", "purged"} => Root(i) \in File
            /\ There(i) /\ why'[i] = "no" => Label(i) = - i
      BY <1>0, <1>1, <1>3, <1>4, <2>1 DEF Recorded, Label
    <3>1. i \in Entry
      BY <1>0, InBin
    <3>2. \/ i = doing.entry /\ why'[i] = "deletion cut short"
          \/ i = doing.entry /\ Root(i) \in File /\ why'[i] = "restoration failed"
          \/ /\ why'[i] = why[i]
             /\ ~(i = doing.entry /\ doing.kind = "deleted")
             /\ ~(i = doing.entry /\ doing.kind = "moving" /\ Root(i) \in File)
      BY <1>0, <2>2, <3>1 DEF BinType
    <3> QED BY <1>0, <3>2 DEF Recorded
  <2> QED BY <1>2, <2>4, <2>6, <2>7 DEF BinInv
<1>6. CASE purge
  <2>1. /\ doing'.kind = "purging" /\ doing'.todo = entries /\ doing.kind = "none"
        /\ from' = from /\ why' = why
    BY <1>6 DEF purge, space, Resting, Doing
  <2>2. BinType' /\ UnderWay'
    BY <1>0, <1>1, <2>1 DEF BinType, UnderWay, entries
  <2>3. Labels' /\ Recorded'
    BY <1>0, <1>1, <1>3, <1>4, <2>1 DEF Labels, Recorded, Label
  <2> QED BY <1>2, <2>2, <2>3 DEF BinInv
<1>7. CASE UnlinkRecord
  <2>1. PICK e \in DOMAIN bin : e = doing.entry
    BY <1>0, <1>7 DEF UnderWay, UnlinkRecord
  <2>2. /\ doing.kind = "restoring" /\ doing'.kind = "moving" /\ doing'.entry = e
        /\ doing'.to = doing.to /\ why' = why /\ from' = [from EXCEPT ![e] = None]
        /\ e \in Entry /\ Root(e) \in Path
    <3>1. e \in Entry /\ Root(e) \in Path
      BY <1>0, InBin
    <3>2. doing' = [doing EXCEPT !.kind = "moving"] /\ doing.kind = "restoring"
      BY <1>7 DEF UnlinkRecord
    <3>3. doing'.kind = "moving" /\ doing'.entry = e /\ doing'.to = doing.to
      BY <1>0, <2>1, <3>2 DEF UnderWay
    <3> QED BY <1>7, <2>1, <3>1, <3>2, <3>3 DEF UnlinkRecord
  <2>3. from' \in [Entry -> Int] /\ from'[e] = None /\ \A i \in Entry \ {e} : from'[i] = from[i]
    <3>1. from \in [Entry -> Int]
      BY <1>0 DEF BinType
    <3>2. None \in Int
      BY DEF None
    <3> QED BY <2>2, <3>1, <3>2
  <2>4. BinType'
    BY <1>0, <1>1, <2>2, <2>3 DEF BinType
  <2>7. Labels'
    <3>1. \A i \in Entry : from'[i] < 0 => from'[i] = from[i]
      BY <2>3 DEF None
    <3>2. \A i \in Entry : i \notin DOMAIN bin => from'[i] = from[i]
      BY <2>1, <2>3
    <3> QED BY <1>0, <1>1, <1>3, <2>2, <3>1, <3>2 DEF Labels
  <2>5. UnderWay'
    BY <1>0, <1>1, <2>1, <2>2 DEF UnderWay, Origin, Root, fates
  <2>6. Recorded'
    <3> SUFFICES ASSUME NEW i \in DOMAIN bin \ meddled PROVE
            /\ from'[i] \in {None, - i}
            /\ Root(i) \in Dir => from'[i] = None
            /\ why[i] \in {"restoration failed", "purged"} => Root(i) \in File
            /\ There(i) /\ why[i] = "no" => Label(i)' = - i \/ (i = e /\ Root(i) \in File)
      BY <1>1, <1>3, <1>4, <2>2 DEF Recorded
    <3>1. CASE i = e
      <4>1. Root(e) \in Dir => from' = from
        BY <1>0, <2>2, <3>1 DEF Recorded, BinType
      <4>2. Root(e) \in Dir => Label(e)' = Label(e)
        BY <1>1, <1>3, <4>1 DEF Label
      <4> QED BY <1>0, <2>1, <2>2, <2>3, <3>1, <4>2 DEF Recorded, Path
    <3>2. CASE i # e
      <4>1. from'[i] = from[i]
        BY <1>0, <2>3, <3>2, InBin
      <4>2. Label(i)' = Label(i)
        BY <1>1, <1>3, <4>1 DEF Label
      <4> QED BY <1>0, <2>1, <2>2, <3>2, <4>1, <4>2 DEF Recorded
    <3> QED BY <3>1, <3>2
  <2> QED BY <1>2, <2>4, <2>5, <2>6, <2>7 DEF BinInv
<1>8. ASSUME NEW e \in Entry, restore(e) PROVE BinInv'
  <2>1. /\ e \in DOMAIN bin /\ There(e) /\ doing.kind = "none" /\ from' = from /\ why' = why
        /\ doing'.kind = "restoring" /\ doing'.entry = e
    BY <1>8 DEF restore, Restoring, Resting, Doing, space
  <2>2. \/ doing'.to = Nowhere
        \/ Label(e) < 0 /\ ~Exists(doing'.to.world, doing'.to.path) /\ doing'.to = bin[- Label(e)]
    BY <1>8 DEF restore, Restoring, Doing
  <2>3. BinType' /\ Labels' /\ Recorded'
    <3>1. BinType' /\ Labels'
      BY <1>0, <1>1, <1>3, <2>1 DEF BinType, Labels
    <3>2. \A i : Label(i)' = Label(i)
      BY <1>1, <1>3, <2>1 DEF Label
    <3> QED BY <1>0, <1>1, <1>3, <1>4, <2>1, <3>1, <3>2 DEF Recorded
  <2>4. ASSUME doing'.to # Nowhere
        PROVE  /\ Origin(doing'.to, e) /\ doing'.to.world # e
               /\ doing'.to.path \in File => files[doing'.to.world][doing'.to.path] = None
    <3> DEFINE to == doing'.to
    <3>1. Label(e) < 0 /\ ~Exists(to.world, to.path) /\ to = bin[- Label(e)]
      BY <2>2, <2>4
    <3>2. PICK l \in DOMAIN bin : l = - Label(e) /\ Root(l) = Root(e)
      <4>1. CASE from[e] # None
        <5>1. Label(e) = from[e] /\ from[e] = - e
          BY <1>0, <3>1, <4>1 DEF Label, Labels
        <5>2. - Label(e) = e
          BY <1>0, <2>1, <5>1, InBin
        <5> QED BY <2>1, <5>2
      <4>2. CASE from[e] = None
        <5>1. Root(e) \in dirs[e] /\ Label(e) = files[e][DeletedFrom[Root(e)]]
          BY <3>1, <4>2 DEF Label, None
        <5>2. Root(e) \in Dir /\ e \in World
          BY <1>0, <2>1, <5>1, InBin DEF BinType
        <5>3. DeletedFrom[Root(e)] \in File /\ Home[DeletedFrom[Root(e)]] = Root(e)
          BY <5>2, RecycleAssumption
        <5>4. /\ - Label(e) \in DOMAIN bin /\ Root(- Label(e)) \in Dir
              /\ DeletedFrom[Root(- Label(e))] = DeletedFrom[Root(e)]
          BY <1>0, <3>1, <5>1, <5>2, <5>3 DEF Labels
        <5>5. Home[DeletedFrom[Root(- Label(e))]] = Root(- Label(e))
          BY <5>4, RecycleAssumption
        <5> QED BY <5>3, <5>4, <5>5
      <4> QED BY <4>1, <4>2
    <3>3. Origin(to, l) /\ Origin(to, e) /\ to.path = Root(e)
      BY <1>0, <3>1, <3>2 DEF Origins, Origin
    <3>4. to.world # e
      BY <2>1, <3>1, <3>3 DEF There
    <3>5. to.path \in File => files[to.world][to.path] = None
      BY <3>1, RecycleAssumption DEF Exists
    <3> QED BY <3>3, <3>4, <3>5
  <2>5. UnderWay'
    BY <1>1, <2>1, <2>4 DEF UnderWay, Origin, Root
  <2> QED BY <1>2, <2>3, <2>5 DEF BinInv
<1> QED BY <1>5, <1>6, <1>7, <1>8

\* An entry that is emptied, by what has gone elsewhere or was purged.
LEMMA Emptied ==
  ASSUME BinInv, NEW e \in DOMAIN bin, Gone(e), UNCHANGED bin
  PROVE  /\ files' \in [World -> [File -> Int]] /\ dirs' \in [World -> SUBSET Dir]
         /\ \A f \in File : files'[e][f] = None
         /\ dirs'[e] = {}
         /\ \A v \in World \ {e} : files'[v] = files[v] /\ dirs'[v] = dirs[v]
         /\ Housed' /\ ~There(e)'
<1>0. BinType /\ Housed
  BY DEF BinInv
<1>1. e \in World \ {0} /\ Root(e) \in Path
  BY <1>0, InBin
<1>2. files \in [World -> [File -> Int]] /\ dirs \in [World -> SUBSET Dir]
  BY <1>0 DEF BinType
<1>3. files' = [files EXCEPT ![e] = Empty] /\ dirs' = [dirs EXCEPT ![e] = {}]
  BY DEF Gone
<1>4. Empty \in [File -> Int] /\ \A f \in File : Empty[f] = None
  BY DEF Empty, None
<1>5. files' \in [World -> [File -> Int]] /\ dirs' \in [World -> SUBSET Dir]
  BY <1>2, <1>3, <1>4
<1>6. /\ files'[e] = Empty /\ dirs'[e] = {}
      /\ \A v \in World \ {e} : files'[v] = files[v] /\ dirs'[v] = dirs[v]
  BY <1>1, <1>2, <1>3
<1>7. Housed'
  <2>1. ASSUME NEW v \in World, NEW f \in File, files'[v][f] # None PROVE Reachable(v, f)'
    <3>1. v # e
      BY <1>4, <1>6, <2>1
    <3>2. Reachable(v, f)
      BY <1>0, <1>6, <2>1, <3>1 DEF Housed
    <3> QED BY <1>6, <3>1, <3>2 DEF Reachable, Root
  <2>2. \A v \in World \ {0} : \A d \in dirs'[v] : v \in DOMAIN bin' /\ d = Root(v)'
    BY <1>0, <1>6 DEF Housed, Root
  <2> QED BY <2>1, <2>2 DEF Housed
<1>8. ~There(e)'
  BY <1>1, <1>4, <1>6, RecycleAssumption DEF There, Exists, Root, Path
<1> QED BY <1>4, <1>5, <1>6, <1>7, <1>8

LEMMA PurgeEntryKeeps == ASSUME BinInv, NEW e \in Entry, PurgeEntry(e) PROVE BinInv'
<1> DEFINE left == doing.todo \ {e}
<1>0. BinType /\ Housed /\ Origins /\ Labels /\ UnderWay /\ Recorded /\ Saved
  BY DEF BinInv
<1>1. /\ doing.kind = "purging" /\ e \in doing.todo
      /\ from' = [from EXCEPT ![e] = None]
      /\ doing' = IF left = {} THEN Resting ELSE [doing EXCEPT !.todo = left]
      /\ UNCHANGED <<bin, written, replaced, meanwhile, labelled, elsewhere, meddled>>
  BY DEF PurgeEntry
<1>2. /\ Root(e) \in Dir => Gone(e) /\ purged' = purged \cup Contents(files[e]) /\ why' = why
      /\ Root(e) \notin Dir =>
           why' = [why EXCEPT ![e] = "purged"] /\ UNCHANGED <<files, dirs, purged>>
  BY DEF PurgeEntry
<1>3. e \in DOMAIN bin /\ doing.todo \subseteq DOMAIN bin
  BY <1>0, <1>1 DEF UnderWay
<1>4. e \in World \ {0} /\ Root(e) \in Path /\ \A i : Root(i)' = Root(i)
  <2>1. e \in World \ {0} /\ Root(e) \in Path
    BY <1>0, <1>3, InBin
  <2> QED BY <1>1, <2>1 DEF Root
<1>5. \/ doing' = Resting /\ doing'.kind = "none"
      \/ doing'.kind = "purging" /\ doing'.todo \subseteq doing.todo
  <2>1. CASE left = {}
    BY <1>1, <2>1 DEF Resting, Doing
  <2>2. CASE left # {}
    <3>1. doing' = [doing EXCEPT !.todo = left]
      BY <1>1, <2>2
    <3>2. doing'.todo \in {left, doing.todo} /\ doing'.kind = doing.kind
      BY <3>1
    <3> QED BY <1>1, <3>2
  <2> QED BY <2>1, <2>2
<1>6. UnderWay'
  BY <1>1, <1>3, <1>5 DEF UnderWay
<1>7. Origins'
  BY <1>0, <1>1, <1>4 DEF Origins, Origin
<1>8. from' \in [Entry -> Int] /\ from'[e] = None /\ \A i \in Entry \ {e} : from'[i] = from[i]
  <2>1. from \in [Entry -> Int]
    BY <1>0 DEF BinType
  <2>2. None \in Int
    BY DEF None
  <2> QED BY <1>1, <2>1, <2>2
<1>9. /\ why' \in [Entry -> {"no", "deletion cut short", "restoration failed", "purged"}]
      /\ why'[e] = IF Root(e) \in Dir THEN why[e] ELSE "purged"
      /\ \A i \in Entry \ {e} : why'[i] = why[i]
  BY <1>0, <1>2 DEF BinType
<1>10. /\ files' \in [World -> [File -> Int]] /\ dirs' \in [World -> SUBSET Dir]
       /\ \A v \in World \ {e} : files'[v] = files[v] /\ dirs'[v] = dirs[v]
       /\ \A f \in File : files'[e][f] \in {None, files[e][f]}
       /\ Housed'
  <2>1. CASE Root(e) \in Dir
    BY <1>1, <1>2, <1>3, <2>1, Emptied
  <2>2. CASE Root(e) \notin Dir
    BY <1>0, <1>1, <1>2, <2>2 DEF BinType, Housed, Reachable, Root
  <2> QED BY <2>1, <2>2
<1>11. BinType'
  BY <1>0, <1>1, <1>5, <1>8, <1>9, <1>10 DEF BinType
<1>12. Labels'
  <2>1. \A v \in World, f \in File : files'[v][f] < 0 => files'[v][f] = files[v][f]
    BY <1>10 DEF None
  <2>2. \A i \in Entry : from'[i] < 0 => from'[i] = from[i]
    BY <1>8 DEF None
  <2>3. \A i \in Entry : i \notin DOMAIN bin => from'[i] = from[i] /\ why'[i] = why[i]
    BY <1>3, <1>8, <1>9
  <2> QED BY <1>0, <1>1, <1>4, <2>1, <2>2, <2>3 DEF Labels
<1>13. Recorded'
  <2> SUFFICES ASSUME NEW i \in DOMAIN bin \ meddled PROVE
          /\ from'[i] \in {None, - i}
          /\ Root(i) \in Dir => from'[i] = None
          /\ why'[i] \in {"restoration failed", "purged"} => Root(i) \in File
          /\ There(i)' /\ why'[i] = "no" => Label(i)' = - i
    BY <1>1, <1>4 DEF Recorded
  <2>1. CASE i = e
    <3>1. Root(e) \in Dir => ~There(e)'
      BY <1>1, <1>2, <1>3, Emptied
    <3>2. Root(e) \notin Dir => Root(e) \in File
      BY <1>4 DEF Path
    <3> QED BY <1>0, <1>8, <1>9, <2>1, <3>1, <3>2 DEF Recorded
  <2>2. CASE i # e
    <3>1. i \in Entry /\ i \in World
      BY <1>0, InBin
    <3>2. There(i)' = There(i) /\ Label(i)' = Label(i)
      BY <1>4, <1>8, <1>10, <2>2, <3>1 DEF There, Exists, Label
    <3> QED BY <1>0, <1>1, <1>8, <1>9, <2>2, <3>1, <3>2 DEF Recorded
  <2> QED BY <2>1, <2>2
<1>14. Saved'
  <2>1. Fates \subseteq Fates' /\ written' = written
    BY <1>1, <1>2 DEF Fates
  <2>2. ASSUME NEW k \in Nat \ {0}, NEW v \in World, NEW f \in File, files[v][f] = k PROVE Safe(k)'
    <3>1. CASE v = e /\ Root(e) \in Dir
      BY <1>2, <2>2, <3>1 DEF Safe, Fates, Contents, Written, None
    <3>2. CASE v # e \/ Root(e) \notin Dir
      <4>1. files'[v][f] = k
        BY <1>2, <1>10, <2>2, <3>2
      <4> QED BY <4>1 DEF Safe
    <3> QED BY <3>1, <3>2
  <2> QED BY <1>0, <2>1, <2>2, Accounted
<1> QED BY <1>6, <1>7, <1>10, <1>11, <1>12, <1>13, <1>14 DEF BinInv

LEMMA MoveBackKeeps == ASSUME BinInv, MoveBack PROVE BinInv'
<1>0. BinType /\ Housed /\ Origins /\ Labels /\ UnderWay /\ Recorded /\ Saved
  BY DEF BinInv
<1>1. PICK e \in DOMAIN bin : e = doing.entry
  BY <1>0 DEF UnderWay, MoveBack
<1>2. PICK to \in {doing.to} : TRUE
  OBVIOUS
<1> DEFINE w == to.world
           p == to.path
<1>3. /\ doing.kind = "moving" /\ doing' = Resting /\ doing'.kind = "none"
      /\ UNCHANGED <<from, bin, written, replaced, meanwhile, labelled, purged, meddled>>
  BY DEF MoveBack, Resting, Doing
<1>4. \/ Stranded(e) /\ p \notin Dir
      \/ MovedElsewhere(e)
      \/ /\ MovedTo(e, w, p)
         /\ (p \in Dir /\ p \notin dirs[w]) \/ (p \in File /\ Reachable(w, p))
  <2>1. Top \notin Dir /\ \A x \in File : x \notin Dir
    BY RecycleAssumption DEF Path
  <2> QED BY <1>1, <1>2, <2>1 DEF MoveBack
<1>5. /\ e \in Entry /\ e \in World \ {0} /\ Root(e) \in Path /\ \A i : Root(i)' = Root(i)
  <2>1. /\ e \in Entry /\ e \in World \ {0} /\ Root(e) \in Path
    BY <1>0, InBin
  <2> QED BY <1>3, <2>1 DEF Root
<1>6. UnderWay'
  BY <1>3 DEF UnderWay
<1>7. Origins'
  BY <1>0, <1>3, <1>5 DEF Origins, Origin
<1>8. \* What an entry was known to hold, it still does, or it is no longer there.
      ASSUME BinType', why' = why,
             \A i \in DOMAIN bin \ (meddled \cup {e}) : files'[i] = files[i] /\ dirs'[i] = dirs[i],
             ~There(e)'
      PROVE  Recorded'
  <2> SUFFICES ASSUME NEW i \in DOMAIN bin \ meddled PROVE
          There(i)' /\ why[i] = "no" => Label(i)' = - i
    BY <1>0, <1>3, <1>5, <1>8 DEF Recorded
  <2>1. CASE i = e
    BY <1>8, <2>1
  <2>2. CASE i # e
    <3>1. There(i)' = There(i) /\ Label(i)' = Label(i)
      BY <1>3, <1>5, <1>8, <2>2 DEF There, Exists, Label
    <3> QED BY <1>0, <1>1, <2>2, <3>1 DEF Recorded
  <2> QED BY <2>1, <2>2
<1>9. CASE Stranded(e)
  <2>1. /\ why' = [why EXCEPT ![e] = IF Root(e) \in File THEN "restoration failed" ELSE @]
        /\ UNCHANGED <<files, dirs, elsewhere>>
    BY <1>9 DEF Stranded
  <2>2. /\ why' \in [Entry -> {"no", "deletion cut short", "restoration failed", "purged"}]
        /\ why'[e] = IF Root(e) \in File THEN "restoration failed" ELSE why[e]
        /\ \A i \in Entry \ {e} : why'[i] = why[i]
    BY <1>0, <1>5, <2>1 DEF BinType
  <2>3. BinType' /\ Labels'
    <3>1. BinType'
      BY <1>0, <1>3, <2>1, <2>2 DEF BinType
    <3>2. \A i \in Entry : i \notin DOMAIN bin => why'[i] = why[i]
      BY <2>2
    <3> QED BY <1>0, <1>3, <1>5, <2>1, <3>1, <3>2 DEF Labels
  <2>4. Housed' /\ Saved'
    BY <1>0, <1>3, <1>5, <2>1 DEF Housed, Reachable, Saved, Safe, Fates
  <2>5. Recorded'
    <3> SUFFICES ASSUME NEW i \in DOMAIN bin \ meddled PROVE
            /\ why'[i] \in {"restoration failed", "purged"} => Root(i) \in File
            /\ There(i) /\ why'[i] = "no" => Label(i) = - i
      BY <1>0, <1>3, <1>5, <2>1 DEF Recorded, There, Exists, Label
    <3>1. CASE i = e
      BY <1>0, <1>1, <1>3, <2>2, <3>1 DEF Recorded
    <3>2. CASE i # e
      <4>1. why'[i] = why[i]
        BY <1>0, <2>2, <3>2, InBin
      <4> QED BY <1>0, <1>1, <3>2, <4>1 DEF Recorded
    <3> QED BY <3>1, <3>2
  <2> QED BY <1>6, <1>7, <2>3, <2>4, <2>5 DEF BinInv
<1>10. CASE MovedElsewhere(e)
  <2>1. Gone(e) /\ elsewhere' = elsewhere \cup Contents(files[e]) /\ why' = why
    BY <1>10 DEF MovedElsewhere
  <2>2. /\ files' \in [World -> [File -> Int]] /\ dirs' \in [World -> SUBSET Dir]
        /\ \A f \in File : files'[e][f] = None
        /\ \A v \in World \ {e} : files'[v] = files[v] /\ dirs'[v] = dirs[v]
        /\ Housed' /\ ~There(e)'
    BY <1>3, <2>1, Emptied
  <2>3. BinType'
    BY <1>0, <1>3, <2>1, <2>2 DEF BinType
  <2>4. Labels'
    <3>1. \A v \in World, f \in File : files'[v][f] < 0 => files'[v][f] = files[v][f]
      BY <2>2 DEF None
    <3> QED BY <1>0, <1>3, <1>5, <2>1, <3>1 DEF Labels
  <2>5. Recorded'
    <3>1. \A i \in DOMAIN bin : i \in World
      BY <1>0, InBin
    <3> QED BY <1>8, <2>1, <2>2, <2>3, <3>1
  <2>6. Saved'
    <3>1. Fates \subseteq Fates' /\ written' = written
      BY <1>3, <2>1 DEF Fates
    <3>2. ASSUME NEW k \in Nat \ {0}, NEW v \in World, NEW f \in File, files[v][f] = k PROVE Safe(k)'
      <4>1. CASE v = e
        BY <2>1, <3>2, <4>1 DEF Safe, Fates, Contents, Written, None
      <4>2. CASE v # e
        BY <2>2, <3>2, <4>2 DEF Safe
      <4> QED BY <4>1, <4>2
    <3> QED BY <1>0, <3>1, <3>2, Accounted
  <2> QED BY <1>6, <1>7, <2>2, <2>3, <2>4, <2>5, <2>6 DEF BinInv
<1>11. CASE MovedTo(e, w, p) /\ ((p \in Dir /\ p \notin dirs[w]) \/ (p \in File /\ Reachable(w, p)))
  <2>1. /\ Origin(to, e) /\ w # e /\ to \in Place /\ p = Root(e) /\ w \in World
        /\ p \in File => files[w][p] \in {None} \cup meanwhile
    <3>1. to # Nowhere
      BY <1>11, RecycleAssumption DEF Nowhere, Path
    <3>2. /\ Origin(to, e) /\ w # e
          /\ p \in File => files[w][p] \in {None} \cup meanwhile
      BY <1>0, <1>1, <1>2, <1>3, <3>1 DEF UnderWay
    <3> QED BY <3>2 DEF Origin, Place
  <2>2. w # 0 => w \in DOMAIN bin \cap meddled /\ (p \in Dir => p = Root(w))
    BY <2>1 DEF Origin
  <2> HIDE DEF w, p
  <2>3. /\ files' = [files EXCEPT ![e] = Empty,
                        ![w] = [f \in File |-> IF f \in Taken(p) THEN files[e][f] ELSE @[f]]]
        /\ dirs' = [dirs EXCEPT ![e] = {}, ![w] = @ \cup ({p} \cap Dir)]
        /\ UNCHANGED <<elsewhere, why>>
    BY <1>11 DEF MovedTo
  <2>4. files \in [World -> [File -> Int]] /\ dirs \in [World -> SUBSET Dir]
    BY <1>0 DEF BinType
  <2>5. /\ files' \in [World -> [File -> Int]]
        /\ \A f \in File : files'[e][f] = None
        /\ \A f \in File : files'[w][f] = IF f \in Taken(p) THEN files[e][f] ELSE files[w][f]
        /\ \A v \in World \ {e, w} : files'[v] = files[v]
    <3> DEFINE moved == [f \in File |-> IF f \in Taken(p) THEN files[e][f] ELSE files[w][f]]
    <3>1. moved \in [File -> Int] /\ Empty \in [File -> Int]
      BY <1>5, <2>1, <2>4 DEF Empty, None
    <3>2. files' = [files EXCEPT ![e] = Empty, ![w] = moved]
      BY <1>5, <2>1, <2>3, <2>4
    <3>3. /\ files' \in [World -> [File -> Int]] /\ files'[e] = Empty /\ files'[w] = moved
          /\ \A v \in World \ {e, w} : files'[v] = files[v]
      <4> HIDE DEF moved
      <4> QED BY <1>5, <2>1, <2>4, <3>1, <3>2
    <3> QED BY <3>3 DEF Empty
  <2>6. /\ dirs' \in [World -> SUBSET Dir] /\ dirs'[e] = {} /\ dirs'[w] = dirs[w] \cup ({p} \cap Dir)
        /\ \A v \in World \ {e, w} : dirs'[v] = dirs[v]
    BY <1>5, <2>1, <2>3, <2>4
  <2>7. ASSUME NEW f \in File, files[e][f] # None PROVE f \in Taken(p)
    <3>1. Reachable(e, f) /\ e # 0 /\ e \in World
      BY <1>0, <1>5, <2>7 DEF Housed
    <3>2. f = Root(e) \/ Home[f] \in dirs[e]
      BY <3>1 DEF Reachable
    <3>3. f = p \/ (Home[f] = p /\ p \in Dir)
      BY <1>0, <1>5, <2>1, <2>4, <3>2 DEF Housed
    <3> QED BY <3>3, RecycleAssumption DEF Taken, Inside
  <2>8. \* What is in the way was written meanwhile.
        ASSUME NEW f \in Taken(p), f \in File PROVE files[w][f] \in {None} \cup meanwhile
    <3>1. CASE p \in File
      BY <2>1, <2>8, <3>1, RecycleAssumption DEF Taken
    <3>2. CASE p \in Dir
      <4>1. Home[f] = p /\ p \notin dirs[w] /\ p # Top
        BY <1>11, <2>8, <3>2, RecycleAssumption DEF Taken, Inside, Path
      <4>2. ~Reachable(w, f)
        <5>1. CASE w = 0
          <6>1. 0 \notin DOMAIN bin
            BY <1>0, InBin
          <6> QED BY <4>1, <5>1, <6>1 DEF Reachable
        <5>2. CASE w # 0
          BY <2>2, <2>8, <3>2, <4>1, <5>2, RecycleAssumption DEF Reachable
        <5> QED BY <5>1, <5>2
      <4> QED BY <1>0, <2>1, <2>8, <4>2 DEF Housed
    <3>3. p \in File \/ p \in Dir
      BY <1>5, <2>1 DEF Path
    <3> QED BY <3>1, <3>2, <3>3
  <2>9. BinType'
    BY <1>0, <1>3, <2>3, <2>5, <2>6 DEF BinType
  <2>10. Housed'
    <3>1. ASSUME NEW v \in World, NEW f \in File, files'[v][f] # None PROVE Reachable(v, f)'
      <4>1. CASE v = w /\ f \in Taken(p)
        <5>1. CASE p \in Dir
          <6>1. Home[f] = p /\ p \in dirs'[w]
            BY <2>6, <4>1, <5>1 DEF Taken, Inside
          <6> QED BY <1>3, <2>2, <4>1, <6>1 DEF Reachable
        <5>2. CASE p \notin Dir
          <6>1. f = p /\ Reachable(w, p) /\ dirs[w] \subseteq dirs'[w]
            BY <1>11, <2>6, <4>1, <5>2 DEF Taken
          <6> QED BY <1>3, <1>5, <4>1, <6>1 DEF Reachable
        <5> QED BY <5>1, <5>2
      <4>2. CASE ~(v = w /\ f \in Taken(p))
        <5>1. v # e /\ Reachable(v, f)
          BY <1>0, <2>5, <3>1, <4>2 DEF Housed
        <5>2. dirs[v] \subseteq dirs'[v]
          BY <2>6, <5>1
        <5> QED BY <1>3, <1>5, <5>1, <5>2 DEF Reachable
      <4> QED BY <4>1, <4>2
    <3>2. ASSUME NEW v \in World \ {0}, NEW d \in dirs'[v] PROVE v \in DOMAIN bin' /\ d = Root(v)'
      <4>1. v # e
        BY <2>6, <3>2
      <4>2. d \in dirs[v] \/ (v = w /\ d = p /\ p \in Dir)
        BY <2>6, <3>2, <4>1
      <4> QED BY <1>0, <1>3, <1>5, <2>2, <4>2 DEF Housed
    <3> QED BY <3>1, <3>2 DEF Housed
  <2>11. Labels'
    <3>1. ASSUME NEW v \in World, NEW f \in File, files'[v][f] < 0
          PROVE  \E u \in World : files'[v][f] = files[u][f]
      <4>1. v # e
        BY <2>5, <3>1 DEF None
      <4> QED BY <1>5, <2>5, <4>1
    <3>2. ASSUME NEW v \in World, NEW f \in File, files'[v][f] < 0
          PROVE  /\ - files'[v][f] \in DOMAIN bin
                 /\ Root(- files'[v][f]) \in Dir /\ DeletedFrom[Root(- files'[v][f])] = f
      <4>1. PICK u \in World : files'[v][f] = files[u][f]
        BY <3>1, <3>2
      <4> QED BY <1>0, <3>2, <4>1 DEF Labels
    <3> QED BY <1>0, <1>3, <2>3, <3>2 DEF Labels, Root
  <2>12. Recorded'
    <3>1. ~There(e)'
      BY <1>5, <2>5, <2>6, RecycleAssumption DEF There, Exists, Path
    <3>2. ASSUME NEW i \in DOMAIN bin \ (meddled \cup {e})
          PROVE  files'[i] = files[i] /\ dirs'[i] = dirs[i]
      <4>1. i \in World \ {0} /\ i # w
        BY <1>0, <2>2, InBin
      <4> QED BY <2>5, <2>6, <4>1
    <3> QED BY <1>8, <2>3, <2>9, <3>1, <3>2
  <2>13. Saved'
    <3>1. Fates \subseteq Fates' /\ written' = written
      BY <1>3, <2>3 DEF Fates
    <3>2. ASSUME NEW k \in Nat \ {0}, NEW v \in World, NEW f \in File, files[v][f] = k PROVE Safe(k)'
      <4>0. k # None
        BY DEF None
      <4>1. CASE v = e
        <5>1. files'[w][f] = k
          BY <2>5, <2>7, <3>2, <4>0, <4>1
        <5> QED BY <2>1, <5>1 DEF Safe
      <4>2. CASE v = w /\ f \in Taken(p)
        BY <1>3, <2>8, <3>2, <4>0, <4>2 DEF Safe, Fates
      <4>3. CASE v # e /\ ~(v = w /\ f \in Taken(p))
        <5>1. files'[v][f] = k
          BY <2>5, <3>2, <4>3
        <5> QED BY <5>1 DEF Safe
      <4> QED BY <4>1, <4>2, <4>3
    <3> QED BY <1>0, <3>1, <3>2, Accounted
  <2> QED BY <1>6, <1>7, <2>9, <2>10, <2>11, <2>12, <2>13 DEF BinInv
<1> QED BY <1>4, <1>9, <1>10, <1>11

LEMMA BinStep == ASSUME BinInv, [RecycleNext]_recycleVars PROVE BinInv'
<1>1. CASE UNCHANGED recycleVars
  <2>1. /\ UNCHANGED <<files, dirs, from, bin, doing, written, meddled, why>>
        /\ UNCHANGED <<replaced, meanwhile, labelled, elsewhere, purged>>
    BY <1>1 DEF recycleVars, space, fates
  <2>2. BinType' /\ Origins' /\ Labels'
    BY <2>1 DEF BinInv, BinType, Origins, Origin, Labels, Root
  <2>3. Housed' /\ Saved'
    BY <2>1 DEF BinInv, Housed, Reachable, Root, Saved, Safe, Fates
  <2>4. UnderWay' /\ Recorded'
    BY <2>1 DEF BinInv, UnderWay, Origin, Recorded, There, Exists, Label, Root
  <2> QED BY <2>2, <2>3, <2>4 DEF BinInv
<1>2. CASE RecycleNext
  BY <1>2, WriteKeeps, MakeDirKeeps, SpoilKeeps, DeleteKeeps, RecordKeeps, BinStands,
     MoveBackKeeps, PurgeEntryKeeps DEF RecycleNext
<1> QED BY <1>1, <1>2

\* What was written is still there or somebody took it away who may, and what is in the bin
\* can be restored (recycle.py:49-114): whatever the files and directories, wherever an
\* operation ends, and whoever works in the workspace and in the bin.  Excepted are the
\* members called deleted-from that a record overwrites, what is written to a path that is
\* being restored, and what a foreign record or a new directory sends elsewhere.
THEOREM BinIsReversible == RecycleSpec => []BinKeeps
BY BinStart, BinStep, BinIsKept, PTL DEF RecycleSpec

-----------------------------------------------------------------------------
(* Sessions.                                                                     *)

Turn == [session : Nat, at : Nat, home : Nat]

SessionsType ==
  /\ {parent, archived, forkedAt} \subseteq Seq(Nat)
  /\ Len(archived) = Len(parent) /\ Len(forkedAt) = Len(parent)
  /\ rows \in Seq(Turn) /\ tick \in Nat
  /\ stage \in [Client -> {"closed", "probed", "indexed", "triggered", "open"}]
  /\ existed \in [Client -> BOOLEAN] /\ table \in BOOLEAN
  /\ job \in [Client -> [op : {"idle", "append", "archive"}, session : Nat, at : Nat]]

\* Whoever is past the triggers has made them; what a probe found was there; and but for
\* whom SearchComplete excepts, every session is in the index.
Indexing ==
  /\ \A c \in Client : stage[c] \in {"triggered", "open"} => table /\ triggers
  /\ \A c \in Client : stage[c] = "indexed" \/ existed[c] => table
  /\ table /\ ~cutOff /\ (\A c \in Client : stage[c] \in {"indexed", "triggered"} => existed[c])
       => Stored \subseteq indexed
  /\ \A c \in Client : job[c].op # "idle" => stage[c] = "open"

\* Sessions are made in order, and rows of sessions that are there; a turn is begun before
\* its session is archived.
InOrder ==
  /\ \A s \in Stored : parent[s] < s /\ forkedAt[s] <= Len(rows)
  /\ \A i \in DOMAIN rows :
       rows[i].session \in Stored /\ rows[i].home \in Stored /\ rows[i].at <= tick
  /\ \A c \in Client : job[c].op # "idle" =>
       /\ job[c].session \in Stored
       /\ job[c].op = "append" =>
            /\ job[c].at <= tick
            /\ archived[job[c].session] # 0 => job[c].at < archived[job[c].session]

\* What a fork was given, and what its parent held at that time.
Given(s) == {i \in DOMAIN rows : rows[i].session = s /\ rows[i].home # s}
Before(s) == {i \in 1 .. forkedAt[s] : rows[i].session = parent[s]}
InLineage(i) == rows[i].home \in lineage(rows[i].session)
Carried ==
  /\ \A s \in Stored : \A i \in Given(s) : \E j \in Before(s) : rows[i].at = rows[j].at
  /\ \A s \in Stored : \A j \in Before(s) : \E i \in Given(s) : rows[i].at = rows[j].at
  /\ \A i \in DOMAIN rows : InLineage(i)

SessionsInv == SessionsType /\ Indexing /\ InOrder /\ Carried /\ ArchivedImmutable

LEMMA SessionsHold == SessionsInv => HistoryHeld /\ SearchComplete
<1> SUFFICES ASSUME SessionsInv PROVE HistoryHeld /\ SearchComplete
  OBVIOUS
<1>1. LineageCarriesContent
  <2> SUFFICES ASSUME NEW s \in Stored
               PROVE  LET own == {i \in DOMAIN rows : rows[i].session = s /\ rows[i].home = s}
                          held == {rows[i].at : i \in {j \in DOMAIN rows : rows[j].session = s} \ own}
                          before == {i \in 1 .. forkedAt[s] : rows[i].session = parent[s]} IN
                      held = {rows[i].at : i \in before}
    BY DEF LineageCarriesContent, SessionsInv, Carried, InLineage
  <2>1. {j \in DOMAIN rows : rows[j].session = s}
          \ {i \in DOMAIN rows : rows[i].session = s /\ rows[i].home = s} = Given(s)
    BY DEF Given
  <2>2. {rows[i].at : i \in Given(s)} = {rows[i].at : i \in Before(s)}
    BY DEF SessionsInv, Carried
  <2> QED BY <2>1, <2>2 DEF Before
<1>2. SearchComplete
  BY DEF SessionsInv, Indexing, SearchComplete, search
<1> QED BY <1>1, <1>2 DEF SessionsInv, HistoryHeld

LEMMA Typed ==
  ASSUME SessionsType
  PROVE  /\ Len(parent) \in Nat /\ Len(rows) \in Nat
         /\ Stored = 1 .. Len(parent)
         /\ DOMAIN archived = Stored /\ DOMAIN forkedAt = Stored
         /\ \A s \in Stored : s \in Nat /\ s # 0 /\ parent[s] \in Nat /\ archived[s] \in Nat
                                /\ forkedAt[s] \in Nat
         /\ DOMAIN rows = 1 .. Len(rows)
         /\ \A i \in DOMAIN rows : rows[i] \in Turn /\ rows[i].session \in Nat
                                     /\ rows[i].at \in Nat /\ rows[i].home \in Nat
<1>1. /\ parent \in Seq(Nat) /\ archived \in Seq(Nat) /\ forkedAt \in Seq(Nat)
      /\ Len(archived) = Len(parent) /\ Len(forkedAt) = Len(parent) /\ rows \in Seq(Turn)
  BY DEF SessionsType
<1>2. \A i \in DOMAIN rows : rows[i] \in Turn
  BY <1>1
<1>3. \A r \in Turn : r.session \in Nat /\ r.at \in Nat /\ r.home \in Nat
  BY DEF Turn
<1> QED BY <1>1, <1>2, <1>3 DEF Stored

LEMMA SessionsStart == SessionsInit => SessionsInv
<1> SUFFICES ASSUME SessionsInit PROVE SessionsInv
  OBVIOUS
<1>1. SessionsType
  <2>1. [s \in 1 .. Legacy |-> 0] \in Seq(Nat) /\ Len([s \in 1 .. Legacy |-> 0]) = Legacy
    BY SessionsAssumption
  <2>2. <<>> \in Seq(Turn)
    OBVIOUS
  <2> QED BY <2>1, <2>2 DEF SessionsInit, SessionsType, Idling
<1>2. Indexing
  BY DEF SessionsInit, Indexing, Idling
<1>3. InOrder
  <2>1. Stored = 1 .. Legacy /\ \A s \in Stored : parent[s] = 0 /\ forkedAt[s] = 0
    BY SessionsAssumption DEF SessionsInit, Stored
  <2>2. Len(rows) = 0 /\ DOMAIN rows = {}
    BY DEF SessionsInit
  <2> QED BY <2>1, <2>2, SessionsAssumption DEF SessionsInit, InOrder, Idling
<1>4. Carried
  <2>1. DOMAIN rows = {} /\ \A s \in Stored : forkedAt[s] = 0
    BY DEF SessionsInit, Stored
  <2> QED BY <2>1 DEF Carried, Given, Before
<1>5. ArchivedImmutable
  BY DEF SessionsInit, ArchivedImmutable
<1> QED BY <1>1, <1>2, <1>3, <1>4, <1>5 DEF SessionsInv

\* More sessions only add to a lineage.
LEMMA LineageGrows ==
  ASSUME SessionsInv, Stored \subseteq Stored', \A u \in Stored : parent'[u] = parent[u],
         NEW s \in Stored
  PROVE  lineage(s) \subseteq lineage(s)'
<1> SUFFICES ASSUME NEW t \in lineage(s), NEW held \in SUBSET Stored', s \in held,
                    \A u \in held : parent'[u] # 0 => parent'[u] \in held
             PROVE  t \in held
  BY DEF lineage
<1>1. \A u \in Stored : parent[u] # 0 => parent[u] \in Stored
  BY Typed DEF SessionsInv, InOrder
<1>2. \A u \in held \cap Stored : parent[u] # 0 => parent[u] \in held \cap Stored
  BY <1>1
<1>3. held \cap Stored \in SUBSET Stored /\ s \in held \cap Stored
  OBVIOUS
<1> HIDE DEF Stored
<1>4. t \in held \cap Stored
  BY <1>2, <1>3 DEF lineage
<1> QED BY <1>4

\* As long as sessions and rows stay, the history does.
LEMMA HistoryStays ==
  ASSUME SessionsInv, UNCHANGED <<parent, rows, forkedAt>>, tick' \in Nat, tick <= tick',
         \/ archived' = archived
         \/ \E s \in Stored : archived' = [archived EXCEPT ![s] = IF @ = 0 THEN tick + 1 ELSE @],
         job' \in [Client -> [op : {"idle", "append", "archive"}, session : Nat, at : Nat]],
         \A c \in Client : job'[c] \in {job[c], Idling} \/
           /\ archived' = archived /\ job'[c].session \in Stored
           /\ job'[c].op = "append" => job'[c].at <= tick' /\ archived[job'[c].session] = 0
  PROVE  InOrder' /\ Carried' /\ ArchivedImmutable' /\ archived' \in Seq(Nat)
           /\ Len(archived') = Len(archived)
<1>0. SessionsType /\ InOrder /\ Carried /\ ArchivedImmutable /\ tick \in Nat
  BY DEF SessionsInv, SessionsType
<1>1. /\ Stored' = Stored
      /\ \A s \in Stored : archived'[s] = archived[s]
                             \/ (archived[s] = 0 /\ archived'[s] = tick + 1)
      /\ archived' \in Seq(Nat) /\ Len(archived') = Len(archived)
  <2>1. archived \in Seq(Nat) /\ DOMAIN archived = Stored /\ Stored' = Stored
    BY <1>0, Typed DEF SessionsType, Stored
  <2>2. CASE archived' = archived
    BY <2>1, <2>2
  <2>3. ASSUME NEW s \in Stored, NEW v \in Nat, archived' = [archived EXCEPT ![s] = v],
               v = IF archived[s] = 0 THEN tick + 1 ELSE archived[s]
        PROVE  /\ \A u \in Stored : archived'[u] = archived[u]
                                      \/ (archived[u] = 0 /\ archived'[u] = tick + 1)
               /\ archived' \in Seq(Nat) /\ Len(archived') = Len(archived)
    <3>1. /\ archived' \in Seq(Nat) /\ Len(archived') = Len(archived)
          /\ archived'[s] = v /\ \A u \in Stored : u # s => archived'[u] = archived[u]
      BY <2>1, <2>3
    <3> QED BY <2>3, <3>1
  <2>4. \A s \in Stored : tick + 1 \in Nat /\ archived[s] \in Nat
    BY <1>0, Typed
  <2> QED BY <2>1, <2>2, <2>3, <2>4
<1>2. Carried'
  <2>1. \A s : lineage(s)' = lineage(s) /\ Given(s)' = Given(s) /\ Before(s)' = Before(s)
    BY <1>1 DEF lineage, Given, Before
  <2> QED BY <1>0, <1>1, <2>1 DEF Carried, InLineage
<1>3. ArchivedImmutable'
  <2> SUFFICES ASSUME NEW s \in Stored, archived'[s] # 0,
                      NEW i \in DOMAIN rows, rows[i].session = s
               PROVE  rows[i].at < archived'[s]
    BY <1>1 DEF ArchivedImmutable
  <2>1. CASE archived'[s] = archived[s]
    BY <1>0, <2>1 DEF ArchivedImmutable
  <2>2. CASE archived'[s] = tick + 1
    BY <1>0, <2>2, Typed DEF InOrder
  <2> QED BY <1>1, <2>1, <2>2
<1>4. InOrder'
  <2>1. \A s \in Stored : parent[s] < s /\ forkedAt[s] <= Len(rows)
    BY <1>0 DEF InOrder
  <2>2. ASSUME NEW i \in DOMAIN rows
        PROVE  rows[i].session \in Stored /\ rows[i].home \in Stored /\ rows[i].at <= tick'
    BY <1>0, Typed DEF InOrder
  <2>3. ASSUME NEW c \in Client, job'[c].op # "idle"
        PROVE  /\ job'[c].session \in Stored
               /\ job'[c].op = "append" =>
                    /\ job'[c].at <= tick'
                    /\ archived'[job'[c].session] # 0 => job'[c].at < archived'[job'[c].session]
    <3>1. CASE job'[c] = job[c]
      <4>1. job[c].at \in Nat /\ job[c].session \in Nat
        BY <1>0 DEF SessionsType
      <4>2. job[c].session \in Stored /\ (job[c].op = "append" =>
              /\ job[c].at <= tick
              /\ archived[job[c].session] # 0 => job[c].at < archived[job[c].session])
        BY <1>0, <2>3, <3>1 DEF InOrder
      <4> QED BY <1>0, <1>1, <3>1, <4>1, <4>2
    <3>2. CASE job'[c] = Idling
      BY <2>3, <3>2 DEF Idling
    <3>3. CASE job'[c] \notin {job[c], Idling}
      BY <3>3
    <3> QED BY <3>1, <3>2, <3>3
  <2> QED BY <1>1, <2>1, <2>2, <2>3 DEF InOrder
<1> QED BY <1>1, <1>2, <1>3, <1>4

\* A session is made: the one after the last, in the index if there are triggers.
LEMMA Inserted ==
  ASSUME SessionsType, NEW p \in Nat, InsertSession(p), NEW n, n = Len(parent) + 1
  PROVE  /\ n \in Nat /\ n \notin Stored /\ Stored' = Stored \cup {n} /\ n \in Nat \ {0}
         /\ {parent', archived', forkedAt'} \subseteq Seq(Nat)
         /\ Len(parent') = n /\ Len(archived') = n /\ Len(forkedAt') = n
         /\ parent'[n] = p /\ archived'[n] = 0 /\ forkedAt'[n] = Len(rows)
         /\ \A s \in Stored : s < n /\ parent'[s] = parent[s] /\ archived'[s] = archived[s]
                                /\ forkedAt'[s] = forkedAt[s]
         /\ indexed' = IF triggers THEN indexed \cup {n} ELSE indexed
<1>1. /\ parent \in Seq(Nat) /\ archived \in Seq(Nat) /\ forkedAt \in Seq(Nat)
      /\ Len(archived) = Len(parent) /\ Len(forkedAt) = Len(parent) /\ Len(rows) \in Nat
  BY Typed DEF SessionsType
<1>2. /\ parent' = Append(parent, p) /\ archived' = Append(archived, 0)
      /\ forkedAt' = Append(forkedAt, Len(rows))
      /\ indexed' = IF triggers THEN indexed \cup {n} ELSE indexed
  BY DEF InsertSession
<1>3. /\ n \in Nat \ {0} /\ Stored = 1 .. n - 1 /\ Stored' = 1 .. n
      /\ parent' \in Seq(Nat) /\ Len(parent') = n /\ parent'[n] = p
      /\ \A s \in Stored : parent'[s] = parent[s]
  BY <1>1, <1>2 DEF Stored
<1>4. /\ archived' \in Seq(Nat) /\ Len(archived') = n /\ archived'[n] = 0
      /\ \A s \in 1 .. n - 1 : archived'[s] = archived[s]
  BY <1>1, <1>2
<1>5. /\ forkedAt' \in Seq(Nat) /\ Len(forkedAt') = n /\ forkedAt'[n] = Len(rows)
      /\ \A s \in 1 .. n - 1 : forkedAt'[s] = forkedAt[s]
  BY <1>1, <1>2
<1> QED BY <1>2, <1>3, <1>4, <1>5

\* The rows of a parent that can be forked: none, or one.
LEMMA OneTurn ==
  ASSUME SessionsType, NEW p, Cardinality(RowsOf(p)) <= 1
  PROVE  \/ RowsOf(p) = {} /\ DOMAIN turns(p) = {}
         \/ \E i \in DOMAIN rows : RowsOf(p) = {i} /\ DOMAIN turns(p) = {1} /\ turns(p)[1] = i
<1> DEFINE inOrder(q) == \A m, n \in DOMAIN q : m < n =>
             rows[q[m]].at < rows[q[n]].at \/ (rows[q[m]].at = rows[q[n]].at /\ q[m] < q[n])
           k == Cardinality(RowsOf(p))
<1>1. IsFiniteSet(RowsOf(p)) /\ k \in Nat
  <2>1. IsFiniteSet(1 .. Len(rows)) /\ RowsOf(p) \subseteq 1 .. Len(rows)
    BY Typed, FS_Interval DEF RowsOf
  <2> QED BY <2>1, FS_Subset, FS_CardinalityType
<1>2. turns(p) = CHOOSE q \in [1 .. k -> RowsOf(p)] : inOrder(q)
  BY DEF turns
<1>3. CASE k = 0
  <2>1. RowsOf(p) = {}
    BY <1>1, <1>3, FS_EmptySet
  <2>2. 1 .. k = {}
    BY <1>3
  <2>3. [x \in 1 .. k |-> 0] \in [1 .. k -> RowsOf(p)] /\ inOrder([x \in 1 .. k |-> 0])
    BY <2>2
  <2> HIDE DEF inOrder, k
  <2>4. turns(p) \in [1 .. k -> RowsOf(p)]
    BY <1>2, <2>3
  <2> QED BY <2>1, <2>2, <2>4
<1>4. CASE k = 1
  <2>1. PICK i : RowsOf(p) = {i}
    BY <1>1, <1>4, FS_Singleton
  <2>2. i \in DOMAIN rows
    BY <2>1 DEF RowsOf
  <2>3. 1 .. k = {1}
    BY <1>4
  <2>4. [x \in 1 .. k |-> i] \in [1 .. k -> RowsOf(p)] /\ inOrder([x \in 1 .. k |-> i])
    BY <2>1, <2>3
  <2> HIDE DEF inOrder, k
  <2>5. turns(p) \in [1 .. k -> RowsOf(p)]
    BY <1>2, <2>4
  <2> QED BY <2>1, <2>2, <2>3, <2>5
<1> QED BY <1>1, <1>3, <1>4

\* fork() adds nothing, or the one row of the parent under the new session.
LEMMA Forked ==
  ASSUME SessionsType, NEW c \in Client, NEW p \in Stored, fork(c, p), NEW n, n = Len(parent) + 1
  PROVE  \/ rows' = rows /\ RowsOf(p) = {}
         \/ \E i \in DOMAIN rows : /\ RowsOf(p) = {i}
                                   /\ rows' = Append(rows, [rows[i] EXCEPT !.session = n])
<1> DEFINE copy == [m \in DOMAIN turns(p) |-> [rows[turns(p)[m]] EXCEPT !.session = n]]
<1>1. rows' = rows \o copy /\ rows \in Seq(Turn) /\ Cardinality(RowsOf(p)) <= 1
  BY DEF fork, SessionsType
<1>2. CASE RowsOf(p) = {} /\ DOMAIN turns(p) = {}
  <2>1. copy = <<>>
    BY <1>2
  <2> HIDE DEF copy
  <2> QED BY <1>1, <1>2, <2>1
<1>3. ASSUME NEW i \in DOMAIN rows, RowsOf(p) = {i}, DOMAIN turns(p) = {1}, turns(p)[1] = i
      PROVE  rows' = Append(rows, [rows[i] EXCEPT !.session = n])
  <2> DEFINE r == [rows[i] EXCEPT !.session = n]
  <2>1. DOMAIN copy = {1} /\ copy[1] = r
    BY <1>3
  <2>2. copy = <<r>>
    <3>1. copy = [m \in {1} |-> r] /\ {1} = 1 .. 1
      BY <1>3
    <3> HIDE DEF copy, r
    <3> QED BY <3>1
  <2> HIDE DEF copy, r
  <2>3. rows' = Append(rows, r)
    BY <1>1, <2>2
  <2> QED BY <2>3 DEF r
<1> QED BY <1>1, <1>2, <1>3, OneTurn

\* A row is added at the end.
LEMMA RowAdded ==
  ASSUME SessionsType, NEW r \in Turn, rows' = Append(rows, r), NEW k, k = Len(rows) + 1
  PROVE  /\ rows' \in Seq(Turn) /\ Len(rows') = k /\ k \in Nat
         /\ DOMAIN rows' = DOMAIN rows \cup {k} /\ k \notin DOMAIN rows
         /\ rows'[k] = r /\ \A i \in DOMAIN rows : rows'[i] = rows[i] /\ i < k
<1>1. rows \in Seq(Turn)
  BY DEF SessionsType
<1> QED BY <1>1

\* create() and fork() keep the history: the new session holds what it was given, and
\* nothing that any other holds changes.
LEMMA NewSession ==
  ASSUME SessionsInv, NEW p \in Nat, InsertSession(p), NEW n, n = Len(parent) + 1,
         UNCHANGED <<tick, job>>,
         p = 0 \/ p \in Stored,
         \/ rows' = rows /\ \A i \in DOMAIN rows : rows[i].session # p
         \/ \E i \in DOMAIN rows : /\ \A j \in DOMAIN rows : rows[j].session = p <=> j = i
                                   /\ rows' = Append(rows, [rows[i] EXCEPT !.session = n])
  PROVE  InOrder' /\ Carried' /\ ArchivedImmutable' /\ rows' \in Seq(Turn)
<1>0. SessionsType /\ InOrder /\ Carried /\ ArchivedImmutable
  BY DEF SessionsInv
<1>1. /\ n \in Nat \ {0} /\ n \notin Stored /\ Stored' = Stored \cup {n}
      /\ parent'[n] = p /\ archived'[n] = 0 /\ forkedAt'[n] = Len(rows)
      /\ \A s \in Stored : s < n /\ parent'[s] = parent[s] /\ archived'[s] = archived[s]
                             /\ forkedAt'[s] = forkedAt[s]
  BY <1>0, Inserted
<1>2. /\ Len(rows) \in Nat /\ DOMAIN rows = 1 .. Len(rows) /\ tick \in Nat
      /\ \A s \in Stored : s \in Nat /\ parent[s] \in Nat /\ forkedAt[s] \in Nat /\ archived[s] \in Nat
                             /\ forkedAt[s] <= Len(rows)
      /\ \A i \in DOMAIN rows : /\ rows[i] \in Turn /\ rows[i].at \in Nat /\ rows[i].at <= tick
                                /\ rows[i].session \in Stored /\ rows[i].home \in Stored
  BY <1>0, Typed DEF SessionsType, InOrder
<1>3. \A s \in Stored : lineage(s) \subseteq lineage(s)'
  BY <1>1, LineageGrows
\* All rows are the old ones, or the last of them is the copy of i.
<1>4. \/ rows' = rows /\ \A i \in DOMAIN rows : rows[i].session # p
      \/ \E k \in Nat, i \in DOMAIN rows :
           /\ DOMAIN rows' = DOMAIN rows \cup {k} /\ k = Len(rows) + 1 /\ k \notin DOMAIN rows
           /\ Len(rows') = k /\ rows' \in Seq(Turn)
           /\ \A j \in DOMAIN rows : rows'[j] = rows[j]
           /\ rows[i].session = p /\ \A j \in DOMAIN rows : rows[j].session = p => j = i
           /\ rows'[k].session = n /\ rows'[k].at = rows[i].at /\ rows'[k].home = rows[i].home
  <2>1. ASSUME NEW i \in DOMAIN rows, \A j \in DOMAIN rows : rows[j].session = p <=> j = i,
               rows' = Append(rows, [rows[i] EXCEPT !.session = n])
        PROVE  \E k \in Nat :
                 /\ DOMAIN rows' = DOMAIN rows \cup {k} /\ k = Len(rows) + 1 /\ k \notin DOMAIN rows
                 /\ Len(rows') = k /\ rows' \in Seq(Turn)
                 /\ \A j \in DOMAIN rows : rows'[j] = rows[j]
                 /\ rows[i].session = p /\ \A j \in DOMAIN rows : rows[j].session = p => j = i
                 /\ rows'[k].session = n /\ rows'[k].at = rows[i].at /\ rows'[k].home = rows[i].home
    <3> DEFINE r == [rows[i] EXCEPT !.session = n]
    <3>1. /\ r \in Turn /\ r.session = n /\ r.at = rows[i].at /\ r.home = rows[i].home
      BY <1>1, <1>2 DEF Turn
    <3>2. rows' = Append(rows, r)
      BY <2>1
    <3> HIDE DEF r
    <3>3. PICK k \in Nat : k = Len(rows) + 1
      BY <1>2
    <3>4. /\ DOMAIN rows' = DOMAIN rows \cup {k} /\ k \notin DOMAIN rows
          /\ Len(rows') = k /\ rows' \in Seq(Turn)
          /\ \A j \in DOMAIN rows : rows'[j] = rows[j]
          /\ rows'[k] = r
      BY <1>0, <3>1, <3>2, <3>3, RowAdded
    <3>5. rows[i].session = p /\ \A j \in DOMAIN rows : rows[j].session = p => j = i
      BY <2>1
    <3> QED BY <3>1, <3>3, <3>4, <3>5
  <2>2. CASE \E i \in DOMAIN rows : /\ \A j \in DOMAIN rows : rows[j].session = p <=> j = i
                                    /\ rows' = Append(rows, [rows[i] EXCEPT !.session = n])
    <3>1. PICK i \in DOMAIN rows : /\ \A j \in DOMAIN rows : rows[j].session = p <=> j = i
                                   /\ rows' = Append(rows, [rows[i] EXCEPT !.session = n])
      BY <2>2
    <3> QED BY <2>1, <3>1
  <2> QED BY <2>2
<1>5. /\ \A j \in DOMAIN rows : j \in DOMAIN rows' /\ rows'[j] = rows[j]
      /\ rows' \in Seq(Turn) /\ Len(rows') \in Nat /\ Len(rows) <= Len(rows')
  <2>1. rows \in Seq(Turn)
    BY <1>0 DEF SessionsType
  <2>2. CASE rows' = rows
    <3>1. \A m \in Nat : m <= m
      OBVIOUS
    <3> QED BY <1>2, <2>1, <2>2, <3>1, Zenon
  <2>3. CASE rows' # rows
    <3>1. PICK k \in Nat : /\ k = Len(rows) + 1 /\ Len(rows') = k /\ rows' \in Seq(Turn)
                           /\ DOMAIN rows' = DOMAIN rows \cup {k}
                           /\ \A j \in DOMAIN rows : rows'[j] = rows[j]
      BY <1>4, <2>3
    <3> QED BY <1>2, <3>1
  <2> QED BY <2>2, <2>3
<1>6. \A j \in DOMAIN rows' : j \in DOMAIN rows \/
        (/\ rows'[j].session = n /\ rows'[j].home \in Stored /\ rows'[j].at \in Nat
         /\ rows'[j].at <= tick)
  BY <1>2, <1>4
<1>7. \A s \in Stored : Given(s)' = Given(s) /\ Before(s)' = Before(s)
  <2> SUFFICES ASSUME NEW s \in Stored PROVE Given(s)' = Given(s) /\ Before(s)' = Before(s)
    OBVIOUS
  <2>1. Given(s)' = Given(s)
    BY <1>1, <1>5, <1>6 DEF Given
  <2>2. 1 .. forkedAt[s] \subseteq DOMAIN rows
    BY <1>2
  <2>3. Before(s)' = Before(s)
    BY <1>1, <1>5, <2>2 DEF Before
  <2> QED BY <2>1, <2>3
<1>8. /\ \A i \in Given(n)' : \E j \in Before(n)' : rows'[i].at = rows'[j].at
      /\ \A j \in Before(n)' : \E i \in Given(n)' : rows'[i].at = rows'[j].at
  <2>1. Before(n)' = {j \in DOMAIN rows : rows[j].session = p}
    BY <1>1, <1>2, <1>5 DEF Before
  <2>2. CASE rows' = rows /\ \A i \in DOMAIN rows : rows[i].session # p
    BY <1>1, <1>2, <2>1, <2>2 DEF Given
  <2>3. ASSUME NEW k \in Nat, NEW i \in DOMAIN rows,
               DOMAIN rows' = DOMAIN rows \cup {k}, k \notin DOMAIN rows,
               \A j \in DOMAIN rows : rows'[j] = rows[j],
               rows[i].session = p, \A j \in DOMAIN rows : rows[j].session = p => j = i,
               rows'[k].session = n, rows'[k].at = rows[i].at, rows'[k].home = rows[i].home
        PROVE  Given(n)' = {k} /\ Before(n)' = {i} /\ rows'[k].at = rows'[i].at
    BY <1>1, <1>2, <2>1, <2>3 DEF Given
  <2>4. CASE ~(rows' = rows /\ \A i \in DOMAIN rows : rows[i].session # p)
    <3>1. PICK k \in Nat, i \in DOMAIN rows : Given(n)' = {k} /\ Before(n)' = {i} /\ rows'[k].at = rows'[i].at
      BY <1>4, <2>3, <2>4
    <3> QED BY <3>1
  <2> QED BY <2>2, <2>4
<1>9. \A i \in DOMAIN rows' : InLineage(i)'
  <2>1. ASSUME NEW i \in DOMAIN rows, NEW s, s = rows[i].session PROVE rows[i].home \in lineage(s)'
    <3>1. s \in Stored /\ rows[i].home \in lineage(s)
      BY <1>0, <1>2, <2>1 DEF Carried, InLineage
    <3> QED BY <1>3, <3>1
  <2>2. \A u : u \in Stored /\ p \in Stored /\ u \in lineage(p)' => u \in lineage(n)'
    <3>1. p # 0 => \A held \in SUBSET Stored' :
            n \in held /\ (\A u \in held : parent'[u] # 0 => parent'[u] \in held) => p \in held
      BY <1>1
    <3>2. p \in Stored => p # 0
      BY <1>0, Typed
    <3> QED BY <1>1, <3>1, <3>2 DEF lineage
  <2>3. ASSUME NEW i \in DOMAIN rows', i \notin DOMAIN rows
        PROVE  rows'[i].home \in lineage(n)' /\ rows'[i].session = n
    BY <1>2, <1>4, <2>1, <2>2, <2>3
  <2>4. ASSUME NEW i \in DOMAIN rows'
        PROVE  \E s : s = rows'[i].session /\ rows'[i].home \in lineage(s)'
    <3>1. CASE i \in DOMAIN rows
      BY <1>5, <2>1, <3>1
    <3>2. CASE i \notin DOMAIN rows
      BY <2>3, <3>2
    <3> QED BY <3>1, <3>2
  <2> QED BY <2>4 DEF InLineage, lineage
<1>10. Carried'
  <2>1. ASSUME NEW s \in Stored'
        PROVE  /\ \A i \in Given(s)' : \E j \in Before(s)' : rows'[i].at = rows'[j].at
               /\ \A j \in Before(s)' : \E i \in Given(s)' : rows'[i].at = rows'[j].at
    <3>1. CASE s = n
      BY <1>8, <3>1
    <3>2. CASE s \in Stored
      <4>1. \A i \in Given(s) \cup Before(s) : i \in DOMAIN rows
        BY <1>2, <3>2 DEF Given, Before
      <4> QED BY <1>0, <1>5, <1>7, <3>2, <4>1 DEF Carried
    <3> QED BY <1>1, <3>1, <3>2
  <2> QED BY <1>9, <2>1 DEF Carried
<1>11. ArchivedImmutable'
  <2> SUFFICES ASSUME NEW s \in Stored', archived'[s] # 0,
                      NEW i \in DOMAIN rows', rows'[i].session = s
               PROVE  rows'[i].at < archived'[s]
    BY DEF ArchivedImmutable
  <2>1. s \in Stored /\ i \in DOMAIN rows
    BY <1>1, <1>6
  <2> QED BY <1>0, <1>1, <1>5, <2>1 DEF ArchivedImmutable
<1>12. InOrder'
  <2>1. \A s \in Stored' : parent'[s] < s /\ forkedAt'[s] <= Len(rows')
    <3>1. ASSUME NEW s \in Stored PROVE parent'[s] < s /\ forkedAt'[s] <= Len(rows')
      BY <1>0, <1>1, <1>2, <1>5 DEF InOrder
    <3>2. parent'[n] < n /\ forkedAt'[n] <= Len(rows')
      BY <1>1, <1>2, <1>5
    <3> QED BY <1>1, <3>1, <3>2
  <2>2. \A i \in DOMAIN rows' : rows'[i].session \in Stored' /\ rows'[i].home \in Stored' /\ rows'[i].at <= tick
    BY <1>1, <1>2, <1>5, <1>6
  <2>3. \A d \in Client : job[d].op # "idle" =>
          /\ job[d].session \in Stored'
          /\ job[d].op = "append" =>
               /\ job[d].at <= tick
               /\ archived'[job[d].session] # 0 => job[d].at < archived'[job[d].session]
    BY <1>0, <1>1 DEF InOrder
  <2> QED BY <2>1, <2>2, <2>3 DEF InOrder
<1> QED BY <1>5, <1>10, <1>11, <1>12

\* What the fields of a client become when an action writes its own.
LEMMA OwnWritten ==
  ASSUME SessionsType, NEW c \in Client
  PROVE  /\ \A v : [stage EXCEPT ![c] = v] = [d \in Client |-> IF d = c THEN v ELSE stage[d]]
         /\ \A v : [existed EXCEPT ![c] = v] = [d \in Client |-> IF d = c THEN v ELSE existed[d]]
         /\ \A v : [job EXCEPT ![c] = v] = [d \in Client |-> IF d = c THEN v ELSE job[d]]
BY DEF SessionsType

\* Opening the store, and the end of a process, leave the history alone.
LEMMA OpeningKeeps ==
  ASSUME SessionsInv, NEW c \in Client,
         Probe(c) \/ CreateIndex(c) \/ CreateTriggers(c) \/ Rebuild(c) \/ Dies(c)
  PROVE  SessionsInv'
<1>0. SessionsType /\ Indexing
  BY DEF SessionsInv
<1>1. UNCHANGED sessionRows /\ tick' = tick /\ tick \in Nat /\ Stored' = Stored
  BY <1>0 DEF Probe, CreateIndex, CreateTriggers, Rebuild, Dies, sessionRows, SessionsType, Stored
<1>2. /\ \A d \in Client : job'[d] \in {job[d], Idling}
      /\ job' \in [Client -> [op : {"idle", "append", "archive"}, session : Nat, at : Nat]]
  <2>1. CASE job' = job
    BY <1>0, <2>1 DEF SessionsType
  <2>2. CASE job' = [job EXCEPT ![c] = Idling]
    <3>1. Idling \in [op : {"idle", "append", "archive"}, session : Nat, at : Nat]
      BY DEF Idling
    <3> QED BY <1>0, <2>2, <3>1 DEF SessionsType
  <2> QED BY <2>1, <2>2 DEF Probe, CreateIndex, CreateTriggers, Rebuild, Dies
<1>3. InOrder' /\ Carried' /\ ArchivedImmutable'
  <2>1. tick <= tick' /\ tick' \in Nat
    BY <1>1
  <2> QED BY <1>1, <1>2, <2>1, HistoryStays DEF sessionRows
<1>4. /\ stage' \in [Client -> {"closed", "probed", "indexed", "triggered", "open"}]
      /\ existed' \in [Client -> BOOLEAN]
  <2>1. CASE Probe(c)
    BY <1>0, <2>1 DEF Probe, SessionsType
  <2>2. CASE CreateIndex(c) \/ CreateTriggers(c) \/ Rebuild(c) \/ Dies(c)
    BY <1>0, <2>2 DEF CreateIndex, CreateTriggers, Rebuild, Dies, SessionsType
  <2> QED BY <2>1, <2>2
<1>5. SessionsType'
  <2>1. table' \in BOOLEAN
    BY <1>0 DEF SessionsType, Probe, CreateIndex, CreateTriggers, Rebuild, Dies, ftsVars
  <2> QED BY <1>0, <1>1, <1>2, <1>4, <2>1 DEF SessionsType, sessionRows
<1>6. Indexing'
  <2>1. CASE Probe(c)
    BY <1>0, <1>1, <2>1, OwnWritten DEF Indexing, Probe, ftsVars
  <2>2. CASE CreateIndex(c)
    BY <1>0, <1>1, <2>2, OwnWritten DEF Indexing, CreateIndex
  <2>3. CASE CreateTriggers(c)
    BY <1>0, <1>1, <2>3, OwnWritten DEF Indexing, CreateTriggers
  <2>4. CASE Rebuild(c)
    BY <1>0, <1>1, <2>4, OwnWritten DEF Indexing, Rebuild
  <2>5. CASE Dies(c)
    BY <1>0, <1>1, <2>5, OwnWritten DEF Indexing, Dies, Idling
  <2> QED BY <2>1, <2>2, <2>3, <2>4, <2>5
<1> QED BY <1>3, <1>5, <1>6 DEF SessionsInv

\* So do the first step of a call, and an archiver's second.
LEMMA CallsKeep ==
  ASSUME SessionsInv, NEW c \in Client,
         (\E s \in 1 .. MaxSessions : append_turn(c, s) \/ archive(c, s)) \/ ArchiveWrites(c)
  PROVE  SessionsInv'
<1> DEFINE Job == [op : {"idle", "append", "archive"}, session : Nat, at : Nat]
<1>0. SessionsType /\ Indexing /\ InOrder
  BY DEF SessionsInv
<1>1. /\ UNCHANGED <<parent, rows, forkedAt, ftsVars, stage, existed>> /\ Stored' = Stored
      /\ tick \in Nat /\ tick' \in Nat /\ tick <= tick' /\ stage[c] = "open"
  <2>1. CASE ArchiveWrites(c)
    BY <1>0, <2>1 DEF ArchiveWrites, SessionsType, Indexing, Stored
  <2>2. CASE \E s \in 1 .. MaxSessions : append_turn(c, s) \/ archive(c, s)
    BY <1>0, <2>2 DEF append_turn, archive, sessionRows, Free, SessionsType, Stored
  <2> QED BY <2>1, <2>2
<1>2. PICK j \in Job : job' = [d \in Client |-> IF d = c THEN j ELSE job[d]]
        /\ (j = Idling \/ /\ archived' = archived /\ j.session \in Stored
                          /\ j.op = "append" => j.at <= tick' /\ archived[j.session] = 0)
  <2>1. CASE ArchiveWrites(c)
    <3>1. Idling \in Job /\ job' = [job EXCEPT ![c] = Idling]
      BY <2>1 DEF ArchiveWrites, Idling
    <3> QED BY <1>0, <3>1, OwnWritten
  <2>2. ASSUME NEW s \in 1 .. MaxSessions, append_turn(c, s)
        PROVE  \E j \in Job : /\ job' = [d \in Client |-> IF d = c THEN j ELSE job[d]]
                              /\ archived' = archived /\ j.session \in Stored
                              /\ j.op = "append" => j.at <= tick' /\ archived[j.session] = 0
    <3> DEFINE j == [op |-> "append", session |-> s, at |-> tick + 1]
    <3>1. /\ job' = [job EXCEPT ![c] = j] /\ archived' = archived /\ s \in Stored
          /\ archived[s] = 0 /\ tick' = tick + 1
      BY <2>2 DEF append_turn, sessionRows
    <3>2. j \in Job /\ j.session = s /\ j.at = tick + 1 /\ tick + 1 <= tick'
      BY <1>1, <3>1
    <3> HIDE DEF j, Job
    <3>3. job' = [d \in Client |-> IF d = c THEN j ELSE job[d]]
      BY <1>0, <3>1, OwnWritten
    <3> QED BY <3>1, <3>2, <3>3
  <2>3. ASSUME NEW s \in 1 .. MaxSessions, archive(c, s)
        PROVE  \E j \in Job : /\ job' = [d \in Client |-> IF d = c THEN j ELSE job[d]]
                              /\ archived' = archived /\ j.session \in Stored
                              /\ j.op = "append" => j.at <= tick' /\ archived[j.session] = 0
    <3> DEFINE j == [op |-> "archive", session |-> s, at |-> 0]
    <3>1. job' = [job EXCEPT ![c] = j] /\ archived' = archived /\ s \in Stored
      BY <2>3 DEF archive, sessionRows
    <3>2. j \in Job /\ j.session = s /\ j.op # "append"
      OBVIOUS
    <3> HIDE DEF j, Job
    <3>3. job' = [d \in Client |-> IF d = c THEN j ELSE job[d]]
      BY <1>0, <3>1, OwnWritten
    <3> QED BY <3>1, <3>2, <3>3
  <2> QED BY <2>1, <2>2, <2>3
<1>3. job' \in [Client -> Job]
  BY <1>0, <1>2 DEF SessionsType
<1>4. \A d \in Client : job'[d] \in {job[d], Idling} \/
        /\ archived' = archived /\ job'[d].session \in Stored
        /\ job'[d].op = "append" => job'[d].at <= tick' /\ archived[job'[d].session] = 0
  BY <1>2
<1>5. \/ archived' = archived
      \/ \E s \in Stored : archived' = [archived EXCEPT ![s] = IF @ = 0 THEN tick + 1 ELSE @]
  <2>1. CASE ArchiveWrites(c)
    <3>1. job[c].session \in Stored
      BY <1>0, <2>1 DEF ArchiveWrites, InOrder
    <3> QED BY <2>1, <3>1 DEF ArchiveWrites
  <2>2. CASE \E s \in 1 .. MaxSessions : append_turn(c, s) \/ archive(c, s)
    BY <2>2 DEF append_turn, archive, sessionRows
  <2> QED BY <2>1, <2>2
<1>6. InOrder' /\ Carried' /\ ArchivedImmutable' /\ archived' \in Seq(Nat) /\ Len(archived') = Len(archived)
  BY <1>1, <1>3, <1>4, <1>5, HistoryStays
<1>7. SessionsType'
  BY <1>0, <1>1, <1>3, <1>6 DEF SessionsType, ftsVars
<1>8. Indexing'
  BY <1>0, <1>1, <1>2 DEF Indexing, ftsVars
<1> QED BY <1>6, <1>7, <1>8 DEF SessionsInv

\* create() and fork().
LEMMA InsertKeeps ==
  ASSUME SessionsInv, NEW c \in Client, create(c) \/ \E p \in 1 .. MaxSessions : fork(c, p)
  PROVE  SessionsInv'
<1>0. SessionsType /\ Indexing /\ InOrder
  BY DEF SessionsInv
<1>1. UNCHANGED <<table, triggers, cutOff, stage, existed, job, tick, deaths>> /\ Free(c)
  BY DEF create, fork
<1>2. ASSUME NEW p \in Nat, InsertSession(p), InOrder', Carried', ArchivedImmutable', rows' \in Seq(Turn)
      PROVE  SessionsInv'
  <2>1. PICK n : n = Len(parent) + 1
    OBVIOUS
  <2>2. /\ {parent', archived', forkedAt'} \subseteq Seq(Nat)
        /\ Len(parent') = n /\ Len(archived') = n /\ Len(forkedAt') = n
        /\ Stored' = Stored \cup {n} /\ indexed' = IF triggers THEN indexed \cup {n} ELSE indexed
    BY <1>0, <1>2, <2>1, Inserted
  <2>3. SessionsType'
    BY <1>0, <1>1, <1>2, <2>2 DEF SessionsType
  <2>4. triggers
    BY <1>0, <1>1 DEF Free, Indexing
  <2>5. Indexing'
    BY <1>0, <1>1, <2>2, <2>4 DEF Indexing
  <2> QED BY <1>2, <2>3, <2>5 DEF SessionsInv
<1>3. CASE create(c)
  <2>1. InsertSession(0) /\ rows' = rows /\ 0 \in Nat
    BY <1>3 DEF create
  <2>2. \A i \in DOMAIN rows : rows[i].session # 0
    BY <1>0, Typed DEF InOrder
  <2>3. InOrder' /\ Carried' /\ ArchivedImmutable' /\ rows' \in Seq(Turn)
    BY <1>1, <2>1, <2>2, NewSession
  <2> QED BY <1>2, <2>1, <2>3
<1>4. ASSUME NEW p \in 1 .. MaxSessions, fork(c, p) PROVE SessionsInv'
  <2>1. InsertSession(p) /\ p \in Stored /\ p \in Nat
    BY <1>4 DEF fork
  <2>2. PICK n : n = Len(parent) + 1
    OBVIOUS
  <2>3. \/ rows' = rows /\ RowsOf(p) = {}
        \/ \E i \in DOMAIN rows : /\ RowsOf(p) = {i}
                                  /\ rows' = Append(rows, [rows[i] EXCEPT !.session = n])
    BY <1>0, <1>4, <2>1, <2>2, Forked
  <2>4. \/ rows' = rows /\ \A i \in DOMAIN rows : rows[i].session # p
        \/ \E i \in DOMAIN rows : /\ \A j \in DOMAIN rows : rows[j].session = p <=> j = i
                                  /\ rows' = Append(rows, [rows[i] EXCEPT !.session = n])
    <3>1. CASE rows' = rows /\ RowsOf(p) = {}
      BY <3>1 DEF RowsOf
    <3>2. ASSUME NEW i \in DOMAIN rows, RowsOf(p) = {i}
          PROVE  \A j \in DOMAIN rows : rows[j].session = p <=> j = i
      BY <3>2 DEF RowsOf
    <3> QED BY <2>3, <3>1, <3>2, Zenon
  <2>5. InOrder' /\ Carried' /\ ArchivedImmutable' /\ rows' \in Seq(Turn)
    BY <1>1, <2>1, <2>2, <2>4, NewSession
  <2> QED BY <1>2, <2>1, <2>5
<1> QED BY <1>3, <1>4

\* An appender's second step: its own row, begun before the session was archived.
LEMMA AppendKeeps == ASSUME SessionsInv, NEW c \in Client, AppendWrites(c) PROVE SessionsInv'
<1> DEFINE s == job[c].session
           r == [session |-> s, at |-> job[c].at, home |-> s]
<1>0. SessionsType /\ Indexing /\ InOrder /\ Carried /\ ArchivedImmutable
  BY DEF SessionsInv
<1>1. /\ rows' = Append(rows, r) /\ job' = [d \in Client |-> IF d = c THEN Idling ELSE job[d]]
      /\ UNCHANGED <<parent, archived, forkedAt, ftsVars, stage, existed, tick>> /\ Stored' = Stored
  BY <1>0, OwnWritten DEF AppendWrites, Stored
<1>2. /\ s \in Stored /\ s \in Nat /\ job[c].at \in Nat /\ job[c].at <= tick
      /\ archived[s] # 0 => job[c].at < archived[s]
  <2>1. job[c].op = "append" /\ job[c] \in [op : {"idle", "append", "archive"}, session : Nat, at : Nat]
    BY <1>0 DEF AppendWrites, SessionsType
  <2> QED BY <1>0, <2>1 DEF InOrder
<1>3. r \in Turn /\ r.session = s /\ r.at = job[c].at /\ r.home = s
  BY <1>2 DEF Turn
<1> HIDE DEF r
<1>4. PICK k : k = Len(rows) + 1
  OBVIOUS
<1>5. /\ rows' \in Seq(Turn) /\ Len(rows') = k /\ DOMAIN rows' = DOMAIN rows \cup {k}
      /\ k \notin DOMAIN rows /\ rows'[k] = r /\ k \in Nat
      /\ \A i \in DOMAIN rows : rows'[i] = rows[i]
  BY <1>0, <1>1, <1>3, <1>4, RowAdded
<1>6. /\ Len(rows) \in Nat /\ DOMAIN rows = 1 .. Len(rows) /\ tick \in Nat
      /\ \A t \in Stored : forkedAt[t] \in Nat /\ forkedAt[t] <= Len(rows)
  BY <1>0, Typed DEF SessionsType, InOrder
<1> HIDE DEF s
<1>7. \A t \in Stored : Given(t)' = Given(t) /\ Before(t)' = Before(t)
  <2> SUFFICES ASSUME NEW t \in Stored PROVE Given(t)' = Given(t) /\ Before(t)' = Before(t)
    OBVIOUS
  <2>1. Given(t)' = Given(t)
    BY <1>3, <1>5 DEF Given
  <2>2. 1 .. forkedAt[t] \subseteq DOMAIN rows
    BY <1>6
  <2> QED BY <1>1, <1>5, <2>1, <2>2 DEF Before
<1>8. \A t : lineage(t)' = lineage(t)
  BY <1>1 DEF lineage
<1>9. s \in lineage(s)
  BY <1>2 DEF lineage
<1>10. \A i \in DOMAIN rows' : InLineage(i)'
  <2>1. ASSUME NEW i \in DOMAIN rows, NEW u, u = rows[i].session PROVE rows[i].home \in lineage(u)'
    <3>1. rows[i].home \in lineage(u)
      BY <1>0, <2>1 DEF Carried, InLineage
    <3> QED BY <1>8, <3>1
  <2>2. ASSUME NEW i \in DOMAIN rows'
        PROVE  \E u : u = rows'[i].session /\ rows'[i].home \in lineage(u)'
    <3>1. CASE i \in DOMAIN rows
      BY <1>5, <2>1, <3>1
    <3>2. CASE i = k
      BY <1>3, <1>5, <1>8, <1>9, <3>2
    <3> QED BY <1>5, <3>1, <3>2
  <2> QED BY <2>2 DEF InLineage, lineage
<1>11. Carried'
  <2>1. \A t \in Stored : Given(t) \subseteq DOMAIN rows /\ Before(t) \subseteq DOMAIN rows
    BY <1>6 DEF Given, Before
  <2>2. ASSUME NEW t \in Stored
        PROVE  /\ \A i \in Given(t)' : \E j \in Before(t)' : rows'[i].at = rows'[j].at
               /\ \A j \in Before(t)' : \E i \in Given(t)' : rows'[i].at = rows'[j].at
    BY <1>0, <1>5, <1>7, <2>1 DEF Carried
  <2> QED BY <1>1, <1>10, <2>2 DEF Carried
<1>12. ArchivedImmutable'
  <2> SUFFICES ASSUME NEW t \in Stored, archived[t] # 0,
                      NEW i \in DOMAIN rows', rows'[i].session = t
               PROVE  rows'[i].at < archived[t]
    BY <1>1 DEF ArchivedImmutable
  <2>1. CASE i \in DOMAIN rows
    BY <1>0, <1>5, <2>1 DEF ArchivedImmutable
  <2>2. CASE i = k
    BY <1>2, <1>3, <1>5, <2>2
  <2> QED BY <1>5, <2>1, <2>2
<1>13. InOrder'
  <2>1. \A t \in Stored : parent[t] < t /\ forkedAt[t] <= Len(rows')
    BY <1>0, <1>4, <1>5, <1>6 DEF InOrder
  <2>2. \A i \in DOMAIN rows' : rows'[i].session \in Stored /\ rows'[i].home \in Stored /\ rows'[i].at <= tick
    BY <1>0, <1>2, <1>3, <1>5 DEF InOrder
  <2>3. \A d \in Client : job'[d].op # "idle" => job'[d] = job[d]
    BY <1>1 DEF Idling
  <2> QED BY <1>0, <1>1, <2>1, <2>2, <2>3 DEF InOrder
<1>14. SessionsType'
  <2>1. Idling \in [op : {"idle", "append", "archive"}, session : Nat, at : Nat]
    BY DEF Idling
  <2> QED BY <1>0, <1>1, <1>5, <2>1 DEF SessionsType, ftsVars
<1>15. Indexing'
  BY <1>0, <1>1 DEF Indexing, ftsVars, Idling
<1> QED BY <1>11, <1>12, <1>13, <1>14, <1>15 DEF SessionsInv

LEMMA SessionsStep == ASSUME SessionsInv, [SessionsNext]_sessionVars PROVE SessionsInv'
<1>1. CASE UNCHANGED sessionVars
  <2>1. UNCHANGED <<parent, archived, rows, forkedAt, table, triggers, indexed, cutOff,
                    stage, existed, job, tick>>
    BY <1>1 DEF sessionVars, sessionRows, ftsVars
  <2>2. SessionsType /\ Indexing /\ tick \in Nat
    BY DEF SessionsInv, SessionsType
  <2>3. InOrder' /\ Carried' /\ ArchivedImmutable'
    <3>1. tick <= tick' /\ tick' \in Nat
      BY <2>1, <2>2
    <3>2. job' \in [Client -> [op : {"idle", "append", "archive"}, session : Nat, at : Nat]]
      BY <2>1, <2>2 DEF SessionsType
    <3> QED BY <2>1, <3>1, <3>2, HistoryStays
  <2>4. SessionsType' /\ Indexing'
    BY <2>1, <2>2 DEF SessionsType, Indexing, Stored
  <2> QED BY <2>3, <2>4 DEF SessionsInv
<1>2. ASSUME NEW c \in Client,
             \/ Probe(c) \/ CreateIndex(c) \/ CreateTriggers(c) \/ Rebuild(c) \/ Dies(c)
             \/ create(c)
             \/ \E s \in 1 .. MaxSessions : fork(c, s) \/ append_turn(c, s) \/ archive(c, s)
             \/ AppendWrites(c) \/ ArchiveWrites(c)
      PROVE  SessionsInv'
  <2>1. CASE Probe(c) \/ CreateIndex(c) \/ CreateTriggers(c) \/ Rebuild(c) \/ Dies(c)
    BY <2>1, OpeningKeeps
  <2>2. CASE create(c) \/ \E s \in 1 .. MaxSessions : fork(c, s)
    BY <2>2, InsertKeeps
  <2>3. CASE (\E s \in 1 .. MaxSessions : append_turn(c, s) \/ archive(c, s)) \/ ArchiveWrites(c)
    BY <2>3, CallsKeep
  <2>4. CASE AppendWrites(c)
    BY <2>4, AppendKeeps
  <2> QED BY <1>2, <2>1, <2>2, <2>3, <2>4
<1> QED BY <1>1, <1>2 DEF SessionsNext

\* HistoryHeld: a session holds what was said in it and what its parent held when it was
\* forked, all of it said in its lineage, and nothing begun once it was archived, whichever
\* processes create, fork, append, archive, open the store and end in between
\* (SessionStore.fork(), append_turn(), archive()).
THEOREM HistoryIsHeld == SessionsSpec => []HistoryHeld
<1>1. SessionsInit => SessionsInv
  BY SessionsStart
<1>2. SessionsInv /\ [SessionsNext]_sessionVars => SessionsInv'
  BY SessionsStep
<1>3. SessionsInv => HistoryHeld
  BY SessionsHold
<1> QED BY <1>1, <1>2, <1>3, PTL DEF SessionsSpec

\* SearchComplete: the title index answers what LIKE would, unless a process ended between
\* the making of the index and its first content (SessionStore.__init__(), search()).
THEOREM SearchIsComplete == SessionsSpec => []SearchComplete
<1>1. SessionsInit => SessionsInv
  BY SessionsStart
<1>2. SessionsInv /\ [SessionsNext]_sessionVars => SessionsInv'
  BY SessionsStep
<1>3. SessionsInv => SearchComplete
  BY SessionsHold
<1> QED BY <1>1, <1>2, <1>3, PTL DEF SessionsSpec

-----------------------------------------------------------------------------
(* The verifier's checks.                                                        *)

\* A set of numbers that is not empty has a least one, and Min is that.
LEMMA LeastOf ==
  ASSUME NEW S, S \subseteq Nat, S # {}
  PROVE  Min(S) \in S /\ \A y \in S : Min(S) <= y
<1> DEFINE Less == {ss \in Nat \X Nat : ss[1] < ss[2]}
<1>1. IsWellFoundedOn(Less, Nat)
  BY NatLessThanWellFounded DEF OpToRel
<1>2. PICK x \in S : \A y \in S : ~(<<y, x>> \in Less)
  <2> HIDE DEF Less
  <2> QED BY <1>1, WFMin
<1>3. ASSUME NEW y \in S PROVE x <= y
  <2>1. x \in Nat /\ y \in Nat /\ ~(y < x)
    BY <1>2
  <2> QED BY <2>1
<1> QED BY <1>3 DEF Min

Attempt == [tool : Tool, ok : BOOLEAN]
EvidenceInv == attempts \in Seq(Attempt)

LEMMA VerdictOfAttempts == EvidenceInv => VerifiedMeansClean
<1> SUFFICES ASSUME EvidenceInv, NEW tool \in Tool
             PROVE  /\ Verified(tool) = "PASS" <=>
                         /\ [tool |-> tool, ok |-> TRUE] \in ToSet(attempts)
                         /\ [tool |-> tool, ok |-> FALSE] \notin ToSet(attempts)
                    /\ require_success_result(tool) = "FAIL" <=>
                         \E i \in DOMAIN attempts :
                           /\ attempts[i] = [tool |-> tool, ok |-> FALSE]
                           /\ \A j \in 1 .. i - 1 : attempts[j].tool # tool
  BY DEF VerifiedMeansClean
<1> DEFINE first == Min(Of(tool))
           good == [tool |-> tool, ok |-> TRUE]
           bad == [tool |-> tool, ok |-> FALSE]
<1>1. /\ Len(attempts) \in Nat /\ DOMAIN attempts = 1 .. Len(attempts)
      /\ \A i \in DOMAIN attempts :
           i \in Nat /\ attempts[i] \in Attempt
  BY DEF EvidenceInv
<1>2. \A r \in Attempt :
        /\ r = good <=> r.tool = tool /\ r.ok
        /\ r = bad <=> r.tool = tool /\ ~r.ok
  BY DEF Attempt
<1>3. /\ good \in ToSet(attempts) <=> \E i \in Of(tool) : attempts[i].ok
      /\ bad \in ToSet(attempts) <=> \E i \in Of(tool) : ~attempts[i].ok
  <2>1. \A v : v \in ToSet(attempts) <=> \E i \in DOMAIN attempts : attempts[i] = v
    BY DEF ToSet
  <2> HIDE DEF good, bad
  <2> QED BY <1>1, <1>2, <2>1 DEF Of
<1>4. Of(tool) # {} => first \in Of(tool) /\ \A i \in Of(tool) : first <= i
  BY <1>1, LeastOf DEF Of
<1>5. Verified(tool) = "PASS" <=>
        /\ require_observation = "PASS" /\ require_success_result(tool) = "PASS"
        /\ adversarial_recheck(tool) = "PASS"
  BY DEF Verified, overall, require_observation, require_success_result, adversarial_recheck
<1> HIDE DEF first, good, bad
<1>6. require_success_result(tool) =
        IF Of(tool) = {} THEN "UNCERTAIN" ELSE IF attempts[first].ok THEN "PASS" ELSE "FAIL"
  BY DEF require_success_result, first
<1>7. Verified(tool) = "PASS" <=> good \in ToSet(attempts) /\ bad \notin ToSet(attempts)
  <2>1. Of(tool) # {} => attempts # <<>>
    BY DEF Of
  <2> QED BY <1>3, <1>4, <1>5, <1>6, <2>1 DEF require_observation, adversarial_recheck
<1>8. require_success_result(tool) = "FAIL" <=>
        \E i \in DOMAIN attempts : attempts[i] = bad /\ \A j \in 1 .. i - 1 : attempts[j].tool # tool
  <2>1. ASSUME require_success_result(tool) = "FAIL"
        PROVE  \E i \in DOMAIN attempts :
                 attempts[i] = bad /\ \A j \in 1 .. i - 1 : attempts[j].tool # tool
    <3>1. Of(tool) # {} /\ ~attempts[first].ok
      BY <1>6, <2>1
    <3>2. first \in DOMAIN attempts /\ attempts[first] = bad
      BY <1>1, <1>2, <1>4, <3>1 DEF Of
    <3>3. \A j \in 1 .. first - 1 : attempts[j].tool # tool
      BY <1>1, <1>4, <3>1, <3>2 DEF Of
    <3> QED BY <3>2, <3>3
  <2>2. ASSUME NEW i \in DOMAIN attempts, attempts[i] = bad,
               \A j \in 1 .. i - 1 : attempts[j].tool # tool
        PROVE  require_success_result(tool) = "FAIL"
    <3>1. i \in Of(tool) /\ ~attempts[i].ok
      BY <1>1, <1>2, <2>2 DEF Of
    <3>2. first = i
      BY <1>1, <1>4, <2>2, <3>1 DEF Of
    <3> QED BY <1>6, <3>1, <3>2
  <2> QED BY <2>1, <2>2
<1> QED BY <1>7, <1>8 DEF good, bad

\* VerifiedMeansClean: in whatever order the results came, the adversarial check passes no
\* tool that ever failed or never ran, what it passes the other check passes, and what the
\* first attempt failed stays failed (adversarial_recheck(), require_success_result()).
THEOREM ChecksAgree == EvidenceSpec => []VerifiedMeansClean
<1>1. EvidenceInit => EvidenceInv
  BY DEF EvidenceInit, EvidenceInv
<1>2. EvidenceInv /\ [EvidenceNext]_evidenceVars => EvidenceInv'
  <2>1. ASSUME EvidenceInv, NEW tool \in Tool, NEW ok \in BOOLEAN, Attempts(tool, ok)
        PROVE  EvidenceInv'
    <3>1. [tool |-> tool, ok |-> ok] \in Attempt
      BY DEF Attempt
    <3> QED BY <2>1, <3>1 DEF Attempts, EvidenceInv
  <2>2. ASSUME EvidenceInv, attempts' = attempts PROVE EvidenceInv'
    BY <2>2 DEF EvidenceInv
  <2> QED BY <2>1, <2>2 DEF EvidenceNext, evidenceVars, Claims
<1> QED BY <1>1, <1>2, VerdictOfAttempts, PTL DEF EvidenceSpec

-----------------------------------------------------------------------------
(* The aggregator.                                                               *)

ClaimsInv == claims \in Seq(Claim)

LEMMA ClaimTyped ==
  ASSUME ClaimsInv
  PROVE  /\ Len(claims) \in Nat /\ DOMAIN claims = 1 .. Len(claims)
         /\ \A i \in DOMAIN claims : /\ i \in Nat /\ claims[i] \in Claim
                                     /\ claims[i].evidence \in Nat /\ claims[i].confidence \in Nat
<1>1. claims \in Seq(Claim)
  BY DEF ClaimsInv
<1>2. \A i \in DOMAIN claims : claims[i] \in Claim
  BY <1>1
<1>3. \A c \in Claim : c.evidence \in Nat /\ c.confidence \in Nat
  <2>1. \A c \in Claim : c.evidence \in Evidences /\ c.confidence \in Confidences
    BY DEF Claim
  <2>2. Evidences \subseteq Nat /\ Confidences \subseteq Nat
    BY EvidenceAssumption
  <2> QED BY <2>1, <2>2
<1> QED BY <1>1, <1>2, <1>3

\* Rank is a strict order of all claims, evidence first and confidence next.
LEMMA Ranked ==
  ASSUME ClaimsInv
  PROVE  /\ \A i \in DOMAIN claims : ~Precedes(i, i)
         /\ \A i, j, k \in DOMAIN claims : Precedes(i, j) /\ Precedes(j, k) => Precedes(i, k)
         /\ \A i, j \in DOMAIN claims :
              /\ i = j \/ Precedes(i, j) \/ Precedes(j, i)
              /\ ~Precedes(i, j) => /\ claims[i].evidence <= claims[j].evidence
                                    /\ claims[i].evidence = claims[j].evidence =>
                                         claims[i].confidence <= claims[j].confidence
<1>1. \A i \in DOMAIN claims : i \in Nat /\ claims[i].evidence \in Nat /\ claims[i].confidence \in Nat
  BY ClaimTyped
<1> QED BY <1>1 DEF Precedes, Above

\* In a finite set of sets there is a smallest one, in the order of inclusion.
LEMMA FiniteSubsetMin ==
  ASSUME NEW S, IsFiniteSet(S)
  PROVE  \A T \in SUBSET SUBSET S : T # {} => \E x \in T : \A y \in T : y \subseteq x => y = x
<1> SUFFICES ASSUME NEW T, T \subseteq SUBSET S, T # {}
             PROVE  \E x \in T : \A y \in T : y \subseteq x => y = x
  OBVIOUS
<1>1. IsWellFoundedOn(StrictSubsetOrdering(S), SUBSET S)
  BY FS_FiniteSubsetsOfFinite, FS_StrictSubsetOrderingWellFounded
<1>2. PICK x \in T : \A y \in T : ~(<<y, x>> \in StrictSubsetOrdering(S))
  BY <1>1, WFMin
<1> QED BY <1>2 DEF StrictSubsetOrdering

\* Some claims, if there are any, have a first.
LEMMA FirstOf ==
  ASSUME ClaimsInv, NEW S, S \subseteq DOMAIN claims, S # {}
  PROVE  \E i \in S : \A j \in S : ~Precedes(j, i)
<1> DEFINE Ahead(i) == {j \in S : Precedes(j, i)}
           T == {Ahead(i) : i \in S}
<1>1. IsFiniteSet(S)
  <2>1. IsFiniteSet(1 .. Len(claims))
    BY ClaimTyped, FS_Interval
  <2> QED BY <2>1, ClaimTyped, FS_Subset
<1>2. PICK b \in T : \A y \in T : y \subseteq b => y = b
  <2>1. \A U \in SUBSET SUBSET S : U # {} => \E x \in U : \A y \in U : y \subseteq x => y = x
    BY <1>1, FiniteSubsetMin
  <2>2. T \in SUBSET SUBSET S /\ T # {}
    OBVIOUS
  <2> HIDE DEF T
  <2> QED BY <2>1, <2>2
<1>3. PICK i \in S : b = Ahead(i)
  OBVIOUS
<1>4. \A j \in S : ~Precedes(j, i)
  <2> SUFFICES ASSUME NEW j \in S, Precedes(j, i) PROVE FALSE
    OBVIOUS
  <2>1. Ahead(j) \subseteq Ahead(i)
    BY Ranked
  <2>2. j \in Ahead(i) /\ j \notin Ahead(j)
    BY Ranked
  <2>3. Ahead(j) \in T
    OBVIOUS
  <2> HIDE DEF Ahead, T
  <2> QED BY <1>2, <1>3, <2>1, <2>2, <2>3
<1> QED BY <1>4

\* Each content is kept, once, where it comes first.
LEMMA ContentsKept ==
  ASSUME ClaimsInv, NEW key
  PROVE  /\ Distinct(key) \subseteq Group(key) /\ Group(key) \subseteq DOMAIN claims
         /\ \A i \in Group(key) : \E r \in Distinct(key) :
              claims[r].content = claims[i].content /\ ~Precedes(i, r)
         /\ \A i, j \in Distinct(key) : claims[i].content = claims[j].content => i = j
<1>1. Distinct(key) \subseteq Group(key) /\ Group(key) \subseteq DOMAIN claims
  BY DEF Distinct, _dedupe_by_content, Group
<1>2. ASSUME NEW i \in Group(key)
      PROVE  \E r \in Distinct(key) : claims[r].content = claims[i].content /\ ~Precedes(i, r)
  <2> DEFINE same == {j \in Group(key) : claims[j].content = claims[i].content}
  <2>1. same \subseteq DOMAIN claims /\ same # {}
    BY <1>1
  <2>2. PICK r \in same : \A j \in same : ~Precedes(j, r)
    BY <2>1, FirstOf
  <2> QED BY <2>2 DEF Distinct, _dedupe_by_content
<1>3. ASSUME NEW i \in Distinct(key), NEW j \in Distinct(key), claims[i].content = claims[j].content
      PROVE  i = j
  <2>1. ~Precedes(j, i) /\ ~Precedes(i, j)
    BY <1>1, <1>3 DEF Distinct, _dedupe_by_content
  <2> QED BY <1>1, <2>1, Ranked
<1> QED BY <1>1, <1>2, <1>3

\* Nothing that was claimed comes before the winner.
LEMMA WinnerLeads ==
  ASSUME ClaimsInv, NEW key \in Keys
  PROVE  Winner(key) \in Distinct(key) /\ \A i \in Group(key) : ~Precedes(i, Winner(key))
<1>1. Group(key) # {}
  BY DEF Group, Keys
<1>2. Distinct(key) # {} /\ Distinct(key) \subseteq DOMAIN claims /\ Group(key) \subseteq DOMAIN claims
  BY <1>1, ContentsKept
<1>3. \E i \in Distinct(key) : \A j \in Distinct(key) : ~Precedes(j, i)
  BY <1>2, FirstOf
<1>4. Winner(key) \in Distinct(key) /\ \A j \in Distinct(key) : ~Precedes(j, Winner(key))
  BY <1>3 DEF Winner
<1>5. ASSUME NEW i \in Group(key), Precedes(i, Winner(key)) PROVE FALSE
  <2>1. PICK r \in Distinct(key) : ~Precedes(i, r)
    BY ContentsKept
  <2>2. r = i \/ Precedes(r, i)
    BY <1>2, <2>1, Ranked
  <2> QED BY <1>2, <1>4, <1>5, <2>1, <2>2, Ranked
<1> QED BY <1>4, <1>5

\* How a key is judged, told by what was claimed alone: no order, no repetition.
Said(key) == {c \in {claims[i] : i \in DOMAIN claims} : c.key = key}
JudgedAs(key, t) ==
  /\ t \in Said(key)
  /\ \A c \in Said(key) : /\ c.evidence <= t.evidence
                          /\ c.evidence = t.evidence => c.confidence <= t.confidence
  /\ resolution(key) \in {"AGREED", "SUPERSEDED", "CONFLICT"}
  /\ resolution(key) = "AGREED" <=> \A c \in Said(key) : c.content = t.content
  /\ resolution(key) = "CONFLICT" <=>
       \E c \in Said(key) : c.content # t.content /\ c.evidence = t.evidence
Judged == \A key \in Keys : JudgedAs(key, TopClaim(key))

LEMMA KeysJudged == ClaimsInv => Judged
<1> SUFFICES ASSUME ClaimsInv, NEW key \in Keys PROVE JudgedAs(key, TopClaim(key))
  BY DEF Judged
<1> DEFINE w == Winner(key)
           ev(i) == claims[i].evidence
           lead == {TopClaim(key).evidence - claims[i].evidence : i \in Distinct(key) \ {w}}
<1>1. /\ w \in Distinct(key) /\ \A i \in Group(key) : ~Precedes(i, w)
      /\ Distinct(key) \subseteq Group(key) /\ Group(key) \subseteq DOMAIN claims
      /\ TopClaim(key) = claims[w]
  BY WinnerLeads, ContentsKept DEF TopClaim
<1>2. \A i \in DOMAIN claims : ev(i) \in Nat /\ claims[i].confidence \in Nat
  BY ClaimTyped
<1>3. \A i \in Group(key) : /\ ev(i) <= ev(w)
                            /\ ev(i) = ev(w) => claims[i].confidence <= claims[w].confidence
  BY <1>1, Ranked
<1>4. \A c : c \in Said(key) <=> \E i \in Group(key) : c = claims[i]
  BY DEF Said, Group
<1> HIDE DEF w
\* More than one content, and the winner leads by none, when another has its evidence.
<1>5. Cardinality(Distinct(key)) = 1 <=> \A i \in Group(key) : claims[i].content = claims[w].content
  <2>1. IsFiniteSet(Distinct(key))
    <3>1. IsFiniteSet(1 .. Len(claims)) /\ Distinct(key) \subseteq 1 .. Len(claims)
      BY <1>1, ClaimTyped, FS_Interval
    <3> QED BY <3>1, FS_Subset
  <2>2. Cardinality(Distinct(key)) = 1 <=> Distinct(key) = {w}
    BY <1>1, <2>1, FS_Singleton
  <2>3. ASSUME Distinct(key) = {w}, NEW i \in Group(key) PROVE claims[i].content = claims[w].content
    BY <2>3, ContentsKept
  <2>4. ASSUME \A i \in Group(key) : claims[i].content = claims[w].content PROVE Distinct(key) = {w}
    BY <1>1, <2>4, ContentsKept
  <2> QED BY <2>2, <2>3, <2>4
<1>6. ASSUME Cardinality(Distinct(key)) # 1
      PROVE  /\ Gap(key) \in Nat
             /\ Gap(key) < Dominance <=>
                  \E i \in Group(key) : claims[i].content # claims[w].content /\ ev(i) = ev(w)
  <2>1. PICK i \in Group(key) : claims[i].content # claims[w].content
    BY <1>5, <1>6
  <2>2. \A j \in Group(key) : claims[j].content # claims[w].content =>
          \E r \in Distinct(key) \ {w} : claims[r].content = claims[j].content /\ ev(j) <= ev(r)
    <3>1. ASSUME NEW j \in Group(key), claims[j].content # claims[w].content
          PROVE  \E r \in Distinct(key) \ {w} : claims[r].content = claims[j].content /\ ev(j) <= ev(r)
      <4>1. PICK r \in Distinct(key) : claims[r].content = claims[j].content /\ ~Precedes(j, r)
        BY ContentsKept
      <4>2. ev(j) <= ev(r)
        BY <1>1, <4>1, Ranked
      <4> QED BY <3>1, <4>1, <4>2
    <3> QED BY <3>1
  <2>3. \A j \in Distinct(key) \ {w} :
          ev(j) \in Nat /\ ev(j) <= ev(w) /\ claims[j].content # claims[w].content
    BY <1>1, <1>2, <1>3, ContentsKept
  <2>4. ev(w) \in Nat
    BY <1>1, <1>2
  <2>5. \A x : x \in lead <=> \E j \in Distinct(key) \ {w} : x = ev(w) - ev(j)
    BY <1>1
  <2> HIDE DEF ev, lead
  <2>6. lead \subseteq Nat /\ lead # {}
    BY <2>1, <2>2, <2>3, <2>4, <2>5
  <2>7. Gap(key) = Min(lead)
    BY DEF Gap, lead, w
  <2>8. Gap(key) \in lead /\ \A x \in lead : Gap(key) <= x
    BY <2>6, <2>7, LeastOf
  <2>9. ASSUME Gap(key) < Dominance
        PROVE  \E j \in Group(key) : claims[j].content # claims[w].content /\ ev(j) = ev(w)
    <3>1. PICK j \in Distinct(key) \ {w} : Gap(key) = ev(w) - ev(j)
      BY <2>5, <2>8
    <3>2. ev(j) = ev(w)
      BY <2>3, <2>4, <2>9, <3>1 DEF Dominance
    <3> QED BY <1>1, <2>3, <3>2
  <2>10. ASSUME NEW j \in Group(key), claims[j].content # claims[w].content, ev(j) = ev(w)
         PROVE  Gap(key) < Dominance
    <3>1. PICK r \in Distinct(key) \ {w} : ev(j) <= ev(r)
      BY <2>2, <2>10
    <3>2. ev(w) - ev(r) = 0
      BY <2>3, <2>4, <2>10, <3>1
    <3>3. 0 \in lead
      BY <2>5, <3>2
    <3>4. Gap(key) \in Nat /\ Gap(key) <= 0
      BY <2>6, <2>8, <3>3
    <3> QED BY <3>4 DEF Dominance
  <2> QED BY <2>6, <2>8, <2>9, <2>10
<1>7. \A g \in Nat : ~(g < Dominance) <=> g >= Dominance
  BY DEF Dominance
<1> QED BY <1>1, <1>3, <1>4, <1>5, <1>6, <1>7 DEF JudgedAs, resolution

LEMMA JudgedWell == ClaimsInv => EvidenceWins
<1> SUFFICES ASSUME ClaimsInv PROVE EvidenceWins
  OBVIOUS
<1>1. /\ \A key \in Keys : JudgedAs(key, TopClaim(key))
      /\ \A c : c \in {claims[i] : i \in DOMAIN claims} <=> \E i \in DOMAIN claims : c = claims[i]
      /\ \A i \in DOMAIN claims : claims[i].key \in Keys /\ claims[i] \in Said(claims[i].key)
  BY KeysJudged DEF Judged, Keys, Said
<1>2. \A key, c : c \in Said(key) <=> \E i \in DOMAIN claims : c = claims[i] /\ claims[i].key = key
  BY DEF Said
<1>3. \A i \in DOMAIN claims : claims[i].evidence \in Nat
  BY ClaimTyped
<1>4. \A i \in DOMAIN claims :
        LET c == claims[i]
            top == TopClaim(c.key) IN
        /\ c.evidence <= top.evidence
        /\ c.content # top.content /\ c.evidence = top.evidence => resolution(c.key) = "CONFLICT"
  BY <1>1 DEF JudgedAs
<1>5. \A key \in Conflicted : \E i, j \in DOMAIN claims :
        /\ claims[i].key = key /\ claims[j].key = key
        /\ claims[i].content # claims[j].content /\ claims[i].evidence = claims[j].evidence
  <2> SUFFICES ASSUME NEW key \in Keys, resolution(key) = "CONFLICT"
               PROVE  \E i, j \in DOMAIN claims :
                        /\ claims[i].key = key /\ claims[j].key = key
                        /\ claims[i].content # claims[j].content
                        /\ claims[i].evidence = claims[j].evidence
    BY DEF Conflicted
  <2>1. PICK c \in Said(key) : c.content # TopClaim(key).content /\ c.evidence = TopClaim(key).evidence
    BY <1>1 DEF JudgedAs
  <2>2. TopClaim(key) \in Said(key)
    BY <1>1 DEF JudgedAs
  <2> QED BY <1>2, <2>1, <2>2
<1>6. synthesize = "TRUSTED" <=> Keys # {} /\ \A key \in Keys : key \notin Conflicted /\ TopClaim(key).evidence # 0
  BY DEF synthesize, _aggregation_present_check, _evidence_backed_check, _conflict_free_check, Conflicted
<1>7. Keys # {} <=> claims # <<>>
  <2>1. claims = <<>> <=> DOMAIN claims = {}
    BY DEF ClaimsInv
  <2> QED BY <2>1 DEF Keys
<1>8. ASSUME NEW key \in Keys
      PROVE  key \notin Conflicted /\ TopClaim(key).evidence # 0 <=>
               \E j \in DOMAIN claims :
                 /\ claims[j].key = key /\ claims[j].evidence > 0
                 /\ \A i \in DOMAIN claims :
                      claims[i].key = key /\ claims[i].content # claims[j].content
                        => claims[i].evidence < claims[j].evidence
  <2> DEFINE t == TopClaim(key)
  <2>1. PICK w \in DOMAIN claims : t = claims[w] /\ claims[w].key = key
    BY <1>1, <1>2 DEF JudgedAs
  <2>2. key \in Conflicted <=>
          \E i \in DOMAIN claims : claims[i].key = key /\ claims[i].content # t.content
                                     /\ claims[i].evidence = t.evidence
    BY <1>1, <1>2 DEF JudgedAs, Conflicted
  <2>3. \A i \in DOMAIN claims : claims[i].key = key => claims[i].evidence <= t.evidence
    BY <1>1, <1>2 DEF JudgedAs
  <2> HIDE DEF t
  <2>4. ASSUME key \notin Conflicted, t.evidence # 0
        PROVE  /\ claims[w].key = key /\ claims[w].evidence > 0
               /\ \A i \in DOMAIN claims :
                    claims[i].key = key /\ claims[i].content # claims[w].content
                      => claims[i].evidence < claims[w].evidence
    BY <1>3, <2>1, <2>2, <2>3, <2>4
  <2>5. ASSUME NEW j \in DOMAIN claims, claims[j].key = key, claims[j].evidence > 0,
               \A i \in DOMAIN claims : claims[i].key = key /\ claims[i].content # claims[j].content
                                          => claims[i].evidence < claims[j].evidence
        PROVE  key \notin Conflicted /\ t.evidence # 0
    <3>1. claims[j].evidence <= t.evidence /\ t.evidence \in Nat /\ claims[j].evidence \in Nat
      BY <1>3, <2>1, <2>3, <2>5
    <3>2. t.content = claims[j].content
      BY <2>1, <2>5, <3>1
    <3>3. key \notin Conflicted
      BY <1>3, <2>2, <2>5, <3>1, <3>2
    <3> QED BY <2>5, <3>1, <3>3
  <2> QED BY <2>4, <2>5 DEF t
<1> QED BY <1>4, <1>5, <1>6, <1>7, <1>8 DEF EvidenceWins

LEMMA ClaimsStep == ClaimsInv /\ [EvidenceNext]_evidenceVars => ClaimsInv'
<1> SUFFICES ASSUME ClaimsInv, [EvidenceNext]_evidenceVars PROVE ClaimsInv'
  OBVIOUS
<1>1. ASSUME NEW claim \in Claim, NEW i \in 1 .. Len(claims) + 1, claims' = InsertAt(claims, i, claim)
      PROVE  ClaimsInv'
  <2>1. /\ SubSeq(claims, 1, i - 1) \in Seq(Claim) /\ SubSeq(claims, i, Len(claims)) \in Seq(Claim)
        /\ <<claim>> \in Seq(Claim)
    BY DEF ClaimsInv
  <2>2. claims' \in Seq(Claim)
    BY <1>1, <2>1 DEF InsertAt
  <2> QED BY <2>2 DEF ClaimsInv
<1>2. CASE claims' = claims
  BY <1>2 DEF ClaimsInv
<1> QED BY <1>1, <1>2 DEF EvidenceNext, Claims, Attempts, evidenceVars

\* EvidenceWins: the top claim of a key has the most evidence; a rival nobody's evidence
\* rules out makes a conflict, and nothing else does; a verdict of TRUSTED has neither a
\* conflict nor a bare claim (ResultAggregator.aggregate(), synthesize()).
THEOREM EvidenceDecides == EvidenceSpec => []EvidenceWins
<1>1. EvidenceInit => ClaimsInv
  BY DEF EvidenceInit, ClaimsInv
<1> QED BY <1>1, ClaimsStep, JudgedWell, PTL DEF EvidenceSpec

\* What a sequence holds that is put together of one with n elements and one with m.
LEMMA PutTogether ==
  ASSUME NEW S, NEW a \in Seq(S), NEW b \in Seq(S)
  PROVE  /\ DOMAIN (a \o b) = 1 .. Len(a) + Len(b)
         /\ \A j \in 1 .. Len(a) : (a \o b)[j] = a[j]
         /\ \A j \in 1 .. Len(b) : (a \o b)[Len(a) + j] = b[j]
<1>1. Len(a) \in Nat /\ Len(b) \in Nat /\ a \o b \in Seq(S) /\ Len(a \o b) = Len(a) + Len(b)
  OBVIOUS
<1>2. DOMAIN (a \o b) = 1 .. Len(a) + Len(b)
  BY <1>1
<1>3. \A j \in 1 .. Len(a) : (a \o b)[j] = a[j]
  BY <1>1
<1>4. \A j \in 1 .. Len(b) : (a \o b)[Len(a) + j] = b[j]
  BY <1>1
<1> QED BY <1>2, <1>3, <1>4

\* What a sequence holds that one is taken out of.
LEMMA TakenOut ==
  ASSUME NEW S, NEW s \in Seq(S), NEW i \in DOMAIN s, NEW r, r = RemoveAt(s, i)
  PROVE  /\ \A j \in DOMAIN s : s[j] = s[i] \/ \E k \in DOMAIN r : r[k] = s[j]
         /\ \A k \in DOMAIN r : \E j \in DOMAIN s : r[k] = s[j]
<1> DEFINE n == Len(s)
           a == SubSeq(s, 1, i - 1)
           b == SubSeq(s, i + 1, n)
<1>1. n \in Nat /\ DOMAIN s = 1 .. n /\ i \in 1 .. n /\ a \in Seq(S) /\ b \in Seq(S)
  OBVIOUS
<1>2. /\ Len(a) = i - 1 /\ \A j \in 1 .. i - 1 : a[j] = s[j]
      /\ Len(b) = n - i /\ \A j \in 1 .. n - i : b[j] = s[i + j]
  BY <1>1
<1>3. r = a \o b
  BY DEF RemoveAt
<1> HIDE DEF a, b, n
<1>4. /\ DOMAIN r = 1 .. n - 1
      /\ \A j \in 1 .. i - 1 : r[j] = s[j]
      /\ \A j \in 1 .. n - i : r[i - 1 + j] = s[i + j]
  <2>1. /\ DOMAIN r = 1 .. Len(a) + Len(b)
        /\ \A j \in 1 .. Len(a) : r[j] = a[j]
        /\ \A j \in 1 .. Len(b) : r[Len(a) + j] = b[j]
    BY <1>1, <1>3, PutTogether
  <2>2. (i - 1) + (n - i) = n - 1
    BY <1>1
  <2> QED BY <1>2, <2>1, <2>2
<1>5. \A j \in DOMAIN s : j = i \/ \E k \in DOMAIN r : r[k] = s[j]
  <2> SUFFICES ASSUME NEW j \in DOMAIN s, j # i PROVE \E k \in DOMAIN r : r[k] = s[j]
    OBVIOUS
  <2>1. CASE j < i
    BY <1>1, <1>4, <2>1
  <2>2. CASE j > i
    <3>1. j - i \in 1 .. n - i /\ i - 1 + (j - i) \in 1 .. n - 1 /\ i + (j - i) = j
      BY <1>1, <2>2
    <3> QED BY <1>4, <3>1
  <2> QED BY <1>1, <2>1, <2>2
<1>6. \A k \in DOMAIN r : \E j \in DOMAIN s : r[k] = s[j]
  <2> SUFFICES ASSUME NEW k \in DOMAIN r PROVE \E j \in DOMAIN s : r[k] = s[j]
    OBVIOUS
  <2>1. CASE k <= i - 1
    BY <1>1, <1>4, <2>1
  <2>2. CASE k > i - 1
    <3>1. k - (i - 1) \in 1 .. n - i /\ i - 1 + (k - (i - 1)) = k /\ i + (k - (i - 1)) \in 1 .. n
      BY <1>1, <1>4, <2>2
    <3> QED BY <1>1, <1>4, <3>1
  <2> QED BY <1>1, <1>4, <2>1, <2>2
<1> QED BY <1>5, <1>6

\* One more of what was said with as much evidence and confidence is no news of a key.
LEMMA NoNews ==
  ASSUME ClaimsInv, ClaimsInv', NEW c, NEW d,
         {claims'[i] : i \in DOMAIN claims'} = {claims[i] : i \in DOMAIN claims} \cup {c},
         d \in {claims[i] : i \in DOMAIN claims}, d.key = c.key, d.content = c.content,
         d.evidence >= c.evidence, d.confidence >= c.confidence
  PROVE  /\ Keys' = Keys
         /\ \A key \in Keys : /\ resolution(key)' = resolution(key)
                              /\ TopClaim(key)'.evidence = TopClaim(key).evidence
                              /\ TopClaim(key)'.confidence = TopClaim(key).confidence
<1>1. /\ Keys = {x.key : x \in {claims[i] : i \in DOMAIN claims}}
      /\ Keys' = {x.key : x \in {claims'[i] : i \in DOMAIN claims'}}
  BY DEF Keys
<1>2. Keys' = Keys
  BY <1>1
<1>3. Judged /\ Judged'
  <2>1. (ClaimsInv => Judged)'
    BY KeysJudged, PTL
  <2> QED BY <2>1, KeysJudged
<1>4. ASSUME NEW key \in Keys
      PROVE  /\ resolution(key)' = resolution(key)
             /\ TopClaim(key)'.evidence = TopClaim(key).evidence
             /\ TopClaim(key)'.confidence = TopClaim(key).confidence
  <2> DEFINE res == resolution(key)
             ses == resolution(key)'
             t == TopClaim(key)
             u == TopClaim(key)'
             said == Said(key)
             more == Said(key)'
  <2>1. /\ \A x \in said : x \in more
        /\ \A x \in more : x \in said \/ (x = c /\ d \in said)
        /\ \A x \in more : x.evidence \in Nat /\ x.confidence \in Nat
    <3>1. \A x \in {claims[i] : i \in DOMAIN claims} : x \in Claim
      BY DEF ClaimsInv
    <3>2. \A x \in {claims'[i] : i \in DOMAIN claims'} : x \in Claim
      BY DEF ClaimsInv
    <3>3. \A x \in Claim : x.evidence \in Nat /\ x.confidence \in Nat
      <4>1. \A x \in Claim : x.evidence \in Evidences /\ x.confidence \in Confidences
        BY DEF Claim
      <4>2. Evidences \subseteq Nat /\ Confidences \subseteq Nat
        BY EvidenceAssumption
      <4> QED BY <4>1, <4>2
    <3> QED BY <3>2, <3>3 DEF Said
  <2>2. /\ t \in said
        /\ \A x \in said : x.evidence <= t.evidence
                             /\ (x.evidence = t.evidence => x.confidence <= t.confidence)
        /\ res \in {"AGREED", "SUPERSEDED", "CONFLICT"}
        /\ res = "AGREED" <=> \A x \in said : x.content = t.content
        /\ res = "CONFLICT" <=> \E x \in said : x.content # t.content /\ x.evidence = t.evidence
    BY <1>3 DEF Judged, JudgedAs
  <2>3. /\ u \in more
        /\ \A x \in more : x.evidence <= u.evidence
                             /\ (x.evidence = u.evidence => x.confidence <= u.confidence)
        /\ ses \in {"AGREED", "SUPERSEDED", "CONFLICT"}
        /\ ses = "AGREED" <=> \A x \in more : x.content = u.content
        /\ ses = "CONFLICT" <=> \E x \in more : x.content # u.content /\ x.evidence = u.evidence
    BY <1>2, <1>3 DEF Judged, JudgedAs
  <2> HIDE DEF res, ses, t, u, said, more
  \* c is matched by d.
  <2>4. \A x \in more : \E y \in said :
          y.content = x.content /\ y.evidence >= x.evidence /\ y.confidence >= x.confidence
    <3> SUFFICES ASSUME NEW x \in more
                 PROVE  \E y \in said : /\ y.content = x.content /\ y.evidence >= x.evidence
                                        /\ y.confidence >= x.confidence
      OBVIOUS
    <3>1. CASE x \in said
      BY <2>1, <3>1
    <3>2. CASE x = c /\ d \in said
      BY <3>2
    <3> QED BY <2>1, <3>1, <3>2
  <2>5. u.evidence = t.evidence
    <3>1. t.evidence <= u.evidence
      BY <2>1, <2>2, <2>3
    <3>2. PICK y \in said : y.evidence >= u.evidence
      BY <2>3, <2>4
    <3>3. y.evidence <= t.evidence /\ y.evidence \in Nat
      BY <2>1, <2>2, <3>2
    <3>4. u.evidence \in Nat /\ t.evidence \in Nat
      BY <2>1, <2>2, <2>3
    <3> QED BY <3>1, <3>2, <3>3, <3>4
  <2>6. u.confidence = t.confidence
    <3>1. t.confidence <= u.confidence
      BY <2>1, <2>2, <2>3, <2>5
    <3>2. PICK y \in said : y.evidence >= u.evidence /\ y.confidence >= u.confidence
      BY <2>3, <2>4
    <3>3. y.evidence = t.evidence /\ y.confidence <= t.confidence
      BY <2>1, <2>2, <2>3, <2>5, <3>2
    <3> QED BY <2>1, <2>2, <2>3, <3>1, <3>2, <3>3
  <2>7. \A x \in more : x.evidence = t.evidence =>
          \E y \in said : y.content = x.content /\ y.evidence = t.evidence
    BY <2>1, <2>2, <2>4
  <2>8. res = "CONFLICT" <=> ses = "CONFLICT"
    <3>1. ASSUME res = "CONFLICT" PROVE ses = "CONFLICT"
      <4>1. PICK x \in said : x.content # t.content /\ x.evidence = t.evidence
        BY <2>2, <3>1
      <4>2. x.content # u.content \/ t.content # u.content
        BY <4>1
      <4> QED BY <2>1, <2>2, <2>3, <2>5, <4>1, <4>2
    <3>2. ASSUME ses = "CONFLICT" PROVE res = "CONFLICT"
      <4>1. PICK x \in more : x.content # u.content /\ x.evidence = u.evidence
        BY <2>3, <3>2
      <4>2. PICK y \in said : y.content = x.content /\ y.evidence = t.evidence
        BY <2>5, <2>7, <4>1
      <4>3. PICK z \in said : z.content = u.content /\ z.evidence = t.evidence
        BY <2>3, <2>5, <2>7
      <4> QED BY <2>2, <4>1, <4>2, <4>3
    <3> QED BY <3>1, <3>2
  <2>9. res = "AGREED" <=> ses = "AGREED"
    BY <2>1, <2>2, <2>3, <2>4
  <2>10. ses = res
    BY <2>2, <2>3, <2>8, <2>9
  <2> QED BY <2>5, <2>6, <2>10 DEF res, ses, t, u
<1> QED BY <1>2, <1>4

\* VotesDoNotCount: a claim that repeats what another has said, with no less evidence and
\* confidence, changes no verdict, no resolution and no confidence, however many there are
\* (ResultAggregator.aggregate(): "by EVIDENCE, not votes").
THEOREM VotesAreIgnored == EvidenceSpec => VotesDoNotCount
<1>1. EvidenceInit => ClaimsInv
  BY DEF EvidenceInit, ClaimsInv
<1>2. ASSUME ClaimsInv, ClaimsInv', NEW i \in DOMAIN claims',
             claims = RemoveAt(claims', i),
             \E j \in DOMAIN claims :
               /\ claims[j].key = claims'[i].key /\ claims[j].content = claims'[i].content
               /\ claims[j].evidence >= claims'[i].evidence
               /\ claims[j].confidence >= claims'[i].confidence
      PROVE  /\ synthesize' = synthesize /\ confidence' = confidence
             /\ \A key \in Keys : resolution(key)' = resolution(key)
  <2>1. PICK c : c = claims'[i]
    OBVIOUS
  <2>2. PICK d \in {claims[j] : j \in DOMAIN claims} :
          d.key = c.key /\ d.content = c.content /\ d.evidence >= c.evidence /\ d.confidence >= c.confidence
    BY <1>2, <2>1
  <2>3. {claims'[j] : j \in DOMAIN claims'} = {claims[j] : j \in DOMAIN claims} \cup {c}
    <3>1. claims' \in Seq(Claim)
      BY <1>2 DEF ClaimsInv
    <3>2. PICK s \in Seq(Claim) : s = claims'
      BY <3>1
    <3>3. i \in DOMAIN s /\ claims = RemoveAt(s, i) /\ c = s[i]
      BY <1>2, <2>1, <3>2
    <3>4. PICK r : r = claims
      OBVIOUS
    <3>5. i \in DOMAIN s /\ r = RemoveAt(s, i)
      BY <3>3, <3>4
    <3>6. /\ \A j \in DOMAIN s : s[j] = s[i] \/ \E k \in DOMAIN r : r[k] = s[j]
          /\ \A k \in DOMAIN r : \E j \in DOMAIN s : r[k] = s[j]
      BY ONLY <3>2, <3>5, TakenOut
    <3>7. /\ i \in DOMAIN claims' /\ claims'[i] = c
          /\ \A j \in DOMAIN claims' : claims'[j] = c \/ \E k \in DOMAIN claims : claims[k] = claims'[j]
          /\ \A k \in DOMAIN claims : \E j \in DOMAIN claims' : claims[k] = claims'[j]
      BY <3>2, <3>3, <3>4, <3>6
    <3> QED BY <3>7
  <2>4. /\ Keys' = Keys
        /\ \A key \in Keys : /\ resolution(key)' = resolution(key)
                             /\ TopClaim(key)'.evidence = TopClaim(key).evidence
                             /\ TopClaim(key)'.confidence = TopClaim(key).confidence
    BY <1>2, <2>2, <2>3, NoNews
  <2>5. Conflicted' = Conflicted
    BY <2>4 DEF Conflicted
  <2>6. synthesize' = synthesize
    BY <2>4, <2>5 DEF synthesize, _aggregation_present_check, _evidence_backed_check, _conflict_free_check
  <2>7. [key \in Keys |-> TopClaim(key).confidence]' = [key \in Keys |-> TopClaim(key).confidence]
    BY <2>4
  <2>8. confidence' = confidence
    BY <2>4, <2>5, <2>7 DEF confidence
  <2> QED BY <2>4, <2>6, <2>8
<1>3. ClaimsInv /\ ClaimsInv' /\ [EvidenceNext]_evidenceVars => [\A i \in DOMAIN claims' :
       LET c == claims'[i] IN
       /\ Len(claims') = Len(claims) + 1 /\ claims = RemoveAt(claims', i)
       /\ \E j \in DOMAIN claims :
            /\ claims[j].key = c.key /\ claims[j].content = c.content
            /\ claims[j].evidence >= c.evidence /\ claims[j].confidence >= c.confidence
       => /\ synthesize' = synthesize /\ confidence' = confidence
          /\ \A key \in Keys : resolution(key)' = resolution(key)]_evidenceVars
  BY <1>2
<1> QED BY <1>1, <1>3, ClaimsStep, PTL DEF EvidenceSpec, VotesDoNotCount

-----------------------------------------------------------------------------
(* Context assembly.                                                             *)

ContextInv == segments \in Seq(Segment)

LEMMA SegmentsTyped ==
  ASSUME ContextInv
  PROVE  /\ Len(segments) \in Nat /\ DOMAIN segments = 1 .. Len(segments)
         /\ \A i \in DOMAIN segments : i \in Nat /\ segments[i].cost \in Nat \ {0}
         /\ \A places \in SUBSET DOMAIN segments : IsFiniteSet(places)
<1>1. /\ Len(segments) \in Nat /\ DOMAIN segments = 1 .. Len(segments)
      /\ \A i \in DOMAIN segments : i \in Nat /\ segments[i] \in Segment
  BY DEF ContextInv
<1>2. \A s \in Segment : s.cost \in Nat \ {0}
  BY ContextAssumption
<1>3. IsFiniteSet(1 .. Len(segments))
  BY <1>1, FS_Interval
<1>4. \A places \in SUBSET DOMAIN segments : IsFiniteSet(places)
  BY <1>1, <1>3, FS_Subset
<1> QED BY <1>1, <1>2, <1>4

LEMMA TokensOf ==
  ASSUME NEW s, NEW places
  PROVE  \A t : t \in Tokens(s, places) <=> \E i \in places : \E k \in 1 .. s[i].cost : t = <<i, k>>
BY DEF Tokens

LEMMA CountTo ==
  ASSUME NEW c \in Nat
  PROVE  IsFiniteSet(1 .. c) /\ Cardinality(1 .. c) = c
BY FS_Interval

\* Costs add up, place by place.
LEMMA OneMore ==
  ASSUME NEW s, NEW places, IsFiniteSet(Tokens(s, places)), NEW i, i \notin places, s[i].cost \in Nat
  PROVE  /\ IsFiniteSet(Tokens(s, places \cup {i}))
         /\ CostOf(s, places \cup {i}) = CostOf(s, places) + s[i].cost
<1> DEFINE own == {i} \X (1 .. s[i].cost)
<1>1. Tokens(s, places \cup {i}) = Tokens(s, places) \cup own
  BY DEF Tokens
<1>2. Tokens(s, places) \cap own = {}
  BY TokensOf
<1>3. IsFiniteSet(own) /\ Cardinality(own) = s[i].cost
  <2>1. IsFiniteSet({i}) /\ Cardinality({i}) = 1
    BY FS_Singleton
  <2>2. IsFiniteSet(1 .. s[i].cost) /\ Cardinality(1 .. s[i].cost) = s[i].cost
    BY CountTo
  <2>3. IsFiniteSet(own) /\ Cardinality(own) = Cardinality({i}) * Cardinality(1 .. s[i].cost)
    BY <2>1, <2>2, FS_Product
  <2> QED BY <2>1, <2>2, <2>3
<1> HIDE DEF own
<1>4. /\ IsFiniteSet(Tokens(s, places) \cup own)
      /\ Cardinality(Tokens(s, places) \cup own) = Cardinality(Tokens(s, places)) + Cardinality(own)
  <2>1. Cardinality(Tokens(s, places)) \in Nat /\ Cardinality({}) = 0
    BY FS_CardinalityType, FS_EmptySet
  <2>2. Cardinality(Tokens(s, places) \cup own)
          = Cardinality(Tokens(s, places)) + Cardinality(own) - Cardinality(Tokens(s, places) \cap own)
    BY <1>3, FS_Union
  <2>3. IsFiniteSet(Tokens(s, places) \cup own)
    BY <1>3, FS_Union
  <2>4. Cardinality(Tokens(s, places) \cap own) = 0
    BY <1>2, <2>1
  <2>5. Cardinality(own) \in Nat
    BY <1>3
  <2> QED BY <2>1, <2>2, <2>3, <2>4, <2>5
<1> QED BY <1>1, <1>3, <1>4 DEF CostOf

\* A conversation has finitely many tokens, and fewer places have no more of them.
LEMMA Costs ==
  ASSUME ContextInv
  PROVE  \A places \in SUBSET DOMAIN segments :
           /\ IsFiniteSet(Tokens(segments, places)) /\ CostOf(segments, places) \in Nat
           /\ \A fewer \in SUBSET places : CostOf(segments, fewer) <= CostOf(segments, places)
<1>1. \A places \in SUBSET DOMAIN segments : IsFiniteSet(Tokens(segments, places))
  <2> SUFFICES ASSUME NEW places \in SUBSET DOMAIN segments PROVE IsFiniteSet(Tokens(segments, places))
    OBVIOUS
  <2> DEFINE Own(i) == {i} \X (1 .. segments[i].cost)
             each == {Own(i) : i \in places}
  <2>1. \A i \in places : IsFiniteSet(Own(i))
    <3> SUFFICES ASSUME NEW i \in places PROVE IsFiniteSet(Own(i))
      OBVIOUS
    <3>1. IsFiniteSet({i}) /\ segments[i].cost \in Nat
      BY SegmentsTyped, FS_Singleton
    <3>2. IsFiniteSet(1 .. segments[i].cost)
      BY <3>1, FS_Interval
    <3> QED BY <3>1, <3>2, FS_Product
  <2> HIDE DEF Own
  <2>2. [i \in places |-> Own(i)] \in Surjection(places, each)
    BY DEF Surjection
  <2>3. IsFiniteSet(each)
    BY <2>2, SegmentsTyped, FS_Surjection
  <2>4. IsFiniteSet(UNION each)
    BY <2>1, <2>3, FS_UNION
  <2> QED BY <2>4 DEF Tokens, Own
<1>2. ASSUME NEW places \in SUBSET DOMAIN segments, NEW fewer \in SUBSET places
      PROVE  CostOf(segments, fewer) <= CostOf(segments, places)
  <2>1. Tokens(segments, fewer) \subseteq Tokens(segments, places)
    BY DEF Tokens
  <2> QED BY <1>1, <2>1, FS_Subset DEF CostOf
<1>3. \A places \in SUBSET DOMAIN segments : CostOf(segments, places) \in Nat
  BY <1>1, FS_CardinalityType DEF CostOf
<1> QED BY <1>1, <1>2, <1>3

\* What is kept is determined, from the newest on.
LEMMA KeptAll ==
  ASSUME ContextInv, NEW budget
  PROVE  /\ Kept(budget) \subseteq Droppable
         /\ \A i \in Droppable : i \in Kept(budget) <=> Fits(budget, Kept(budget), i)
<1> DEFINE Down(m, kept) ==
      /\ kept \subseteq Droppable /\ \A i \in kept : i > m
      /\ \A i \in Droppable : i > m => (i \in kept <=> Fits(budget, kept, i))
           M == {m \in Nat : \E kept \in SUBSET Droppable : Down(m, kept)}
<1>1. Droppable \subseteq 1 .. Len(segments) /\ Len(segments) \in Nat
  BY SegmentsTyped DEF Droppable
<1>2. Down(Len(segments), {}) /\ Len(segments) \in M
  <2>1. \A i \in Droppable : ~(i > Len(segments))
    BY <1>1
  <2>2. Down(Len(segments), {})
    BY <2>1
  <2>3. {} \in SUBSET Droppable
    OBVIOUS
  <2> HIDE DEF Down
  <2> QED BY <1>1, <2>2, <2>3
<1>3. Min(M) \in M /\ \A m \in M : Min(M) <= m
  <2> HIDE DEF M
  <2>1. M # {} /\ M \subseteq Nat
    BY <1>2 DEF M
  <2> QED BY <2>1, LeastOf
<1>4. PICK m \in Nat : m \in M /\ \A n \in M : m <= n
  BY <1>3
<1>5. PICK kept \in SUBSET Droppable : Down(m, kept)
  BY <1>4
<1>6. ASSUME m # 0 PROVE FALSE
  <2> DEFINE more == IF m \in Droppable /\ Fits(budget, kept, m) THEN kept \cup {m} ELSE kept
  <2>1. m - 1 \in Nat /\ m - 1 < m
    BY <1>6
  <2>2. \A i \in Droppable : i > m - 1 <=> i = m \/ i > m
    BY <1>1, <2>1
  <2>3. \A i \in Droppable : i >= m => {j \in more : j > i} = {j \in kept : j > i}
    BY <1>1
  <2>4. \A i \in Droppable : i >= m => (Fits(budget, more, i) <=> Fits(budget, kept, i))
    BY <2>3 DEF Fits
  <2>5. m \notin kept
    BY <1>5
  <2>6. Down(m - 1, more)
    <3>1. more \subseteq Droppable /\ \A i \in more : i > m - 1
      BY <1>1, <1>5, <2>1, <2>2
    <3>2. \A i \in Droppable : i > m => (i \in more <=> Fits(budget, more, i))
      <4> SUFFICES ASSUME NEW i \in Droppable, i > m PROVE i \in more <=> Fits(budget, more, i)
        OBVIOUS
      <4>1. i >= m /\ i # m
        BY <1>1
      <4>2. i \in more <=> i \in kept
        BY <4>1
      <4> QED BY <1>5, <2>4, <4>1, <4>2
    <3>3. m \in Droppable => (m \in more <=> Fits(budget, more, m))
      <4> SUFFICES ASSUME m \in Droppable PROVE m \in more <=> Fits(budget, more, m)
        OBVIOUS
      <4>1. m \in more <=> Fits(budget, kept, m)
        BY <2>5
      <4> QED BY <2>4, <4>1
    <3> QED BY <2>2, <3>1, <3>2, <3>3
  <2>7. m - 1 \in M
    BY <2>1, <2>6
  <2> QED BY <1>4, <2>1, <2>7
<1>7. \A i \in Droppable : i \in kept <=> Fits(budget, kept, i)
  BY <1>1, <1>5, <1>6
<1> QED BY <1>7 DEF Kept

\* Sorting leaves out no place and repeats none.
LEMMA SortedAll ==
  ASSUME NEW places, IsFiniteSet(places), places \subseteq Nat, NEW key \in [places -> Nat]
  PROVE  [n \in 1 .. Cardinality(places) |-> Nth(places, key, n)]
           \in Bijection(1 .. Cardinality(places), places)
<1> DEFINE N == Cardinality(places)
           F(i) == InFront(places, key, i)
           rank == [i \in places |-> Cardinality(F(i)) + 1]
<1>1. N \in Nat /\ IsFiniteSet(1 .. N) /\ Cardinality(1 .. N) = N
  BY FS_CardinalityType, FS_Interval
<1>2. /\ \A i \in places : i \notin F(i) /\ F(i) \subseteq places
      /\ \A i, k \in places : i = k \/ i \in F(k) \/ k \in F(i)
      /\ \A i, k \in places : i \in F(k) => F(i) \subseteq F(k)
  <2>1. \A i \in places : i \in Nat /\ key[i] \in Nat
    OBVIOUS
  <2>2. \A i \in places : i \notin F(i) /\ F(i) \subseteq places
    BY <2>1 DEF InFront
  <2>3. \A i, k \in places : i = k \/ i \in F(k) \/ k \in F(i)
    BY <2>1 DEF InFront
  <2>4. \A i, j, k \in places : j \in F(i) /\ i \in F(k) => j \in F(k)
    BY <2>1 DEF InFront
  <2> HIDE DEF F
  <2> QED BY <2>2, <2>3, <2>4
<1> HIDE DEF F, N
<1>3. \A i \in places : IsFiniteSet(F(i)) /\ Cardinality(F(i)) \in Nat /\ Cardinality(F(i)) < N
  <2> SUFFICES ASSUME NEW i \in places
               PROVE  IsFiniteSet(F(i)) /\ Cardinality(F(i)) \in Nat /\ Cardinality(F(i)) < N
    OBVIOUS
  <2>1. /\ IsFiniteSet(F(i)) /\ Cardinality(F(i)) <= N
        /\ N = Cardinality(F(i)) => places = F(i)
    BY <1>2, FS_Subset DEF N
  <2>2. Cardinality(F(i)) \in Nat
    BY <2>1, FS_CardinalityType
  <2> QED BY <1>1, <1>2, <2>1, <2>2
<1>4. \A i, k \in places : i \in F(k) => Cardinality(F(i)) < Cardinality(F(k))
  <2> SUFFICES ASSUME NEW i \in places, NEW k \in places, i \in F(k)
               PROVE  Cardinality(F(i)) < Cardinality(F(k))
    OBVIOUS
  <2>1. F(i) \cup {i} \in SUBSET F(k)
    BY <1>2
  <2>2. Cardinality(F(i) \cup {i}) = Cardinality(F(i)) + 1
    BY <1>2, <1>3, FS_AddElement
  <2>3. Cardinality(F(i) \cup {i}) <= Cardinality(F(k))
    BY <1>3, <2>1, FS_Subset
  <2> QED BY <1>3, <2>2, <2>3
<1>5. /\ \A i \in places : Cardinality(F(i)) + 1 \in 1 .. N
      /\ \A i, k \in places : Cardinality(F(i)) = Cardinality(F(k)) => i = k
  <2>1. \A i \in places : Cardinality(F(i)) + 1 \in 1 .. N
    BY <1>1, <1>3
  <2>2. \A i, k \in places : Cardinality(F(i)) = Cardinality(F(k)) => i = k
    BY <1>2, <1>3, <1>4
  <2> QED BY <2>1, <2>2
<1>6. rank \in Injection(places, 1 .. N)
  <2>1. rank \in [places -> 1 .. N]
    BY <1>5
  <2>2. \A i, k \in places : rank[i] = rank[k] => i = k
    BY <1>3, <1>5
  <2> HIDE DEF rank
  <2> QED BY <2>1, <2>2, Fun_IsInj
<1>7. \A n \in 1 .. N : \E i \in places : Cardinality(F(i)) = n - 1
  <2>1. rank \in Surjection(places, 1 .. N)
    <3> HIDE DEF rank
    <3> QED BY <1>1, <1>6, FS_Injection DEF N
  <2>2. \A n \in 1 .. N : \E i \in places : rank[i] = n
    BY <2>1 DEF Surjection
  <2>3. ASSUME NEW n \in 1 .. N, NEW i \in places, rank[i] = n PROVE Cardinality(F(i)) = n - 1
    BY <1>3, <2>3
  <2> QED BY <2>2, <2>3
<1>8. \A n \in 1 .. N : Nth(places, key, n) \in places /\ Cardinality(F(Nth(places, key, n))) = n - 1
  BY <1>7 DEF Nth, F
<1> DEFINE nth == [n \in 1 .. N |-> Nth(places, key, n)]
<1>9. nth \in [1 .. N -> places]
  BY <1>8
<1>10. \A n, m \in 1 .. N : nth[n] = nth[m] => n = m
  <2> SUFFICES ASSUME NEW n \in 1 .. N, NEW m \in 1 .. N, nth[n] = nth[m] PROVE n = m
    OBVIOUS
  <2>1. n - 1 = m - 1
    BY <1>8
  <2> QED BY <1>1, <2>1
<1>11. \A i \in places : \E n \in 1 .. N : nth[n] = i
  <2> SUFFICES ASSUME NEW i \in places PROVE \E n \in 1 .. N : nth[n] = i
    OBVIOUS
  <2>1. PICK n \in 1 .. N : n = Cardinality(F(i)) + 1
    BY <1>5
  <2>2. n - 1 = Cardinality(F(i))
    BY <1>3, <2>1
  <2>3. nth[n] = i
    BY <1>5, <1>8, <2>2
  <2> QED BY <2>3
<1> HIDE DEF nth
<1>12. nth \in Bijection(1 .. N, places)
  BY <1>9, <1>10, <1>11, Fun_IsBij
<1> QED BY <1>12 DEF nth, N

\* What is sent has each place once: its length, its content and its cost are theirs.
LEMMA SortedHolds ==
  ASSUME ContextInv, NEW places \in SUBSET DOMAIN segments, NEW key \in [places -> Nat]
  PROVE  LET sent == Sorted(places, key) IN
         /\ DOMAIN sent = 1 .. Cardinality(places) /\ Len(sent) = Cardinality(places)
         /\ \A i \in places : \E n \in DOMAIN sent : sent[n] = segments[i]
         /\ CostOf(sent, DOMAIN sent) = CostOf(segments, places)
<1> DEFINE N == Cardinality(places)
           nth == [n \in 1 .. N |-> Nth(places, key, n)]
           sent == Sorted(places, key)
<1>1. IsFiniteSet(places) /\ places \subseteq Nat /\ N \in Nat
  BY SegmentsTyped, FS_CardinalityType
<1>2. nth \in Bijection(1 .. N, places)
  BY <1>1, SortedAll
<1>3. sent = [n \in 1 .. N |-> segments[nth[n]]]
  BY DEF Sorted
<1> HIDE DEF nth, sent, N
<1>4. /\ \A n \in 1 .. N : nth[n] \in places
      /\ \A n, m \in 1 .. N : nth[n] = nth[m] => n = m
      /\ \A i \in places : \E n \in 1 .. N : nth[n] = i
  <2>1. /\ nth \in [1 .. N -> places] /\ \A n, m \in 1 .. N : nth[n] = nth[m] => n = m
        /\ \A i \in places : \E n \in 1 .. N : nth[n] = i
    BY <1>2 DEF Bijection, Injection, Surjection, IsInjective
  <2> QED BY <2>1
<1>5. DOMAIN sent = 1 .. N /\ Len(sent) = N /\ \A n \in 1 .. N : sent[n] = segments[nth[n]]
  BY <1>1, <1>3
<1>6. \A i \in places : \E n \in DOMAIN sent : sent[n] = segments[i]
  BY <1>4, <1>5
<1>7. Cardinality(Tokens(sent, 1 .. N)) = Cardinality(Tokens(segments, places))
  <2> DEFINE S == Tokens(sent, 1 .. N)
             T == Tokens(segments, places)
             g == [t \in T |-> <<CHOOSE n \in 1 .. N : nth[n] = t[1], t[2]>>]
  <2>1. \A t : t \in S <=> \E n \in 1 .. N : \E k \in 1 .. sent[n].cost : t = <<n, k>>
    BY DEF Tokens
  <2>2. \A t : t \in T <=> \E i \in places : \E k \in 1 .. segments[i].cost : t = <<i, k>>
    BY TokensOf
  <2>3. IsFiniteSet(T)
    BY Costs
  <2> HIDE DEF S, T
  <2>4. ASSUME NEW t \in T
        PROVE  /\ g[t] \in S
               /\ \E n \in 1 .. N : nth[n] = t[1] /\ g[t] = <<n, t[2]>>
               /\ t = <<t[1], t[2]>> /\ t[1] \in places
    <3>1. PICK i \in places : \E k \in 1 .. segments[i].cost : t = <<i, k>>
      BY <2>2
    <3>0. PICK k \in 1 .. segments[i].cost : t = <<i, k>>
      BY <3>1
    <3>2. PICK n \in 1 .. N : n = CHOOSE m \in 1 .. N : nth[m] = i
      BY <1>4
    <3>3. nth[n] = i
      BY <1>4, <3>2
    <3>4. g[t] = <<n, k>>
      BY <3>0, <3>2
    <3>5. k \in 1 .. sent[n].cost
      BY <1>5, <3>0, <3>3
    <3> HIDE DEF g
    <3> QED BY <2>1, <3>0, <3>3, <3>4, <3>5
  <2>5. g \in [T -> S]
    BY <2>4
  <2> HIDE DEF g
  <2>6. \A t, u \in T : g[t] = g[u] => t = u
    <3> SUFFICES ASSUME NEW t \in T, NEW u \in T, g[t] = g[u] PROVE t = u
      OBVIOUS
    <3>1. PICK n \in 1 .. N : nth[n] = t[1] /\ g[t] = <<n, t[2]>>
      BY <2>4
    <3>2. PICK m \in 1 .. N : nth[m] = u[1] /\ g[u] = <<m, u[2]>>
      BY <2>4
    <3>3. n = m /\ t[2] = u[2]
      <4>1. <<n, t[2]>> = <<m, u[2]>>
        BY <3>1, <3>2
      <4> QED BY <4>1
    <3> QED BY <2>4, <3>1, <3>2, <3>3
  <2>7. \A s \in S : \E t \in T : g[t] = s
    <3> SUFFICES ASSUME NEW s \in S PROVE \E t \in T : g[t] = s
      OBVIOUS
    <3>1. PICK n \in 1 .. N : \E k \in 1 .. sent[n].cost : s = <<n, k>>
      BY <2>1
    <3>0. PICK k \in 1 .. sent[n].cost : s = <<n, k>>
      BY <3>1
    <3>2. PICK t \in T : t = <<nth[n], k>>
      BY <1>4, <1>5, <2>2, <3>0
    <3>3. PICK m \in 1 .. N : nth[m] = t[1] /\ g[t] = <<m, t[2]>>
      BY <2>4
    <3>4. m = n
      BY <1>4, <3>2, <3>3
    <3> QED BY <3>0, <3>2, <3>3, <3>4
  <2>8. g \in Bijection(T, S)
    BY <2>5, <2>6, <2>7, Fun_IsBij
  <2>9. ExistsBijection(T, S)
    BY <2>8 DEF ExistsBijection
  <2> QED BY <2>3, <2>9, FS_Bijection DEF S, T
<1> QED BY <1>5, <1>6, <1>7 DEF CostOf, sent, N

LEMMA Indexed ==
  ASSUME ContextInv, NEW i \in DOMAIN segments
  PROVE  /\ Index(segments[i]) \in DOMAIN segments
         /\ segments[Index(segments[i])] = segments[i]
<1> DEFINE same == {j \in DOMAIN segments : segments[j] = segments[i]}
<1>1. same \subseteq Nat /\ i \in same
  BY SegmentsTyped
<1>2. PICK first \in same : \A j \in same : first <= j
  <2> HIDE DEF same
  <2> QED BY <1>1, LeastOf
<1>3. first \in DOMAIN segments /\ segments[first] = segments[i] /\ \A j \in 1 .. first - 1 : segments[j] # segments[i]
  <2>1. first \in DOMAIN segments /\ segments[first] = segments[i] /\ first \in 1 .. Len(segments)
    BY SegmentsTyped
  <2>2. ASSUME NEW j \in 1 .. first - 1, segments[j] = segments[i] PROVE FALSE
    <3>1. j \in 1 .. Len(segments) /\ j < first
      BY <2>1, SegmentsTyped
    <3>2. j \in same
      BY <2>2, <3>1, SegmentsTyped
    <3>3. first <= j
      BY <1>2, <3>2
    <3> QED BY <2>1, <3>1, <3>3
  <2> QED BY <2>1, <2>2
<1> QED BY <1>3 DEF Index

\* What is chosen keeps to the budget, and nothing is left out for what costs more.
LEMMA ChosenFits ==
  ASSUME ContextInv, NEW budget \in Nat, ~Refused(budget)
  PROVE  LET chosen == Protected \cup Kept(budget) IN
         /\ CostOf(segments, chosen) <= budget
         /\ \A i \in Droppable \ chosen, j \in Droppable \cap chosen :
              j < i => segments[j].cost < segments[i].cost
<1> DEFINE K == Kept(budget)
           After(i) == Protected \cup {j \in K : j > i}
<1>1. /\ K \subseteq Droppable
      /\ \A i \in Droppable : i \in K <=> CostOf(segments, After(i) \cup {i}) <= budget
  <2>1. /\ Kept(budget) \subseteq Droppable
        /\ \A i \in Droppable : i \in Kept(budget) <=> Fits(budget, Kept(budget), i)
    BY KeptAll
  <2> QED BY <2>1 DEF Fits
<1>2. /\ Protected \subseteq DOMAIN segments /\ Droppable \subseteq DOMAIN segments
      /\ Protected \cap Droppable = {} /\ DOMAIN segments \subseteq Nat
  BY SegmentsTyped DEF Protected, Droppable
<1> HIDE DEF K
<1>3. CostOf(segments, Protected \cup K) <= budget
  <2>1. CASE K = {}
    <3>1. Protected \cup K = Protected
      BY <2>1
    <3>2. CostOf(segments, Protected) \in Nat
      BY <1>2, Costs
    <3> QED BY <3>1, <3>2 DEF Refused
  <2>2. CASE K # {}
    <3>1. PICK i \in K : \A j \in K : i <= j
      BY <1>1, <1>2, <2>2, LeastOf
    <3>2. After(i) \cup {i} = Protected \cup K
      BY <1>1, <1>2, <3>1
    <3> QED BY <1>1, <3>1, <3>2
  <2> QED BY <2>1, <2>2
<1>4. ASSUME NEW i \in Droppable \ K, NEW j \in K, j < i PROVE segments[j].cost < segments[i].cost
  <2>1. /\ After(i) \in SUBSET DOMAIN segments /\ i \notin After(i) /\ j \notin After(i)
        /\ After(j) \cup {j} \in SUBSET DOMAIN segments
        /\ After(i) \cup {j} \in SUBSET (After(j) \cup {j})
        /\ i \in DOMAIN segments /\ j \in DOMAIN segments
    BY <1>1, <1>2, <1>4
  <2>2. CostOf(segments, After(i) \cup {i}) > budget /\ CostOf(segments, After(j) \cup {j}) <= budget
    <3>1. After(i) \cup {i} \in SUBSET DOMAIN segments
      BY <2>1
    <3>2. CostOf(segments, After(i) \cup {i}) \in Nat
      BY <3>1, Costs
    <3>3. ~(CostOf(segments, After(i) \cup {i}) <= budget)
      BY <1>1
    <3> QED BY <1>1, <3>2, <3>3
  <2> HIDE DEF After
  <2>3. IsFiniteSet(Tokens(segments, After(i))) /\ segments[i].cost \in Nat /\ segments[j].cost \in Nat
    BY <2>1, Costs, SegmentsTyped
  <2>4. CostOf(segments, After(i) \cup {i}) = CostOf(segments, After(i)) + segments[i].cost
    BY <2>1, <2>3, OneMore
  <2>5. CostOf(segments, After(i) \cup {j}) = CostOf(segments, After(i)) + segments[j].cost
    BY <2>1, <2>3, OneMore
  <2>6. CostOf(segments, After(i) \cup {j}) <= CostOf(segments, After(j) \cup {j})
    BY <2>1, Costs
  <2>7. CostOf(segments, After(i)) \in Nat /\ CostOf(segments, After(j) \cup {j}) \in Nat
    BY <2>1, Costs
  <2> QED BY <2>2, <2>3, <2>4, <2>5, <2>6, <2>7
<1>5. \A i \in Droppable \ (Protected \cup K), j \in Droppable \cap (Protected \cup K) :
        i \in Droppable \ K /\ j \in K
  BY <1>1, <1>2
<1>6. \A i \in Droppable \ (Protected \cup K), j \in Droppable \cap (Protected \cup K) :
        j < i => segments[j].cost < segments[i].cost
  BY <1>4, <1>5
<1> QED BY <1>3, <1>6 DEF K

LEMMA ContextJudged == ContextInv => AssembledInOrder
<1> SUFFICES ASSUME ContextInv, NEW budget \in Budget, ~Refused(budget)
             PROVE  LET sent == assemble(budget)
                        chosen == Protected \cup Kept(budget)
                        twice == \E i \in chosen, j \in DOMAIN segments : i # j /\ segments[i] = segments[j] IN
                    /\ Len(sent) = Cardinality(chosen)
                    /\ \A i \in Protected : \E n \in DOMAIN sent : sent[n] = segments[i]
                    /\ CostOf(sent, DOMAIN sent) <= budget
                    /\ \A i \in Droppable \ chosen, j \in Droppable \cap chosen :
                         j < i => segments[j].cost < segments[i].cost
                    /\ twice \/ sent = InPlace(chosen)
  BY DEF AssembledInOrder
<1> DEFINE chosen == Protected \cup Kept(budget)
           key == [i \in chosen |-> Index(segments[i])]
           sent == Sorted(chosen, key)
<1>1. budget \in Nat
  BY ContextAssumption
<1>2. chosen \in SUBSET DOMAIN segments /\ Protected \subseteq chosen
  <2>1. Kept(budget) \subseteq Droppable
    BY KeptAll
  <2> QED BY <2>1 DEF Protected, Droppable
<1>3. /\ CostOf(segments, chosen) <= budget
      /\ \A i \in Droppable \ chosen, j \in Droppable \cap chosen :
           j < i => segments[j].cost < segments[i].cost
  BY <1>1, ChosenFits
<1>4. assemble(budget) = sent
  BY DEF assemble
<1> HIDE DEF chosen
<1>5. key \in [chosen -> Nat]
  BY <1>2, Indexed, SegmentsTyped
<1>6. ASSUME \A i \in chosen, j \in DOMAIN segments : ~(i # j /\ segments[i] = segments[j])
      PROVE  sent = InPlace(chosen)
  <2>1. \A i \in chosen : Index(segments[i]) = i
    BY <1>2, <1>6, Indexed
  <2>2. key = [i \in chosen |-> i]
    BY <2>1
  <2> HIDE DEF key
  <2> QED BY <2>2 DEF InPlace
<1> HIDE DEF key
<1>7. /\ Len(sent) = Cardinality(chosen)
      /\ \A i \in chosen : \E n \in DOMAIN sent : sent[n] = segments[i]
      /\ CostOf(sent, DOMAIN sent) = CostOf(segments, chosen)
  BY <1>2, <1>5, SortedHolds
<1> HIDE DEF sent
<1> QED BY <1>2, <1>3, <1>4, <1>6, <1>7 DEF chosen

\* AssembledInOrder: whatever was said, under any budget, what is sent holds all that is
\* protected, keeps to the budget, prefers the newer of two equally long segments, and is
\* in the order of the conversation unless something was said twice (ContextEngine.assemble()).
THEOREM ContextIsInOrder == ContextSpec => []AssembledInOrder
<1>1. ContextInit => ContextInv
  BY DEF ContextInit, ContextInv
<1>2. ContextInv /\ [ContextNext]_segments => ContextInv'
  <2> SUFFICES ASSUME segments \in Seq(Segment), [ContextNext]_segments PROVE segments' \in Seq(Segment)
    BY DEF ContextInv
  <2>1. CASE UNCHANGED segments
    BY <2>1
  <2>2. ASSUME NEW s \in Segment, Say(s) PROVE segments' \in Seq(Segment)
    BY <2>2 DEF Say
  <2> QED BY <2>1, <2>2 DEF ContextNext
<1> QED BY <1>1, <1>2, ContextJudged, PTL DEF ContextSpec

-----------------------------------------------------------------------------
(* Plans.                                                                        *)

\* A finite graph of numbered nodes.
Graph(deps) == IsFiniteSet(DOMAIN deps) /\ DOMAIN deps \subseteq Nat

\* An ordering has every node.
LEMMA OrderedAll ==
  ASSUME NEW deps, Graph(deps), NEW o \in Orderings(deps)
  PROVE  /\ Cardinality(DOMAIN deps) \in Nat /\ DOMAIN o = 1 .. Cardinality(DOMAIN deps)
         /\ o \in [1 .. Cardinality(DOMAIN deps) -> DOMAIN deps]
         /\ \A i, j \in DOMAIN o : o[i] = o[j] => i = j
         /\ \A i \in DOMAIN o : deps[o[i]] \subseteq {o[j] : j \in 1 .. i - 1}
         /\ \A n \in DOMAIN deps : \E i \in DOMAIN o : o[i] = n
<1> DEFINE N == Cardinality(DOMAIN deps)
<1>1. /\ o \in [1 .. N -> DOMAIN deps] /\ \A i, j \in 1 .. N : o[i] = o[j] => i = j
      /\ \A i \in 1 .. N : deps[o[i]] \subseteq {o[j] : j \in 1 .. i - 1}
  BY DEF Orderings
<1>2. N \in Nat
  BY FS_CardinalityType DEF Graph
<1> HIDE DEF N
<1>3. o \in Injection(1 .. N, DOMAIN deps)
  BY <1>1, Fun_IsInj
<1>4. Cardinality(1 .. N) = Cardinality(DOMAIN deps)
  BY <1>2, CountTo DEF N
<1>5. o \in Surjection(1 .. N, DOMAIN deps)
  BY <1>3, <1>4, FS_Injection DEF Graph
<1>6. \A n \in DOMAIN deps : \E i \in 1 .. N : o[i] = n
  BY <1>5 DEF Surjection
<1> QED BY <1>1, <1>2, <1>6 DEF N

\* In an ordering, of some places that are not all, the first is after those of all that
\* its node depends on.
LEMMA FirstPlace ==
  ASSUME NEW deps, Graph(deps), NEW o \in Orderings(deps), NEW S, S \subseteq DOMAIN deps, S # {}
  PROVE  \E n \in S : n \in DOMAIN deps /\ deps[n] \cap S = {}
<1> DEFINE N == Cardinality(DOMAIN deps)
           P == {i \in 1 .. N : o[i] \in S}
<1>1. /\ N \in Nat /\ DOMAIN o = 1 .. N
      /\ \A i \in 1 .. N : deps[o[i]] \subseteq {o[j] : j \in 1 .. i - 1}
      /\ \A n \in DOMAIN deps : \E i \in 1 .. N : o[i] = n
  BY OrderedAll
<1> HIDE DEF N
<1>2. P \subseteq Nat /\ P # {}
  BY <1>1
<1>3. PICK p \in P : \A q \in P : p <= q
  <2> HIDE DEF P
  <2> QED BY <1>2, LeastOf
<1>4. ASSUME NEW d \in deps[o[p]], d \in S PROVE FALSE
  <2>1. PICK j \in 1 .. p - 1 : d = o[j]
    BY <1>1, <1>4
  <2>2. j \in 1 .. N /\ j < p
    BY <1>1, <2>1
  <2> QED BY <1>3, <1>4, <2>1, <2>2
<1> QED BY <1>4

\* What goes round in a circle cannot be put in an order.
LEMMA CyclesForbid ==
  ASSUME NEW deps, Graph(deps), NEW cycle \in Seq(DOMAIN deps), cycle # <<>>,
         \A i \in DOMAIN cycle : cycle[IF i = Len(cycle) THEN 1 ELSE i + 1] \in deps[cycle[i]]
  PROVE  Orderings(deps) = {}
<1> SUFFICES ASSUME NEW o \in Orderings(deps) PROVE FALSE
  OBVIOUS
<1> DEFINE S == {cycle[i] : i \in DOMAIN cycle}
<1>1. Len(cycle) \in Nat \ {0} /\ DOMAIN cycle = 1 .. Len(cycle)
  OBVIOUS
<1>2. S \subseteq DOMAIN deps /\ S # {}
  BY <1>1
<1>3. PICK n \in S : deps[n] \cap S = {}
  <2> HIDE DEF S
  <2> QED BY <1>2, FirstPlace
<1>4. PICK i \in DOMAIN cycle : n = cycle[i]
  BY <1>3
<1>5. (IF i = Len(cycle) THEN 1 ELSE i + 1) \in DOMAIN cycle
  BY <1>1
<1>6. cycle[IF i = Len(cycle) THEN 1 ELSE i + 1] \in S
  BY <1>5
<1>7. cycle[IF i = Len(cycle) THEN 1 ELSE i + 1] \in deps[n]
  BY <1>4
<1> QED BY <1>3, <1>6, <1>7

\* What can be put in an order has no orphans.
LEMMA NoOrphans ==
  ASSUME NEW deps, Graph(deps), NEW o \in Orderings(deps)
  PROVE  DOMAIN deps \ _reachable_from_roots(deps) = {}
<1> SUFFICES ASSUME NEW n \in DOMAIN deps, NEW seen \in SUBSET DOMAIN deps,
                    \A m \in DOMAIN deps : deps[m] \subseteq seen => m \in seen,
                    n \notin seen,
                    \A m \in DOMAIN deps : deps[m] \subseteq DOMAIN deps
             PROVE  FALSE
  <2>1. \A m \in DOMAIN deps : deps[m] \subseteq DOMAIN deps
    <3> SUFFICES ASSUME NEW m \in DOMAIN deps, NEW d \in deps[m] PROVE d \in DOMAIN deps
      OBVIOUS
    <3>1. PICK i \in DOMAIN o : o[i] = m
      BY OrderedAll
    <3>2. PICK j \in 1 .. i - 1 : d = o[j]
      BY <3>1, OrderedAll
    <3>3. i \in 1 .. Cardinality(DOMAIN deps) /\ Cardinality(DOMAIN deps) \in Nat
      BY OrderedAll
    <3>4. j \in 1 .. Cardinality(DOMAIN deps)
      BY <3>2, <3>3
    <3> QED BY <3>2, <3>4, OrderedAll
  <2> QED BY <2>1 DEF _reachable_from_roots
<1>1. PICK m \in DOMAIN deps \ seen : deps[m] \cap (DOMAIN deps \ seen) = {}
  BY FirstPlace
<1> QED BY <1>1

\* The first k places hold no node twice, and each the least of those whose dependencies
\* stand in front of it.
LeastInPlace(deps, order, k) ==
  /\ \A i, j \in 1 .. k : order[i] = order[j] => i = j
  /\ \A i \in 1 .. k : /\ deps[order[i]] \subseteq {order[j] : j \in 1 .. i - 1}
                       /\ \A n \in DOMAIN deps \ {order[j] : j \in 1 .. i - 1} :
                            deps[n] \subseteq {order[j] : j \in 1 .. i - 1} => order[i] <= n

\* So it is with Kahn's algorithm, as far as it has come.
LEMMA KahnPlaces ==
  ASSUME NEW deps, Graph(deps), NEW k \in Nat, NEW order \in [1 .. k -> DOMAIN deps],
         Kahn(deps, order)
  PROVE  LeastInPlace(deps, order, k) /\ k <= Cardinality(DOMAIN deps)
<1>1. ASSUME NEW i \in 1 .. k
      PROVE  /\ order[i] \in Frontier(deps, Placed(order, i - 1))
             /\ \A n \in Frontier(deps, Placed(order, i - 1)) : order[i] <= n
  <2>1. /\ Frontier(deps, Placed(order, i - 1)) # {}
        /\ order[i] = Min(Frontier(deps, Placed(order, i - 1)))
    BY DEF Kahn
  <2>2. Frontier(deps, Placed(order, i - 1)) \subseteq Nat
    BY DEF Frontier, Graph
  <2> QED BY <2>1, <2>2, LeastOf
<1>2. \A i \in 1 .. k : /\ deps[order[i]] \subseteq {order[j] : j \in 1 .. i - 1}
                        /\ order[i] \notin {order[j] : j \in 1 .. i - 1}
                        /\ \A n \in DOMAIN deps \ {order[j] : j \in 1 .. i - 1} :
                             deps[n] \subseteq {order[j] : j \in 1 .. i - 1} => order[i] <= n
  BY <1>1 DEF Frontier, Placed
<1>3. \A i, j \in 1 .. k : order[i] = order[j] => i = j
  <2> SUFFICES ASSUME NEW i \in 1 .. k, NEW j \in 1 .. k, i < j, order[i] = order[j] PROVE FALSE
    OBVIOUS
  <2>1. i \in 1 .. j - 1
    OBVIOUS
  <2> QED BY <1>2, <2>1
<1>4. order \in Injection(1 .. k, DOMAIN deps)
  BY <1>3, Fun_IsInj
<1>5. IsFiniteSet(1 .. k) /\ Cardinality(1 .. k) = k
  BY CountTo
<1>6. k <= Cardinality(DOMAIN deps)
  BY <1>4, <1>5, FS_Injection DEF Graph
<1>7. LeastInPlace(deps, order, k)
  BY <1>2, <1>3 DEF LeastInPlace
<1> QED BY <1>6, <1>7

\* It comes to an end.
LEMMA KahnEnds ==
  ASSUME NEW deps, Graph(deps)
  PROVE  \E k \in 0 .. Cardinality(DOMAIN deps) :
           /\ topological_order(deps) \in [1 .. k -> DOMAIN deps]
           /\ Kahn(deps, topological_order(deps))
           /\ Frontier(deps, ToSet(topological_order(deps))) = {}
<1> DEFINE N == Cardinality(DOMAIN deps)
           M == {m \in 0 .. N : \E order \in [1 .. N - m -> DOMAIN deps] : Kahn(deps, order)}
<1>1. N \in Nat
  BY FS_CardinalityType DEF Graph
<1> HIDE DEF N
<1>2. N \in M
  <2>1. <<>> \in [1 .. N - N -> DOMAIN deps]
    BY <1>1
  <2>2. Kahn(deps, <<>>)
    BY DEF Kahn
  <2>3. N \in 0 .. N
    BY <1>1
  <2>4. \E order \in [1 .. N - N -> DOMAIN deps] : Kahn(deps, order)
    BY <2>1, <2>2
  <2> QED BY <2>3, <2>4
<1>3. PICK m \in M : \A l \in M : m <= l
  <2>0. \A l \in M : l \in 0 .. N
    OBVIOUS
  <2> HIDE DEF M
  <2>1. M \subseteq Nat /\ M # {}
    BY <1>1, <1>2, <2>0
  <2> HIDE DEF M
  <2> QED BY <2>1, LeastOf
<1>4. PICK k \in Nat : k = N - m
  BY <1>1
<1>5. PICK order \in [1 .. k -> DOMAIN deps] : Kahn(deps, order)
  BY <1>3, <1>4
<1>6. Frontier(deps, ToSet(order)) = {}
  <2> SUFFICES ASSUME Frontier(deps, ToSet(order)) # {} PROVE FALSE
    OBVIOUS
  <2> DEFINE n == Min(Frontier(deps, ToSet(order)))
             more == [i \in 1 .. k + 1 |-> IF i = k + 1 THEN n ELSE order[i]]
  <2>1. n \in Frontier(deps, ToSet(order))
    <3>1. Frontier(deps, ToSet(order)) \subseteq Nat
      BY DEF Frontier, Graph
    <3> QED BY <3>1, LeastOf
  <2>2. n \in DOMAIN deps
    BY <2>1 DEF Frontier
  <2>3. ToSet(order) = Placed(order, k)
    BY DEF ToSet, Placed
  <2> HIDE DEF n
  <2>4. more \in [1 .. k + 1 -> DOMAIN deps]
    BY <2>2
  <2>5. \A i \in 1 .. k + 1 : Placed(more, i - 1) = Placed(order, i - 1)
    <3> SUFFICES ASSUME NEW i \in 1 .. k + 1
                 PROVE  \A j \in 1 .. i - 1 : more[j] = order[j]
      BY DEF Placed
    <3> TAKE j \in 1 .. i - 1
    <3> j \in 1 .. k + 1 /\ j # k + 1
      OBVIOUS
    <3> QED OBVIOUS
  <2>6. Kahn(deps, more)
    <3> SUFFICES ASSUME NEW i \in 1 .. k + 1
                 PROVE  /\ Frontier(deps, Placed(more, i - 1)) # {}
                        /\ more[i] = Min(Frontier(deps, Placed(more, i - 1)))
      BY <2>4 DEF Kahn
    <3>1. CASE i = k + 1
      <4>0. i - 1 = k
        BY <3>1
      <4>1. Placed(more, i - 1) = ToSet(order)
        BY <2>3, <2>5, <4>0
      <4> QED BY <3>1, <4>1 DEF n
    <3>2. CASE i # k + 1
      <4>1. i \in 1 .. k /\ more[i] = order[i]
        BY <3>2
      <4>2. /\ Frontier(deps, Placed(order, i - 1)) # {}
            /\ order[i] = Min(Frontier(deps, Placed(order, i - 1)))
        BY <1>5, <4>1 DEF Kahn
      <4> QED BY <2>5, <4>1, <4>2
    <3> QED BY <3>1, <3>2
  <2> HIDE DEF more
  <2>7. k + 1 <= N
    BY <2>4, <2>6, KahnPlaces DEF N
  <2>8. m - 1 \in 0 .. N /\ N - (m - 1) = k + 1
    BY <1>1, <1>4, <2>7
  <2>9. m - 1 \in M
    BY <2>4, <2>6, <2>8
  <2> QED BY <1>1, <1>3, <2>8, <2>9
<1>7. k \in 0 .. N
  BY <1>1, <1>4
<1> DEFINE All == UNION {[1 .. l -> DOMAIN deps] : l \in 0 .. N}
<1>8. \E o \in All : Kahn(deps, o) /\ Frontier(deps, ToSet(o)) = {}
  BY <1>5, <1>6, <1>7
<1>9. /\ topological_order(deps) \in All
      /\ Kahn(deps, topological_order(deps)) /\ Frontier(deps, ToSet(topological_order(deps))) = {}
  <2> HIDE DEF All
  <2>1. topological_order(deps) = CHOOSE o \in All : Kahn(deps, o) /\ Frontier(deps, ToSet(o)) = {}
    BY DEF topological_order, All, N
  <2> QED BY <1>8, <2>1
<1> QED BY <1>9 DEF N

\* If there is an order at all it finds the least.
LEMMA KahnFindsLeast ==
  ASSUME NEW deps, Graph(deps), Orderings(deps) # {}
  PROVE  LET order == topological_order(deps) IN
         /\ order \in Orderings(deps)
         /\ \A o \in Orderings(deps) :
              o # order => \E k \in DOMAIN order :
                order[k] < o[k] /\ \A i \in 1 .. k - 1 : order[i] = o[i]
<1> DEFINE N == Cardinality(DOMAIN deps)
<1>1. N \in Nat
  BY FS_CardinalityType DEF Graph
<1> HIDE DEF N
<1> DEFINE order == topological_order(deps)
<1>2. PICK k \in 0 .. N :
        /\ order \in [1 .. k -> DOMAIN deps]
        /\ Kahn(deps, order) /\ Frontier(deps, ToSet(order)) = {}
  BY KahnEnds DEF N
<1> HIDE DEF order
<1>3. LeastInPlace(deps, order, k)
  BY <1>1, <1>2, KahnPlaces
<1>4. PICK o \in Orderings(deps) : TRUE
  OBVIOUS
<1>5. DOMAIN deps \ ToSet(order) = {}
  <2> SUFFICES ASSUME DOMAIN deps \ ToSet(order) # {} PROVE FALSE
    OBVIOUS
  <2>1. PICK n \in DOMAIN deps \ ToSet(order) : deps[n] \cap (DOMAIN deps \ ToSet(order)) = {}
    BY <1>4, FirstPlace
  <2>2. deps[n] \subseteq DOMAIN deps
    <3>1. PICK i \in DOMAIN o : o[i] = n
      BY OrderedAll
    <3>2. deps[n] \subseteq {o[j] : j \in 1 .. i - 1} /\ i \in 1 .. N /\ o \in [1 .. N -> DOMAIN deps]
      BY <3>1, OrderedAll DEF N
    <3>3. \A j \in 1 .. i - 1 : o[j] \in DOMAIN deps
      BY <1>1, <3>2
    <3> QED BY <3>2, <3>3
  <2>3. n \in Frontier(deps, ToSet(order))
    BY <2>1, <2>2 DEF Frontier
  <2> QED BY <1>2, <2>3
<1>6. k = N
  <2>1. \A n \in DOMAIN deps : \E i \in 1 .. k : order[i] = n
    BY <1>2, <1>5 DEF ToSet
  <2>2. order \in Bijection(1 .. k, DOMAIN deps)
    BY <1>2, <1>3, <2>1, Fun_IsBij DEF LeastInPlace
  <2>3. ExistsBijection(1 .. k, DOMAIN deps) /\ k \in Nat
    BY <1>1, <2>2 DEF ExistsBijection
  <2> QED BY <2>3, FS_CountingElements DEF N
<1>7. order \in Orderings(deps)
  BY <1>2, <1>3, <1>6 DEF Orderings, N, LeastInPlace
<1>8. ASSUME NEW w \in Orderings(deps), w # order
      PROVE  \E l \in DOMAIN order : order[l] < w[l] /\ \A i \in 1 .. l - 1 : order[i] = w[i]
  <2>1. /\ w \in [1 .. N -> DOMAIN deps] /\ DOMAIN w = 1 .. N
        /\ \A i, j \in 1 .. N : w[i] = w[j] => i = j
        /\ \A i \in 1 .. N : deps[w[i]] \subseteq {w[j] : j \in 1 .. i - 1}
    BY OrderedAll DEF N
  <2> DEFINE X == {i \in 1 .. N : w[i] # order[i]}
  <2>2. X \subseteq Nat /\ X # {}
    BY <1>2, <1>6, <1>8, <2>1
  <2>3. PICK l \in X : \A i \in X : l <= i
    <3> HIDE DEF X
    <3> QED BY <2>2, LeastOf
  <2>4. l \in 1 .. N /\ w[l] # order[l] /\ \A i \in 1 .. l - 1 : w[i] = order[i]
    <3>1. l \in 1 .. N /\ w[l] # order[l]
      BY <2>3
    <3>2. ASSUME NEW i \in 1 .. l - 1 PROVE w[i] = order[i]
      <4>1. i \in 1 .. N /\ i < l
        BY <1>1, <3>1
      <4> QED BY <2>3, <3>1, <4>1
    <3> QED BY <3>1, <3>2
  <2>5. {w[j] : j \in 1 .. l - 1} = {order[j] : j \in 1 .. l - 1}
    BY <2>4
  <2>6. w[l] \in DOMAIN deps \ {order[j] : j \in 1 .. l - 1}
    <3> SUFFICES ASSUME NEW j \in 1 .. l - 1, w[l] = w[j] PROVE FALSE
      BY <2>1, <2>4, <2>5
    <3>1. j \in 1 .. N /\ j # l
      BY <1>1, <2>4
    <3> QED BY <2>1, <2>4, <3>1
  <2>7. order[l] <= w[l]
    BY <1>3, <1>6, <2>1, <2>4, <2>5, <2>6 DEF LeastInPlace
  <2>8. order[l] \in Nat /\ w[l] \in Nat
    BY <1>2, <1>6, <2>4, <2>6 DEF Graph
  <2> QED BY <1>2, <1>6, <2>4, <2>7, <2>8
<1> QED BY <1>2, <1>7, <1>8 DEF order

\* A sequence with one more at its end, without its last, with one place changed.
LEMMA Appended ==
  ASSUME NEW S, NEW s \in Seq(S), NEW x \in S
  PROVE  /\ Append(s, x) \in Seq(S) /\ Len(Append(s, x)) = Len(s) + 1
         /\ Append(s, x)[Len(s) + 1] = x
         /\ \A i \in 1 .. Len(s) : Append(s, x)[i] = s[i]
OBVIOUS

LEMMA PartOf ==
  ASSUME NEW S, NEW s \in Seq(S), NEW m \in 1 .. Len(s), NEW n \in 0 .. Len(s), m <= n + 1
  PROVE  /\ SubSeq(s, m, n) \in Seq(S) /\ Len(SubSeq(s, m, n)) = n - m + 1
         /\ \A i \in 1 .. n - m + 1 : SubSeq(s, m, n)[i] = s[m + i - 1]
<1>1. \A i \in m .. n : s[i] \in S
  OBVIOUS
<1> QED BY <1>1

LEMMA WithoutLast ==
  ASSUME NEW S, NEW s \in Seq(S), Len(s) # 0
  PROVE  /\ Front(s) \in Seq(S) /\ Len(Front(s)) = Len(s) - 1
         /\ \A i \in 1 .. Len(s) - 1 : Front(s)[i] = s[i]
<1>1. /\ 1 \in 1 .. Len(s) /\ Len(s) - 1 \in 0 .. Len(s) /\ 1 <= (Len(s) - 1) + 1
      /\ (Len(s) - 1) - 1 + 1 = Len(s) - 1
      /\ \A i \in 1 .. Len(s) - 1 : 1 + i - 1 = i
  OBVIOUS
<1> DEFINE k == Len(s) - 1
<1>2. /\ SubSeq(s, 1, k) \in Seq(S) /\ Len(SubSeq(s, 1, k)) = k - 1 + 1
      /\ \A i \in 1 .. k - 1 + 1 : SubSeq(s, 1, k)[i] = s[1 + i - 1]
  <2> HIDE DEF k
  <2> QED BY <1>1, PartOf DEF k
<1> QED BY <1>1, <1>2 DEF Front

LEMMA OneChanged ==
  ASSUME NEW S, NEW s \in Seq(S), NEW i \in 1 .. Len(s), NEW x \in S
  PROVE  /\ [s EXCEPT ![i] = x] \in Seq(S) /\ Len([s EXCEPT ![i] = x]) = Len(s)
         /\ [s EXCEPT ![i] = x][i] = x
         /\ \A j \in 1 .. Len(s) : j # i => [s EXCEPT ![i] = x][j] = s[j]
<1>1. s \in [1 .. Len(s) -> S] /\ Len(s) \in Nat
  OBVIOUS
<1>2. [s EXCEPT ![i] = x] \in [1 .. Len(s) -> S]
  BY <1>1
<1>3. [s EXCEPT ![i] = x] \in Seq(S)
  BY <1>1, <1>2
<1> QED BY <1>1, <1>2, <1>3

(* The invariant: while a search goes on, each loop knows what it has yet to come to;    *)
(* what it has come to is black, except the node it now waits for, the next on the path. *)
Loop(i) == IF i = 1 THEN DOMAIN plan.deps ELSE plan.deps[path[i - 1]]

Nodes ==
  /\ path \in Seq(DOMAIN plan.deps) /\ black \in Seq(DOMAIN plan.deps)
  /\ pending \in Seq(SUBSET DOMAIN plan.deps) /\ Len(pending) = Len(path) + 1

Colours ==
  /\ \A i, j \in 1 .. Len(path) : path[i] = path[j] => i = j
  /\ \A i, j \in 1 .. Len(black) : black[i] = black[j] => i = j
  /\ \A i \in 1 .. Len(path) : \A j \in 1 .. Len(black) : path[i] # black[j]
  /\ \A i \in 1 .. Len(black) : plan.deps[black[i]] \subseteq {black[j] : j \in 1 .. i - 1}

Loops ==
  /\ \A i \in 1 .. Len(path) : path[i] \in Loop(i)
  /\ \A i \in 1 .. Len(path) + 1 :
       /\ pending[i] \subseteq Loop(i)
       /\ \A d \in Loop(i) \ pending[i] :
            (\E j \in 1 .. Len(black) : d = black[j]) \/ (i <= Len(path) /\ d = path[i])

Sought ==
  /\ goals[plan.goal] = "ACTIVE" /\ DOMAIN plan.deps # {}
  /\ \A n \in DOMAIN plan.deps : plan.deps[n] \subseteq DOMAIN plan.deps
  /\ Nodes /\ Colours /\ Loops

PlansInv ==
  /\ goals \in [GoalId -> {"absent", "DRAFT", "ACTIVE", "ACHIEVED", "ABANDONED"}]
  /\ plan.goal \in GoalId /\ Graph(plan.deps)
  /\ Searching => Sought
  /\ GraphJudged

LEMMA PlansStart == PlansInit => PlansInv
<1> SUFFICES ASSUME PlansInit PROVE PlansInv
  OBVIOUS
<1> USE PlansAssumption
<1>1. outcome.kind = "none" /\ plan.goal \in GoalId /\ plan.deps = <<>>
  BY DEF PlansInit, Outcome
<1>2. DOMAIN plan.deps = {}
  BY <1>1
<1>3. Graph(plan.deps)
  BY <1>2, FS_EmptySet DEF Graph
<1> QED BY <1>1, <1>3 DEF PlansInit, PlansInv, Searching, GraphJudged

\* A goal once active is never again what no plan is made for.
LEMMA GoalKeeps ==
  ASSUME PlansInv, NEW g \in GoalId, CreateGoal(g) \/ activate(g) \/ achieve(g) \/ abandon(g)
  PROVE  PlansInv'
<1>1. PICK to \in {"DRAFT", "ACTIVE", "ACHIEVED", "ABANDONED"} :
        /\ Becomes(g, to) /\ (to = "DRAFT" => goals[g] = "absent")
        /\ (to # "DRAFT" => goals[g] # "absent")
  BY DEF CreateGoal, activate, achieve, abandon
<1>2. /\ ~Searching /\ ~Searching' /\ UNCHANGED <<plan, outcome>>
      /\ goals' = [goals EXCEPT ![g] = to]
  BY <1>1 DEF Becomes, Searching
<1>3. goals[plan.goal] \notin {"absent", "DRAFT"} => goals'[plan.goal] \notin {"absent", "DRAFT"}
  BY <1>1, <1>2 DEF PlansInv
<1>4. goals' \in [GoalId -> {"absent", "DRAFT", "ACTIVE", "ACHIEVED", "ABANDONED"}]
  BY <1>2 DEF PlansInv
<1>5. GraphJudged'
  BY <1>2, <1>3 DEF PlansInv, GraphJudged
<1> QED BY <1>2, <1>4, <1>5 DEF PlansInv

\* What is refused before the search is refused rightly; a search starts at all nodes.
LEMMA PlanForKeeps == ASSUME PlansInv, NEW g \in GoalId, PlanFor(g) PROVE PlansInv'
<1> USE PlansAssumption
<1>1. PICK nodes \in SUBSET TaskId : \E deps \in [nodes -> SUBSET (TaskId \cup {Stranger})] :
        /\ ~Searching /\ goals[g] # "absent" /\ IsFiniteSet(nodes)
        /\ plan' = [goal |-> g, deps |-> deps]
        /\ outcome' = Outcome(IF goals[g] # "ACTIVE" THEN "goal not active"
                              ELSE IF nodes = {} THEN "empty"
                              ELSE IF \E n \in nodes : ~(deps[n] \subseteq nodes) THEN "unknown task"
                              ELSE "searching", <<>>)
        /\ path' = <<>> /\ pending' = <<Roots(deps)>> /\ black' = <<>>
        /\ UNCHANGED goals
  BY DEF PlanFor
<1>2. PICK deps \in [nodes -> SUBSET (TaskId \cup {Stranger})] :
        /\ goals[g] # "absent" /\ IsFiniteSet(nodes)
        /\ plan' = [goal |-> g, deps |-> deps]
        /\ outcome' = Outcome(IF goals[g] # "ACTIVE" THEN "goal not active"
                              ELSE IF nodes = {} THEN "empty"
                              ELSE IF \E n \in nodes : ~(deps[n] \subseteq nodes) THEN "unknown task"
                              ELSE "searching", <<>>)
        /\ path' = <<>> /\ pending' = <<nodes>> /\ black' = <<>>
        /\ UNCHANGED goals
  BY <1>1 DEF Roots
<1>3. /\ plan'.goal = g /\ plan'.deps = deps /\ DOMAIN deps = nodes
      /\ outcome'.kind = (IF goals[g] # "ACTIVE" THEN "goal not active"
                          ELSE IF nodes = {} THEN "empty"
                          ELSE IF \E n \in nodes : ~(deps[n] \subseteq nodes) THEN "unknown task"
                          ELSE "searching")
  BY <1>2 DEF Outcome
<1>4. plan'.goal \in GoalId /\ Graph(plan.deps)'
  BY <1>2, <1>3 DEF Graph
<1>5. ASSUME Searching' PROVE Sought'
  <2>1. goals[g] = "ACTIVE" /\ nodes # {} /\ \A n \in nodes : deps[n] \subseteq nodes
    BY <1>3, <1>5 DEF Searching
  <2>2. Len(path') = 0 /\ Len(black') = 0 /\ Len(pending') = 1 /\ pending'[1] = nodes
    BY <1>2
  <2>3. Nodes'
    <3>1. /\ <<>> \in Seq(nodes) /\ <<nodes>> \in Seq(SUBSET nodes)
      <4>1. nodes \in SUBSET nodes
        OBVIOUS
      <4>2. \A w \in SUBSET nodes : <<w>> \in Seq(SUBSET nodes)
        OBVIOUS
      <4> QED BY <4>1, <4>2
    <3>2. /\ DOMAIN plan'.deps = nodes /\ path' = <<>> /\ black' = <<>>
          /\ pending' = <<nodes>>
      BY <1>2, <1>3
    <3>3. path' \in Seq(DOMAIN plan'.deps) /\ black' \in Seq(DOMAIN plan'.deps)
      BY <3>1, <3>2
    <3>4. pending' \in Seq(SUBSET DOMAIN plan'.deps)
      <4> DEFINE one == <<nodes>>
      <4>1. pending' = one /\ one \in Seq(SUBSET nodes)
        BY <3>1, <3>2
      <4> HIDE DEF one
      <4> QED BY <3>2, <4>1
    <3> QED BY <2>2, <3>3, <3>4 DEF Nodes
  <2>4. Colours'
    BY <2>2 DEF Colours
  <2>5. Loop(1)' = nodes
    BY <1>3 DEF Loop
  <2>6. Loops'
    BY <2>2, <2>5 DEF Loops
  <2> QED BY <1>2, <1>3, <2>1, <2>3, <2>4, <2>6 DEF Sought
<1>6. GraphJudged'
  <2>1. outcome'.kind \in {"goal not active", "empty", "unknown task", "searching"}
    BY <1>3
  <2>2. outcome'.kind = "empty" => goals'[g] = "ACTIVE" /\ DOMAIN deps = {}
    BY <1>2, <1>3
  <2>3. outcome'.kind = "unknown task" =>
          goals'[g] = "ACTIVE" /\ ~\A n \in DOMAIN deps : deps[n] \subseteq DOMAIN deps
    BY <1>2, <1>3
  <2> QED BY <1>3, <2>1, <2>2, <2>3 DEF GraphJudged
<1> QED BY <1>2, <1>4, <1>5, <1>6 DEF PlansInv

\* What a step of the search finds, and what it leaves alone.
LEMMA Looking ==
  ASSUME PlansInv, Searching
  PROVE  /\ Sought /\ Len(path) \in Nat /\ Len(black) \in Nat
         /\ Len(pending) = Len(path) + 1 /\ Inner = pending[Len(path) + 1]
         /\ Inner \subseteq DOMAIN plan.deps
         /\ Inner # {} => Min(Inner) \in Inner
<1>1. Sought
  BY DEF PlansInv
<1>2. Len(path) \in Nat /\ Len(black) \in Nat /\ Len(pending) = Len(path) + 1
  BY <1>1 DEF Sought, Nodes
<1>3. Inner = pending[Len(path) + 1] /\ Inner \subseteq DOMAIN plan.deps
  BY <1>1, <1>2 DEF Sought, Nodes, Inner
<1>4. Inner \subseteq Nat
  BY <1>3 DEF PlansInv, Graph
<1> QED BY <1>1, <1>2, <1>3, <1>4, LeastOf

\* A node looked at that is grey closes a circle, and there is no order.
LEMMA CycleIsOne ==
  ASSUME PlansInv, Searching, NEW d \in Inner, CycleFound(d)
  PROVE  PlansInv'
<1> DEFINE n == Len(path)
<1>1. /\ Sought /\ n \in Nat /\ Inner = pending[n + 1] /\ d \in DOMAIN plan.deps
  BY Looking
<1>2. /\ path \in Seq(DOMAIN plan.deps) /\ DOMAIN path = 1 .. n
      /\ \A i \in 1 .. n : path[i] \in Loop(i)
      /\ pending[n + 1] \subseteq Loop(n + 1)
  BY <1>1 DEF Sought, Nodes, Loops
<1>3. PICK i \in 1 .. n : path[i] = d /\ outcome' = Outcome("cycle", SubSeq(path, i, n))
  BY <1>2 DEF CycleFound
<1> HIDE DEF n
<1> DEFINE cycle == SubSeq(path, i, n)
<1>4. /\ cycle \in Seq(DOMAIN plan.deps) /\ Len(cycle) = n - i + 1
      /\ \A k \in 1 .. n - i + 1 : cycle[k] = path[i + k - 1]
  <2>1. i \in 1 .. Len(path) /\ n \in 0 .. Len(path) /\ i <= n + 1
    BY <1>1, <1>3 DEF n
  <2> QED BY <1>2, <2>1, PartOf
<1> HIDE DEF cycle
<1>5. DOMAIN cycle = 1 .. n - i + 1 /\ cycle # <<>> /\ n - i + 1 \in Nat \ {0}
  BY <1>1, <1>3, <1>4
<1>6. \A k \in DOMAIN cycle : cycle[IF k = Len(cycle) THEN 1 ELSE k + 1] \in plan.deps[cycle[k]]
  <2> SUFFICES ASSUME NEW k \in 1 .. n - i + 1
               PROVE  cycle[IF k = Len(cycle) THEN 1 ELSE k + 1] \in plan.deps[cycle[k]]
    BY <1>5
  <2>1. CASE k = n - i + 1
    <3>1. cycle[k] = path[n] /\ cycle[1] = d
      <4>1. i + k - 1 = n /\ i + 1 - 1 = i /\ 1 \in 1 .. n - i + 1
        BY <1>1, <1>3, <2>1
      <4> QED BY <1>3, <1>4, <4>1
    <3>2. d \in plan.deps[path[n]]
      <4>1. n + 1 # 1 /\ n + 1 - 1 = n
        BY <1>1, <1>3
      <4> QED BY <1>1, <1>2, <4>1 DEF Loop
    <3> QED BY <1>4, <2>1, <3>1, <3>2
  <2>2. CASE k # n - i + 1
    <3>1. /\ k + 1 \in 1 .. n - i + 1 /\ i + (k + 1) - 1 = i + k /\ i + k \in 1 .. n
          /\ i + k # 1
      BY <1>1, <1>3, <2>2
    <3>2. cycle[k + 1] = path[i + k] /\ cycle[k] = path[i + k - 1]
      BY <1>4, <3>1
    <3>3. path[i + k] \in plan.deps[path[i + k - 1]]
      BY <1>2, <3>1 DEF Loop
    <3> QED BY <1>4, <2>2, <3>2, <3>3
  <2> QED BY <2>1, <2>2
<1>7. Orderings(plan.deps) = {}
  BY <1>4, <1>5, <1>6, CyclesForbid DEF PlansInv
<1>8. outcome'.kind = "cycle" /\ outcome'.cycle = cycle /\ UNCHANGED <<goals, plan>>
  BY <1>3 DEF Outcome, CycleFound, cycle
<1>9. GraphJudged'
  BY <1>1, <1>5, <1>6, <1>7, <1>8 DEF GraphJudged, Sought
<1>10. ~Searching'
  BY <1>8 DEF Searching
<1> QED BY <1>8, <1>9, <1>10 DEF PlansInv

\* While the search goes on, its own state is all there is to look after.
LEMMA StillSought ==
  ASSUME PlansInv, Searching, UNCHANGED <<goals, plan, outcome>>,
         Nodes', Colours', Loops'
  PROVE  PlansInv'
<1>1. Sought'
  BY DEF PlansInv, Sought
<1>2. GraphJudged'
  BY DEF GraphJudged, Searching
<1> QED BY <1>1, <1>2 DEF PlansInv

LEMMA PassOverKeeps ==
  ASSUME PlansInv, Searching, NEW d \in Inner, PassOver(d)
  PROVE  PlansInv'
<1> DEFINE n == Len(path)
<1>1. /\ Sought /\ n \in Nat /\ Len(pending) = n + 1 /\ Inner = pending[n + 1]
      /\ UNCHANGED <<goals, plan, outcome, path, black>>
  BY Looking DEF PassOver
<1>2. /\ pending \in Seq(SUBSET DOMAIN plan.deps)
      /\ pending' = [pending EXCEPT ![n + 1] = pending[n + 1] \ {d}]
  BY <1>1 DEF Sought, Nodes, PassOver, Left
<1>3. PICK b \in 1 .. Len(black) : d = black[b]
  BY <1>1 DEF PassOver, ToSet, Sought, Nodes
<1>4. /\ pending' \in Seq(SUBSET DOMAIN plan.deps) /\ Len(pending') = n + 1
      /\ pending'[n + 1] = pending[n + 1] \ {d}
      /\ \A i \in 1 .. n : pending'[i] = pending[i]
  <2>1. n + 1 \in 1 .. Len(pending) /\ pending[n + 1] \ {d} \in SUBSET DOMAIN plan.deps
    BY <1>1, <1>2
  <2>2. \A i \in 1 .. n : i \in 1 .. Len(pending) /\ i # n + 1
    BY <1>1
  <2> DEFINE next == pending[n + 1] \ {d}
  <2>3. /\ [pending EXCEPT ![n + 1] = next] \in Seq(SUBSET DOMAIN plan.deps)
        /\ Len([pending EXCEPT ![n + 1] = next]) = Len(pending)
        /\ [pending EXCEPT ![n + 1] = next][n + 1] = next
        /\ \A j \in 1 .. Len(pending) : j # n + 1 => [pending EXCEPT ![n + 1] = next][j] = pending[j]
    <3> DEFINE All == SUBSET DOMAIN plan.deps
    <3>1. pending \in Seq(All) /\ n + 1 \in 1 .. Len(pending) /\ next \in All
      BY <1>2, <2>1
    <3> HIDE DEF n, next, All
    <3>2. /\ [pending EXCEPT ![n + 1] = next] \in Seq(All)
          /\ Len([pending EXCEPT ![n + 1] = next]) = Len(pending)
          /\ [pending EXCEPT ![n + 1] = next][n + 1] = next
          /\ \A j \in 1 .. Len(pending) : j # n + 1 => [pending EXCEPT ![n + 1] = next][j] = pending[j]
      BY <3>1, OneChanged
    <3> QED BY <3>2 DEF All
  <2> QED BY <1>1, <1>2, <2>2, <2>3
<1>5. Nodes' /\ Colours'
  BY <1>1, <1>4 DEF Sought, Nodes, Colours
<1>6. \A i \in 1 .. n + 1 : Loop(i)' = Loop(i)
  BY <1>1 DEF Loop
<1>7. Loops'
  <2> SUFFICES ASSUME NEW i \in 1 .. n + 1
               PROVE  /\ pending'[i] \subseteq Loop(i)
                      /\ \A e \in Loop(i) \ pending'[i] :
                           (\E j \in 1 .. Len(black) : e = black[j]) \/ (i <= n /\ e = path[i])
    BY <1>1, <1>6 DEF Sought, Loops
  <2>1. /\ pending[i] \subseteq Loop(i)
        /\ \A e \in Loop(i) \ pending[i] :
             (\E j \in 1 .. Len(black) : e = black[j]) \/ (i <= n /\ e = path[i])
    BY <1>1 DEF Sought, Loops
  <2>2. pending'[i] = pending[i] \/ pending'[i] = pending[i] \ {d}
    BY <1>1, <1>4
  <2> QED BY <1>3, <2>1, <2>2
<1> QED BY <1>1, <1>5, <1>7, StillSought

LEMMA VisitKeeps ==
  ASSUME PlansInv, Searching, NEW d \in Inner, visit(d)
  PROVE  PlansInv'
<1> DEFINE n == Len(path)
<1>1. /\ Sought /\ n \in Nat /\ Len(pending) = n + 1 /\ Inner = pending[n + 1]
      /\ d \in DOMAIN plan.deps /\ UNCHANGED <<goals, plan, outcome, black>>
  BY Looking DEF visit
<1>2. /\ path \in Seq(DOMAIN plan.deps) /\ pending \in Seq(SUBSET DOMAIN plan.deps)
      /\ black \in Seq(DOMAIN plan.deps)
      /\ path' = Append(path, d)
      /\ pending' = Append([pending EXCEPT ![n + 1] = pending[n + 1] \ {d}], plan.deps[d])
      /\ plan.deps[d] \subseteq DOMAIN plan.deps
  BY <1>1 DEF Sought, Nodes, visit, Left
<1>3. /\ \A i \in 1 .. n : path[i] # d
      /\ \A i \in 1 .. Len(black) : black[i] # d
  BY <1>2 DEF visit, ToSet
<1>4. /\ path' \in Seq(DOMAIN plan.deps) /\ Len(path') = n + 1 /\ path'[n + 1] = d
      /\ \A i \in 1 .. n : path'[i] = path[i]
  BY <1>1, <1>2
<1>5. /\ pending' \in Seq(SUBSET DOMAIN plan.deps) /\ Len(pending') = n + 2
      /\ pending'[n + 2] = plan.deps[d] /\ pending'[n + 1] = pending[n + 1] \ {d}
      /\ \A i \in 1 .. n : pending'[i] = pending[i]
  <2> DEFINE left == [pending EXCEPT ![n + 1] = pending[n + 1] \ {d}]
  <2>1. /\ left \in Seq(SUBSET DOMAIN plan.deps) /\ Len(left) = n + 1
        /\ left[n + 1] = pending[n + 1] \ {d}
        /\ \A i \in 1 .. n : left[i] = pending[i]
    <3>1. n + 1 \in 1 .. Len(pending) /\ pending[n + 1] \ {d} \in SUBSET DOMAIN plan.deps
      BY <1>1, <1>2
    <3>2. \A i \in 1 .. n : i \in 1 .. Len(pending) /\ i # n + 1
      BY <1>1
    <3> DEFINE next == pending[n + 1] \ {d}
    <3>3. /\ [pending EXCEPT ![n + 1] = next] \in Seq(SUBSET DOMAIN plan.deps)
          /\ Len([pending EXCEPT ![n + 1] = next]) = Len(pending)
          /\ [pending EXCEPT ![n + 1] = next][n + 1] = next
          /\ \A j \in 1 .. Len(pending) : j # n + 1 => [pending EXCEPT ![n + 1] = next][j] = pending[j]
      <4> DEFINE All == SUBSET DOMAIN plan.deps
      <4>1. pending \in Seq(All) /\ n + 1 \in 1 .. Len(pending) /\ next \in All
        BY <1>2, <3>1
      <4> HIDE DEF n, next, All
      <4>2. /\ [pending EXCEPT ![n + 1] = next] \in Seq(All)
            /\ Len([pending EXCEPT ![n + 1] = next]) = Len(pending)
            /\ [pending EXCEPT ![n + 1] = next][n + 1] = next
            /\ \A j \in 1 .. Len(pending) : j # n + 1 => [pending EXCEPT ![n + 1] = next][j] = pending[j]
        BY <4>1, OneChanged
      <4> QED BY <4>2 DEF All
    <3> QED BY <1>1, <3>2, <3>3
  <2> HIDE DEF left
  <2>2. pending' = Append(left, plan.deps[d])
    BY <1>2 DEF left
  <2>3. plan.deps[d] \in SUBSET DOMAIN plan.deps
    BY <1>2
  <2>4. /\ pending' \in Seq(SUBSET DOMAIN plan.deps) /\ Len(pending') = Len(left) + 1
        /\ pending'[Len(left) + 1] = plan.deps[d]
        /\ \A i \in 1 .. Len(left) : pending'[i] = left[i]
    <3> DEFINE All == SUBSET DOMAIN plan.deps
    <3>1. left \in Seq(All) /\ plan.deps[d] \in All
      BY <2>1, <2>3
    <3> HIDE DEF All
    <3>2. /\ Append(left, plan.deps[d]) \in Seq(All)
          /\ Len(Append(left, plan.deps[d])) = Len(left) + 1
          /\ Append(left, plan.deps[d])[Len(left) + 1] = plan.deps[d]
          /\ \A i \in 1 .. Len(left) : Append(left, plan.deps[d])[i] = left[i]
      BY <3>1, Appended
    <3>3. pending' \in Seq(All)
      BY <2>2, <3>2
    <3> QED BY <2>2, <3>2, <3>3 DEF All
  <2>5. Len(left) + 1 = n + 2 /\ n + 1 \in 1 .. Len(left) /\ \A i \in 1 .. n : i \in 1 .. Len(left)
    BY <1>1, <2>1
  <2> QED BY <2>1, <2>4, <2>5
<1>6. Nodes'
  BY <1>1, <1>2, <1>4, <1>5 DEF Nodes
<1>7. Colours'
  <2>1. /\ \A i, j \in 1 .. n : path[i] = path[j] => i = j
        /\ \A i, j \in 1 .. Len(black) : black[i] = black[j] => i = j
        /\ \A i \in 1 .. n : \A j \in 1 .. Len(black) : path[i] # black[j]
        /\ \A i \in 1 .. Len(black) : plan.deps[black[i]] \subseteq {black[j] : j \in 1 .. i - 1}
    BY <1>1 DEF Sought, Colours
  <2>2. \A i \in 1 .. n + 1 : i \in 1 .. n \/ i = n + 1
    BY <1>1
  <2>3. \A i, j \in 1 .. n + 1 : path'[i] = path'[j] => i = j
    BY <1>3, <1>4, <2>1, <2>2
  <2>4. \A i \in 1 .. n + 1 : \A j \in 1 .. Len(black) : path'[i] # black[j]
    BY <1>3, <1>4, <2>1, <2>2
  <2> QED BY <1>1, <1>4, <2>1, <2>3, <2>4 DEF Colours
<1>8. /\ \A i \in 1 .. n + 1 : Loop(i)' = Loop(i)
      /\ \A i \in 1 .. n + 2 : i = n + 2 => Loop(i)' = plan.deps[d]
  <2>1. ASSUME NEW i \in 1 .. n + 1, i # 1 PROVE path'[i - 1] = path[i - 1]
    BY <1>1, <1>4, <2>1
  <2>2. n + 2 # 1 /\ (n + 2) - 1 = n + 1
    BY <1>1
  <2>3. \A i \in 1 .. n + 1 : Loop(i)' = Loop(i)
    BY <1>1, <2>1 DEF Loop
  <2>4. ASSUME NEW i \in 1 .. n + 2, i = n + 2 PROVE Loop(i)' = plan.deps[d]
    BY <1>1, <1>4, <2>2, <2>4 DEF Loop
  <2> QED BY <2>3, <2>4
<1>9. Loops'
  <2>1. \A i \in 1 .. n + 1 : path'[i] \in Loop(i)'
    <3>1. d \in Loop(n + 1)
      BY <1>1 DEF Sought, Loops
    <3>2. \A i \in 1 .. n : path[i] \in Loop(i)
      BY <1>1 DEF Sought, Loops
    <3> QED BY <1>1, <1>4, <1>8, <3>1, <3>2
  <2>2. ASSUME NEW i \in 1 .. n + 2
        PROVE  /\ pending'[i] \subseteq Loop(i)'
               /\ \A e \in Loop(i)' \ pending'[i] :
                    (\E j \in 1 .. Len(black) : e = black[j]) \/ (i <= n + 1 /\ e = path'[i])
    <3>1. CASE i = n + 2
      BY <1>5, <1>8, <3>1
    <3>2. CASE i # n + 2
      <4>1. i \in 1 .. n + 1
        BY <1>1, <3>2
      <4>2. /\ pending[i] \subseteq Loop(i)
            /\ \A e \in Loop(i) \ pending[i] :
                 (\E j \in 1 .. Len(black) : e = black[j]) \/ (i <= n /\ e = path[i])
        BY <1>1, <4>1 DEF Sought, Loops
      <4>3. CASE i = n + 1
        BY <1>1, <1>4, <1>5, <1>8, <4>1, <4>2, <4>3
      <4>4. CASE i # n + 1
        <5>1. i \in 1 .. n
          BY <1>1, <4>1, <4>4
        <5> QED BY <1>1, <1>4, <1>5, <1>8, <4>1, <4>2, <5>1
      <4> QED BY <4>3, <4>4
    <3> QED BY <3>1, <3>2
  <2> QED BY <1>1, <1>4, <1>5, <2>1, <2>2 DEF Loops
<1> QED BY <1>1, <1>6, <1>7, <1>9, StillSought

\* A node turns black when all it depends on is.
LEMMA LeaveKeeps == ASSUME PlansInv, Searching, Leave PROVE PlansInv'
<1> DEFINE n == Len(path)
           b == Len(black)
           x == path[n]
<1>1. /\ Sought /\ n \in Nat \ {0} /\ b \in Nat /\ Len(pending) = n + 1 /\ pending[n + 1] = {}
      /\ UNCHANGED <<goals, plan, outcome>>
  <2>1. n \in Nat /\ path # <<>> /\ path \in Seq(DOMAIN plan.deps)
    BY Looking DEF Leave, Sought, Nodes
  <2> QED BY <2>1, Looking DEF Leave
<1>2. /\ path \in Seq(DOMAIN plan.deps) /\ pending \in Seq(SUBSET DOMAIN plan.deps)
      /\ black \in Seq(DOMAIN plan.deps)
      /\ black' = Append(black, x) /\ path' = Front(path) /\ pending' = Front(pending)
  BY <1>1 DEF Sought, Nodes, Leave
<1>3. /\ path' \in Seq(DOMAIN plan.deps) /\ Len(path') = n - 1
      /\ \A i \in 1 .. n - 1 : path'[i] = path[i]
  <2>1. Len(path) # 0
    BY <1>1
  <2> QED BY <1>2, <2>1, WithoutLast
<1>4. /\ pending' \in Seq(SUBSET DOMAIN plan.deps) /\ Len(pending') = n
      /\ \A i \in 1 .. n : pending'[i] = pending[i]
  <2>1. Len(pending) # 0 /\ Len(pending) - 1 = n
    BY <1>1
  <2> QED BY <1>2, <2>1, WithoutLast
<1>5. /\ black' \in Seq(DOMAIN plan.deps) /\ Len(black') = b + 1 /\ black'[b + 1] = x
      /\ \A i \in 1 .. b : black'[i] = black[i]
  <2>1. x \in DOMAIN plan.deps
    BY <1>1, <1>2
  <2>2. /\ Append(black, x) \in Seq(DOMAIN plan.deps) /\ Len(Append(black, x)) = b + 1
        /\ Append(black, x)[b + 1] = x
        /\ \A i \in 1 .. b : Append(black, x)[i] = black[i]
    <3> HIDE DEF x
    <3> QED BY <1>2, <2>1, Appended
  <2>3. black' = Append(black, x)
    BY <1>2
  <2> HIDE DEF x, b
  <2> QED BY <2>2, <2>3
<1>6. Nodes'
  BY <1>1, <1>3, <1>4, <1>5 DEF Nodes
<1> HIDE DEF n, b
<1>7. /\ \A i, j \in 1 .. n : path[i] = path[j] => i = j
      /\ \A i, j \in 1 .. b : black[i] = black[j] => i = j
      /\ \A i \in 1 .. n : \A j \in 1 .. b : path[i] # black[j]
      /\ \A i \in 1 .. b : plan.deps[black[i]] \subseteq {black[j] : j \in 1 .. i - 1}
  BY <1>1 DEF Sought, Colours, n, b
<1>8. /\ \A i \in 1 .. n : path[i] \in Loop(i)
      /\ \A i \in 1 .. n + 1 :
           /\ pending[i] \subseteq Loop(i)
           /\ \A e \in Loop(i) \ pending[i] :
                (\E j \in 1 .. b : e = black[j]) \/ (i <= n /\ e = path[i])
  BY <1>1 DEF Sought, Loops, n, b
<1>9. plan.deps[x] \subseteq {black[j] : j \in 1 .. b}
  <2>1. Loop(n + 1) = plan.deps[x]
    BY <1>1 DEF Loop
  <2>2. n + 1 \in 1 .. n + 1 /\ ~(n + 1 <= n)
    BY <1>1
  <2> QED BY <1>1, <1>8, <2>1, <2>2
<1>10. Colours'
  <2>1. \A i, j \in 1 .. b + 1 : black'[i] = black'[j] => i = j
    BY <1>1, <1>5, <1>7
  <2>2. \A i \in 1 .. n - 1 : \A j \in 1 .. b + 1 : path'[i] # black'[j]
    BY <1>1, <1>3, <1>5, <1>7
  <2>3. \A i, j \in 1 .. n - 1 : path'[i] = path'[j] => i = j
    BY <1>1, <1>3, <1>7
  <2>4. ASSUME NEW i \in 1 .. b + 1
        PROVE  plan.deps[black'[i]] \subseteq {black'[j] : j \in 1 .. i - 1}
    <3>1. {black'[j] : j \in 1 .. i - 1} = {black[j] : j \in 1 .. i - 1}
      <4>1. \A j \in 1 .. i - 1 : j \in 1 .. b
        BY <1>1
      <4> QED BY <1>5, <4>1
    <3>2. CASE i = b + 1
      <4>1. i - 1 = b
        BY <1>1, <3>2
      <4> QED BY <1>5, <1>9, <3>1, <3>2, <4>1
    <3>3. CASE i # b + 1
      <4>1. i \in 1 .. b
        BY <1>1, <3>3
      <4> QED BY <1>5, <1>7, <3>1, <4>1
    <3> QED BY <3>2, <3>3
  <2> QED BY <1>1, <1>3, <1>5, <2>1, <2>2, <2>3, <2>4 DEF Colours
<1>11. \A i \in 1 .. n : Loop(i)' = Loop(i)
  <2>1. ASSUME NEW i \in 1 .. n, i # 1 PROVE path'[i - 1] = path[i - 1]
    BY <1>1, <1>3, <2>1
  <2> QED BY <1>1, <2>1 DEF Loop
<1>12. ASSUME NEW i \in 1 .. n
       PROVE  /\ pending'[i] \subseteq Loop(i)'
              /\ \A e \in Loop(i)' \ pending'[i] :
                   (\E j \in 1 .. b + 1 : e = black'[j]) \/ (i <= n - 1 /\ e = path'[i])
  <2>1. /\ pending[i] \subseteq Loop(i)
        /\ \A e \in Loop(i) \ pending[i] : (\E j \in 1 .. b : e = black[j]) \/ e = path[i]
    BY <1>1, <1>8
  <2>2. \A e : (\E j \in 1 .. b : e = black[j]) => \E j \in 1 .. b + 1 : e = black'[j]
    BY <1>1, <1>5
  <2>3. (\E j \in 1 .. b + 1 : path[i] = black'[j]) \/ (i <= n - 1 /\ path[i] = path'[i])
    <3>1. CASE i = n
      BY <1>1, <1>5, <3>1
    <3>2. CASE i # n
      BY <1>1, <1>3, <3>2
    <3> QED BY <3>1, <3>2
  <2> QED BY <1>4, <1>11, <2>1, <2>2, <2>3
<1>13. Loops'
  <2>1. \A i \in 1 .. n - 1 : path'[i] \in Loop(i)'
    BY <1>1, <1>3, <1>8, <1>11
  <2>2. Len(path') + 1 = n
    BY <1>1, <1>3
  <2> QED BY <1>1, <1>3, <1>5, <1>12, <2>1, <2>2 DEF Loops
<1> QED BY <1>1, <1>6, <1>10, <1>13, StillSought

\* When the last loop is over all nodes are black, in an order.
LEMMA EndIsMade == ASSUME PlansInv, Searching, SearchEnds PROVE PlansInv'
<1> DEFINE deps == plan.deps
           N == Cardinality(DOMAIN deps)
           b == Len(black)
<1>1. Sought /\ Graph(deps) /\ UNCHANGED <<goals, plan>>
  BY Looking DEF SearchEnds, PlansInv
<1>2. Len(path) = 0 /\ pending[1] = {} /\ b \in Nat
  BY Looking DEF SearchEnds
<1>3. /\ black \in [1 .. b -> DOMAIN deps]
      /\ \A i, j \in 1 .. b : black[i] = black[j] => i = j
      /\ \A i \in 1 .. b : deps[black[i]] \subseteq {black[j] : j \in 1 .. i - 1}
  BY <1>1, <1>2 DEF Sought, Nodes, Colours
<1>4. \A n \in DOMAIN deps : \E j \in 1 .. b : black[j] = n
  <2>1. Loop(1) = DOMAIN deps
    BY DEF Loop
  <2>2. 1 \in 1 .. Len(path) + 1 /\ ~(1 <= Len(path))
    BY <1>2
  <2> QED BY <1>1, <1>2, <2>1, <2>2 DEF Sought, Loops
<1> HIDE DEF b
<1>5. black \in Bijection(1 .. b, DOMAIN deps)
  BY <1>3, <1>4, Fun_IsBij
<1>6. b = N
  <2>1. ExistsBijection(1 .. b, DOMAIN deps)
    BY <1>5 DEF ExistsBijection
  <2> QED BY <1>2, <2>1, FS_CountingElements
<1>7. black \in Orderings(deps)
  BY <1>3, <1>6 DEF Orderings
<1> HIDE DEF deps
<1>8. DOMAIN deps \ _reachable_from_roots(deps) = {}
  BY <1>1, <1>7, NoOrphans
<1>9. outcome'.kind = "made"
  BY <1>8 DEF SearchEnds, Outcome, deps
<1>10. ~Searching'
  BY <1>9 DEF Searching
<1>11. GraphJudged'
  BY <1>1, <1>7, <1>9 DEF GraphJudged, Sought, deps
<1> QED BY <1>1, <1>10, <1>11 DEF PlansInv, deps

LEMMA PlansStep == ASSUME PlansInv, [PlansNext]_planVars PROVE PlansInv'
<1>1. CASE UNCHANGED planVars
  <2>1. UNCHANGED <<goals, plan, outcome, path, pending, black>>
    BY <1>1 DEF planVars, searchVars
  <2>2. /\ GraphJudged' <=> GraphJudged
        /\ Searching' <=> Searching
    BY <2>1 DEF GraphJudged, Searching
  <2>3. (Nodes' <=> Nodes) /\ (Colours' <=> Colours)
    BY <2>1 DEF Nodes, Colours
  <2>4. Loops' <=> Loops
    BY <2>1 DEF Loops, Loop
  <2> QED BY <2>1, <2>2, <2>3, <2>4 DEF PlansInv, Sought
<1>2. ASSUME NEW g \in GoalId, CreateGoal(g) \/ activate(g) \/ achieve(g) \/ abandon(g) \/ PlanFor(g)
      PROVE  PlansInv'
  BY <1>2, GoalKeeps, PlanForKeeps
<1>3. CASE _find_cycle
  <2>1. ASSUME Inner # {}, LookAt(Min(Inner)) PROVE PlansInv'
    <3>1. Searching /\ Min(Inner) \in Inner
      BY <1>3, <2>1, Looking DEF _find_cycle
    <3> QED BY <2>1, <3>1, CycleIsOne, PassOverKeeps, VisitKeeps DEF LookAt
  <2> QED BY <1>3, <2>1, LeaveKeeps, EndIsMade DEF _find_cycle
<1> QED BY <1>1, <1>2, <1>3 DEF PlansNext

\* A plan is made exactly when its graph can be put in an order, a cycle reported is
\* one, no plan has orphans, and the order a plan is run in is the least there is
\* (plan.py:95-184): for any number of nodes.
THEOREM PlansAreSound == PlansSpec => []PlansSound
<1>1. PlansInv => PlansSound
  <2> SUFFICES ASSUME PlansInv, outcome.kind = "made" PROVE OrderIsLeast
    BY DEF PlansInv, PlansSound, OrderIsLeast
  <2>1. Graph(plan.deps) /\ Orderings(plan.deps) # {}
    BY DEF PlansInv, GraphJudged
  <2> QED BY <2>1, KahnFindsLeast DEF OrderIsLeast
<1> QED BY <1>1, PlansStart, PlansStep, PTL DEF PlansSpec

-----------------------------------------------------------------------------
(* The agent's state machine.                                                    *)

\* The states in which it is known whether something is in hand.
InHandNow ==
  {"UNDERSTANDING", "GOAL_FORMING", "PLANNING", "READY", "EXECUTING", "REPLANNING",
   "WAITING_APPROVAL", "PAUSED", "RESUMABLE", "CANCELLING", "CANCELLED"}

FsmInv ==
  /\ state \in AgentState
  /\ state = "VERIFYING" => verified
  /\ state \in InHandNow => inHand
  /\ ended \in Terminal \cup {"none"}
  /\ CompletedVerified

\* COMPLETED is entered from REFLECTING only, that from VERIFYING only, WAITING from
\* nowhere, a terminal state is not left, and what is in hand when it is entered was so
\* before, or is from then on.
LEMMA OneWayIn ==
  ASSUME NEW s \in AgentState, NEW t \in LEGAL_TRANSITIONS[s]
  PROVE  /\ t \in AgentState /\ t # "WAITING"
         /\ t = "COMPLETED" => s = "REFLECTING"
         /\ t = "REFLECTING" => s = "VERIFYING"
         /\ s \notin Terminal
         /\ t \in InHandNow =>
              \/ t \in {"UNDERSTANDING", "EXECUTING", "REPLANNING"}
              \/ t \notin {"OBSERVING", "RECOVERING"} /\ s \in InHandNow \cup {"WAITING"}
BY DEF LEGAL_TRANSITIONS, AgentState, Cancellable, Terminal, InHandNow

LEMMA FsmStep == ASSUME FsmInv, [FsmNext]_fsmVars PROVE FsmInv'
<1>1. CASE UNCHANGED fsmVars
  BY <1>1 DEF FsmInv, CompletedVerified, fsmVars
<1>2. ASSUME NEW t \in AgentState, transition(t) \/ GuardRaisesLate(t) PROVE FsmInv'
  <2>1. /\ state' = t /\ t # "WAITING" /\ state \notin Terminal
        /\ t = "COMPLETED" => state = "REFLECTING"
        /\ t = "REFLECTING" => state = "VERIFYING"
        /\ t \in InHandNow =>
             \/ t \in {"UNDERSTANDING", "EXECUTING", "REPLANNING"}
             \/ t \notin {"OBSERVING", "RECOVERING"} /\ state \in InHandNow \cup {"WAITING"}
    BY <1>2, OneWayIn DEF FsmInv, transition, GuardRaisesLate, can_transition, MoveTo
  <2>2. /\ verified' = (t = "VERIFYING" \/ (verified /\ t # "EXECUTING"))
        /\ inHand' = (\/ t \in {"UNDERSTANDING", "EXECUTING", "REPLANNING"}
                      \/ inHand /\ t \notin {"OBSERVING", "RECOVERING"})
        /\ ended' = IF t \in Terminal THEN t ELSE ended
    BY <1>2 DEF transition, GuardRaisesLate, MoveTo
  <2>3. t \in {"COMPLETED", "REFLECTING", "VERIFYING"} => verified'
    BY <2>1, <2>2 DEF FsmInv, CompletedVerified
  <2>4. t \in InHandNow => inHand'
    BY <2>1, <2>2 DEF FsmInv, CompletedVerified
  <2>5. ended' \in {"none", t}
    <3>1. ended = "none"
      BY <2>1 DEF FsmInv, CompletedVerified
    <3> QED BY <2>2, <3>1
  <2>6. state' # recorded' => spoilt'
    BY <1>2, <2>1 DEF transition, GuardRaisesLate
  <2>7. ended' \in Terminal \cup {"none"}
    BY <2>2 DEF FsmInv
  <2> QED BY <2>1, <2>3, <2>4, <2>5, <2>6, <2>7 DEF FsmInv, CompletedVerified, InHandNow
<1> QED BY <1>1, <1>2 DEF FsmNext

\* An agent completes only what it has verified since it last executed anything, is
\* cancelled only while it works on something, and stays in a terminal state, whatever its
\* guards do (fsm.py:43-183).
THEOREM CompletesOnlyVerified == FsmSpec => []CompletedVerified
<1>1. FsmInit => FsmInv
  BY DEF FsmInit, FsmInv, CompletedVerified, AgentState, InHandNow
<1>2. FsmInv => CompletedVerified
  BY DEF FsmInv
<1> QED BY <1>1, <1>2, FsmStep, PTL DEF FsmSpec
=============================================================================
