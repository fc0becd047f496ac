------------------------------- MODULE MCHosts -------------------------------
(* Two components of a host that do not call each other, one in each behaviour: *)
(* the durable approvals it shares with other surfaces, and its scheduler.      *)
EXTENDS ApprovalStore, Scheduler, TLC

CONSTANTS tui, web, delete, write,
          once, again, interval, daily, weekly

VARIABLE focus

MCInit == Init /\ SchedulerInit /\ focus \in {"approvals", "scheduler"}

MCNext ==
  /\ UNCHANGED focus
  /\ \/ focus = "approvals" /\ Next /\ UNCHANGED schedulerVars
     \/ focus = "scheduler" /\ SchedulerNext /\ UNCHANGED vars

MCSpec == MCInit /\ [][MCNext]_<<vars, schedulerVars, focus>>

\* Two surfaces are interchangeable, and so are the two actions.
Alike == Permutations({tui, web}) \cup Permutations({delete, write})

\* One entry of each kind, and a ONCE entry with no limit; a day has 2 units, the WEEKLY
\* entry is for Monday.
Blank == [kind |-> "ONCE", created |-> 0, at |-> 0, every |-> 0, time |-> 0,
          weekday |-> 0, limit |-> 0]

MCDefine ==
  [e \in Entry |->
    IF e = once THEN [Blank EXCEPT !.at = 2, !.limit = 1]
    ELSE IF e = again THEN [Blank EXCEPT !.at = 1]
    ELSE IF e = interval THEN [Blank EXCEPT !.kind = "INTERVAL", !.every = 2, !.limit = 2]
    ELSE IF e = daily THEN [Blank EXCEPT !.kind = "DAILY", !.time = 1]
    ELSE [Blank EXCEPT !.kind = "WEEKLY", !.time = 1]]
===============================================================================
