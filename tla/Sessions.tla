------------------------------ MODULE Sessions ------------------------------
(* The session store (persistence/sessions.py): processes that each open the     *)
(* database, create and fork sessions, append turns and archive.  A call that    *)
(* first reads the session and then writes is two steps; a transaction is one.   *)
(* Opening a database that predates the title index builds the index, and each   *)
(* of its DDL statements commits by itself.                                      *)
EXTENDS Naturals, Sequences, FiniteSets, SequencesExt

CONSTANTS Client,
          Legacy,       \* sessions of a database from before the title index
          MaxSessions,  \* (bound)
          MaxTurns,     \* append_turn() calls (bound)
          MaxDeaths     \* times a process ends (bound)

ASSUME SessionsAssumption ==
  {Legacy, MaxSessions, MaxTurns, MaxDeaths} \subseteq Nat /\ Legacy <= MaxSessions

VARIABLES parent,    \* sessions: the parent of each, in the order of their rowid, or 0
          archived,  \* sessions.archived: 0, or the moment at which it was set
          rows,      \* session_turns in the order of their rowid
          forkedAt,  \* how many rows there were when each session was created
          table,     \* sessions_fts exists
          triggers,  \* and the trigger that keeps it
          indexed,   \* the sessions it holds
          stage,     \* of each client: "closed", three stages of opening, "open"
          existed,   \* what its probe for the index found, while it opens
          job,       \* a call between its read and its write
          tick,      \* the moments append_turn() has read from the clock
          cutOff,    \* a process ended between the index and its first content
          deaths

sessionRows == <<parent, archived, rows, forkedAt>>
ftsVars == <<table, triggers, indexed, cutOff>>
sessionVars == <<sessionRows, ftsVars, stage, existed, job, tick, deaths>>

Idling == [op |-> "idle", session |-> 0, at |-> 0]
Stored == DOMAIN parent

SessionsInit ==
  /\ parent = [s \in 1 .. Legacy |-> 0]
  /\ archived = [s \in 1 .. Legacy |-> 0]
  /\ forkedAt = [s \in 1 .. Legacy |-> 0]
  /\ rows = <<>>
  /\ table = FALSE /\ triggers = FALSE /\ indexed = {} /\ cutOff = FALSE
  /\ stage = [c \in Client |-> "closed"]
  /\ existed = [c \in Client |-> FALSE]
  /\ job = [c \in Client |-> Idling]
  /\ tick = 0 /\ deaths = 0

-----------------------------------------------------------------------------
(* SessionStore.__init__(): probe, create the table, create the triggers, fill.  *)

Probe(c) ==
  /\ stage[c] = "closed"
  /\ existed' = [existed EXCEPT ![c] = table]
  /\ stage' = [stage EXCEPT ![c] = "probed"]
  /\ UNCHANGED <<sessionRows, ftsVars, job, tick, deaths>>

CreateIndex(c) ==
  /\ stage[c] = "probed"
  /\ table' = TRUE
  /\ stage' = [stage EXCEPT ![c] = "indexed"]
  /\ UNCHANGED <<sessionRows, triggers, indexed, cutOff, existed, job, tick, deaths>>

CreateTriggers(c) ==
  /\ stage[c] = "indexed"
  /\ triggers' = TRUE
  /\ stage' = [stage EXCEPT ![c] = "triggered"]
  /\ UNCHANGED <<sessionRows, table, indexed, cutOff, existed, job, tick, deaths>>

\* Mutant of Rebuild: it fills the index that was there, not the new one.
RebuildOld(c) ==
  /\ stage[c] = "triggered"
  /\ indexed' = IF existed[c] THEN Stored ELSE indexed
  /\ stage' = [stage EXCEPT ![c] = "open"]
  /\ existed' = [existed EXCEPT ![c] = FALSE]
  /\ UNCHANGED <<sessionRows, table, triggers, cutOff, job, tick, deaths>>

Rebuild(c) ==
  /\ stage[c] = "triggered"
  /\ indexed' = IF existed[c] THEN indexed ELSE Stored
  /\ stage' = [stage EXCEPT ![c] = "open"]
  /\ existed' = [existed EXCEPT ![c] = FALSE]
  /\ UNCHANGED <<sessionRows, table, triggers, cutOff, job, tick, deaths>>

\* The process ends, wherever it is; a transaction under way never happened.
Dies(c) ==
  /\ stage[c] # "closed" /\ deaths < MaxDeaths
  /\ deaths' = deaths + 1
  /\ cutOff' = (cutOff \/ (stage[c] \in {"indexed", "triggered"} /\ ~existed[c]))
  /\ stage' = [stage EXCEPT ![c] = "closed"]
  /\ existed' = [existed EXCEPT ![c] = FALSE]
  /\ job' = [job EXCEPT ![c] = Idling]
  /\ UNCHANGED <<sessionRows, table, triggers, indexed, tick>>

-----------------------------------------------------------------------------
Free(c) == stage[c] = "open" /\ job[c] = Idling

\* INSERT INTO sessions, with the trigger it fires.
InsertSession(p) ==
  /\ Len(parent) < MaxSessions
  /\ parent' = Append(parent, p)
  /\ archived' = Append(archived, 0)
  /\ forkedAt' = Append(forkedAt, Len(rows))
  /\ indexed' = IF triggers THEN indexed \cup {Len(parent) + 1} ELSE indexed

create(c) ==
  /\ Free(c)
  /\ InsertSession(0)
  /\ UNCHANGED <<rows, table, triggers, cutOff, stage, existed, job, tick, deaths>>

RowsOf(s) == {i \in DOMAIN rows : rows[i].session = s}

\* turns(): in the order of the clock readings, those of one reading by rowid.
turns(s) ==
  CHOOSE q \in [1 .. Cardinality(RowsOf(s)) -> RowsOf(s)] :
    \A m, n \in DOMAIN q : m < n =>
      rows[q[m]].at < rows[q[n]].at \/ (rows[q[m]].at = rows[q[n]].at /\ q[m] < q[n])

\* The copies keep what they say and when, under one turn_id for all of them: its
\* PRIMARY KEY refuses a second, and the new session goes with the transaction.
fork(c, p) ==
  /\ Free(c) /\ p \in Stored
  /\ Cardinality(RowsOf(p)) <= 1
  /\ InsertSession(p)
  /\ rows' = rows \o [n \in DOMAIN turns(p) |->
                         [rows[turns(p)[n]] EXCEPT !.session = Len(parent) + 1]]
  /\ UNCHANGED <<table, triggers, cutOff, stage, existed, job, tick, deaths>>

\* Mutant of append_turn: whether the session is archived is not looked at.
AppendAnyway(c, s) ==
  /\ Free(c) /\ s \in Stored /\ tick < MaxTurns
  /\ tick' = tick + 1
  /\ job' = [job EXCEPT ![c] = [op |-> "append", session |-> s, at |-> tick + 1]]
  /\ UNCHANGED <<sessionRows, ftsVars, stage, existed, deaths>>

\* get() and the refusals, then the write: in between, another process may act.
append_turn(c, s) ==
  /\ Free(c) /\ s \in Stored /\ archived[s] = 0 /\ tick < MaxTurns
  /\ tick' = tick + 1
  /\ job' = [job EXCEPT ![c] = [op |-> "append", session |-> s, at |-> tick + 1]]
  /\ UNCHANGED <<sessionRows, ftsVars, stage, existed, deaths>>

AppendWrites(c) ==
  /\ job[c].op = "append"
  /\ rows' = Append(rows, [session |-> job[c].session, at |-> job[c].at, home |-> job[c].session])
  /\ job' = [job EXCEPT ![c] = Idling]
  /\ UNCHANGED <<parent, archived, forkedAt, ftsVars, stage, existed, tick, deaths>>

archive(c, s) ==
  /\ Free(c) /\ s \in Stored /\ archived[s] = 0
  /\ job' = [job EXCEPT ![c] = [op |-> "archive", session |-> s, at |-> 0]]
  /\ UNCHANGED <<sessionRows, ftsVars, stage, existed, tick, deaths>>

\* Two archivers may both write; the moment kept is the first.
ArchiveWrites(c) ==
  LET s == job[c].session IN
  /\ job[c].op = "archive"
  /\ archived' = [archived EXCEPT ![s] = IF @ = 0 THEN tick + 1 ELSE @]
  /\ job' = [job EXCEPT ![c] = Idling]
  /\ UNCHANGED <<parent, rows, forkedAt, ftsVars, stage, existed, tick, deaths>>

\* search(), for a title every session has: the index, or LIKE over the table when
\* the expression is refused.
search(mode) ==
  {s \in Stored : archived[s] = 0 /\ (mode = "fts" => s \in indexed)}

\* lineage(): from the session up to its root, what holds it and every parent.
lineage(s) ==
  {t \in Stored : \A held \in SUBSET Stored :
     s \in held /\ (\A u \in held : parent[u] # 0 => parent[u] \in held) => t \in held}

SessionsNext ==
  \E c \in Client :
    \/ Probe(c) \/ CreateIndex(c) \/ CreateTriggers(c) \/ Rebuild(c) \/ Dies(c)
    \/ create(c)
    \/ \E s \in 1 .. MaxSessions : fork(c, s) \/ append_turn(c, s) \/ archive(c, s)
    \/ AppendWrites(c) \/ ArchiveWrites(c)

SessionsSpec == SessionsInit /\ [][SessionsNext]_sessionVars

-----------------------------------------------------------------------------
\* "lineage carries content, not just the id chain" (sessions.py:212): a fork holds
\* what its parent held when it was made, as the rows stood then, and ever after
\* nothing but that and its own turns; whatever it holds was said in its lineage.
LineageCarriesContent ==
  \A s \in Stored :
    LET own == {i \in DOMAIN rows : rows[i].session = s /\ rows[i].home = s}
        held == {rows[i].at : i \in {j \in DOMAIN rows : rows[j].session = s} \ own}
        before == {i \in 1 .. forkedAt[s] : rows[i].session = parent[s]} IN
    /\ held = {rows[i].at : i \in before}
    /\ \A i \in DOMAIN rows : rows[i].session = s => rows[i].home \in lineage(s)

\* "archived sessions are immutable history" (sessions.py:142): a turn in an archived
\* session was begun, by a process that had found it open, before it was archived.
ArchivedImmutable ==
  \A s \in Stored : archived[s] # 0 =>
    \A i \in DOMAIN rows : rows[i].session = s => rows[i].at < archived[s]

\* A session's history is what was said in it and what it was forked from, and is over
\* once it is archived.
HistoryHeld == LineageCarriesContent /\ ArchivedImmutable

\* A search by the index can find every session that one by LIKE can: the index holds a row
\* for each session not archived (what a query matches in a title differs between the two,
\* and is not modelled).  This holds once whoever found no index has filled the one it made,
\* and from then on, unless that process ended before it had.
SearchComplete ==
  /\ table /\ ~cutOff
  /\ \A c \in Client : stage[c] \in {"indexed", "triggered"} => existed[c]
  => search("fts") = search("like")
=============================================================================
