------------------------------- MODULE Recycle -------------------------------
(* The recycle bin of a workspace (tools/recycle.py): delete, restore and purge, *)
(* each of them several file operations of one process that may end in between,  *)
(* while others work in the workspace, and in the bin, which lies inside it.  A   *)
(* file's origin record is a second file beside it; a directory's is written over *)
(* whatever member of it is called deleted-from.                                 *)
EXTENDS Integers, Sequences, FiniteSets

CONSTANTS File, Dir,    \* paths of the workspace
          Home,         \* the directory of each file, or Top
          Top,          \* the workspace itself, always there
          DeletedFrom,  \* the member of each directory that is called so
          MaxWrites,    \* contents written (bound)
          MaxEntries,   \* deletions (bound)
          MaxBreaks     \* times the process ends (bound)

Path == File \cup Dir
Entry == 1 .. MaxEntries
World == 0 .. MaxEntries    \* where paths are: in the workspace, or in an entry's content
None == 0
Foreign == 1                \* a text that somebody else wrote, read as an origin

ASSUME RecycleAssumption ==
  /\ File \cap Dir = {} /\ Top \notin Path
  /\ Home \in [File -> Dir \cup {Top}]
  /\ DeletedFrom \in [Dir -> File] /\ \A d \in Dir : Home[DeletedFrom[d]] = d
  /\ {MaxWrites, MaxEntries, MaxBreaks} \subseteq Nat

VARIABLES files,     \* what each file holds: a content > 0, or - e, the record of entry e
          dirs,      \* the directories there are
          from,      \* the record beside each entry: None, - e, or Foreign
          bin,       \* of every entry ever made, where it was: [world, path]
          doing,     \* the operation under way: [kind, entry, to, todo]
          written,   \* contents so far
          replaced,  \* contents overwritten by who else works in the workspace
          meanwhile, \* contents written to a path that is being restored
          labelled,  \* contents overwritten by an origin record
          elsewhere, \* contents moved into a directory that came in between, or where
                     \* somebody else's text pointed
          purged,    \* contents removed by purge()
          meddled,   \* entries that others have touched in the bin
          why,       \* why an entry may have no record
          processEnds

space == <<files, dirs, from, bin>>
fates == <<replaced, meanwhile, labelled, elsewhere, purged>>
recycleVars == <<space, doing, written, fates, meddled, why, processEnds>>

Nowhere == [world |-> 0, path |-> Top]
Place == [world : World, path : Path]
Doing(kind, e) == [kind |-> kind, entry |-> e, to |-> Nowhere, todo |-> {}]
Resting == Doing("none", 0)
Empty == [f \in File |-> None]

RecycleInit ==
  /\ files = [w \in World |-> Empty] /\ dirs = [w \in World |-> IF w = 0 THEN Dir ELSE {}]
  /\ from = [e \in Entry |-> None] /\ bin = <<>> /\ doing = Resting
  /\ written = 0 /\ replaced = {} /\ meanwhile = {} /\ labelled = {} /\ elsewhere = {}
  /\ purged = {} /\ meddled = {} /\ why = [e \in Entry |-> "no"] /\ processEnds = 0

Written(cells) == {k \in cells : k > None}
Contents(cells) == Written({cells[f] : f \in File})
Inside(d) == {f \in File : Home[f] = d}
Exists(w, p) == IF p \in Dir THEN p \in dirs[w] ELSE files[w][p] # None

\* rcy-e, which is a file or a directory, and whether it is there.
Root(e) == bin[e].path
There(e) == Exists(e, Root(e))

\* Where a file can be put: its directory is there, or it is itself what an entry holds.
Reachable(w, f) ==
  \/ w = 0 /\ Home[f] \in dirs[0] \cup {Top}
  \/ w \in DOMAIN bin /\ (f = Root(w) \/ Home[f] \in dirs[w])

-----------------------------------------------------------------------------
(* Who else works there: PathPolicy.resolve() keeps nobody out of the bin.       *)

Meddle(w) == meddled' = meddled \cup ({w} \cap Entry)

\* In the bin, files are written that are there, or beside such in a directory.
WriteFile(w, f) ==
  LET k == written + 1 IN
  /\ written < MaxWrites /\ Reachable(w, f) /\ (w # 0 => There(w))
  /\ written' = k
  /\ files' = [files EXCEPT ![w][f] = k]
  /\ replaced' = replaced \cup Written({files[w][f]})
  /\ meanwhile' = IF doing.to = [world |-> w, path |-> f] THEN meanwhile \cup {k} ELSE meanwhile
  /\ Meddle(w)
  /\ UNCHANGED <<dirs, from, bin, doing, labelled, elsewhere, purged, why, processEnds>>

MakeDir(d) ==
  /\ d \notin dirs[0]
  /\ dirs' = [dirs EXCEPT ![0] = @ \cup {d}]
  /\ UNCHANGED <<files, from, bin, doing, written, fates, meddled, why, processEnds>>

\* A record beside an entry is removed or overwritten (once: bound); what a deletion of it
\* would put in the bin is left out.
SpoilRecord(e) ==
  /\ e \in DOMAIN bin \ meddled
  /\ \E text \in {None, Foreign} : from' = [from EXCEPT ![e] = text]
  /\ Meddle(e)
  /\ UNCHANGED <<files, dirs, bin, doing, written, fates, why, processEnds>>

-----------------------------------------------------------------------------
(* delete(): the move, then the record.                                          *)

Taken(p) == IF p \in Dir THEN Inside(p) ELSE {p}
Only(cells, fs) == [f \in File |-> IF f \in fs THEN cells[f] ELSE None]

delete(w, p) ==
  LET e == Len(bin) + 1 IN
  /\ doing = Resting /\ e <= MaxEntries /\ Exists(w, p)
  /\ bin' = Append(bin, [world |-> w, path |-> p])
  /\ files' = [files EXCEPT ![e] = Only(files[w], Taken(p)), ![w] = Only(files[w], File \ Taken(p))]
  /\ dirs' = [dirs EXCEPT ![e] = {p} \cap Dir, ![w] = @ \ {p}]
  /\ doing' = Doing("deleted", e)
  /\ Meddle(w)
  /\ UNCHANGED <<from, written, fates, why, processEnds>>

WriteRecord ==
  LET e == doing.entry
      d == Root(e) IN
  /\ doing.kind = "deleted"
  /\ IF d \in Dir
       THEN /\ files' = [files EXCEPT ![e][DeletedFrom[d]] = - e]
            /\ labelled' = labelled \cup Written({files[e][DeletedFrom[d]]})
            /\ UNCHANGED from
       ELSE from' = [from EXCEPT ![e] = - e] /\ UNCHANGED <<files, labelled>>
  /\ doing' = Resting
  /\ UNCHANGED <<dirs, bin, written, replaced, meanwhile, elsewhere, purged, meddled, why,
                 processEnds>>

\* The record cannot be written: the tool reports the deletion as failed.
RecordFails ==
  /\ doing.kind = "deleted"
  /\ why' = [why EXCEPT ![doing.entry] = "deletion cut short"]
  /\ doing' = Resting
  /\ UNCHANGED <<space, written, fates, meddled, processEnds>>

-----------------------------------------------------------------------------
(* restore(): the checks, the record unlinked, the move.                         *)

\* What is read as the origin of an entry.
Label(e) ==
  IF from[e] # None THEN from[e]
  ELSE IF Root(e) \in dirs[e] THEN files[e][DeletedFrom[Root(e)]] ELSE None

Restoring(e, to) == [Doing("restoring", e) EXCEPT !.to = to]

\* Mutant of restore: whether something is there is not looked at.
RestoreOver(e) ==
  /\ doing = Resting /\ e \in DOMAIN bin /\ There(e) /\ Label(e) # None
  /\ doing' = Restoring(e, IF Label(e) < 0 THEN bin[- Label(e)] ELSE Nowhere)
  /\ UNCHANGED <<space, written, fates, meddled, why, processEnds>>

\* Somebody else's text names a path of its own, none of these.
restore(e) ==
  /\ doing = Resting /\ e \in DOMAIN bin /\ There(e)
  /\ \/ Label(e) > 0 /\ doing' = Restoring(e, Nowhere)
     \/ /\ Label(e) < 0
        /\ LET to == bin[- Label(e)] IN ~Exists(to.world, to.path) /\ doing' = Restoring(e, to)
  /\ UNCHANGED <<space, written, fates, meddled, why, processEnds>>

\* A directory's record stays inside it.
UnlinkRecord ==
  /\ doing.kind = "restoring"
  /\ from' = [from EXCEPT ![doing.entry] = None]
  /\ doing' = [doing EXCEPT !.kind = "moving"]
  /\ UNCHANGED <<files, dirs, bin, written, fates, meddled, why, processEnds>>

Gone(e) == files' = [files EXCEPT ![e] = Empty] /\ dirs' = [dirs EXCEPT ![e] = {}]

\* The move fails: a file has lost its record.
Stranded(e) ==
  /\ why' = [why EXCEPT ![e] = IF Root(e) \in File THEN "restoration failed" ELSE @]
  /\ UNCHANGED <<files, dirs, elsewhere>>

\* To where somebody else's text points, or inside a directory that has appeared.
MovedElsewhere(e) ==
  /\ Gone(e)
  /\ elsewhere' = elsewhere \cup Contents(files[e])
  /\ UNCHANGED why

\* A file goes over whatever has appeared at its path.
MovedTo(e, w, p) ==
  /\ files' = [files EXCEPT ![e] = Empty,
                            ![w] = [f \in File |-> IF f \in Taken(p) THEN files[e][f] ELSE @[f]]]
  /\ dirs' = [dirs EXCEPT ![e] = {}, ![w] = @ \cup ({p} \cap Dir)]
  /\ UNCHANGED <<elsewhere, why>>

MoveBack ==
  LET e == doing.entry
      w == doing.to.world
      p == doing.to.path IN
  /\ doing.kind = "moving"
  /\ \/ p = Top /\ (Stranded(e) \/ MovedElsewhere(e))
     \/ p \in Dir /\ p \in dirs[w] /\ MovedElsewhere(e)
     \/ p \in File /\ ~Reachable(w, p) /\ Stranded(e)
     \/ p \in Dir /\ p \notin dirs[w] /\ MovedTo(e, w, p)
     \/ p \in File /\ Reachable(w, p) /\ MovedTo(e, w, p)
  /\ doing' = Resting
  /\ UNCHANGED <<from, bin, written, replaced, meanwhile, labelled, purged, meddled, processEnds>>

-----------------------------------------------------------------------------
(* entries() and purge().                                                        *)

\* A directory is listed by itself, all else by the record beside it.
entries == {e \in DOMAIN bin : Root(e) \in dirs[e] \/ from[e] # None}

purge ==
  /\ doing = Resting /\ entries # {}
  /\ doing' = [Doing("purging", 0) EXCEPT !.todo = entries]
  /\ UNCHANGED <<space, written, fates, meddled, why, processEnds>>

\* rmtree() removes a directory and, told to ignore errors, leaves a file alone; then
\* the record goes.
PurgeEntry(e) ==
  LET left == doing.todo \ {e} IN
  /\ doing.kind = "purging" /\ e \in doing.todo
  /\ IF Root(e) \in Dir
       THEN Gone(e) /\ purged' = purged \cup Contents(files[e]) /\ UNCHANGED why
       ELSE why' = [why EXCEPT ![e] = "purged"] /\ UNCHANGED <<files, dirs, purged>>
  /\ from' = [from EXCEPT ![e] = None]
  /\ doing' = IF left = {} THEN Resting ELSE [doing EXCEPT !.todo = left]
  /\ UNCHANGED <<bin, written, replaced, meanwhile, labelled, elsewhere, meddled, processEnds>>

\* The process ends in the middle of an operation.
BinProcessEnds ==
  LET e == doing.entry IN
  /\ doing # Resting /\ processEnds < MaxBreaks
  /\ processEnds' = processEnds + 1
  /\ doing' = Resting
  /\ why' = IF doing.kind = "deleted" THEN [why EXCEPT ![e] = "deletion cut short"]
            ELSE IF doing.kind = "moving" /\ Root(e) \in File
              THEN [why EXCEPT ![e] = "restoration failed"] ELSE why
  /\ UNCHANGED <<space, written, fates, meddled>>

RecycleNext ==
  \/ \E w \in World, f \in File : WriteFile(w, f)
  \/ \E d \in Dir : MakeDir(d)
  \/ \E w \in World, p \in Path : delete(w, p)
  \/ WriteRecord \/ RecordFails
  \/ \E e \in Entry : SpoilRecord(e) \/ restore(e) \/ PurgeEntry(e)
  \/ UnlinkRecord \/ MoveBack
  \/ purge \/ BinProcessEnds

RecycleSpec == RecycleInit /\ [][RecycleNext]_recycleVars

-----------------------------------------------------------------------------
Surviving == UNION {Contents(files[w]) : w \in World}

\* restore() "refuses overwrite" (recycle.py:40) and delete() keeps what it takes: whatever
\* was written is in the workspace or in the bin, or was overwritten by somebody else or
\* purged, however the operations fail and whoever works in the bin.  But for a member
\* called deleted-from, which the record of its directory overwrites, and for what was
\* written to a path between the check of a restoration and its move.
NothingDestroyed ==
  \A k \in 1 .. written :
    k \in Surviving \cup replaced \cup purged \cup elsewhere \cup labelled \cup meanwhile

\* A deletion is reversible: while nothing is under way, an entry that nobody touched in
\* the bin has its own record, unless its deletion was cut short, a restoration failed
\* half-way (the record is unlinked before the move), or it is a file that purge() was to
\* remove.  A directory survives the latter two; and only when its deletion was cut short
\* is a member of it taken for the record.
EntriesRestorable ==
  doing = Resting => \A e \in DOMAIN bin \ meddled : There(e) =>
    /\ why[e] = "no" => Label(e) = - e
    /\ why[e] \in {"restoration failed", "purged"} => Root(e) \in File
    /\ Label(e) > 0 => Root(e) \in Dir /\ why[e] = "deletion cut short"

\* The promise of a reversible delete.
BinKeeps == NothingDestroyed /\ EntriesRestorable

\* delete() "never destroys content" (recycle.py:39), not even a member of a directory that
\* is called like the record.
DeleteKeepsContent ==
  \A k \in 1 .. written : k \in Surviving \cup replaced \cup purged \cup elsewhere \cup meanwhile
=============================================================================
