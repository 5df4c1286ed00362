------------------------------ MODULE RedbFile ------------------------------
(***************************************************************************)
(* Files of an older rouchdb being upgraded, and used afterwards           *)
(* (rouchdb-adapter-redb/src/upgrade.rs).  Several processes upgrade, each *)
(* a file of its choice, or the same one; they all put the backup at the   *)
(* same path.  A process can be killed between any two steps, the machine  *)
(* can go down, and writing the copy, preparing and committing can fail.   *)
(* A user told that a backup or a partial copy is in the way takes the     *)
(* first elsewhere and deletes the second, as the errors say.              *)
(*                                                                         *)
(* A process is `idle' or at one of the steps                              *)
(*   dropped   open_database has found an old file and closed it again     *)
(*   analyzed  run_upgrade has a plan                                      *)
(*   copy      it has created <backup>.partial                             *)
(*   rename    the copy is verified and synced                             *)
(*   move      the backup path is free                                     *)
(*   sync      the copy has the name of the backup                         *)
(*   prepare, commit   the write transaction                               *)
(*   reopen    the upgrade is done, the file is opened again               *)
(*   open      the database is open                                        *)
(***************************************************************************)
EXTENDS RedbAdapter

CONSTANTS
  File,      \* the files
  Proc,      \* the processes that open them
  OldFiles,  \* what the files may hold
  Faults,    \* bound: how many failures and crashes
  NoCopy     \* no file at a path

ASSUME FileAssumption == NoCopy \notin [of : File, complete : BOOLEAN] /\ Faults \in Nat

VARIABLES
  old,       \* what the older rouchdb left in the files
  upgraded,  \* the files whose upgrade is committed
  backup,    \* the copy at the path of the backup
  partial,   \* the copy at <backup>.partial
  moved,     \* the files of which the user has taken a backup elsewhere
  synced,    \* whether the rename of the backup is durable
  warned,    \* the files whose backup's directory could not be synced
  lost,      \* the files of which the user has deleted the only copy
  procs,     \* the processes
  bare,      \* the files upgraded without a backup
  faults,    \* failures and crashes so far
  live       \* whether an upgraded file is in use: `tables' is what it holds

upgradeVars == <<old, upgraded, backup, partial, moved, synced, warned, lost, procs, bare, faults>>
vars == <<upgradeVars, live, tables>>

IdleProc == [at |-> "idle", file |-> NoCopy, policy |-> "refuse"]

Copies == [of : File, complete : BOOLEAN]

\* What `old' is once a file is in use, and it says nothing any more.
Forgotten == CHOOSE o \in OldFiles : TRUE

\* Files of an older rouchdb, or a new file that is in use at once.
FileInit ==
  /\ old \in OldFiles
  /\ upgraded = {} /\ moved = {} /\ bare = {} /\ warned = {} /\ lost = {}
  /\ backup = NoCopy /\ partial = NoCopy /\ synced = TRUE
  /\ procs = [p \in Proc |-> IdleProc]
  /\ faults = 0
  /\ live \in BOOLEAN
  /\ live => old = Forgotten
  /\ Init

At(p, step) == procs[p].at = step

Go(p, step) == procs' = [procs EXCEPT ![p].at = step]

\* An error: the process gives up, and closes the file.
GiveUp(p) == procs' = [procs EXCEPT ![p] = IdleProc]

\* redb locks an open file: one process at a time has it.
HoldsFile(p) == procs[p].at \notin {"idle", "dropped", "reopen"}

LockFree(f) == \A p \in Proc : HoldsFile(p) => procs[p].file # f

Fault == faults < Faults /\ faults' = faults + 1

----------------------------------------------------------------------------
(* open_database and upgrade_file *)

\* An old file under UpgradePolicy::Refuse is refused, except one of a
\* development build, which is upgraded with a backup.
OpenFile(p, f, policy) ==
  LET dev == policy = "refuse" /\ old.schema > 0
  IN  /\ At(p, "idle") /\ LockFree(f)
      /\ f \in upgraded \/ policy # "refuse" \/ dev
      /\ procs' = [procs EXCEPT ![p] =
                    [at |-> IF f \in upgraded THEN "open" ELSE "dropped", file |-> f,
                     policy |-> IF dev THEN "backup" ELSE policy]]
      /\ UNCHANGED <<old, upgraded, backup, partial, moved, synced, warned, lost, bare, faults>>

\* The file was closed for a moment: another process may have it, or have
\* upgraded it.
Analyze(p) ==
  LET f == procs[p].file
  IN  /\ At(p, "dropped")
      /\ IF ~LockFree(f) \/ (f \notin upgraded /\ Refused(old))
           THEN GiveUp(p)
           ELSE Go(p, IF f \in upgraded THEN "reopen" ELSE "analyzed")
      /\ UNCHANGED <<old, upgraded, backup, partial, moved, synced, warned, lost, bare, faults>>

\* Slip: a partial copy that is there is written over.
CreatePartialOver(p) ==
  /\ At(p, "analyzed")
  /\ IF procs[p].policy = "in_place"
       THEN Go(p, "prepare") /\ UNCHANGED partial
       ELSE IF backup # NoCopy
         THEN GiveUp(p) /\ UNCHANGED partial
         ELSE /\ partial' = [of |-> procs[p].file, complete |-> FALSE]
              /\ Go(p, "copy")
  /\ UNCHANGED <<old, upgraded, backup, moved, synced, warned, lost, bare, faults>>

\* backup_logical, until the partial copy is created: nothing at the path of
\* the backup, and the partial copy must not exist.
CreatePartial(p) ==
  /\ At(p, "analyzed")
  /\ IF procs[p].policy = "in_place"
       THEN Go(p, "prepare") /\ UNCHANGED partial
       ELSE IF backup # NoCopy \/ partial # NoCopy
         THEN GiveUp(p) /\ UNCHANGED partial
         ELSE /\ partial' = [of |-> procs[p].file, complete |-> FALSE]
              /\ Go(p, "copy")
  /\ UNCHANGED <<old, upgraded, backup, moved, synced, warned, lost, bare, faults>>

CopyAndVerify(p) ==
  /\ At(p, "copy")
  /\ partial' = [of |-> procs[p].file, complete |-> TRUE]
  /\ Go(p, "rename")
  /\ UNCHANGED <<old, upgraded, backup, moved, synced, warned, lost, bare, faults>>

\* A failure removes the partial copy.
BackupFails(p) ==
  /\ procs[p].at \in {"copy", "rename"} /\ Fault
  /\ partial' = NoCopy
  /\ GiveUp(p)
  /\ UNCHANGED <<old, upgraded, backup, moved, synced, warned, lost, bare>>

\* A backup that has appeared meanwhile is not written over.
CheckPath(p) ==
  /\ At(p, "rename")
  /\ IF backup # NoCopy
       THEN partial' = NoCopy /\ GiveUp(p)
       ELSE UNCHANGED partial /\ Go(p, "move")
  /\ UNCHANGED <<old, upgraded, backup, moved, synced, warned, lost, bare, faults>>

Rename(p) ==
  /\ At(p, "move")
  /\ backup' = partial /\ partial' = NoCopy
  /\ synced' = FALSE
  /\ Go(p, "sync")
  /\ UNCHANGED <<old, upgraded, moved, warned, lost, bare, faults>>

\* Failing to sync the directory is a warning only, in the report.
SyncDir(p) ==
  LET f == procs[p].file
  IN  /\ At(p, "sync")
      /\ \/ synced' = TRUE /\ warned' = warned \ {f} /\ UNCHANGED faults
         \/ Fault /\ warned' = warned \union {f} /\ UNCHANGED synced
      /\ Go(p, "prepare")
      /\ UNCHANGED <<old, upgraded, backup, partial, moved, lost, bare>>

Prepare(p) ==
  /\ At(p, "prepare")
  /\ Go(p, "commit")
  /\ UNCHANGED <<old, upgraded, backup, partial, moved, synced, warned, lost, bare, faults>>

\* Nothing is committed: the backup is redundant, and would block a retry.
PrepareFails(p) ==
  /\ At(p, "prepare") /\ Fault
  /\ backup' = IF procs[p].policy = "in_place" THEN backup ELSE NoCopy
  /\ GiveUp(p)
  /\ UNCHANGED <<old, upgraded, partial, moved, synced, warned, lost, bare>>

Commit(p) ==
  /\ At(p, "commit")
  /\ upgraded' = upgraded \union {procs[p].file}
  /\ bare' = IF procs[p].policy = "in_place" THEN bare \union {procs[p].file} ELSE bare
  /\ Go(p, "reopen")
  /\ UNCHANGED <<old, backup, partial, moved, synced, warned, lost, faults>>

\* When the commit itself fails it may have taken effect: the backup is kept.
CommitFails(p) ==
  /\ At(p, "commit") /\ Fault
  /\ upgraded' \in {upgraded, upgraded \union {procs[p].file}}
  /\ bare' = IF procs[p].policy = "in_place" THEN bare \union (upgraded' \ upgraded) ELSE bare
  /\ GiveUp(p)
  /\ UNCHANGED <<old, backup, partial, moved, synced, warned, lost>>

\* open_database again, on the upgraded file.
Reopen(p) ==
  /\ At(p, "reopen")
  /\ IF LockFree(procs[p].file) THEN Go(p, "open") ELSE GiveUp(p)
  /\ UNCHANGED <<old, upgraded, backup, partial, moved, synced, warned, lost, bare, faults>>

----------------------------------------------------------------------------
(* The environment *)

\* The process is killed: what it had on disk stays.
Kill(p) ==
  /\ ~At(p, "idle") /\ Fault
  /\ GiveUp(p)
  /\ UNCHANGED <<old, upgraded, backup, partial, moved, synced, warned, lost, bare>>

\* The machine goes down; a rename that is not durable may be undone.
PowerLoss ==
  /\ Fault
  /\ procs' = [p \in Proc |-> IdleProc]
  /\ \/ UNCHANGED <<backup, partial>>
     \/ ~synced /\ partial = NoCopy /\ partial' = backup /\ backup' = NoCopy
  /\ synced' = TRUE
  /\ UNCHANGED <<old, upgraded, moved, warned, lost, bare>>

NoUpgradeRuns == \A p \in Proc : procs[p].at \in {"idle", "open", "reopen"}

\* The user keeps the backup under another name.
MoveBackup ==
  /\ backup # NoCopy /\ NoUpgradeRuns
  /\ moved' = moved \union (IF backup.complete THEN {backup.of} ELSE {})
  /\ backup' = NoCopy /\ synced' = TRUE
  /\ UNCHANGED <<old, upgraded, partial, warned, lost, procs, bare, faults>>

\* The user does as the error says: a partial copy in the way of an upgrade "is
\* not a complete backup" and is deleted, whatever it is.
DeletePartial ==
  /\ partial # NoCopy /\ NoUpgradeRuns
  /\ partial' = NoCopy
  /\ lost' = IF partial.complete /\ partial.of \in upgraded \ (bare \union moved)
               THEN lost \union {partial.of} ELSE lost
  /\ UNCHANGED <<old, upgraded, backup, moved, synced, warned, procs, bare, faults>>

\* bound: the tables take the deletion of a revision from its name, so a file is
\* used when its merged revisions are the deletions that their names say.
FlagsAsNamed ==
  \A d \in Doc : \A s \in SpellingsOf(old.docs[d].paths) :
    s.rev \in Tombstones(old.docs[d].paths) <=> s.rev \in Deleted

\* From here on the run is about the tables of the file that is open.
Use(p) ==
  /\ At(p, "open") /\ FlagsAsNamed
  /\ live' = TRUE
  /\ tables' = Upgraded(old)
  /\ procs' = [q \in Proc |-> IdleProc]
  /\ upgraded' = File /\ backup' = NoCopy /\ partial' = NoCopy /\ moved' = {}
  /\ synced' = TRUE /\ warned' = {} /\ lost' = {} /\ bare' = File /\ faults' = Faults
  /\ old' = Forgotten

UpgradeStep(p) ==
  \/ Analyze(p) \/ CreatePartial(p) \/ CopyAndVerify(p) \/ CheckPath(p) \/ Rename(p)
  \/ SyncDir(p) \/ Prepare(p) \/ Commit(p) \/ Reopen(p)

Failures(p) == BackupFails(p) \/ PrepareFails(p) \/ CommitFails(p) \/ Kill(p)

FileNext ==
  \/ /\ ~live
     /\ \/ /\ \/ \E p \in Proc : UpgradeStep(p) \/ Failures(p)
              \/ \E p \in Proc, f \in File, policy \in {"refuse", "backup", "in_place"} :
                   OpenFile(p, f, policy)
              \/ PowerLoss \/ MoveBackup \/ DeletePartial
           /\ UNCHANGED <<live, tables>>
        \/ \E p \in Proc : Use(p)
  \/ live /\ Writes /\ UNCHANGED <<upgradeVars, live>>

FileSpec == FileInit /\ [][FileNext]_vars

----------------------------------------------------------------------------
CopyOf(c, f) == c # NoCopy /\ c.complete /\ c.of = f

\* upgrade.rs: the file is upgraded with a complete copy of it left behind.
\* Whatever fails, whoever else uses the same path: of a file upgraded under
\* WithBackup there is a complete copy of the old one, at the path, at its
\* partial name when the rename was undone, or where the user has moved it,
\* unless the user was told to delete it.  That can happen only to a file whose
\* directory could not be synced: a backup made durable is never deleted.  And what
\* has the name of a backup is a complete one.
BackupKept ==
  /\ \A f \in upgraded \ bare :
       CopyOf(backup, f) \/ CopyOf(partial, f) \/ f \in moved \union lost
  /\ lost \subseteq warned
  /\ backup # NoCopy => backup.complete

\* What the error about a partial copy says, that it "is not a complete backup":
\* none that the user is told to delete is the only copy of an upgraded file.  The
\* code does not keep to it: the directory is not synced (a warning), the
\* transaction commits, the machine goes down and the rename is undone before the
\* warning is read, and the next upgrade that uses the path has the copy deleted.
LeftoverIsNoBackup == lost = {}

\* The upgrade that a process has planned keeps, in the upgraded file, what a
\* reader of the old one could get.  All documents and all revisions are there and
\* those with a body have it; the revision that was the winner is a deletion if it
\* was one, though its spellings disagree, and has the body it had ("if one spelling
\* was the document's winning revision in 0.4, its body is the one kept"); live
\* local documents are in the local store, and the feed has an entry for each
\* document.  The report foretells what the first compaction will delete: so many
\* bodies, and attachment bytes of these documents.
UpgradeKeeps ==
  LET T == Upgraded(old)
      C == CompactTables(T)
  IN  (\E p \in Proc : procs[p].at = "analyzed") /\ ~Refused(old) =>
      /\ \A d \in Doc :
           LET paths == old.docs[d].paths
               won   == RawWinner(paths)
           IN  /\ RevsOf(TreeOf(T, d).nodes) = {s.rev : s \in SpellingsOf(paths)}
               /\ \A r \in Rev : BodySpellings(old, d, r) # {} => HasBody(T, d, r)
               /\ paths # {} =>
                    /\ won.rev \in Tombstones(paths) <=> RawDeleted(paths)
                    /\ won \in BodySpellings(old, d, won.rev) =>
                         KeptSpelling(old, d, won.rev) = won
      /\ \A l \in Local : (old.inline[l].paths # {} /\ ~RawDeleted(old.inline[l].paths))
                            => l \in T.locals
      /\ old.locals \subseteq T.locals
      /\ {c.id : c \in T.changes} = {d \in Doc : TreeOf(T, d).nodes # {}}
      /\ Cardinality(T.revs \ C.revs) = Cardinality(OldBodies(old))
      /\ OldOnlyDocs(old) =
           {d \in Doc : \E r \in Rev :
              HasBody(T, d, r) /\ ~(Att[r] \intersect T.atts \subseteq C.atts)}

\* The tables of a file in use, upgraded or not, agree with one another, and each
\* read and each write of it gives what the memory adapter's would.
UsedLikeMemory == live => TablesConsistent /\ ReadsAgree /\ WritesAgree

FileTypeOK ==
  /\ upgraded \subseteq File /\ moved \subseteq File /\ bare \subseteq File
  /\ warned \subseteq File /\ lost \subseteq File
  /\ backup \in Copies \union {NoCopy} /\ partial \in Copies \union {NoCopy}
  /\ procs \in [Proc -> [at : {"idle", "dropped", "analyzed", "copy", "rename", "move", "sync",
                               "prepare", "commit", "reopen", "open"},
                         file : File \union {NoCopy}, policy : {"refuse", "backup", "in_place"}]]
  /\ TablesTypeOK
=============================================================================
