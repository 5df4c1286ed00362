--------------------------- MODULE RedbFileProofs ---------------------------
(***************************************************************************)
(* That the upgrade never loses the backup it promises (RedbFile), for any *)
(* number of files, processes, failures and crashes.                       *)
(***************************************************************************)
EXTENDS RedbFile, TLAPS

\* The process has a plan and has not finished.
Working(p) ==
  procs[p].at \in {"analyzed", "copy", "rename", "move", "sync", "prepare", "commit"}

\* It has a backup on the way, or a redundant one to remove.
BacksUp(p) ==
  /\ procs[p].at \in {"copy", "rename", "move", "sync", "prepare", "commit"}
  /\ procs[p].policy # "in_place"

UpgradeTypeOK ==
  /\ backup \in Copies \union {NoCopy} /\ partial \in Copies \union {NoCopy}
  /\ procs \in [Proc -> [at : {"idle", "dropped", "analyzed", "copy", "rename", "move", "sync",
                               "prepare", "commit", "reopen", "open"},
                         file : File \union {NoCopy}, policy : {"refuse", "backup", "in_place"}]]
  /\ \A p \in Proc : ~At(p, "idle") => procs[p].file \in File

\* One process has a file, and one makes a backup.
OneHolder ==
  \A p, q \in Proc : p # q /\ HoldsFile(p) /\ HoldsFile(q) => procs[p].file # procs[q].file

OneBacksUp == \A p, q \in Proc : BacksUp(p) /\ BacksUp(q) => p = q

\* A file that is worked on is not upgraded yet.
NotYetUpgraded == \A p \in Proc : Working(p) => procs[p].file \notin upgraded

\* The partial copy is that of the process that makes one, and nothing is at
\* the path of the backup; then the backup is.
PartialIsOwn ==
  \A p \in Proc : procs[p].at \in {"copy", "rename", "move"} =>
    /\ procs[p].policy # "in_place"
    /\ backup = NoCopy
    /\ partial # NoCopy /\ partial.of = procs[p].file
    /\ procs[p].at # "copy" => partial.complete

BackupIsOwn ==
  \A p \in Proc :
    /\ At(p, "sync") => procs[p].policy # "in_place"
    /\ procs[p].at \in {"sync", "prepare", "commit"} /\ procs[p].policy # "in_place"
         => CopyOf(backup, procs[p].file) /\ partial = NoCopy

\* The user has been warned of a backup whose rename can be undone, or has been.
WarningGiven ==
  /\ lost \subseteq upgraded
  /\ \A f \in upgraded \ bare :
       (~synced /\ CopyOf(backup, f)) \/ CopyOf(partial, f) => f \in warned
  /\ \A p \in Proc :
       procs[p].at \in {"prepare", "commit"} /\ procs[p].policy # "in_place" /\ ~synced
         => procs[p].file \in warned

UpgradeInv ==
  /\ UpgradeTypeOK /\ OneHolder /\ OneBacksUp /\ NotYetUpgraded
  /\ PartialIsOwn /\ BackupIsOwn /\ WarningGiven /\ BackupKept

----------------------------------------------------------------------------
(* One process moves *)

\* The process p is the only one that moves, to a step, with a file.
Moved(p, step, f, policy) ==
  /\ procs'[p].at = step /\ procs'[p].file = f /\ procs'[p].policy = policy
  /\ \A q \in Proc \ {p} : procs'[q] = procs[q]
  /\ procs' \in [Proc -> [at : {"idle", "dropped", "analyzed", "copy", "rename", "move", "sync",
                                "prepare", "commit", "reopen", "open"},
                          file : File \union {NoCopy}, policy : {"refuse", "backup", "in_place"}]]

LEMMA GoMoves ==
  ASSUME UpgradeTypeOK, NEW p \in Proc,
         NEW step \in {"analyzed", "copy", "rename", "move", "sync", "prepare", "commit",
                       "reopen", "open"},
         Go(p, step)
  PROVE  Moved(p, step, procs[p].file, procs[p].policy)
  BY DEF UpgradeTypeOK, Go, Moved

LEMMA GiveUpMoves ==
  ASSUME UpgradeTypeOK, NEW p \in Proc, GiveUp(p)
  PROVE  Moved(p, "idle", NoCopy, "refuse")
  BY DEF UpgradeTypeOK, GiveUp, IdleProc, Moved

\* Giving up breaks nothing, when what is on disk stays.
LEMMA GiveUpKeeps ==
  ASSUME UpgradeInv, NEW p \in Proc, GiveUp(p),
         UNCHANGED <<upgraded, backup, partial, moved, synced, warned, lost, bare>>
  PROVE  UpgradeInv'
  <1>1. Moved(p, "idle", NoCopy, "refuse")
    BY GiveUpMoves DEF UpgradeInv
  <1>2. UpgradeTypeOK'
    BY <1>1 DEF UpgradeInv, UpgradeTypeOK, Moved, At
  <1>3. OneHolder'
    BY <1>1 DEF UpgradeInv, OneHolder, HoldsFile, Moved
  <1>4. OneBacksUp'
    BY <1>1 DEF UpgradeInv, OneBacksUp, BacksUp, Moved
  <1>5. NotYetUpgraded'
    BY <1>1 DEF UpgradeInv, NotYetUpgraded, Working, Moved
  <1>6. PartialIsOwn'
    BY <1>1 DEF UpgradeInv, PartialIsOwn, Moved
  <1>7. BackupIsOwn'
    BY <1>1 DEF UpgradeInv, BackupIsOwn, At, CopyOf, Moved
  <1>8. BackupKept'
    BY DEF UpgradeInv, BackupKept, CopyOf
  <1>9. WarningGiven'
    BY <1>1 DEF UpgradeInv, UpgradeTypeOK, WarningGiven, Moved, CopyOf, At
  <1> QED
    BY <1>2, <1>3, <1>4, <1>5, <1>6, <1>7, <1>8, <1>9 DEF UpgradeInv

\* Nor does a step that leaves the disk alone, from a step that needs no less.
LEMMA AnalyzeKeeps ==
  ASSUME UpgradeInv, NEW p \in Proc, Analyze(p)
  PROVE  UpgradeInv'
  <1>0. /\ At(p, "dropped")
        /\ UNCHANGED <<upgraded, backup, partial, moved, synced, warned, lost, bare>>
    BY DEF Analyze
  <1>1. CASE GiveUp(p)
    BY <1>0, <1>1, GiveUpKeeps
  <1>2. CASE ~GiveUp(p)
    <2> DEFINE f == procs[p].file
               step == IF f \in upgraded THEN "reopen" ELSE "analyzed"
    <2>1. LockFree(f) /\ Moved(p, step, f, procs[p].policy)
      BY <1>2, GoMoves DEF Analyze, UpgradeInv
    <2>2. UpgradeTypeOK'
      BY <1>0, <2>1 DEF UpgradeInv, UpgradeTypeOK, Moved, At
    <2>3. OneHolder'
      BY <2>1 DEF UpgradeInv, OneHolder, HoldsFile, Moved, LockFree
    <2>4. OneBacksUp'
      BY <2>1 DEF UpgradeInv, OneBacksUp, BacksUp, Moved
    <2>5. NotYetUpgraded'
      BY <1>0, <2>1 DEF UpgradeInv, NotYetUpgraded, Working, Moved
    <2>6. PartialIsOwn'
      BY <1>0, <2>1 DEF UpgradeInv, PartialIsOwn, Moved
    <2>7. BackupIsOwn'
      BY <1>0, <2>1 DEF UpgradeInv, BackupIsOwn, At, CopyOf, Moved
    <2>8. BackupKept'
      BY <1>0 DEF UpgradeInv, BackupKept, CopyOf
    <2>9. WarningGiven'
      BY <1>0, <2>1 DEF UpgradeInv, UpgradeTypeOK, WarningGiven, Moved, CopyOf, At
    <2> QED
      BY <2>2, <2>3, <2>4, <2>5, <2>6, <2>7, <2>8, <2>9 DEF UpgradeInv
  <1> QED
    BY <1>1, <1>2

\* A copy is completed.
LEMMA CopyKeeps ==
  ASSUME UpgradeInv, NEW p \in Proc, CopyAndVerify(p)
  PROVE  UpgradeInv'
  <1>0. Moved(p, "rename", procs[p].file, procs[p].policy)
    BY GoMoves DEF CopyAndVerify, UpgradeInv
  <1>1. /\ At(p, "copy") /\ partial' = [of |-> procs[p].file, complete |-> TRUE]
        /\ UNCHANGED <<upgraded, backup, moved, synced, warned, lost, bare>>
    BY DEF CopyAndVerify
  <1>2. partial' \in Copies /\ partial' # NoCopy /\ partial.of = procs[p].file
    <2>1. procs[p].file \in File /\ partial.of = procs[p].file
      BY <1>1 DEF UpgradeInv, UpgradeTypeOK, PartialIsOwn, At
    <2>2. [of |-> procs[p].file, complete |-> TRUE] \in Copies
      BY <2>1 DEF Copies
    <2> QED
      BY <1>1, <2>1, <2>2, FileAssumption DEF Copies
  <1>3. /\ procs[p].file \notin upgraded /\ backup = NoCopy
        /\ \A q \in Proc \ {p} : ~BacksUp(q)
    BY <1>1 DEF UpgradeInv, PartialIsOwn, OneBacksUp, BacksUp, NotYetUpgraded, Working, At
  <1>4. UpgradeTypeOK'
    BY <1>0, <1>1, <1>2 DEF UpgradeInv, UpgradeTypeOK, Moved, At
  <1>5. OneHolder'
    BY <1>0, <1>1, <1>2 DEF UpgradeInv, OneHolder, HoldsFile, Moved, At
  <1>6. OneBacksUp'
    BY <1>0, <1>1, <1>2 DEF UpgradeInv, OneBacksUp, BacksUp, Moved, At
  <1>7. NotYetUpgraded'
    BY <1>0, <1>1, <1>2 DEF UpgradeInv, NotYetUpgraded, Working, Moved, At
  <1>8. PartialIsOwn'
    BY <1>0, <1>1, <1>2 DEF UpgradeInv, PartialIsOwn, Moved, At
  <1>9. BackupIsOwn'
    BY <1>0, <1>1, <1>2, <1>3 DEF UpgradeInv, BackupIsOwn, At, CopyOf, Moved, BacksUp
  <1>10. BackupKept'
    BY <1>0, <1>1, <1>2 DEF UpgradeInv, BackupKept, CopyOf, At
  <1>11. WarningGiven'
    BY <1>0, <1>1, <1>2, <1>3 DEF UpgradeInv, UpgradeTypeOK, WarningGiven, BacksUp, Moved, CopyOf,
       At
  <1> QED
    BY <1>4, <1>5, <1>6, <1>7, <1>8, <1>9, <1>10, <1>11 DEF UpgradeInv

\* The copy gets the name of the backup.
LEMMA RenameKeeps ==
  ASSUME UpgradeInv, NEW p \in Proc, Rename(p)
  PROVE  UpgradeInv'
  <1>0. Moved(p, "sync", procs[p].file, procs[p].policy)
    BY GoMoves DEF Rename, UpgradeInv
  <1>1. /\ At(p, "move") /\ backup' = partial /\ partial' = NoCopy
        /\ UNCHANGED <<upgraded, moved, warned, lost, bare>>
    BY DEF Rename
  <1>2. /\ backup = NoCopy /\ CopyOf(partial, procs[p].file) /\ procs[p].policy # "in_place"
        /\ procs[p].file \notin upgraded
        /\ \A q \in Proc \ {p} : ~BacksUp(q)
    BY <1>1 DEF UpgradeInv, PartialIsOwn, OneBacksUp, BacksUp, NotYetUpgraded, Working, At, CopyOf
  <1>3. UpgradeTypeOK'
    BY <1>0, <1>1, <1>2 DEF UpgradeInv, UpgradeTypeOK, Moved, At
  <1>4. OneHolder'
    BY <1>0, <1>1, <1>2 DEF UpgradeInv, OneHolder, HoldsFile, Moved, At
  <1>5. OneBacksUp'
    BY <1>0, <1>1, <1>2 DEF UpgradeInv, OneBacksUp, BacksUp, Moved, At
  <1>6. NotYetUpgraded'
    BY <1>0, <1>1, <1>2 DEF UpgradeInv, NotYetUpgraded, Working, Moved, At
  <1>7. PartialIsOwn'
    BY <1>0, <1>1, <1>2 DEF UpgradeInv, PartialIsOwn, Moved, At, BacksUp
  <1>8. BackupIsOwn'
    BY <1>0, <1>1, <1>2 DEF UpgradeInv, BackupIsOwn, At, CopyOf, Moved, BacksUp
  <1>9. BackupKept'
    BY <1>0, <1>1, <1>2 DEF UpgradeInv, BackupKept, CopyOf
  <1>10. WarningGiven'
    BY <1>0, <1>1, <1>2 DEF UpgradeInv, UpgradeTypeOK, WarningGiven, Moved, CopyOf, At, BacksUp
  <1> QED
    BY <1>3, <1>4, <1>5, <1>6, <1>7, <1>8, <1>9, <1>10 DEF UpgradeInv

\* The rename is made durable, or a warning is given.
LEMMA SyncKeeps ==
  ASSUME UpgradeInv, NEW p \in Proc, SyncDir(p)
  PROVE  UpgradeInv'
  <1>0. Moved(p, "prepare", procs[p].file, procs[p].policy)
    BY GoMoves DEF SyncDir, UpgradeInv
  <1>1. /\ At(p, "sync") /\ UNCHANGED <<upgraded, backup, partial, moved, lost, bare>>
        /\ \/ synced' = TRUE /\ warned' = warned \ {procs[p].file}
           \/ warned' = warned \union {procs[p].file} /\ UNCHANGED synced
    BY DEF SyncDir
  <1>2. /\ procs[p].file \notin upgraded /\ procs[p].policy # "in_place"
        /\ CopyOf(backup, procs[p].file) /\ partial = NoCopy
        /\ \A q \in Proc \ {p} : ~BacksUp(q)
    BY <1>1 DEF UpgradeInv, BackupIsOwn, OneBacksUp, BacksUp, NotYetUpgraded, Working, At
  <1>3. UpgradeTypeOK'
    BY <1>0, <1>1 DEF UpgradeInv, UpgradeTypeOK, Moved, At
  <1>4. OneHolder'
    BY <1>0, <1>1 DEF UpgradeInv, OneHolder, HoldsFile, Moved, At
  <1>5. OneBacksUp'
    BY <1>0, <1>1 DEF UpgradeInv, OneBacksUp, BacksUp, Moved, At
  <1>6. NotYetUpgraded'
    BY <1>0, <1>1 DEF UpgradeInv, NotYetUpgraded, Working, Moved, At
  <1>7. PartialIsOwn'
    BY <1>0, <1>1 DEF UpgradeInv, PartialIsOwn, Moved, At
  <1>8. BackupIsOwn'
    BY <1>0, <1>1 DEF UpgradeInv, BackupIsOwn, At, CopyOf, Moved
  <1>9. BackupKept'
    BY <1>0, <1>1, <1>2 DEF UpgradeInv, WarningGiven, BackupKept, CopyOf
  <1>10. WarningGiven'
    BY <1>0, <1>1, <1>2 DEF UpgradeInv, UpgradeTypeOK, WarningGiven, Moved, CopyOf, At, BacksUp
  <1> QED
    BY <1>3, <1>4, <1>5, <1>6, <1>7, <1>8, <1>9, <1>10 DEF UpgradeInv

\* The transaction is prepared.
LEMMA PrepareKeeps ==
  ASSUME UpgradeInv, NEW p \in Proc, Prepare(p)
  PROVE  UpgradeInv'
  <1>0. Moved(p, "commit", procs[p].file, procs[p].policy)
    BY GoMoves DEF Prepare, UpgradeInv
  <1>1. /\ At(p, "prepare")
        /\ UNCHANGED <<upgraded, backup, partial, moved, synced, warned, lost, bare>>
    BY DEF Prepare
  <1>2. UpgradeTypeOK'
    BY <1>0, <1>1 DEF UpgradeInv, UpgradeTypeOK, Moved, At
  <1>3. OneHolder'
    BY <1>0, <1>1 DEF UpgradeInv, OneHolder, HoldsFile, Moved, At
  <1>4. OneBacksUp'
    BY <1>0, <1>1 DEF UpgradeInv, OneBacksUp, BacksUp, Moved, At
  <1>5. NotYetUpgraded'
    BY <1>0, <1>1 DEF UpgradeInv, NotYetUpgraded, Working, Moved, At
  <1>6. PartialIsOwn'
    BY <1>0, <1>1 DEF UpgradeInv, PartialIsOwn, Moved, At
  <1>7. BackupIsOwn'
    BY <1>0, <1>1 DEF UpgradeInv, BackupIsOwn, At, CopyOf, Moved
  <1>8. BackupKept'
    BY <1>0, <1>1 DEF UpgradeInv, BackupKept, CopyOf
  <1>9. WarningGiven'
    BY <1>0, <1>1 DEF UpgradeInv, UpgradeTypeOK, WarningGiven, Moved, CopyOf, At
  <1> QED
    BY <1>2, <1>3, <1>4, <1>5, <1>6, <1>7, <1>8, <1>9 DEF UpgradeInv

\* The transaction commits: of the file there is a backup, unless none is wanted.
LEMMA CommitKeeps ==
  ASSUME UpgradeInv, NEW p \in Proc, Commit(p)
  PROVE  UpgradeInv'
  <1>0. Moved(p, "reopen", procs[p].file, procs[p].policy)
    BY GoMoves DEF Commit, UpgradeInv
  <1>1. /\ At(p, "commit") /\ UNCHANGED <<backup, partial, moved, synced, warned, lost>>
        /\ upgraded' = upgraded \union {procs[p].file}
        /\ bare' = IF procs[p].policy = "in_place" THEN bare \union {procs[p].file} ELSE bare
    BY DEF Commit
  <1>2. procs[p].policy # "in_place" =>
          /\ CopyOf(backup, procs[p].file) /\ partial = NoCopy
          /\ ~synced => procs[p].file \in warned
    BY <1>1 DEF UpgradeInv, BackupIsOwn, WarningGiven, At
  <1>3. \A q \in Proc \ {p} : HoldsFile(q) => procs[q].file # procs[p].file
    BY <1>1 DEF UpgradeInv, OneHolder, HoldsFile, At
  <1>4. UpgradeTypeOK'
    BY <1>0, <1>1, <1>2, <1>3 DEF UpgradeInv, UpgradeTypeOK, Moved, At
  <1>5. OneHolder'
    BY <1>0, <1>1, <1>2, <1>3 DEF UpgradeInv, OneHolder, HoldsFile, Moved, At
  <1>6. OneBacksUp'
    BY <1>0, <1>1, <1>2, <1>3 DEF UpgradeInv, OneBacksUp, BacksUp, Moved, At
  <1>7. NotYetUpgraded'
    BY <1>0, <1>1, <1>2, <1>3 DEF UpgradeInv, NotYetUpgraded, Working, Moved, At, HoldsFile
  <1>8. PartialIsOwn'
    BY <1>0, <1>1, <1>2, <1>3 DEF UpgradeInv, PartialIsOwn, Moved, At
  <1>9. BackupIsOwn'
    BY <1>0, <1>1, <1>2, <1>3 DEF UpgradeInv, BackupIsOwn, At, CopyOf, Moved
  <1>10. BackupKept'
    BY <1>0, <1>1, <1>2, <1>3 DEF UpgradeInv, BackupKept, CopyOf
  <1>11. WarningGiven'
    BY <1>0, <1>1, <1>2, <1>3 DEF UpgradeInv, UpgradeTypeOK, WarningGiven, Moved, CopyOf, At
  <1> QED
    BY <1>4, <1>5, <1>6, <1>7, <1>8, <1>9, <1>10, <1>11 DEF UpgradeInv

\* A commit that fails may have taken effect: the backup is kept.
LEMMA CommitFailsKeeps ==
  ASSUME UpgradeInv, NEW p \in Proc, CommitFails(p)
  PROVE  UpgradeInv'
  <1>0. Moved(p, "idle", NoCopy, "refuse")
    BY GiveUpMoves DEF CommitFails, UpgradeInv
  <1>1. /\ At(p, "commit") /\ UNCHANGED <<backup, partial, moved, synced, warned, lost>>
        /\ upgraded' \in {upgraded, upgraded \union {procs[p].file}}
        /\ bare' = IF procs[p].policy = "in_place" THEN bare \union (upgraded' \ upgraded) ELSE bare
    BY DEF CommitFails
  <1>2. procs[p].policy # "in_place" =>
          /\ CopyOf(backup, procs[p].file) /\ partial = NoCopy
          /\ ~synced => procs[p].file \in warned
    BY <1>1 DEF UpgradeInv, BackupIsOwn, WarningGiven, At
  <1>3. \A q \in Proc \ {p} : HoldsFile(q) => procs[q].file # procs[p].file
    BY <1>1 DEF UpgradeInv, OneHolder, HoldsFile, At
  <1>4. UpgradeTypeOK'
    BY <1>0, <1>1, <1>2, <1>3 DEF UpgradeInv, UpgradeTypeOK, Moved, At
  <1>5. OneHolder'
    BY <1>0, <1>1, <1>2, <1>3 DEF UpgradeInv, OneHolder, HoldsFile, Moved, At
  <1>6. OneBacksUp'
    BY <1>0, <1>1, <1>2, <1>3 DEF UpgradeInv, OneBacksUp, BacksUp, Moved, At
  <1>7. NotYetUpgraded'
    BY <1>0, <1>1, <1>2, <1>3 DEF UpgradeInv, NotYetUpgraded, Working, Moved, At, HoldsFile
  <1>8. PartialIsOwn'
    BY <1>0, <1>1, <1>2, <1>3 DEF UpgradeInv, PartialIsOwn, Moved, At
  <1>9. BackupIsOwn'
    BY <1>0, <1>1, <1>2, <1>3 DEF UpgradeInv, BackupIsOwn, At, CopyOf, Moved
  <1>10. BackupKept'
    BY <1>0, <1>1, <1>2, <1>3 DEF UpgradeInv, BackupKept, CopyOf
  <1>11. WarningGiven'
    BY <1>0, <1>1, <1>2, <1>3 DEF UpgradeInv, UpgradeTypeOK, WarningGiven, Moved, CopyOf, At
  <1> QED
    BY <1>4, <1>5, <1>6, <1>7, <1>8, <1>9, <1>10, <1>11 DEF UpgradeInv

\* A backup that fails removes the partial copy, which is of a file not upgraded.
LEMMA BackupFailsKeeps ==
  ASSUME UpgradeInv, NEW p \in Proc, BackupFails(p)
  PROVE  UpgradeInv'
  <1>0. Moved(p, "idle", NoCopy, "refuse")
    BY GiveUpMoves DEF BackupFails, UpgradeInv
  <1>1. /\ procs[p].at \in {"copy", "rename"} /\ partial' = NoCopy
        /\ UNCHANGED <<upgraded, backup, moved, synced, warned, lost, bare>>
    BY DEF BackupFails
  <1>2. /\ procs[p].file \notin upgraded /\ partial.of = procs[p].file
        /\ \A q \in Proc \ {p} : ~BacksUp(q)
    BY <1>1 DEF UpgradeInv, PartialIsOwn, OneBacksUp, BacksUp, NotYetUpgraded, Working
  <1>3. UpgradeTypeOK'
    BY <1>0, <1>1, <1>2 DEF UpgradeInv, UpgradeTypeOK, Moved, At
  <1>4. OneHolder'
    BY <1>0, <1>1, <1>2 DEF UpgradeInv, OneHolder, HoldsFile, Moved, At
  <1>5. OneBacksUp'
    BY <1>0, <1>1, <1>2 DEF UpgradeInv, OneBacksUp, BacksUp, Moved, At
  <1>6. NotYetUpgraded'
    BY <1>0, <1>1, <1>2 DEF UpgradeInv, NotYetUpgraded, Working, Moved, At
  <1>7. PartialIsOwn'
    BY <1>0, <1>1, <1>2 DEF UpgradeInv, PartialIsOwn, Moved, At, BacksUp
  <1>8. BackupIsOwn'
    BY <1>0, <1>1, <1>2 DEF UpgradeInv, BackupIsOwn, At, CopyOf, Moved
  <1>9. BackupKept'
    BY <1>0, <1>1, <1>2 DEF UpgradeInv, BackupKept, CopyOf
  <1>10. WarningGiven'
    BY <1>0, <1>1, <1>2 DEF UpgradeInv, UpgradeTypeOK, WarningGiven, Moved, CopyOf, At
  <1> QED
    BY <1>3, <1>4, <1>5, <1>6, <1>7, <1>8, <1>9, <1>10 DEF UpgradeInv

\* A preparation that fails removes the backup, which is of a file not upgraded.
LEMMA PrepareFailsKeeps ==
  ASSUME UpgradeInv, NEW p \in Proc, PrepareFails(p)
  PROVE  UpgradeInv'
  <1>0. Moved(p, "idle", NoCopy, "refuse")
    BY GiveUpMoves DEF PrepareFails, UpgradeInv
  <1>1. /\ At(p, "prepare") /\ UNCHANGED <<upgraded, partial, moved, synced, warned, lost, bare>>
        /\ backup' = IF procs[p].policy = "in_place" THEN backup ELSE NoCopy
    BY DEF PrepareFails
  <1>2. /\ procs[p].file \notin upgraded
        /\ procs[p].policy # "in_place" =>
             CopyOf(backup, procs[p].file) /\ \A q \in Proc \ {p} : ~BacksUp(q)
    BY <1>1 DEF UpgradeInv, BackupIsOwn, OneBacksUp, BacksUp, NotYetUpgraded, Working, At
  <1>3. UpgradeTypeOK'
    BY <1>0, <1>1, <1>2 DEF UpgradeInv, UpgradeTypeOK, Moved, At
  <1>4. OneHolder'
    BY <1>0, <1>1, <1>2 DEF UpgradeInv, OneHolder, HoldsFile, Moved, At
  <1>5. OneBacksUp'
    BY <1>0, <1>1, <1>2 DEF UpgradeInv, OneBacksUp, BacksUp, Moved, At
  <1>6. NotYetUpgraded'
    BY <1>0, <1>1, <1>2 DEF UpgradeInv, NotYetUpgraded, Working, Moved, At
  <1>7. PartialIsOwn'
    BY <1>0, <1>1, <1>2 DEF UpgradeInv, PartialIsOwn, Moved, At, BacksUp
  <1>8. BackupIsOwn'
    BY <1>0, <1>1, <1>2 DEF UpgradeInv, BackupIsOwn, At, CopyOf, Moved, BacksUp
  <1>9. BackupKept'
    BY <1>0, <1>1, <1>2 DEF UpgradeInv, BackupKept, CopyOf
  <1>10. WarningGiven'
    BY <1>0, <1>1, <1>2 DEF UpgradeInv, UpgradeTypeOK, WarningGiven, Moved, CopyOf, At
  <1> QED
    BY <1>3, <1>4, <1>5, <1>6, <1>7, <1>8, <1>9, <1>10 DEF UpgradeInv

\* A step to an earlier or a later one of the process alone, with the disk as it is.
LEMMA MoveKeeps ==
  ASSUME UpgradeInv, NEW p \in Proc,
         NEW step \in {"analyzed", "copy", "rename", "move", "sync", "prepare", "commit",
                       "reopen", "open"},
         Go(p, step), ~At(p, "idle"),
         UNCHANGED <<upgraded, backup, partial, moved, synced, warned, lost, bare>>,
         step \in {"prepare", "reopen", "open"},
         HoldsFile(p) \/ LockFree(procs[p].file) \/ step = "reopen",
         step = "prepare" => At(p, "analyzed") /\ procs[p].policy = "in_place"
  PROVE  UpgradeInv'
  <1>1. Moved(p, step, procs[p].file, procs[p].policy)
    BY GoMoves DEF UpgradeInv
  <1>2. UpgradeTypeOK'
    BY <1>1 DEF UpgradeInv, UpgradeTypeOK, Moved, At
  <1>3. OneHolder'
    BY <1>1 DEF UpgradeInv, OneHolder, HoldsFile, Moved, At, LockFree
  <1>4. OneBacksUp'
    BY <1>1 DEF UpgradeInv, OneBacksUp, BacksUp, Moved, At
  <1>5. NotYetUpgraded'
    BY <1>1 DEF UpgradeInv, NotYetUpgraded, Working, Moved, At
  <1>6. PartialIsOwn'
    BY <1>1 DEF UpgradeInv, PartialIsOwn, Moved, At, BacksUp
  <1>7. BackupIsOwn'
    BY <1>1 DEF UpgradeInv, BackupIsOwn, At, CopyOf, Moved, BacksUp
  <1>8. BackupKept'
    BY <1>1 DEF UpgradeInv, BackupKept, CopyOf
  <1>9. WarningGiven'
    BY <1>1 DEF UpgradeInv, UpgradeTypeOK, WarningGiven, Moved, CopyOf, At
  <1> QED
    BY <1>2, <1>3, <1>4, <1>5, <1>6, <1>7, <1>8, <1>9 DEF UpgradeInv

\* A partial copy is begun, when no other process makes a backup.
LEMMA CreateKeeps ==
  ASSUME UpgradeInv, NEW p \in Proc, CreatePartial(p)
  PROVE  UpgradeInv'
  <1>0. /\ At(p, "analyzed") /\ HoldsFile(p)
        /\ UNCHANGED <<upgraded, backup, moved, synced, warned, lost, bare>>
    BY DEF CreatePartial, At, HoldsFile
  <1>1. CASE procs[p].policy = "in_place"
    <2>1. Go(p, "prepare") /\ UNCHANGED partial /\ ~At(p, "idle")
      BY <1>0, <1>1 DEF CreatePartial, At
    <2> QED
      BY <1>0, <1>1, <2>1, MoveKeeps
  <1>2. CASE procs[p].policy # "in_place" /\ (backup # NoCopy \/ partial # NoCopy)
    BY <1>0, <1>2, GiveUpKeeps DEF CreatePartial
  <1>3. CASE procs[p].policy # "in_place" /\ backup = NoCopy /\ partial = NoCopy
    <2>1. /\ Moved(p, "copy", procs[p].file, procs[p].policy)
          /\ partial' = [of |-> procs[p].file, complete |-> FALSE]
      BY <1>3, GoMoves DEF CreatePartial, UpgradeInv
    <2>2. /\ partial' \in Copies /\ partial' # NoCopy
          /\ partial'.of = procs[p].file /\ ~partial'.complete
      <3>1. procs[p].file \in File
        BY <1>0 DEF UpgradeInv, UpgradeTypeOK, At
      <3>2. [of |-> procs[p].file, complete |-> FALSE] \in Copies
        BY <3>1 DEF Copies
      <3> QED
        BY <2>1, <3>2, FileAssumption DEF Copies
    <2>3. \A q \in Proc : ~BacksUp(q)
      BY <1>3 DEF UpgradeInv, PartialIsOwn, BackupIsOwn, BacksUp, CopyOf
    <2>4. UpgradeTypeOK'
      BY <1>0, <1>3, <2>1, <2>2, <2>3 DEF UpgradeInv, UpgradeTypeOK, Moved, At
    <2>5. OneHolder'
      BY <1>0, <1>3, <2>1, <2>2, <2>3 DEF UpgradeInv, OneHolder, HoldsFile, Moved, At
    <2>6. OneBacksUp'
      BY <1>0, <1>3, <2>1, <2>2, <2>3 DEF UpgradeInv, OneBacksUp, BacksUp, Moved, At
    <2>7. NotYetUpgraded'
      BY <1>0, <1>3, <2>1, <2>2, <2>3 DEF UpgradeInv, NotYetUpgraded, Working, Moved, At
    <2>8. PartialIsOwn'
      BY <1>0, <1>3, <2>1, <2>2, <2>3 DEF UpgradeInv, PartialIsOwn, Moved, At, BacksUp
    <2>9. BackupIsOwn'
      BY <1>0, <1>3, <2>1, <2>2, <2>3 DEF UpgradeInv, BackupIsOwn, At, CopyOf, Moved, BacksUp
    <2>10. BackupKept'
      BY <1>0, <1>3, <2>1, <2>2, <2>3 DEF UpgradeInv, BackupKept, CopyOf
    <2>11. WarningGiven'
      BY <1>0, <1>3, <2>1, <2>2, <2>3 DEF UpgradeInv, UpgradeTypeOK, WarningGiven, Moved, CopyOf, At
    <2> QED
      BY <2>4, <2>5, <2>6, <2>7, <2>8, <2>9, <2>10, <2>11 DEF UpgradeInv
  <1> QED
    BY <1>1, <1>2, <1>3

\* The copy is complete and the path of the backup is looked at again.
LEMMA CheckKeeps ==
  ASSUME UpgradeInv, NEW p \in Proc, CheckPath(p)
  PROVE  UpgradeInv'
  <1>1. /\ At(p, "rename") /\ backup = NoCopy
        /\ UNCHANGED <<upgraded, backup, moved, synced, warned, lost, bare>>
    BY DEF CheckPath, UpgradeInv, PartialIsOwn, At
  <1>2. UNCHANGED partial /\ Moved(p, "move", procs[p].file, procs[p].policy)
    BY <1>1, GoMoves DEF CheckPath, UpgradeInv
  <1>3. UpgradeTypeOK'
    BY <1>1, <1>2 DEF UpgradeInv, UpgradeTypeOK, Moved, At
  <1>4. OneHolder'
    BY <1>1, <1>2 DEF UpgradeInv, OneHolder, HoldsFile, Moved, At
  <1>5. OneBacksUp'
    BY <1>1, <1>2 DEF UpgradeInv, OneBacksUp, BacksUp, Moved, At
  <1>6. NotYetUpgraded'
    BY <1>1, <1>2 DEF UpgradeInv, NotYetUpgraded, Working, Moved, At
  <1>7. PartialIsOwn'
    BY <1>1, <1>2 DEF UpgradeInv, PartialIsOwn, Moved, At, BacksUp
  <1>8. BackupIsOwn'
    BY <1>1, <1>2 DEF UpgradeInv, BackupIsOwn, At, CopyOf, Moved, BacksUp
  <1>9. BackupKept'
    BY <1>1, <1>2 DEF UpgradeInv, BackupKept, CopyOf
  <1>10. WarningGiven'
    BY <1>1, <1>2 DEF UpgradeInv, UpgradeTypeOK, WarningGiven, Moved, CopyOf, At
  <1> QED
    BY <1>3, <1>4, <1>5, <1>6, <1>7, <1>8, <1>9, <1>10 DEF UpgradeInv

\* A file is opened, and closed again when it is an old one.
LEMMA OpenKeeps ==
  ASSUME UpgradeInv, NEW p \in Proc, NEW f \in File,
         NEW policy \in {"refuse", "backup", "in_place"}, OpenFile(p, f, policy)
  PROVE  UpgradeInv'
  <1> DEFINE dev == policy = "refuse" /\ old.schema > 0
             step == IF f \in upgraded THEN "open" ELSE "dropped"
  <1>1. LockFree(f) /\ UNCHANGED <<upgraded, backup, partial, moved, synced, warned, lost, bare>>
    BY DEF OpenFile
  <1>2. Moved(p, step, f, IF dev THEN "backup" ELSE policy) /\ step \in {"open", "dropped"}
    BY DEF OpenFile, UpgradeInv, UpgradeTypeOK, Moved
  <1> HIDE DEF step, dev
  <1>3. UpgradeTypeOK'
    BY <1>1, <1>2 DEF UpgradeInv, UpgradeTypeOK, Moved, At
  <1>4. OneHolder'
    BY <1>1, <1>2 DEF UpgradeInv, OneHolder, HoldsFile, Moved, At, LockFree
  <1>5. OneBacksUp'
    BY <1>1, <1>2 DEF UpgradeInv, OneBacksUp, BacksUp, Moved, At
  <1>6. NotYetUpgraded'
    BY <1>1, <1>2 DEF UpgradeInv, NotYetUpgraded, Working, Moved, At
  <1>7. PartialIsOwn'
    BY <1>1, <1>2 DEF UpgradeInv, PartialIsOwn, Moved, At, BacksUp
  <1>8. BackupIsOwn'
    BY <1>1, <1>2 DEF UpgradeInv, BackupIsOwn, At, CopyOf, Moved, BacksUp
  <1>9. BackupKept'
    BY <1>1, <1>2 DEF UpgradeInv, BackupKept, CopyOf
  <1>10. WarningGiven'
    BY <1>1, <1>2 DEF UpgradeInv, UpgradeTypeOK, WarningGiven, Moved, CopyOf, At
  <1> QED
    BY <1>3, <1>4, <1>5, <1>6, <1>7, <1>8, <1>9, <1>10 DEF UpgradeInv

\* The machine goes down, and a rename may be undone.
LEMMA PowerLossKeeps ==
  ASSUME UpgradeInv, PowerLoss
  PROVE  UpgradeInv'
  <1>1. /\ procs' = [p \in Proc |-> IdleProc] /\ UNCHANGED <<upgraded, moved, warned, lost, bare>>
        /\ \/ UNCHANGED <<backup, partial>> /\ synced' = TRUE
           \/ ~synced /\ synced' = TRUE /\ partial = NoCopy /\ partial' = backup /\ backup' = NoCopy
    BY DEF PowerLoss
  <1>2. \A p \in Proc : procs'[p] = [at |-> "idle", file |-> NoCopy, policy |-> "refuse"]
    BY <1>1 DEF IdleProc
  <1>3. UpgradeTypeOK'
    BY <1>1, <1>2 DEF UpgradeInv, UpgradeTypeOK, Moved, At, IdleProc
  <1>4. OneHolder'
    BY <1>1, <1>2 DEF UpgradeInv, OneHolder, HoldsFile, Moved, At
  <1>5. OneBacksUp'
    BY <1>1, <1>2 DEF UpgradeInv, OneBacksUp, BacksUp, Moved, At
  <1>6. NotYetUpgraded'
    BY <1>1, <1>2 DEF UpgradeInv, NotYetUpgraded, Working, Moved, At
  <1>7. PartialIsOwn'
    BY <1>1, <1>2 DEF UpgradeInv, PartialIsOwn, Moved, At, BacksUp
  <1>8. BackupIsOwn'
    BY <1>1, <1>2 DEF UpgradeInv, BackupIsOwn, At, CopyOf, Moved, BacksUp
  <1>9. BackupKept'
    BY <1>1, <1>2 DEF UpgradeInv, BackupKept, CopyOf
  <1>10. WarningGiven'
    BY <1>1, <1>2 DEF UpgradeInv, UpgradeTypeOK, WarningGiven, Moved, CopyOf, At
  <1> QED
    BY <1>3, <1>4, <1>5, <1>6, <1>7, <1>8, <1>9, <1>10 DEF UpgradeInv

\* The user takes the backup elsewhere: it is a complete one.
LEMMA MoveBackupKeeps ==
  ASSUME UpgradeInv, MoveBackup
  PROVE  UpgradeInv'
  <1>1. /\ NoUpgradeRuns /\ moved' = moved \union {backup.of} /\ backup' = NoCopy
        /\ synced' = TRUE /\ UNCHANGED <<upgraded, partial, warned, lost, procs, bare>>
    BY DEF MoveBackup, UpgradeInv, BackupKept
  <1>2. UpgradeTypeOK'
    BY <1>1 DEF UpgradeInv, UpgradeTypeOK, Moved, At
  <1>3. OneHolder'
    BY <1>1 DEF UpgradeInv, OneHolder, HoldsFile, Moved, At
  <1>4. OneBacksUp'
    BY <1>1 DEF UpgradeInv, OneBacksUp, BacksUp, Moved, At
  <1>5. NotYetUpgraded'
    BY <1>1 DEF UpgradeInv, NotYetUpgraded, Working, Moved, At
  <1>6. PartialIsOwn'
    BY <1>1 DEF UpgradeInv, PartialIsOwn, Moved, At, BacksUp, NoUpgradeRuns
  <1>7. BackupIsOwn'
    BY <1>1 DEF UpgradeInv, BackupIsOwn, At, CopyOf, Moved, BacksUp, NoUpgradeRuns
  <1>8. BackupKept'
    BY <1>1 DEF UpgradeInv, BackupKept, CopyOf
  <1>9. WarningGiven'
    BY <1>1 DEF UpgradeInv, UpgradeTypeOK, WarningGiven, Moved, CopyOf, At
  <1> QED
    BY <1>2, <1>3, <1>4, <1>5, <1>6, <1>7, <1>8, <1>9 DEF UpgradeInv

\* The user deletes a partial copy: the only one of a file, if its upgrade warned.
LEMMA DeleteKeeps ==
  ASSUME UpgradeInv, DeletePartial
  PROVE  UpgradeInv'
  <1>1. /\ NoUpgradeRuns /\ partial # NoCopy /\ partial' = NoCopy
        /\ UNCHANGED <<upgraded, backup, moved, synced, warned, procs, bare>>
        /\ lost' = IF partial.complete /\ partial.of \in upgraded \ (bare \union moved)
                     THEN lost \union {partial.of} ELSE lost
    BY DEF DeletePartial
  <1>2. UpgradeTypeOK'
    BY <1>1 DEF UpgradeInv, UpgradeTypeOK, Moved, At
  <1>3. OneHolder'
    BY <1>1 DEF UpgradeInv, OneHolder, HoldsFile, Moved, At
  <1>4. OneBacksUp'
    BY <1>1 DEF UpgradeInv, OneBacksUp, BacksUp, Moved, At
  <1>5. NotYetUpgraded'
    BY <1>1 DEF UpgradeInv, NotYetUpgraded, Working, Moved, At
  <1>6. PartialIsOwn'
    BY <1>1 DEF UpgradeInv, PartialIsOwn, Moved, At, BacksUp, NoUpgradeRuns
  <1>7. BackupIsOwn'
    BY <1>1 DEF UpgradeInv, BackupIsOwn, At, CopyOf, Moved, BacksUp, NoUpgradeRuns
  <1>8. BackupKept'
    BY <1>1 DEF UpgradeInv, UpgradeTypeOK, WarningGiven, BackupKept, CopyOf
  <1>9. WarningGiven'
    BY <1>1 DEF UpgradeInv, UpgradeTypeOK, WarningGiven, Moved, CopyOf, At
  <1> QED
    BY <1>2, <1>3, <1>4, <1>5, <1>6, <1>7, <1>8, <1>9 DEF UpgradeInv

\* The run turns to the use of a file: no process is left in an upgrade.
LEMMA UseKeeps ==
  ASSUME UpgradeInv, NEW p \in Proc, Use(p)
  PROVE  UpgradeInv'
  <1>1. /\ procs' = [q \in Proc |-> IdleProc] /\ backup' = NoCopy /\ partial' = NoCopy
        /\ upgraded' = bare' /\ lost' = {} /\ warned' = {}
    BY DEF Use
  <1>2. \A q \in Proc : procs'[q] = [at |-> "idle", file |-> NoCopy, policy |-> "refuse"]
    BY <1>1 DEF IdleProc
  <1>3. UpgradeTypeOK'
    BY <1>1, <1>2 DEF UpgradeInv, UpgradeTypeOK, Moved, At, IdleProc
  <1>4. OneHolder'
    BY <1>1, <1>2 DEF UpgradeInv, OneHolder, HoldsFile, Moved, At
  <1>5. OneBacksUp'
    BY <1>1, <1>2 DEF UpgradeInv, OneBacksUp, BacksUp, Moved, At
  <1>6. NotYetUpgraded'
    BY <1>1, <1>2 DEF UpgradeInv, NotYetUpgraded, Working, Moved, At
  <1>7. PartialIsOwn'
    BY <1>1, <1>2 DEF UpgradeInv, PartialIsOwn, Moved, At, BacksUp
  <1>8. BackupIsOwn'
    BY <1>1, <1>2 DEF UpgradeInv, BackupIsOwn, At, CopyOf, Moved, BacksUp
  <1>9. BackupKept'
    BY <1>1, <1>2 DEF UpgradeInv, BackupKept, CopyOf
  <1>10. WarningGiven'
    BY <1>1, <1>2 DEF UpgradeInv, UpgradeTypeOK, WarningGiven, Moved, CopyOf, At
  <1> QED
    BY <1>3, <1>4, <1>5, <1>6, <1>7, <1>8, <1>9, <1>10 DEF UpgradeInv

----------------------------------------------------------------------------
(* The theorem *)

LEMMA UpgradeInvInit ==
  ASSUME FileInit
  PROVE  UpgradeInv
  <1>1. /\ upgraded = {} /\ lost = {} /\ backup = NoCopy /\ partial = NoCopy
        /\ procs = [p \in Proc |-> [at |-> "idle", file |-> NoCopy, policy |-> "refuse"]]
    BY DEF FileInit, IdleProc
  <1>2. UpgradeTypeOK
    BY <1>1 DEF UpgradeTypeOK, At
  <1>3. OneHolder
    BY <1>1 DEF OneHolder, HoldsFile
  <1>4. OneBacksUp
    BY <1>1 DEF OneBacksUp, BacksUp
  <1>5. NotYetUpgraded
    BY <1>1 DEF NotYetUpgraded, Working
  <1>6. PartialIsOwn
    BY <1>1 DEF PartialIsOwn
  <1>7. BackupIsOwn
    BY <1>1 DEF BackupIsOwn, At
  <1>8. BackupKept
    BY <1>1 DEF BackupKept
  <1>9. WarningGiven
    BY <1>1 DEF WarningGiven
  <1> QED
    BY <1>2, <1>3, <1>4, <1>5, <1>6, <1>7, <1>8, <1>9 DEF UpgradeInv

\* What is not a step of the upgrade leaves its variables alone.
LEMMA StutterKeeps ==
  ASSUME UpgradeInv, UNCHANGED upgradeVars
  PROVE  UpgradeInv'
  BY DEF upgradeVars, UpgradeInv, UpgradeTypeOK, OneHolder, OneBacksUp, NotYetUpgraded,
         PartialIsOwn, BackupIsOwn, WarningGiven, BackupKept, HoldsFile, BacksUp, Working, At, CopyOf

LEMMA UpgradeInvNext ==
  ASSUME UpgradeInv, [FileNext]_vars
  PROVE  UpgradeInv'
  <1>1. ASSUME NEW p \in Proc, Reopen(p)
        PROVE  UpgradeInv'
    <2>1. /\ At(p, "reopen")
          /\ UNCHANGED <<upgraded, backup, partial, moved, synced, warned, lost, bare>>
      BY <1>1 DEF Reopen
    <2>2. CASE LockFree(procs[p].file)
      <3>1. Go(p, "open") /\ ~At(p, "idle")
        BY <1>1, <2>1, <2>2 DEF Reopen, At
      <3> QED
        BY <2>1, <2>2, <3>1, MoveKeeps
    <2>3. CASE ~LockFree(procs[p].file)
      BY <1>1, <2>1, <2>3, GiveUpKeeps DEF Reopen
    <2> QED
      BY <2>2, <2>3
  <1>2. ASSUME NEW p \in Proc, UpgradeStep(p)
        PROVE  UpgradeInv'
    BY <1>1, <1>2, AnalyzeKeeps, CreateKeeps, CopyKeeps, CheckKeeps, RenameKeeps, SyncKeeps,
       PrepareKeeps, CommitKeeps DEF UpgradeStep
  <1>3. ASSUME NEW p \in Proc, Kill(p)
        PROVE  UpgradeInv'
    BY <1>3, GiveUpKeeps DEF Kill
  <1>4. ASSUME NEW p \in Proc, Failures(p)
        PROVE  UpgradeInv'
    BY <1>3, <1>4, BackupFailsKeeps, PrepareFailsKeeps, CommitFailsKeeps DEF Failures
  <1>5. CASE UNCHANGED vars
    BY <1>5, StutterKeeps DEF vars
  <1>6. CASE live /\ Writes /\ UNCHANGED <<upgradeVars, live>>
    BY <1>6, StutterKeeps
  <1> QED
    BY <1>2, <1>4, <1>5, <1>6, OpenKeeps, PowerLossKeeps, MoveBackupKeeps, DeleteKeeps, UseKeeps
    DEF FileNext

\* upgrade.rs: "the file is upgraded with a complete copy of it left behind".  With
\* any number of processes that upgrade files with a backup at the same path, any
\* number of failures and crashes, and a user who does what the errors say, there is
\* a complete copy of each file upgraded with a backup: at the path, at its partial
\* name, or where the user has put it.  The one exception is a file whose directory
\* could not be synced: the user can be told to delete that copy.
THEOREM BackupIsKept == FileSpec => []BackupKept
  <1>1. FileInit => UpgradeInv
    BY UpgradeInvInit
  <1>2. UpgradeInv /\ [FileNext]_vars => UpgradeInv'
    BY UpgradeInvNext
  <1>3. UpgradeInv => BackupKept
    BY DEF UpgradeInv
  <1> QED
    BY <1>1, <1>2, <1>3, PTL DEF FileSpec
=============================================================================
