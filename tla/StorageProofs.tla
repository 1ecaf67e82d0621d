---------------------------- MODULE StorageProofs ----------------------------
(***************************************************************************)
(* Proofs about Storage for any number of uploads: a restore with a        *)
(* snapshot loses nothing wherever it stops, and one that ends well brings *)
(* back what the backup was made of.                                       *)
(***************************************************************************)
EXTENDS Storage, TLAPS

Pair == Nat \X Nat

Archived == [exists : BOOLEAN, complete : BOOLEAN, db : Pair, files : Nat, of : Pair]

Making    == {"db1", "db2", "files", "close"}
Preparing == {"remove", "open"} \cup Making
Putting   == {"put1", "put2", "putFiles"}
Replacing == {"check", "delete", "extract"} \cup Putting

Command ==
    [kind : {"none", "backup", "restore"}, step : {""} \cup Preparing \cup Replacing, to : Archive]

\* Shapes, and which command is at which step on which archive.
TypeInv ==
    /\ inside \in BOOLEAN
    /\ app \in {"up", "down"}
    /\ main \in Pair
    /\ wal \in Nat /\ merging \in Nat /\ files \in Nat /\ clock \in Nat
    /\ root \in BOOLEAN
    /\ arch \in [Archive -> Archived]
    /\ cmd \in Command
    /\ restored \in Pair /\ kept \in Pair
    /\ cmd.kind = "none" => cmd.step = ""
    /\ cmd.kind = "backup" => cmd.to = "backup" /\ cmd.step \in Preparing
    /\ cmd.kind = "restore" =>
          cmd.to = "snapshot" /\ cmd.step \in Preparing \cup Replacing /\ app = "down"

InPlace    == main = <<kept[1], kept[1]>> /\ wal = 0 /\ files = kept[2]
InSnapshot ==
    /\ arch["snapshot"].complete
    /\ arch["snapshot"].db = <<kept[1], kept[1]>>
    /\ arch["snapshot"].files = kept[2]

\* NothingLost, and how far the snapshot has got: until it is complete nothing
\* is touched, and what is deleted is in it.
LossInv ==
    kept # Nothing =>
        /\ app = "down" /\ cmd.kind # "backup"
        /\ InPlace \/ InSnapshot
        /\ cmd.step \in Preparing => InPlace
        /\ cmd.step = "db2" => arch["snapshot"].db[1] = kept[1]
        /\ cmd.step \in {"files", "close"} => arch["snapshot"].db = <<kept[1], kept[1]>>
        /\ cmd.step = "close" => arch["snapshot"].files = kept[2]
        /\ cmd.step \in Replacing => InSnapshot

\* With the database below the data directory, an empty one has no log either.
BareInv == ~root => app = "down" /\ files = 0 /\ (inside => main = Nothing /\ wal = 0)

\* Stopped in order, and never started since.
LogInv == orderly => app = "down" /\ wal = 0

\* How far a restore has got.
PutInv ==
    LET b == arch["backup"] IN
    /\ cmd.step = "extract" => ~root
    /\ cmd.step \in Putting => root /\ (inside => wal = 0) /\ b.complete
    /\ cmd.step = "put2" => main[1] = b.db[1]
    /\ cmd.step = "putFiles" => main = b.db

\* A backup that looks complete is, and how far one that is made has got.
BackupInv ==
    LET b  == arch["backup"]
        db == <<b.of[1], b.of[1]>>
    IN  b.of # Nothing =>
            /\ b.complete => b.db = db /\ b.files = b.of[2]
            /\ cmd.kind = "backup" /\ cmd.step \in Making =>
                  /\ app = "down" /\ wal = 0 /\ main = db /\ files = b.of[2]
                  /\ ~b.complete
                  /\ cmd.step = "db2" => b.db[1] = b.of[1]
                  /\ cmd.step \in {"files", "close"} => b.db = db
                  /\ cmd.step = "close" => b.files = b.of[2]

\* RoundTrip, and nothing happens without ending the promise.
DoneInv == RoundTrip /\ (restored # Nothing => app = "down" /\ cmd.kind = "none")

TripInv == BareInv /\ LogInv /\ PutInv /\ BackupInv /\ DoneInv

-----------------------------------------------------------------------------
(* Initial states.                                                         *)

\* At the start nothing is stored, promised or under way.
LEMMA InitInv == Init => TypeInv /\ LossInv /\ TripInv
<1> SUFFICES ASSUME Init PROVE TypeInv /\ LossInv /\ TripInv
    OBVIOUS
<1>1. /\ Nothing \in Pair
      /\ NoArchive \in Archived
      /\ NoCmd \in Command
    BY DEF Pair, Nothing, NoArchive, Archived, NoCmd, Command, Archive
<1>2. TypeInv
    BY <1>1 DEF Init, TypeInv, NoCmd
<1>3. LossInv
    BY DEF Init, LossInv
<1>4. TripInv
    BY DEF Init, TripInv, BareInv, LogInv, PutInv, BackupInv, DoneInv, RoundTrip, NoArchive, NoCmd,
           Putting, Archive, Nothing
<1>. QED
    BY <1>2, <1>3, <1>4

-----------------------------------------------------------------------------
(* Shapes are kept.                                                        *)

\* Every step keeps the shapes, and every command its steps.
LEMMA TypeStep == TypeInv /\ [Next]_vars => TypeInv'
<1> SUFFICES ASSUME TypeInv, [Next]_vars PROVE TypeInv'
    OBVIOUS
<1>a. \A n \in Nat : n + 1 \in Nat
    OBVIOUS
<1> USE DEF TypeInv
<1>0. /\ Nothing \in Pair /\ NoArchive \in Archived /\ Committed \in Nat
      /\ NoCmd \in Command /\ NoCmd.kind = "none" /\ NoCmd.step = ""
    BY DEF Pair, Nothing, NoArchive, Archived, NoCmd, Command, Archive, Committed
<1>1. CASE Start
  <2>1. \A a \in Archive : [arch[a] EXCEPT !.of = Nothing] \in Archived
      BY <1>0 DEF Archived
  <2>2. arch' \in [Archive -> Archived]
      BY <1>1, <2>1 DEF Start
  <2>3. main' \in Pair
      BY <1>1 DEF Start, Pair
  <2>. QED
      BY <1>0, <1>1, <2>2, <2>3 DEF Start
<1>2. CASE StoreFiles
  <2>1. clock \in Nat /\ clock' = clock + 1 /\ files' = clock + 1
      BY <1>2 DEF StoreFiles
  <2>2. clock' \in Nat /\ files' \in Nat
      BY <1>a, <2>1
  <2>3. UNCHANGED <<inside, app, main, wal, merging, root, arch, cmd, restored, kept>>
      BY <1>2 DEF StoreFiles
  <2>. QED
      BY <2>2, <2>3
<1>3. CASE Commit
    BY <1>3 DEF Commit, appVars
<1>4. CASE BeginCheckpoint
    BY <1>4 DEF BeginCheckpoint, Pair
<1>5. CASE EndCheckpoint
    BY <1>5 DEF EndCheckpoint, Pair
<1>6. CASE Shutdown
    BY <1>0, <1>6 DEF Shutdown, Closed, Pair
<1>7. CASE Kill
    BY <1>7 DEF Kill, live
<1>8. CASE BeginBackup
    BY <1>0, <1>8 DEF BeginBackup, appVars, live, NoCmd, Command, Archive, Preparing
<1>9. ASSUME NEW snapshot \in BOOLEAN, BeginRestore(snapshot)
      PROVE  TypeInv'
    BY <1>0, <1>9 DEF BeginRestore, appVars, live, Command, Archive, Preparing, Replacing, Pair
<1>10. CASE RemoveArchive
    BY <1>0, <1>10 DEF RemoveArchive, appVars, live, Goto, Command, Preparing, Replacing, Archive
<1>11. CASE OpenArchive
  <2>1. cmd.to \in Archive /\ cmd.kind # "none" /\ cmd.step = "open"
      BY <1>11 DEF OpenArchive, Command
  <2>2. CASE arch[cmd.to].exists
      BY <1>0, <1>11, <2>2 DEF OpenArchive, Refused, End, appVars, live
  <2>3. CASE ~arch[cmd.to].exists
    <3>1. [NoArchive EXCEPT !.exists = TRUE, !.of = IF Calm THEN <<Committed, files>> ELSE Nothing]
             \in Archived
        BY <1>0 DEF NoArchive, Archived, Pair
    <3>2. arch' \in [Archive -> Archived]
        BY <1>11, <2>1, <2>3, <3>1 DEF OpenArchive
    <3>3. cmd' = [cmd EXCEPT !.step = "db1"]
        BY <1>11, <2>3 DEF OpenArchive, Goto
    <3>. QED
        BY <1>11, <2>1, <3>2, <3>3 DEF OpenArchive, appVars, live, Command, Preparing, Making
  <2>. QED
      BY <2>2, <2>3
<1>12. CASE ArchiveDb1 \/ ArchiveDb2
  <2>1. PICK copy \in Pair, next \in {"db2", "files"} : cmd.step \in Making /\ ArchiveDb(copy, next)
    <3>1. arch[cmd.to].db \in Pair
        BY DEF Command, Archived
    <3>. QED
        BY <1>12, <3>1 DEF ArchiveDb1, ArchiveDb2, Pair, Making
  <2>2. cmd.to \in Archive /\ cmd.kind # "none"
      BY <2>1 DEF Command, Making
  <2>3. [arch[cmd.to] EXCEPT !.db = copy] \in Archived
      BY <2>1, <2>2 DEF Archived
  <2>4. arch' \in [Archive -> Archived]
      BY <2>1, <2>2, <2>3 DEF ArchiveDb
  <2>. QED
      BY <2>1, <2>2, <2>4 DEF ArchiveDb, Goto, appVars, live, Command, Preparing, Making
<1>13. CASE ArchiveFiles
    BY <1>13
    DEF ArchiveFiles, appVars, live, Goto, Command, Preparing, Making, Replacing, Archive, Archived
<1>14. CASE CloseArchive
  <2>1. cmd.to \in Archive /\ cmd.kind # "none" /\ cmd.step = "close"
      BY <1>14 DEF CloseArchive, Command
  <2>2. [arch[cmd.to] EXCEPT !.complete = TRUE] \in Archived
      BY <2>1 DEF Archived
  <2>3. arch' \in [Archive -> Archived]
      BY <1>14, <2>1, <2>2 DEF CloseArchive
  <2>4. CASE cmd.kind = "backup"
      BY <1>0, <1>14, <2>3, <2>4 DEF CloseArchive, End, appVars, live
  <2>5. CASE cmd.kind # "backup"
    <3>1. cmd' = [cmd EXCEPT !.step = "check"]
        BY <1>14, <2>5 DEF CloseArchive, Goto
    <3>. QED
        BY <1>14, <2>1, <2>3, <2>5, <3>1 DEF CloseArchive, appVars, live, Command, Replacing
  <2>. QED
      BY <2>4, <2>5
<1>15. CASE Check
  <2>1. cmd' = NoCmd \/ cmd' = [cmd EXCEPT !.step = "extract"] \/ cmd' = [cmd EXCEPT !.step = "delete"]
      BY <1>15 DEF Check, End, Goto
  <2>2. cmd' \in Command /\ (cmd'.kind = "none" \/ cmd'.kind = cmd.kind)
      BY <1>0, <2>1 DEF Command, Preparing, Making, Replacing
  <2>. QED
      BY <1>0, <1>15, <2>1, <2>2 DEF Check, appVars, live, Command, Preparing, Making, Replacing, Putting
<1>16. CASE Delete
    BY <1>0, <1>16, StorageAssumption
    DEF Delete, DeleteData, appVars, Goto, Command, Preparing, Making, Replacing
<1>17. CASE Extract
    BY <1>0, <1>17
    DEF Extract, End, appVars, live, Goto, Command, Preparing, Making, Replacing, Putting
<1>18. CASE PutDb1 \/ PutDb2
  <2>1. PICK copy \in Pair, next \in Putting : cmd.step \in Putting /\ PutDb(copy, next)
    <3>1. arch["backup"].db \in Pair
        BY DEF Archive, Archived
    <3>. QED
        BY <1>18, <3>1 DEF PutDb1, PutDb2, Pair, Putting
  <2>2. cmd.kind = "restore"
      BY <2>1 DEF Command, Putting, Preparing, Making
  <2>. QED
      BY <2>1, <2>2 DEF PutDb, Goto, appVars, Command, Replacing, Putting
<1>19. CASE PutFiles
    BY <1>0, <1>19 DEF PutFiles, End, appVars, Archive, Archived
<1>20. CASE Interrupt
  <2>1. [arch[cmd.to] EXCEPT !.complete = TRUE, !.of = Nothing] \in Archived
      BY <1>0 DEF Archived, Command
  <2>2. arch' \in [Archive -> Archived]
      BY <1>20, <2>1 DEF Interrupt
  <2>. QED
      BY <1>0, <1>20, <2>2 DEF Interrupt, End, appVars, live
<1>21. CASE UNCHANGED vars
    BY <1>21 DEF vars, appVars, live
<1>. QED
    BY <1>1, <1>2, <1>3, <1>4, <1>5, <1>6, <1>7, <1>8, <1>9, <1>10, <1>11, <1>12, <1>13,
       <1>14, <1>15, <1>16, <1>17, <1>18, <1>19, <1>20, <1>21
    DEF Next

\* The record of no command, field by field.
LEMMA NoCmdFields == NoCmd.kind = "none" /\ NoCmd.step = ""
BY DEF NoCmd

-----------------------------------------------------------------------------
(* Nothing is lost.                                                        *)

\* The application stands still, or there is nothing to be lost.
LEMMA LossApp ==
    ASSUME TypeInv, LossInv,
           Start \/ StoreFiles \/ Commit \/ BeginCheckpoint \/ EndCheckpoint \/ Shutdown \/ Kill
    PROVE  LossInv'
<1>1. CASE Start
    BY <1>1 DEF Start, LossInv
<1>2. CASE StoreFiles \/ Commit \/ BeginCheckpoint \/ EndCheckpoint \/ Shutdown \/ Kill
  <2>1. app = "up" /\ kept' = kept
      BY <1>2 DEF StoreFiles, Commit, BeginCheckpoint, EndCheckpoint, Shutdown, Kill
  <2>2. kept' = Nothing
      BY <2>1 DEF LossInv
  <2>. QED
      BY <2>2 DEF LossInv, Nothing
<1>. QED
    BY <1>1, <1>2

\* A restore with a snapshot promises what is in place; any other command ends
\* the promise.
LEMMA LossBegin ==
    ASSUME TypeInv,
           \/ BeginBackup
           \/ \E snapshot \in BOOLEAN : BeginRestore(snapshot)
    PROVE  LossInv'
<1>1. CASE BeginBackup
    BY <1>1 DEF BeginBackup, LossInv, Nothing
<1>2. ASSUME NEW snapshot \in BOOLEAN, BeginRestore(snapshot)
      PROVE  LossInv'
  <2>1. CASE snapshot /\ Calm
    <3>1. kept' = <<main[1], files>> /\ main' = <<main[1], main[1]>> /\ wal' = 0 /\ files' = files
      <4>1. wal = 0 /\ main[1] = main[2] /\ main = <<main[1], main[2]>>
        <5>1. main \in Pair
            BY DEF TypeInv
        <5>. QED
            BY <2>1, <5>1 DEF Calm, Pair
      <4>2. kept' = <<Committed, files>> /\ UNCHANGED <<main, wal, files>>
          BY <1>2, <2>1 DEF BeginRestore, live
      <4>. QED
          BY <4>1, <4>2 DEF Committed
    <3>2. app' = "down" /\ cmd'.kind = "restore" /\ cmd'.step = "remove"
        BY <1>2, <2>1 DEF BeginRestore, appVars
    <3>. QED
        BY <3>1, <3>2 DEF LossInv, InPlace, Replacing, Putting
  <2>2. CASE ~(snapshot /\ Calm)
      BY <1>2, <2>2 DEF BeginRestore, LossInv, Nothing
  <2>. QED
      BY <2>1, <2>2
<1>. QED
    BY <1>1, <1>2

\* While the snapshot is made nothing else changes.
LEMMA LossMaking ==
    ASSUME TypeInv, LossInv,
           RemoveArchive \/ OpenArchive \/ ArchiveDb1 \/ ArchiveDb2 \/ ArchiveFiles \/ CloseArchive
    PROVE  LossInv'
<1> SUFFICES ASSUME kept # Nothing PROVE LossInv'
  <2>1. kept' = kept
      BY DEF RemoveArchive, OpenArchive, ArchiveDb1, ArchiveDb2, ArchiveDb, ArchiveFiles, CloseArchive
  <2>. QED
      BY <2>1 DEF LossInv, Nothing
<1>1. /\ UNCHANGED <<app, main, wal, files, kept>>
      /\ cmd.step \in Preparing
      /\ app = "down" /\ InPlace
    BY DEF RemoveArchive, OpenArchive, ArchiveDb1, ArchiveDb2, ArchiveDb, ArchiveFiles,
           CloseArchive, appVars, live, LossInv, Preparing, Making
<1>2. cmd.kind = "restore" /\ cmd.to = "snapshot" /\ cmd.to \in Archive
    BY <1>1 DEF TypeInv, Command, LossInv, Archive, Preparing, Making
<1>3. InPlace' /\ app' = "down"
    BY <1>1 DEF InPlace
<1>4. CASE RemoveArchive
    BY <1>1, <1>2, <1>3, <1>4 DEF RemoveArchive, Goto, LossInv, TypeInv, Command, Replacing, Putting
<1>5. CASE OpenArchive
  <2>1. cmd'.kind # "backup" /\ cmd'.step \in {"", "db1"}
    <3>1. cmd' = NoCmd \/ cmd' = [cmd EXCEPT !.step = "db1"]
        BY <1>5 DEF OpenArchive, Refused, End, Goto
    <3>2. cmd \in Command
        BY DEF TypeInv
    <3>3. CASE cmd' = NoCmd
        BY <3>3, NoCmdFields
    <3>4. CASE cmd' = [cmd EXCEPT !.step = "db1"]
        BY <1>2, <3>2, <3>4 DEF Command
    <3>. QED
        BY <3>1, <3>3, <3>4
  <2>. QED
      BY <1>3, <2>1 DEF LossInv, Replacing, Putting
<1>6. CASE ArchiveDb1
  <2>1. cmd'.kind # "backup" /\ cmd'.step = "db2"
      BY <1>2, <1>6 DEF ArchiveDb1, ArchiveDb, Goto, TypeInv, Command
  <2>2. arch'["snapshot"].db = <<kept[1], 0>>
      BY <1>1, <1>2, <1>6 DEF ArchiveDb1, ArchiveDb, InPlace, TypeInv, Archived
  <2>. QED
      BY <1>1, <1>3, <2>1, <2>2 DEF LossInv, Replacing, Putting
<1>7. CASE ArchiveDb2
  <2>1. cmd'.kind # "backup" /\ cmd'.step = "files"
      BY <1>2, <1>7 DEF ArchiveDb2, ArchiveDb, Goto, TypeInv, Command
  <2>2. arch["snapshot"].db[1] = kept[1]
      BY <1>7 DEF ArchiveDb2, LossInv
  <2>3. arch'["snapshot"].db = <<kept[1], kept[1]>>
      BY <1>1, <1>2, <1>7, <2>2 DEF ArchiveDb2, ArchiveDb, InPlace, TypeInv, Archived
  <2>. QED
      BY <1>1, <1>3, <2>1, <2>3 DEF LossInv, Replacing, Putting
<1>8. CASE ArchiveFiles
  <2>1. cmd'.kind # "backup" /\ cmd'.step = "close"
      BY <1>2, <1>8 DEF ArchiveFiles, Goto, TypeInv, Command
  <2>2. arch["snapshot"].db = <<kept[1], kept[1]>>
      BY <1>8 DEF ArchiveFiles, LossInv
  <2>3. arch'["snapshot"].db = <<kept[1], kept[1]>> /\ arch'["snapshot"].files = kept[2]
      BY <1>1, <1>2, <1>8, <2>2 DEF ArchiveFiles, InPlace, TypeInv, Archived
  <2>. QED
      BY <1>1, <1>3, <2>1, <2>3 DEF LossInv, Replacing, Putting
<1>9. CASE CloseArchive
  <2>1. cmd'.kind # "backup" /\ cmd'.step = "check"
      BY <1>2, <1>9 DEF CloseArchive, Goto, TypeInv, Command
  <2>2. arch["snapshot"].db = <<kept[1], kept[1]>> /\ arch["snapshot"].files = kept[2]
      BY <1>9 DEF CloseArchive, LossInv
  <2>3. InSnapshot'
      BY <1>1, <1>2, <1>9, <2>2 DEF CloseArchive, InSnapshot, TypeInv, Archived
  <2>. QED
      BY <1>1, <1>3, <2>1, <2>3 DEF LossInv, Preparing, Making
<1>. QED
    BY <1>4, <1>5, <1>6, <1>7, <1>8, <1>9

\* What is replaced is in the snapshot, which no step of this part writes.
LEMMA LossReplacing ==
    ASSUME TypeInv, LossInv,
           Check \/ Delete \/ Extract \/ PutDb1 \/ PutDb2 \/ PutFiles
    PROVE  LossInv'
<1> SUFFICES ASSUME kept # Nothing PROVE LossInv'
  <2>1. kept' = kept
      BY DEF Check, Delete, Extract, PutDb1, PutDb2, PutDb, PutFiles
  <2>. QED
      BY <2>1 DEF LossInv, Nothing
<1>1. /\ UNCHANGED <<app, arch, kept>>
      /\ cmd.step \in Replacing
      /\ app = "down" /\ cmd.kind # "backup" /\ InSnapshot
    BY DEF Check, Delete, Extract, PutDb1, PutDb2, PutDb, PutFiles, appVars, live, LossInv,
           Replacing, Putting
<1>2. InSnapshot' /\ app' = "down"
    BY <1>1 DEF InSnapshot
<1>3. cmd'.kind # "backup" /\ cmd'.step \in {""} \cup Replacing
  <2>1. cmd' = NoCmd \/ \E step \in Replacing : cmd' = [cmd EXCEPT !.step = step]
      BY DEF Check, Delete, Extract, PutDb1, PutDb2, PutDb, PutFiles, End, Goto, Replacing, Putting
  <2>2. cmd \in Command
      BY DEF TypeInv
  <2>3. CASE cmd' = NoCmd
      BY <2>3, NoCmdFields
  <2>4. ASSUME NEW step \in Replacing, cmd' = [cmd EXCEPT !.step = step]
        PROVE  cmd'.kind # "backup" /\ cmd'.step \in Replacing
      BY <1>1, <2>2, <2>4 DEF Command
  <2>. QED
      BY <2>1, <2>3, <2>4
<1>. QED
    BY <1>2, <1>3 DEF LossInv, Replacing, Putting, Preparing, Making

\* An interrupted command leaves in place, or in the snapshot, what was there.
LEMMA LossInterrupt ==
    ASSUME TypeInv, LossInv, Interrupt
    PROVE  LossInv'
<1> SUFFICES ASSUME kept # Nothing PROVE LossInv'
    BY DEF Interrupt, LossInv, Nothing
<1>1. UNCHANGED <<app, main, wal, files, kept>> /\ cmd' = NoCmd
    BY DEF Interrupt, End, appVars, live
<1>2. InPlace => InPlace'
    BY <1>1 DEF InPlace
<1>3. InSnapshot /\ arch' = arch => InSnapshot'
    BY <1>1 DEF InSnapshot
<1>4. arch' = arch \/ InPlace
    BY DEF Interrupt, LossInv, Preparing, Making
<1>. QED
    BY <1>1, <1>2, <1>3, <1>4 DEF LossInv, NoCmd, Preparing, Making, Replacing, Putting

\* Every step keeps what was there in place or in the snapshot.
LEMMA LossStep == TypeInv /\ LossInv /\ [Next]_vars => LossInv'
<1>1. ASSUME LossInv, UNCHANGED vars PROVE LossInv'
    BY <1>1 DEF vars, appVars, live, LossInv, InPlace, InSnapshot
<1>. QED
    BY <1>1, LossApp, LossBegin, LossMaking, LossReplacing, LossInterrupt DEF Next

\* From the moment a restore with a pre-restore snapshot begins, what was
\* stored before is in place or complete in the snapshot: for every number of
\* uploads and wherever the database is.
THEOREM StorageNothingLost == Spec => []NothingLost
<1>1. Init => TypeInv /\ LossInv
    BY InitInv
<1>2. TypeInv /\ LossInv /\ [Next]_vars => (TypeInv /\ LossInv)'
    BY TypeStep, LossStep
<1>3. LossInv => NothingLost
    BY DEF LossInv, NothingLost, InPlace, InSnapshot
<1>. QED
    BY <1>1, <1>2, <1>3, PTL DEF Spec

-----------------------------------------------------------------------------
(* A restore that ends well brings back what the backup was made of.       *)

\* The steps of the running application.
AppStep == StoreFiles \/ Commit \/ BeginCheckpoint \/ EndCheckpoint \/ Shutdown \/ Kill

BeginStep ==
    \/ BeginBackup
    \/ \E snapshot \in BOOLEAN : BeginRestore(snapshot)

MakeStep == RemoveArchive \/ OpenArchive \/ ArchiveDb1 \/ ArchiveDb2 \/ ArchiveFiles \/ CloseArchive

ReplaceStep == Check \/ Delete \/ Extract \/ PutDb1 \/ PutDb2 \/ PutFiles

\* The groups of actions are all there are.
LEMMA AllSteps == Next <=> Start \/ AppStep \/ BeginStep \/ MakeStep \/ ReplaceStep \/ Interrupt
BY DEF Next, AppStep, BeginStep, MakeStep, ReplaceStep

\* The application touches no archive and no command.
LEMMA AppStepFrame == AppStep => app = "up" /\ UNCHANGED <<root, arch, cmd, restored>>
BY DEF AppStep, StoreFiles, Commit, BeginCheckpoint, EndCheckpoint, Shutdown, Kill, live

\* To begin a command ends the promise of the last restore and moves nothing
\* else.
LEMMA BeginStepFrame ==
    BeginStep => /\ UNCHANGED <<inside, app, main, wal, files, root, arch>>
                 /\ restored' = Nothing
                 /\ cmd'.step \in {"remove", "check"}
<1>1. ASSUME BeginBackup
      PROVE  /\ UNCHANGED <<inside, app, main, wal, files, root, arch>>
             /\ restored' = Nothing
             /\ cmd'.step \in {"remove", "check"}
    BY <1>1 DEF BeginBackup, NoCmd, appVars, live
<1>2. ASSUME NEW snapshot \in BOOLEAN, BeginRestore(snapshot)
      PROVE  /\ UNCHANGED <<inside, app, main, wal, files, root, arch>>
             /\ restored' = Nothing
             /\ cmd'.step \in {"remove", "check"}
    BY <1>2 DEF BeginRestore, appVars, live
<1>. QED
    BY <1>1, <1>2 DEF BeginStep

\* A step that makes an archive moves only that archive and the command.
LEMMA MakeStepFrame ==
    TypeInv /\ MakeStep =>
        /\ UNCHANGED <<inside, app, main, wal, files, restored>>
        /\ cmd.kind # "none" /\ cmd.to \in Archive
        /\ cmd'.step \in {"", "check"} \cup Preparing
        /\ root' \in {root, TRUE}
<1> SUFFICES ASSUME TypeInv, MakeStep
             PROVE  /\ UNCHANGED <<inside, app, main, wal, files, restored>>
                    /\ cmd.kind # "none" /\ cmd.to \in Archive
                    /\ cmd'.step \in {"", "check"} \cup Preparing
                    /\ root' \in {root, TRUE}
    OBVIOUS
<1>1. cmd \in Command /\ cmd.step \in Preparing
    BY DEF TypeInv, MakeStep, RemoveArchive, OpenArchive, ArchiveDb1, ArchiveDb2, ArchiveFiles,
           CloseArchive, Preparing, Making
<1>2. cmd.kind # "none" /\ cmd.to \in Archive
    BY <1>1 DEF TypeInv, Command, Preparing, Making
<1>3. cmd' = NoCmd \/ \E step \in {"check"} \cup Preparing : cmd' = [cmd EXCEPT !.step = step]
    BY DEF MakeStep, RemoveArchive, OpenArchive, ArchiveDb1, ArchiveDb2, ArchiveDb, ArchiveFiles,
           CloseArchive, Refused, End, Goto, Preparing, Making
<1>4. cmd'.step \in {"", "check"} \cup Preparing
  <2>1. CASE cmd' = NoCmd
      BY <2>1, NoCmdFields
  <2>2. ASSUME NEW step \in {"check"} \cup Preparing, cmd' = [cmd EXCEPT !.step = step]
        PROVE  cmd'.step = step
      BY <1>1, <2>2 DEF Command
  <2>. QED
      BY <1>3, <2>1, <2>2
<1>5. UNCHANGED <<inside, app, main, wal, files, restored>> /\ root' \in {root, TRUE}
    BY DEF MakeStep, RemoveArchive, OpenArchive, ArchiveDb1, ArchiveDb2, ArchiveDb, ArchiveFiles,
           CloseArchive, appVars, live
<1>. QED
    BY <1>2, <1>4, <1>5

\* A step that replaces data leaves the archives alone.
LEMMA ReplaceStepFrame ==
    TypeInv /\ ReplaceStep =>
        cmd.kind = "restore" /\ app = "down" /\ UNCHANGED <<app, arch>>
<1> SUFFICES ASSUME TypeInv, ReplaceStep
             PROVE  cmd.kind = "restore" /\ app = "down" /\ UNCHANGED <<app, arch>>
    OBVIOUS
<1>1. cmd.step \in Replacing /\ UNCHANGED <<app, arch>>
    BY DEF ReplaceStep, Check, Delete, Extract, PutDb1, PutDb2, PutDb, PutFiles, appVars,
           Replacing, Putting
<1>2. cmd.kind = "restore"
    BY <1>1 DEF TypeInv, Command, Preparing, Making, Replacing, Putting
<1>. QED
    BY <1>1, <1>2 DEF TypeInv

\* Nothing below the data directory means no database and no log there.
LEMMA BareStep ==
    ASSUME TypeInv, TripInv, [Next]_vars
    PROVE  BareInv'
<1>1. CASE Start
    BY <1>1 DEF Start, BareInv
<1>2. CASE AppStep
    BY <1>2, AppStepFrame DEF TripInv, BareInv
<1>3. CASE BeginStep
    BY <1>3, BeginStepFrame DEF TripInv, BareInv, Nothing
<1>4. CASE MakeStep
    BY <1>4, MakeStepFrame DEF TripInv, BareInv, Nothing
<1>5. CASE Check \/ Extract
    BY <1>5 DEF Check, Extract, appVars, live, TripInv, BareInv, Nothing
<1>6. CASE Delete
    BY <1>6, ReplaceStepFrame DEF ReplaceStep, Delete, DeleteData, appVars, BareInv, Nothing
<1>7. CASE PutDb1 \/ PutDb2 \/ PutFiles
    BY <1>7 DEF PutDb1, PutDb2, PutDb, PutFiles, appVars, TripInv, BareInv, PutInv, Putting
<1>8. CASE Interrupt \/ UNCHANGED vars
    BY <1>8 DEF Interrupt, vars, appVars, live, TripInv, BareInv, Nothing
<1>. QED
    BY <1>1, <1>2, <1>3, <1>4, <1>5, <1>6, <1>7, <1>8, AllSteps DEF ReplaceStep

\* Of the steps that touch the log, or start the application, none but an
\* orderly stop leaves the promise that there is no log.
LEMMA LogStep ==
    ASSUME TypeInv, TripInv, [Next]_vars
    PROVE  LogInv'
<1>1. CASE Start \/ AppStep
    BY <1>1
    DEF Start, AppStep, StoreFiles, Commit, BeginCheckpoint, EndCheckpoint, Shutdown, Closed, Kill,
        appVars, live, TripInv, LogInv
<1>2. CASE BeginStep
  <2>1. UNCHANGED <<app, wal, orderly>>
      BY <1>2 DEF BeginStep, BeginBackup, BeginRestore, appVars, live
  <2>. QED
      BY <2>1 DEF TripInv, LogInv
<1>3. CASE MakeStep
  <2>1. UNCHANGED <<app, wal, orderly>>
      BY <1>3 DEF MakeStep, RemoveArchive, OpenArchive, ArchiveDb1, ArchiveDb2, ArchiveDb, ArchiveFiles,
                  CloseArchive, appVars, live
  <2>. QED
      BY <2>1 DEF TripInv, LogInv
<1>4. CASE ReplaceStep
  <2>1. UNCHANGED <<app, orderly>> /\ wal' \in {0, wal}
      BY <1>4 DEF ReplaceStep, Check, Delete, DeleteData, Extract, PutDb1, PutDb2, PutDb, PutFiles,
                  appVars, live
  <2>. QED
      BY <2>1 DEF TripInv, LogInv
<1>5. CASE Interrupt \/ UNCHANGED vars
    BY <1>5 DEF Interrupt, vars, appVars, live, TripInv, LogInv
<1>. QED
    BY <1>1, <1>2, <1>3, <1>4, <1>5, AllSteps

\* A restore puts back part after part of one archive into an empty directory.
LEMMA PutStep ==
    ASSUME TypeInv, TripInv, [Next]_vars
    PROVE  PutInv'
<1>1. CASE Start \/ AppStep
  <2>1. cmd.kind # "restore" /\ cmd' = cmd
      BY <1>1, AppStepFrame DEF Start, TypeInv
  <2>2. cmd'.step \notin {"extract"} \cup Putting
      BY <2>1 DEF TypeInv, Command, Preparing, Making, Putting
  <2>. QED
      BY <2>2 DEF PutInv, Putting
<1>2. CASE BeginStep \/ MakeStep
  <2>1. cmd'.step \notin {"extract"} \cup Putting
      BY <1>2, BeginStepFrame, MakeStepFrame DEF Preparing, Making, Putting
  <2>. QED
      BY <2>1 DEF PutInv, Putting
<1>3. CASE Check
  <2>1. cmd'.step \in {"", "delete", "extract"} /\ (cmd'.step = "extract" => ~root) /\ root' = root
    <3>1. /\ root' = root
          /\ \/ cmd' = NoCmd
             \/ cmd' = [cmd EXCEPT !.step = "extract"] /\ ~root
             \/ cmd' = [cmd EXCEPT !.step = "delete"]
        BY <1>3 DEF Check, End, Goto
    <3>2. ASSUME NEW step \in {"extract", "delete"}, cmd' = [cmd EXCEPT !.step = step]
          PROVE  cmd'.step = step
        BY <3>2 DEF TypeInv, Command
    <3>. QED
        BY <3>1, <3>2, NoCmdFields
  <2>. QED
      BY <2>1 DEF PutInv, Putting
<1>4. CASE Delete
  <2>1. cmd'.step = "extract" /\ root' = FALSE
      BY <1>4 DEF Delete, Goto, TypeInv, Command
  <2>. QED
      BY <2>1 DEF PutInv, Putting
<1>5. CASE Extract
  <2>1. CASE cmd' = NoCmd
      BY <2>1, NoCmdFields DEF PutInv, Putting
  <2>2. CASE cmd' # NoCmd
    <3>1. cmd'.step = "put1" /\ root' /\ arch["backup"].complete
        BY <1>5, <2>2 DEF Extract, End, Goto, TypeInv, Command
    <3>2. inside' = inside /\ (inside => wal' = 0) /\ arch' = arch
        BY <1>5 DEF Extract, appVars, live, TripInv, BareInv, PutInv
    <3>. QED
        BY <3>1, <3>2 DEF PutInv, Putting
  <2>. QED
      BY <2>1, <2>2
<1>6. CASE PutDb1
  <2>1. cmd'.step = "put2" /\ main'[1] = arch["backup"].db[1]
      BY <1>6 DEF PutDb1, PutDb, Goto, TypeInv, Command
  <2>2. UNCHANGED <<inside, root, wal, arch>> /\ root /\ (inside => wal = 0) /\ arch["backup"].complete
      BY <1>6 DEF PutDb1, PutDb, appVars, TripInv, PutInv, Putting
  <2>. QED
      BY <2>1, <2>2 DEF PutInv, Putting
<1>7. CASE PutDb2
  <2>1. cmd'.step = "putFiles" /\ main' = <<main[1], arch["backup"].db[2]>>
      BY <1>7 DEF PutDb2, PutDb, Goto, TypeInv, Command
  <2>2. /\ UNCHANGED <<inside, root, wal, arch>> /\ root /\ (inside => wal = 0) /\ arch["backup"].complete
        /\ main[1] = arch["backup"].db[1]
      BY <1>7 DEF PutDb2, PutDb, appVars, TripInv, PutInv, Putting
  <2>3. arch["backup"].db \in Pair
      BY DEF TypeInv, Archive, Archived
  <2>4. main' = arch["backup"].db
      BY <2>1, <2>2, <2>3 DEF Pair
  <2>. QED
      BY <2>1, <2>2, <2>4 DEF PutInv, Putting
<1>8. CASE PutFiles \/ Interrupt
    BY <1>8, NoCmdFields DEF PutFiles, Interrupt, End, PutInv, Putting
<1>9. CASE UNCHANGED vars
    BY <1>9 DEF vars, appVars, live, TripInv, PutInv
<1>. QED
    BY <1>1, <1>2, <1>3, <1>4, <1>5, <1>6, <1>7, <1>8, <1>9, AllSteps DEF ReplaceStep

\* The steps that make the backup itself.
LEMMA BackupMaking ==
    ASSUME TypeInv, TripInv, MakeStep, cmd.kind = "backup"
    PROVE  BackupInv'
<1> DEFINE b == arch["backup"]
<1>1. UNCHANGED <<app, main, wal, files>> /\ cmd.to = "backup" /\ "backup" \in Archive
    BY MakeStepFrame DEF TypeInv, Archive
<1>2. arch \in [Archive -> Archived] /\ cmd \in Command /\ b \in Archived /\ b.of \in Pair
    BY <1>1 DEF TypeInv, Archived
<1>3. CASE RemoveArchive
  <2>1. cmd'.step = "open"
      BY <1>2, <1>3 DEF RemoveArchive, Goto, Command
  <2>2. arch'["backup"] = b \/ arch'["backup"].of = Nothing
      BY <1>1, <1>2, <1>3 DEF RemoveArchive, NoArchive
  <2>. QED
      BY <2>1, <2>2 DEF TripInv, BackupInv, Making
<1>4. CASE OpenArchive
  <2>1. CASE b.exists
    <3>1. cmd' = NoCmd /\ arch' = arch
        BY <1>1, <1>4, <2>1 DEF OpenArchive, Refused, End
    <3>. QED
        BY <3>1, NoCmdFields DEF TripInv, BackupInv
  <2>2. CASE ~b.exists
    <3>1. cmd'.step = "db1"
        BY <1>1, <1>2, <1>4, <2>2 DEF OpenArchive, Goto, Command
    <3>2. arch' = [arch EXCEPT !["backup"] = [NoArchive EXCEPT !.exists = TRUE,
                        !.of = IF Calm THEN <<Committed, files>> ELSE Nothing]]
        BY <1>1, <1>4, <2>2 DEF OpenArchive
    <3>3. /\ ~arch'["backup"].complete
          /\ arch'["backup"].of = IF Calm THEN <<Committed, files>> ELSE Nothing
        BY <1>1, <1>2, <3>2 DEF NoArchive
    <3>4. main = <<main[1], main[2]>>
        BY DEF TypeInv, Pair
    <3>5. Calm => app = "down" /\ wal = 0 /\ main = <<Committed, Committed>>
        BY <3>4 DEF Calm, Committed
    <3>. QED
        BY <1>1, <3>1, <3>3, <3>5 DEF BackupInv
  <2>. QED
      BY <2>1, <2>2
<1> SUFFICES ASSUME cmd.step \in Making, arch'["backup"].of # Nothing PROVE BackupInv'
    BY <1>3, <1>4
    DEF MakeStep, ArchiveDb1, ArchiveDb2, ArchiveFiles, CloseArchive, Making, BackupInv
<1>5. arch'["backup"].of = b.of
    BY <1>1, <1>2
    DEF MakeStep, RemoveArchive, OpenArchive, ArchiveDb1, ArchiveDb2, ArchiveDb, ArchiveFiles,
        CloseArchive, Making, Archived
<1>6. app = "down" /\ wal = 0 /\ main = <<b.of[1], b.of[1]>> /\ files = b.of[2] /\ ~b.complete
    BY <1>5 DEF TripInv, BackupInv
<1>7. CASE ArchiveDb1
  <2>1. cmd'.step = "db2"
      BY <1>2, <1>7 DEF ArchiveDb1, ArchiveDb, Goto, Command
  <2>2. arch'["backup"].db = <<b.of[1], 0>> /\ ~arch'["backup"].complete
      BY <1>1, <1>2, <1>6, <1>7 DEF ArchiveDb1, ArchiveDb, Archived
  <2>. QED
      BY <1>1, <1>5, <1>6, <2>1, <2>2 DEF BackupInv
<1>8. CASE ArchiveDb2
  <2>1. cmd'.step = "files"
      BY <1>2, <1>8 DEF ArchiveDb2, ArchiveDb, Goto, Command
  <2>2. b.db[1] = b.of[1]
      BY <1>1, <1>5, <1>8 DEF ArchiveDb2, TripInv, BackupInv, Making
  <2>3. arch'["backup"].db = <<b.of[1], b.of[1]>> /\ ~arch'["backup"].complete
      BY <1>1, <1>2, <1>6, <1>8, <2>2 DEF ArchiveDb2, ArchiveDb, Archived
  <2>. QED
      BY <1>1, <1>5, <1>6, <2>1, <2>3 DEF BackupInv
<1>9. CASE ArchiveFiles
  <2>1. cmd'.step = "close"
      BY <1>2, <1>9 DEF ArchiveFiles, Goto, Command
  <2>2. b.db = <<b.of[1], b.of[1]>>
      BY <1>1, <1>5, <1>9 DEF ArchiveFiles, TripInv, BackupInv, Making
  <2>3. /\ arch'["backup"].db = <<b.of[1], b.of[1]>>
        /\ arch'["backup"].files = b.of[2]
        /\ ~arch'["backup"].complete
      BY <1>1, <1>2, <1>6, <1>9, <2>2 DEF ArchiveFiles, Archived
  <2>. QED
      BY <1>1, <1>5, <1>6, <2>1, <2>3 DEF BackupInv
<1>10. CASE CloseArchive
  <2>1. cmd' = NoCmd
      BY <1>10 DEF CloseArchive, End
  <2>2. b.db = <<b.of[1], b.of[1]>> /\ b.files = b.of[2]
      BY <1>1, <1>5, <1>10 DEF CloseArchive, TripInv, BackupInv, Making
  <2>3. arch'["backup"].db = <<b.of[1], b.of[1]>> /\ arch'["backup"].files = b.of[2]
      BY <1>1, <1>2, <1>10, <2>2 DEF CloseArchive, Archived
  <2>. QED
      BY <1>5, <2>1, <2>3, NoCmdFields DEF BackupInv
<1>. QED
    BY <1>3, <1>4, <1>7, <1>8, <1>9, <1>10 DEF MakeStep

\* A backup keeps its promise, or loses it, in every step of anybody.
LEMMA BackupStep ==
    ASSUME TypeInv, TripInv, [Next]_vars
    PROVE  BackupInv'
<1>1. CASE Start
  <2>1. cmd' = cmd /\ cmd.kind # "restore" /\ (cmd.kind = "backup" => cmd.to = "backup")
      BY <1>1 DEF Start, TypeInv
  <2>2. CASE cmd.kind = "backup"
    <3>1. arch'["backup"].of = Nothing
        BY <1>1, <2>1, <2>2 DEF Start, TypeInv, Archive, Archived
    <3>. QED
        BY <3>1 DEF BackupInv
  <2>3. CASE cmd.kind # "backup"
    <3>1. arch'["backup"] = arch["backup"]
        BY <1>1, <2>3 DEF Start, TypeInv, Archive
    <3>. QED
        BY <2>1, <2>3, <3>1 DEF TripInv, BackupInv
  <2>. QED
      BY <2>2, <2>3
<1>2. CASE AppStep
    BY <1>2, AppStepFrame DEF TripInv, BackupInv
<1>3. CASE BeginStep
    BY <1>3, BeginStepFrame DEF TripInv, BackupInv, Making
<1>4. CASE MakeStep /\ cmd.kind = "backup"
    BY <1>4, BackupMaking
<1>5. CASE MakeStep /\ cmd.kind # "backup"
  <2>1. cmd.kind = "restore" /\ cmd.to = "snapshot" /\ cmd \in Command
      BY <1>5, MakeStepFrame DEF TypeInv, Command
  <2>2. arch'["backup"] = arch["backup"]
      BY <1>5, <2>1
      DEF MakeStep, RemoveArchive, OpenArchive, ArchiveDb1, ArchiveDb2, ArchiveDb, ArchiveFiles,
          CloseArchive, TypeInv, Archive
  <2>3. cmd'.kind # "backup"
    <3>1. cmd' = NoCmd \/ \E step \in {"check"} \cup Preparing : cmd' = [cmd EXCEPT !.step = step]
        BY <1>5
        DEF MakeStep, RemoveArchive, OpenArchive, ArchiveDb1, ArchiveDb2, ArchiveDb, ArchiveFiles,
            CloseArchive, Refused, End, Goto, Preparing, Making
    <3>2. ASSUME NEW step, cmd' = [cmd EXCEPT !.step = step]
          PROVE  cmd'.kind = cmd.kind
        BY <2>1, <3>2 DEF Command
    <3>. QED
        BY <2>1, <3>1, <3>2, NoCmdFields
  <2>. QED
      BY <2>2, <2>3 DEF TripInv, BackupInv
<1>6. CASE ReplaceStep
  <2>1. cmd.kind = "restore" /\ arch' = arch /\ cmd \in Command
      BY <1>6, ReplaceStepFrame DEF TypeInv
  <2>2. cmd' = NoCmd \/ \E step \in Replacing : cmd' = [cmd EXCEPT !.step = step]
      BY <1>6
      DEF ReplaceStep, Check, Delete, Extract, PutDb1, PutDb2, PutDb, PutFiles, End, Goto,
          Replacing, Putting
  <2>3. ASSUME NEW step, cmd' = [cmd EXCEPT !.step = step]
        PROVE  cmd'.kind = cmd.kind
      BY <2>1, <2>3 DEF Command
  <2>4. cmd'.kind # "backup"
      BY <2>1, <2>2, <2>3, NoCmdFields
  <2>. QED
      BY <2>1, <2>4 DEF TripInv, BackupInv
<1>7. CASE Interrupt
  <2>1. cmd' = NoCmd
      BY <1>7 DEF Interrupt, End
  <2>2. arch'["backup"] = arch["backup"] \/ arch'["backup"].of = Nothing
    <3>1. cmd.to \in Archive /\ arch \in [Archive -> Archived]
        BY DEF TypeInv, Command
    <3>2. CASE arch' = arch
        BY <3>2
    <3>3. CASE arch' = [arch EXCEPT ![cmd.to].complete = TRUE, ![cmd.to].of = Nothing]
      <4>1. arch'[cmd.to].of = Nothing
          BY <3>1, <3>3 DEF Archived
      <4>2. \A a \in Archive : a # cmd.to => arch'[a] = arch[a]
          BY <3>1, <3>3
      <4>. QED
          BY <4>1, <4>2 DEF Archive
    <3>. QED
        BY <1>7, <3>2, <3>3 DEF Interrupt
  <2>. QED
      BY <2>1, <2>2, NoCmdFields DEF TripInv, BackupInv
<1>8. CASE UNCHANGED vars
    BY <1>8 DEF vars, appVars, live, TripInv, BackupInv
<1>. QED
    BY <1>1, <1>2, <1>3, <1>4, <1>5, <1>6, <1>7, <1>8, AllSteps

\* After a restore has ended well nothing moves without ending its promise.
LEMMA DoneStep ==
    ASSUME TypeInv, TripInv, [Next]_vars
    PROVE  DoneInv'
<1>1. CASE Start \/ BeginStep
    BY <1>1, BeginStepFrame DEF Start, DoneInv, RoundTrip, Nothing
<1>2. CASE AppStep
  <2>1. restored' = Nothing
      BY <1>2, AppStepFrame DEF TripInv, DoneInv
  <2>. QED
      BY <2>1 DEF DoneInv, RoundTrip, Nothing
<1>3. CASE MakeStep \/ Interrupt \/ (ReplaceStep /\ ~PutFiles)
  <2>1. cmd.kind # "none" /\ restored' = restored
      BY <1>3, MakeStepFrame, ReplaceStepFrame
      DEF Interrupt, ReplaceStep, Check, Delete, Extract, PutDb1, PutDb2, PutDb
  <2>2. restored' = Nothing
      BY <2>1 DEF TripInv, DoneInv
  <2>. QED
      BY <2>2 DEF DoneInv, RoundTrip, Nothing
<1>4. CASE PutFiles
  <2>1. cmd' = NoCmd /\ app' = "down"
      BY <1>4, ReplaceStepFrame DEF ReplaceStep, PutFiles, End
  <2>2. /\ UNCHANGED <<inside, main, wal>> /\ restored' = arch["backup"].of
        /\ files' = arch["backup"].files
      BY <1>4 DEF PutFiles, appVars
  <2>3. main = arch["backup"].db /\ (inside => wal = 0) /\ arch["backup"].complete
      BY <1>4 DEF PutFiles, TripInv, PutInv, Putting
  <2>4. UNCHANGED orderly /\ (orderly => wal = 0)
      BY <1>4 DEF PutFiles, appVars, TripInv, LogInv
  <2>. QED
      BY <2>1, <2>2, <2>3, <2>4, NoCmdFields DEF TripInv, BackupInv, DoneInv, RoundTrip, Nothing
<1>5. CASE UNCHANGED vars
    BY <1>5 DEF vars, appVars, live, TripInv, DoneInv, RoundTrip, Nothing
<1>. QED
    BY <1>1, <1>2, <1>3, <1>4, <1>5, AllSteps

\* A restore that ends well brings back exactly the database file and the files
\* that were there when the backup was made, wherever the database is, and no
\* log beside it that was not left by a killed application outside DATA_ROOT.
THEOREM StorageRoundTrip == Spec => []RoundTrip
<1>1. Init => TypeInv /\ TripInv
    BY InitInv
<1>2. TypeInv /\ TripInv /\ [Next]_vars => (TypeInv /\ TripInv)'
    BY TypeStep, BareStep, LogStep, PutStep, BackupStep, DoneStep DEF TripInv
<1>3. TripInv => RoundTrip
    BY DEF TripInv, DoneInv
<1>. QED
    BY <1>1, <1>2, <1>3, PTL DEF Spec
=============================================================================
