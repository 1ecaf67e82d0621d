------------------------------- MODULE Storage -------------------------------
(***************************************************************************)
(* The data directory and the commands that back it up and restore it: the *)
(* database file with SQLite's write-ahead log beside it, the directories  *)
(* of media and metadata, and the archives (db.py, main.py).  A command    *)
(* opens no connection: it copies, deletes and replaces files.             *)
(*                                                                         *)
(* A version stands for what is stored: 1 when the database has been       *)
(* created, n + 1 when the n-th upload has been committed.  The database   *)
(* file has two parts, so that a copy of it can be torn; 0 is a file that  *)
(* is not there, or a log or a directory with nothing in it.               *)
(***************************************************************************)
EXTENDS Integers

CONSTANT MaxVersion  \* bound: versions

ASSUME StorageAssumption == MaxVersion \in Nat

Archive == {"backup", "snapshot"}

VARIABLES
    inside,    \* is the database file below DATA_ROOT?
    app,       \* "up" or "down"
    main,      \* the two parts of fanic.db
    wal,       \* what the log holds: 0 or the last version committed
    merging,   \* the version a checkpoint is writing to the file, or 0
    files,     \* works/ and fanart/: the last version stored
    root,      \* is there anything below DATA_ROOT, if only empty directories?
    arch,      \* the archives
    cmd,       \* the command that runs
    clock,     \* the last version that was begun
    \* histories: has the application been stopped in order, never to be started
    \* since?  And what the last command owes, <<0, 0>> for nothing
    orderly,
    restored,  \* after a restore: the database and the files of the backup
    kept       \* since a restore with a snapshot began: those that were there

appVars == <<inside, app, merging, clock, orderly>>
live    == <<main, wal, files>>
vars    == <<appVars, live, root, arch, cmd, restored, kept>>

Nothing   == <<0, 0>>
NoArchive == [exists |-> FALSE, complete |-> FALSE, db |-> Nothing, files |-> 0, of |-> Nothing]
NoCmd     == [kind |-> "none", step |-> "", to |-> "backup"]

\* What a connection reads: the log before the file.
Committed == IF wal # 0 THEN wal ELSE main[1]

\* The application has been stopped and has left an intact file and no log.
Calm == app = "down" /\ wal = 0 /\ main[1] = main[2]

Init ==
    /\ inside \in BOOLEAN
    /\ app = "down"
    /\ main = Nothing
    /\ wal = 0
    /\ merging = 0
    /\ files = 0
    /\ root = FALSE
    /\ arch = [a \in Archive |-> NoArchive]
    /\ cmd = NoCmd
    /\ clock = 1
    /\ orderly = TRUE
    /\ restored = Nothing
    /\ kept = Nothing

-----------------------------------------------------------------------------
(* The application and SQLite.                                             *)

\* A backup may run while the application does; a restore is run with the
\* application stopped.  A torn file needs its log, and a file that is not there
\* is created.
Start ==
    /\ app = "down"
    /\ wal # 0 \/ main[1] = main[2]
    /\ cmd.kind # "restore"
    /\ app' = "up"
    /\ orderly' = FALSE
    /\ root' = TRUE
    /\ main' = IF main = Nothing /\ wal = 0 THEN <<1, 1>> ELSE main
    /\ arch' = [a \in Archive |-> IF cmd.kind = "backup" /\ a = cmd.to
                                  THEN [arch[a] EXCEPT !.of = Nothing] ELSE arch[a]]
    /\ restored' = Nothing
    /\ kept' = Nothing
    /\ UNCHANGED <<inside, merging, clock, wal, files, cmd>>

\* An upload stores its files first ...
StoreFiles ==
    /\ app = "up"
    /\ clock < MaxVersion
    /\ clock' = clock + 1
    /\ files' = clock + 1
    /\ UNCHANGED <<inside, app, merging, orderly, main, wal, root, arch, cmd, restored, kept>>

\* ... and then its rows, in the log.
Commit ==
    /\ app = "up"
    /\ files > Committed
    /\ wal' = files
    /\ UNCHANGED <<appVars, main, files, root, arch, cmd, restored, kept>>

BeginCheckpoint ==
    /\ app = "up" /\ wal # 0 /\ merging = 0
    /\ merging' = wal
    /\ main' = <<wal, main[2]>>
    /\ UNCHANGED <<inside, app, clock, orderly, wal, files, root, arch, cmd, restored, kept>>

EndCheckpoint ==
    /\ app = "up" /\ merging # 0
    /\ main' = <<merging, merging>>
    /\ wal' = IF wal = merging THEN 0 ELSE wal
    /\ merging' = 0
    /\ UNCHANGED <<inside, app, clock, orderly, files, root, arch, cmd, restored, kept>>

\* Seeded fault for Closed: the with block commits and leaves the connection
\* open, as that of sqlite3 does.
FaultClosed == UNCHANGED <<main, wal>>

\* Every with block closes its connection, and the last one leaves no log.
Closed == main' = <<Committed, Committed>> /\ wal' = 0

Shutdown ==
    /\ app = "up"
    /\ app' = "down"
    /\ orderly' = TRUE
    /\ Closed
    /\ merging' = 0
    /\ UNCHANGED <<inside, clock, files, root, arch, cmd, restored, kept>>

Kill ==
    /\ app = "up"
    /\ app' = "down"
    /\ merging' = 0
    /\ UNCHANGED <<inside, clock, orderly, live, root, arch, cmd, restored, kept>>

-----------------------------------------------------------------------------
(* Commands.  An option is chosen where the command looks at it.           *)

Goto(step) == cmd' = [cmd EXCEPT !.step = step]
End        == cmd' = NoCmd

BeginBackup ==
    /\ cmd.kind = "none"
    /\ cmd' = [kind |-> "backup", step |-> "remove", to |-> "backup"]
    /\ restored' = Nothing
    /\ kept' = Nothing
    /\ UNCHANGED <<appVars, live, root, arch>>

BeginRestore(snapshot) ==
    /\ cmd.kind = "none"
    /\ app = "down"
    /\ cmd' = [kind |-> "restore", step |-> IF snapshot THEN "remove" ELSE "check", to |-> "snapshot"]
    /\ restored' = Nothing
    /\ kept' = IF snapshot /\ Calm THEN <<Committed, files>> ELSE Nothing
    /\ UNCHANGED <<appVars, live, root, arch>>

\* main.py deletes the archive that is to be overwritten.
RemoveArchive ==
    /\ cmd.step = "remove"
    /\ \E overwrite \in BOOLEAN :
          arch' = IF overwrite THEN [arch EXCEPT ![cmd.to] = NoArchive] ELSE arch
    /\ Goto("open")
    /\ UNCHANGED <<appVars, live, root, restored, kept>>

\* Seeded fault for Refused: a snapshot that cannot be made is reported, and
\* the restore goes on.
FaultRefused == IF cmd.kind = "restore" THEN Goto("check") ELSE End

\* The archive exists: "Pre-restore backup failed" ends a restore, too.
Refused == End

\* create_runtime_backup makes the directories it is going to read.
OpenArchive ==
    /\ cmd.step = "open"
    /\ root' = TRUE
    /\ IF arch[cmd.to].exists
       THEN Refused /\ UNCHANGED arch
       ELSE /\ arch' = [arch EXCEPT ![cmd.to] = [NoArchive EXCEPT
                            !.exists = TRUE, !.of = IF Calm THEN <<Committed, files>> ELSE Nothing]]
            /\ Goto("db1")
    /\ UNCHANGED <<appVars, live, restored, kept>>

\* The file is read piece by piece, and then the directories.
ArchiveDb(copy, next) ==
    /\ arch' = [arch EXCEPT ![cmd.to].db = copy]
    /\ Goto(next)
    /\ UNCHANGED <<appVars, live, root, restored, kept>>

ArchiveDb1 == cmd.step = "db1" /\ ArchiveDb(<<main[1], 0>>, "db2")
ArchiveDb2 == cmd.step = "db2" /\ ArchiveDb(<<arch[cmd.to].db[1], main[2]>>, "files")

ArchiveFiles ==
    /\ cmd.step = "files"
    /\ arch' = [arch EXCEPT ![cmd.to].files = files]
    /\ Goto("close")
    /\ UNCHANGED <<appVars, live, root, restored, kept>>

CloseArchive ==
    /\ cmd.step = "close"
    /\ arch' = [arch EXCEPT ![cmd.to].complete = TRUE]
    /\ IF cmd.kind = "backup" THEN End ELSE Goto("check")
    /\ UNCHANGED <<appVars, live, root, restored, kept>>

\* restore_runtime_backup: the backup must be there, and without force nothing
\* else.
Check ==
    /\ cmd.step = "check"
    /\ \E force \in BOOLEAN :
          IF ~arch["backup"].exists THEN End
          ELSE IF ~root THEN Goto("extract")
          ELSE IF force THEN Goto("delete") ELSE End
    /\ UNCHANGED <<appVars, live, root, arch, restored, kept>>

\* Seeded fault for DeleteData: the log is forgotten.
FaultDeleteData == main' = Nothing /\ files' = 0 /\ wal' = wal

\* delete_tree(DATA_ROOT).
DeleteData ==
    /\ files' = 0
    /\ main' = IF inside THEN Nothing ELSE main
    /\ wal' = IF inside THEN 0 ELSE wal

Delete ==
    /\ cmd.step = "delete"
    /\ DeleteData
    /\ root' = FALSE
    /\ Goto("extract")
    /\ UNCHANGED <<appVars, arch, restored, kept>>

\* Only now is the archive opened: no archive, or nothing of FANIC's in it, and
\* the command ends with the data deleted.
Extract ==
    LET b == arch["backup"] IN
    /\ cmd.step = "extract"
    /\ IF b.complete /\ (b.db # Nothing \/ b.files # 0) THEN Goto("put1") /\ root' = TRUE
                                                       ELSE End /\ UNCHANGED root
    /\ UNCHANGED <<appVars, live, arch, restored, kept>>

PutDb(copy, next) ==
    /\ main' = copy
    /\ Goto(next)
    /\ UNCHANGED <<appVars, wal, files, root, arch, restored, kept>>

PutDb1 == cmd.step = "put1" /\ PutDb(<<arch["backup"].db[1], main[2]>>, "put2")
PutDb2 == cmd.step = "put2" /\ PutDb(<<main[1], arch["backup"].db[2]>>, "putFiles")

PutFiles ==
    /\ cmd.step = "putFiles"
    /\ files' = arch["backup"].files
    /\ restored' = arch["backup"].of
    /\ End
    /\ UNCHANGED <<appVars, main, wal, root, arch, kept>>

\* The command is killed, or an exception ends it: then the with block closes
\* the archive it was writing, and what is in it so far looks complete.
Interrupt ==
    /\ cmd.kind # "none"
    /\ End
    /\ \/ UNCHANGED arch
       \/ /\ cmd.step \in {"db1", "db2", "files", "close"}
          /\ arch' = [arch EXCEPT ![cmd.to].complete = TRUE, ![cmd.to].of = Nothing]
    /\ UNCHANGED <<appVars, live, root, restored, kept>>

Next ==
    \/ Start \/ StoreFiles \/ Commit \/ BeginCheckpoint \/ EndCheckpoint \/ Shutdown \/ Kill
    \/ BeginBackup
    \/ \E snapshot \in BOOLEAN : BeginRestore(snapshot)
    \/ RemoveArchive \/ OpenArchive \/ ArchiveDb1 \/ ArchiveDb2 \/ ArchiveFiles \/ CloseArchive
    \/ Check \/ Delete \/ Extract \/ PutDb1 \/ PutDb2 \/ PutFiles
    \/ Interrupt

Spec == Init /\ [][Next]_vars

-----------------------------------------------------------------------------
(* Properties.                                                             *)

\* A restore that ends well brings back the database file and the directories
\* that were there when the backup was made, no more and no less, whatever was
\* stored, killed or half restored in between - if the application was stopped
\* while the backup was made and had left no log behind.  There is no log beside
\* the file either, which would be read before it: what is below DATA_ROOT has
\* been deleted, and a database outside had none if the application had been
\* stopped in order.
RoundTrip ==
    restored # Nothing =>
        /\ main = <<restored[1], restored[1]>>
        /\ files = restored[2]
        /\ inside \/ orderly => wal = 0

\* From the moment a restore with a pre-restore snapshot begins, and wherever
\* it is refused, fails or is interrupted, what was stored before is still in
\* place or complete in the snapshot.
NothingLost ==
    LET db == <<kept[1], kept[1]>> IN
    kept # Nothing =>
        \/ main = db /\ wal = 0 /\ files = kept[2]
        \/ arch["snapshot"].complete /\ arch["snapshot"].db = db /\ arch["snapshot"].files = kept[2]
=============================================================================
