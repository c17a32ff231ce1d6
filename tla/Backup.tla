-------------------------------- MODULE Backup --------------------------------
(***************************************************************************)
(* Backups and restores of the database and the raw files.  A backup dumps *)
(* the database and copies the files while the application runs, those the *)
(* previous backup holds excepted; a restore, with the application         *)
(* stopped, swaps the database and the directory in steps that may fail.   *)
(***************************************************************************)
EXTENDS Naturals, Sequences

CONSTANTS
    Files,          \* the assets the application seals
    MaxBackups,     \* bound: backups of the target directory
    MaxFaults,      \* bound: steps of a restore that fail, copies that rot, machines replaced
    None

VARIABLES
    db,         \* raw_data_asset: files with the directory their storage_uri names
    disk,       \* [name -> content] of the raw directory
    root,       \* where the raw directory is
    backups,    \* the backups of the target directory, oldest first
    job,        \* the backup or restore that runs, or Idle
    faults      \* faults still to come

vars == <<db, disk, root, backups, job, faults>>

Temp == "tmp"       \* the temporary file of a seal; its name ends in .parquet as well
Names == Files \cup {Temp}
Contents == {"part", "whole", "rotten"}
Empty == [n \in Names |-> None]
Idle == [kind |-> None]
Kind == job.kind
NoFiles == [n \in {} |-> None]
NoHash == [name |-> None, hash |-> None]
Put(f, n, v) == [k \in DOMAIN f \cup {n} |-> IF k = n THEN v ELSE f[k]]

TypeOK ==
    /\ \A a \in db : a.file \in Files /\ a.root \in {1, 2}
    /\ disk \in [Names -> Contents \cup {None}]
    /\ root \in {1, 2}
    /\ \A i \in DOMAIN backups :
         /\ DOMAIN backups[i].own \subseteq DOMAIN backups[i].files
         /\ \A n \in DOMAIN backups[i].files : backups[i].files[n].storedIn \in 1 .. i
    /\ Kind \in {None, "backup", "restore"}
    /\ faults \in 0 .. MaxFaults

Init ==
    /\ db = {}
    /\ disk = Empty
    /\ root = 1
    /\ backups = <<>>
    /\ job = Idle
    /\ faults = MaxFaults

-----------------------------------------------------------------------------
(* The application.                                                        *)

Running == Kind # "restore"

Unsealed(f) == disk[f] = None /\ \A a \in db : a.file # f

\* One temporary file is written, then renamed, then its asset is registered.
Seal(f) ==
    /\ Running
    /\ Unsealed(f)
    /\ \/ disk[Temp] # "whole" /\ disk' = [disk EXCEPT ![Temp] = IF @ = None THEN "part" ELSE "whole"]
       \/ disk[Temp] = "whole" /\ disk' = [disk EXCEPT ![f] = "whole", ![Temp] = None]
    /\ UNCHANGED <<db, root, backups, job, faults>>

Register(f) ==
    /\ Running
    /\ disk[f] # None
    /\ db' = db \cup {[file |-> f, root |-> root]}
    /\ db' # db
    /\ UNCHANGED <<disk, root, backups, job, faults>>

\* The machine is replaced; the application is installed in another directory.
Reinstall ==
    /\ job = Idle
    /\ faults > 0
    /\ faults' = faults - 1
    /\ db' = {}
    /\ disk' = Empty
    /\ root' = 3 - root
    /\ UNCHANGED <<backups, job>>

Rot(i, n) ==
    /\ faults > 0
    /\ n \in DOMAIN backups[i].own
    /\ backups' = [backups EXCEPT ![i].own[n] = "rotten"]
    /\ backups' # backups
    /\ faults' = faults - 1
    /\ UNCHANGED <<db, disk, root, job>>

-----------------------------------------------------------------------------
(* create_backup and verify_backup.                                        *)

\* _stored_raw_file and _sha256_file: the copy is there and is what was listed.
Matches(i, n) ==
    LET item == backups[i].files[n]
        own == backups[item.storedIn].own
    IN n \in DOMAIN own /\ own[n] = item.hash

Verified(i) == \A n \in DOMAIN backups[i].files : Matches(i, n)

\* The database is dumped first: every asset it registers has its file by then.
BeginBackup(full) ==
    /\ job = Idle
    /\ Len(backups) < MaxBackups
    /\ job' = [kind |-> "backup", step |-> "list", full |-> full, dump |-> db, previous |-> NoFiles,
               todo |-> {}, files |-> NoFiles, own |-> NoFiles, hashed |-> NoHash]
    /\ UNCHANGED <<db, disk, root, backups, faults>>

\* _latest_manifest and rglob: without a previous backup, or with one that is whole.
List ==
    /\ Kind = "backup" /\ job.step = "list"
    /\ LET last == Len(backups)
           used == ~job.full /\ last > 0
       IN job' = IF used /\ ~Verified(last) THEN Idle
                 ELSE [job EXCEPT !.step = "copy",
                                  !.previous = IF used THEN backups[last].files ELSE NoFiles,
                                  !.todo = {n \in Names : disk[n] # None}]
    /\ UNCHANGED <<db, disk, root, backups, faults>>

\* Variant: the previous backup itself.
StoredInPrevious(n) == Len(backups)

Copying == Kind = "backup" /\ job.step = "copy"

StoredIn(n) == job.previous[n].storedIn

\* A listed file is hashed; if it is the one the previous backup lists nothing is copied.
\* One that is gone is passed over, or stops the backup if it goes meanwhile.
Hash(n) ==
    /\ Copying /\ job.hashed = NoHash
    /\ n \in job.todo
    /\ LET rest == [job EXCEPT !.todo = job.todo \ {n}]
       IN IF disk[n] = None THEN job' \in {rest, Idle}
          ELSE IF n \in DOMAIN job.previous /\ job.previous[n].hash = disk[n]
          THEN job' = [rest EXCEPT !.files = Put(@, n, [hash |-> disk[n], storedIn |-> StoredIn(n)])]
          ELSE job' = [rest EXCEPT !.hashed = [name |-> n, hash |-> disk[n]]]
    /\ UNCHANGED <<db, disk, root, backups, faults>>

\* The copy is of what the file holds now.
Copy ==
    /\ Copying /\ job.hashed # NoHash
    /\ LET n == job.hashed.name
       IN job' = IF disk[n] = None THEN Idle
                 ELSE [job EXCEPT !.hashed = NoHash, !.own = Put(@, n, disk[n]),
                          !.files = Put(@, n, [hash |-> job.hashed.hash, storedIn |-> Len(backups) + 1])]
    /\ UNCHANGED <<db, disk, root, backups, faults>>

Dumped == job.dump

\* The manifest is written and the directory gets its name, before it is verified.
Publish ==
    /\ Copying /\ job.hashed = NoHash
    /\ job.todo = {}
    /\ backups' = Append(backups, [dump |-> Dumped, root |-> root, files |-> job.files, own |-> job.own])
    /\ job' = Idle
    /\ UNCHANGED <<db, disk, root, faults>>

-----------------------------------------------------------------------------
(* restore_backup.                                                         *)

Restoring(step) == Kind = "restore" /\ job.step = step

\* The backup is verified, and its files are copied beside the raw directory.
BeginRestore(i) ==
    /\ job = Idle
    /\ Verified(i)
    /\ job' = [kind |-> "restore", step |-> "files", of |-> i, staging |-> {}, previous |-> db,
               aside |-> disk, files |-> [n \in Names |-> IF n \in DOMAIN backups[i].files
                    THEN backups[backups[i].files[n].storedIn].own[n] ELSE None]]
    /\ UNCHANGED <<db, disk, root, backups, faults>>

\* _restore_database_to_staging: a database of its own.
StageDatabase ==
    /\ Restoring("files")
    /\ job' = [job EXCEPT !.step = "staged", !.staging = backups[job.of].dump]
    /\ UNCHANGED <<db, disk, root, backups, faults>>

\* _rewrite_storage_uris: what starts with the old directory.
Rewrite(rows) ==
    {IF a.root = backups[job.of].root THEN [a EXCEPT !.root = root] ELSE a : a \in rows}

\* _activate_restored_database: two renames; the first is undone when the second fails.
Activate ==
    /\ Restoring("staged")
    /\ db' = Rewrite(job.staging)
    /\ job' = [job EXCEPT !.step = "activated"]
    /\ UNCHANGED <<disk, root, backups, faults>>

MoveAside ==
    /\ Restoring("activated")
    /\ disk' = Empty
    /\ job' = [job EXCEPT !.step = "moved"]
    /\ UNCHANGED <<db, root, backups, faults>>

MoveIn ==
    /\ Restoring("moved")
    /\ disk' = job.files
    /\ job' = Idle
    /\ UNCHANGED <<db, root, backups, faults>>

\* Variant: once the directory is moved aside the database stays.
RollbackDatabaseEarly == db' = IF job.step = "activated" THEN job.previous ELSE db

\* _rollback_activated_database.
RollbackDatabase == db' = IF job.step \in {"activated", "moved"} THEN job.previous ELSE db

\* One step fails: what was done is undone.
RestoreFails ==
    /\ Kind = "restore"
    /\ faults > 0
    /\ RollbackDatabase
    /\ disk' = IF job.step = "moved" THEN job.aside ELSE disk
    /\ job' = Idle
    /\ faults' = faults - 1
    /\ UNCHANGED <<root, backups>>

Next ==
    \/ \E f \in Files : Seal(f) \/ Register(f)
    \/ Reinstall
    \/ \E i \in DOMAIN backups : (\E n \in Names : Rot(i, n)) \/ BeginRestore(i)
    \/ \E full \in BOOLEAN : BeginBackup(full)
    \/ List \/ (\E n \in Names : Hash(n)) \/ Copy \/ Publish
    \/ StageDatabase \/ Activate \/ MoveAside \/ MoveIn \/ RestoreFails

Spec == Init /\ [][Next]_vars

-----------------------------------------------------------------------------
(* Properties.                                                             *)

\* Outside a restore, every asset of the database names a whole file of the raw directory
\* that is there, although files came while the backup was made, it was put together from
\* several, the directory is another one now, or a step of the restore failed.
AssetsThere ==
    Running => \A a \in db : a.root = root /\ disk[a.file] = "whole"

\* A restore gives all of the backup or leaves all as it was.
BeforeOrAfter ==
    ~Running /\ job' = Idle =>
        \/ db' = job.previous /\ disk' = job.aside
        \/ disk' = job.files /\ {a.file : a \in db'} = {a.file : a \in backups[job.of].dump}

\* A backup that lists no temporary file can be restored as long as no copy rots, however
\* many backups its files are spread over.
ChainHolds ==
    \A i \in DOMAIN backups :
        \/ Temp \in DOMAIN backups[i].files
        \/ \E k \in DOMAIN backups : \E n \in DOMAIN backups[k].own : backups[k].own[n] = "rotten"
        \/ Verified(i) /\ \A a \in backups[i].dump : a.file \in DOMAIN backups[i].files
=============================================================================
