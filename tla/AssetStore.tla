------------------------------ MODULE AssetStore ------------------------------
(***************************************************************************)
(* The files of one collection task: each execution seals its rows in a    *)
(* directory of its own through a lock file, a temporary file, fsync and   *)
(* rename, the reconciliation looks for sealed files nobody registered and *)
(* removes what dead or late writers left, and the machine may lose power. *)
(* Who may register what when tasks race is module Collection.             *)
(***************************************************************************)
EXTENDS Naturals, FiniteSets

CONSTANTS
    Executions,     \* claims of the task, numbered in order; each has its own token
    MaxFaults,      \* bound: processes that die, power failures, failing writes
    None

ASSUME AssetStoreAssumption ==
    Executions \subseteq Nat /\ IsFiniteSet(Executions) /\ MaxFaults \in Nat /\ None \notin Executions

VARIABLES
    lease,      \* the execution whose token the task row has, or None
    late,       \* executions that have run for longer than the timeout
    phase,      \* [execution -> step of its seal]
    temps,      \* [execution -> its temporary file: None, "partial", "full", "synced"]
    locks,      \* directories with a lock file
    finals,     \* [directory -> asset.parquet: None, or who wrote it, whole, safe on disk]
    asset,      \* raw_data_asset of the task: its directory, who wrote the file, whether
                \* the writer itself sealed and registered it, whether the audit misses it
    up,         \* the process runs
    faults      \* faults still to come

vars == <<lease, late, phase, temps, locks, finals, asset, up, faults>>

Phases == {"none", "claimed", "locked", "written", "synced", "renamed", "sealed", "over"}

\* _asset_path: the directory of the task and the token.
Path(e) == e

\* The files of directories are independent of each other.
NoFile == [by |-> None, whole |-> FALSE, safe |-> FALSE]

Asset(e, by, sealed) == [path |-> Path(e), by |-> by, sealed |-> sealed, missing |-> FALSE]

Present(d) == finals[d].by # None

TypeOK ==
    /\ lease \in Executions \cup {None}
    /\ late \subseteq Executions
    /\ phase \in [Executions -> Phases]
    /\ temps \in [Executions -> {None, "partial", "full", "synced"}]
    /\ locks \subseteq Executions
    /\ \A d \in Executions : finals[d].by \in Executions \cup {None}
    /\ asset = None \/ asset.path \in Executions
    /\ up \in BOOLEAN
    /\ faults \in 0 .. MaxFaults

Init ==
    /\ lease = None
    /\ late = {}
    /\ phase = [e \in Executions |-> "none"]
    /\ temps = [e \in Executions |-> None]
    /\ locks = {}
    /\ finals = [d \in Executions |-> NoFile]
    /\ asset = None
    /\ up = TRUE
    /\ faults = MaxFaults

Claim(e) ==
    /\ up
    /\ lease = None
    /\ asset = None
    /\ phase[e] = "none"
    /\ \A f \in Executions : f < e => phase[f] # "none"
    /\ lease' = e
    /\ phase' = [phase EXCEPT ![e] = "claimed"]
    /\ UNCHANGED <<late, temps, locks, finals, asset, up, faults>>

RunsLong(e) ==
    /\ phase[e] \notin {"none", "over"}
    /\ e \notin late
    /\ late' = late \cup {e}
    /\ UNCHANGED <<lease, phase, temps, locks, finals, asset, up, faults>>

-----------------------------------------------------------------------------
(* seal.                                                                   *)

Step(e, from, to) == up /\ phase[e] = from /\ phase' = [phase EXCEPT ![e] = to]

\* An execution that cannot seal or register gives its lease back, if it still has it.
GiveUp(e) ==
    /\ phase' = [phase EXCEPT ![e] = "over"]
    /\ lease' = IF lease = e THEN None ELSE lease

\* The lock file is created exclusively.
AcquireLock(e) ==
    /\ IF Path(e) \in locks
       THEN up /\ phase[e] = "claimed" /\ GiveUp(e) /\ UNCHANGED locks
       ELSE Step(e, "claimed", "locked") /\ locks' = locks \cup {Path(e)} /\ UNCHANGED lease
    /\ UNCHANGED <<late, temps, finals, asset, up, faults>>

\* What the finally clause of a failing seal leaves: nothing.
Abort(e) ==
    /\ GiveUp(e)
    /\ temps' = [temps EXCEPT ![e] = None]
    /\ locks' = locks \ {Path(e)}

\* A file that is there already is never replaced; else the rows are written.
Write(e) ==
    /\ IF finals[Path(e)].by # None
       THEN up /\ phase[e] = "locked" /\ Abort(e)
       ELSE /\ Step(e, "locked", "written")
            /\ temps' = [temps EXCEPT ![e] = "full"]
            /\ UNCHANGED <<lease, locks>>
    /\ UNCHANGED <<late, finals, asset, up, faults>>

\* A page that fails while it is written, a wrong schema, a full disk.
WriteFails(e) ==
    /\ faults > 0
    /\ up
    /\ phase[e] \in {"locked", "written", "synced"}
    /\ Abort(e)
    /\ faults' = faults - 1
    /\ UNCHANGED <<late, finals, asset, up>>

\* _fsync_file and the verification; a file the reconciliation removed is not there.
Sync(e) ==
    /\ IF temps[e] = None
       THEN up /\ phase[e] = "written" /\ Abort(e)
       ELSE /\ Step(e, "written", "synced")
            /\ temps' = [temps EXCEPT ![e] = "synced"]
            /\ UNCHANGED <<lease, locks>>
    /\ UNCHANGED <<late, finals, asset, up, faults>>

Rename(e) ==
    /\ IF temps[e] = None
       THEN up /\ phase[e] = "synced" /\ Abort(e) /\ UNCHANGED finals
       ELSE /\ Step(e, "synced", "renamed")
            /\ temps' = [temps EXCEPT ![e] = None]
            /\ finals' = [finals EXCEPT ![Path(e)] =
                            [by |-> e, whole |-> temps[e] = "synced", safe |-> FALSE]]
            /\ UNCHANGED <<lease, locks>>
    /\ UNCHANGED <<late, asset, up, faults>>

\* _fsync_directory, and the lock file goes.
Seal(e) ==
    /\ Step(e, "renamed", "sealed")
    /\ finals' = [finals EXCEPT ![Path(e)].safe = TRUE]
    /\ locks' = locks \ {Path(e)}
    /\ UNCHANGED <<lease, late, temps, asset, up, faults>>

\* complete_task, under the lease.
Register(e) ==
    /\ Step(e, "sealed", "over")
    /\ asset' = IF lease = e THEN Asset(e, e, TRUE) ELSE asset
    /\ lease' = IF lease = e THEN None ELSE lease
    /\ UNCHANGED <<late, temps, locks, finals, up, faults>>

-----------------------------------------------------------------------------
(* Reconciliation and failures.                                            *)

\* Variant: all of them.
RemovableAll(all) == Executions

\* Whose leftovers it removes: those of executions that have run too long, all at a start.
Removable(all) == IF all THEN Executions ELSE late

\* Variant: what was registered is trusted to be there.
AuditedNever == IF asset = None THEN None ELSE [asset EXCEPT !.missing = @]

\* The audit marks a registered file that is not there.
Audited == IF asset = None THEN None ELSE [asset EXCEPT !.missing = @ \/ ~Present(asset.path)]

\* A file that is there for the current execution is registered, written by whom it may be.
Registered ==
    IF lease # None /\ Present(Path(lease))
    THEN Asset(lease, finals[Path(lease)].by, FALSE)
    ELSE Audited

\* A late execution loses its lease, and leftovers of the removable ones may go: a temporary
\* file only if it was not written for as long, which nothing here tells.
Reconcile(all) ==
    /\ up
    /\ asset' = Registered
    /\ lease' = IF all \/ lease \in late \/ Registered # Audited THEN None ELSE lease
    /\ \E removed \in {Removable(all)} \cup {Removable(all) \cap {e \in Executions : temps[e] = None}} :
         temps' = [e \in Executions |-> IF e \in removed THEN None ELSE temps[e]]
    /\ locks' = locks \ {Path(e) : e \in Removable(all)}
    /\ UNCHANGED <<late, phase, finals, up, faults>>

\* The process dies with its threads.
Die ==
    /\ up
    /\ faults > 0
    /\ up' = FALSE
    /\ phase' = [e \in Executions |-> IF phase[e] = "none" THEN "none" ELSE "over"]
    /\ faults' = faults - 1
    /\ UNCHANGED <<lease, late, temps, locks, finals, asset>>

\* The power fails: what was not synced may be gone, or be there in part.
PowerFails ==
    /\ up
    /\ faults > 0
    /\ up' = FALSE
    /\ phase' = [e \in Executions |-> IF phase[e] = "none" THEN "none" ELSE "over"]
    /\ temps' = [e \in Executions |-> IF temps[e] = "full" THEN "partial" ELSE temps[e]]
    /\ \E lost \in SUBSET {d \in Executions : ~finals[d].safe} :
         finals' = [d \in Executions |-> IF d \in lost THEN NoFile ELSE finals[d]]
    /\ faults' = faults - 1
    /\ UNCHANGED <<lease, late, locks, asset>>

\* Every task is given back or completed, and everything temporary goes.
Start ==
    /\ ~up
    /\ up' = TRUE
    /\ asset' = Registered
    /\ lease' = None
    /\ temps' = [e \in Executions |-> None]
    /\ locks' = {}
    /\ finals' = [d \in Executions |-> [finals[d] EXCEPT !.safe = Present(d)]]
    /\ UNCHANGED <<late, phase, faults>>

Next ==
    \/ \E e \in Executions :
         Claim(e) \/ RunsLong(e) \/ AcquireLock(e) \/ Write(e) \/ WriteFails(e) \/ Sync(e)
         \/ Rename(e) \/ Seal(e) \/ Register(e)
    \/ Reconcile(FALSE) \/ Die \/ PowerFails \/ Start

Spec == Init /\ [][Next]_vars

-----------------------------------------------------------------------------
(* Properties.                                                             *)

\* The file a registered asset names is there, whole, and the very file that was verified
\* when it was registered, whoever writes late. Only a file that a reconciliation registered
\* before its directory was synced may be lost with the power, and a start then marks it; a
\* file its writer sealed and registered is never lost.
RegisteredIsThere ==
    asset # None =>
        \/ finals[asset.path].by = asset.by /\ finals[asset.path].whole
        \/ ~asset.sealed /\ ~Present(asset.path) /\ (up => asset.missing)

\* Registered files are kept through crashes, power failures and late writers.
AssetsKept == TypeOK /\ RegisteredIsThere

\* No reconciliation takes the files of a live execution that holds the lease.
LeftAlone ==
    \A e \in Executions :
        /\ lease = e /\ lease' = e
        /\ phase' = phase
        /\ phase[e] \in {"locked", "written", "synced", "renamed"}
        => temps'[e] = temps[e] /\ (Path(e) \in locks => Path(e) \in locks')

LiveLeftAlone == [][LeftAlone]_vars
=============================================================================
