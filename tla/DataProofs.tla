------------------------------ MODULE DataProofs ------------------------------
(***************************************************************************)
(* Proofs about the parts of Data, for any number of executions, threads,  *)
(* rows, tasks and dates. The parts are proved one after the other, each   *)
(* with an invariant of its own, and are put together at the end.          *)
(***************************************************************************)
EXTENDS Data, FiniteSetTheorems, SequenceTheorems, WellFoundedInduction, TLAPS

-----------------------------------------------------------------------------
(* AssetStore.  Each execution renames into a directory of its own and     *)
(* does so once, after its rows were synced; so a file that is there is    *)
(* whole and its own, and only what is not yet safe on disk can go. A      *)
(* registered file is one of these.                                        *)

\* The steps after which the file of an execution may be there.
Renamed == {"renamed", "sealed", "over"}

Finals == [by : Executions \cup {None}, whole : BOOLEAN, safe : BOOLEAN]
Assets == [path : Executions, by : Executions, sealed : BOOLEAN, missing : BOOLEAN]

\* A file that is there is whole and that of its own execution.
FilesWhole ==
    /\ finals \in [Executions -> Finals]
    /\ \A d \in Executions : Present(d) => finals[d].by = d /\ finals[d].whole /\ phase[d] \in Renamed
    /\ \A d \in Executions :
         /\ phase[d] \in {"renamed", "sealed"} => Present(d)
         /\ phase[d] = "sealed" => finals[d].safe

\* Rows that a thread takes for synced are.
SyncedAreSafe == \A e \in Executions : phase[e] = "synced" => temps[e] \in {None, "synced"}

\* A registered task has no execution any more; what its writer sealed is safe, and what
\* is gone was found missing.
AssetSettled ==
    asset # None =>
        /\ asset \in Assets
        /\ lease = None
        /\ asset.by = asset.path
        /\ phase[asset.path] \in Renamed
        /\ asset.sealed => Present(asset.path) /\ finals[asset.path].safe
        /\ ~Present(asset.path) /\ up => asset.missing

IInv == TypeOK /\ FilesWhole /\ SyncedAreSafe /\ AssetSettled

-----------------------------------------------------------------------------
(* The steps.                                                              *)

\* The empty directory.
LEMMA InitHolds == Init => IInv
<1> SUFFICES ASSUME Init PROVE IInv
  OBVIOUS
<1>1. MaxFaults \in 0 .. MaxFaults
  BY AssetStoreAssumption
<1>2. TypeOK
  BY <1>1 DEF Init, TypeOK, Phases, NoFile
<1>3. FilesWhole /\ SyncedAreSafe /\ AssetSettled
  BY DEF Init, FilesWhole, SyncedAreSafe, AssetSettled, NoFile, Finals, Present
<1> QED BY <1>2, <1>3 DEF IInv

\* A step that moves executions forward, none of them to a place where a file of it must
\* be there, and leaves the files and the asset.
Onward ==
    /\ UNCHANGED <<finals, asset>>
    /\ phase' \in [Executions -> Phases]
    /\ lease' \in {lease, None}
    /\ up' => up
    /\ \A e \in Executions :
         /\ phase[e] \in Renamed => phase'[e] \in Renamed
         /\ phase'[e] \in {"renamed", "sealed"} => phase'[e] = phase[e]
         /\ phase'[e] = "synced" => temps'[e] \in {None, "synced"}

\* Such a step keeps what is there, registered and safe.
LEMMA OnwardKeeps ==
    ASSUME IInv, Onward
    PROVE  (FilesWhole /\ SyncedAreSafe /\ AssetSettled)'
<1>1. FilesWhole'
  BY DEF IInv, FilesWhole, Onward, Present
<1>2. SyncedAreSafe'
  BY DEF SyncedAreSafe, Onward
<1>3. AssetSettled'
  BY DEF IInv, AssetSettled, Assets, Onward, Present
<1> QED BY <1>1, <1>2, <1>3

\* A task is claimed only while it has no asset.
LEMMA ClaimKeeps ==
    ASSUME IInv, NEW e \in Executions, Claim(e)
    PROVE  IInv'
<1>1. TypeOK'
  BY DEF Claim, IInv, TypeOK, Phases
<1>2. FilesWhole'
  BY DEF Claim, IInv, TypeOK, FilesWhole, Present, Renamed
<1>3. SyncedAreSafe'
  BY DEF Claim, IInv, TypeOK, SyncedAreSafe
<1>4. AssetSettled'
  BY DEF Claim, AssetSettled
<1> QED BY <1>1, <1>2, <1>3, <1>4 DEF IInv

\* An execution takes long.
LEMMA RunsLongKeeps ==
    ASSUME IInv, NEW e \in Executions, RunsLong(e)
    PROVE  IInv'
<1>1. TypeOK'
  BY DEF RunsLong, IInv, TypeOK
<1>2. Onward
  BY DEF RunsLong, Onward, IInv, TypeOK, SyncedAreSafe
<1> QED BY <1>1, <1>2, OnwardKeeps DEF IInv

\* The steps of a seal before its rename, and those that give up.
LEMMA PreparationKeeps ==
    ASSUME IInv, NEW e \in Executions, AcquireLock(e) \/ Write(e) \/ WriteFails(e) \/ Sync(e)
    PROVE  IInv'
<1>1. CASE AcquireLock(e)
  <2>1. TypeOK'
    BY <1>1 DEF AcquireLock, Step, GiveUp, Path, IInv, TypeOK, Phases
  <2>2. Onward
    BY <1>1 DEF AcquireLock, Step, GiveUp, Path, Onward, IInv, TypeOK, Phases, SyncedAreSafe, Renamed
  <2> QED BY <2>1, <2>2, OnwardKeeps DEF IInv
<1>2. CASE Write(e)
  <2>1. TypeOK'
    BY <1>2 DEF Write, Abort, Step, GiveUp, Path, IInv, TypeOK, Phases
  <2>2. Onward
    BY <1>2 DEF Write, Abort, Step, GiveUp, Path, Onward, IInv, TypeOK, Phases, SyncedAreSafe, Renamed
  <2> QED BY <2>1, <2>2, OnwardKeeps DEF IInv
<1>3. CASE WriteFails(e)
  <2>1. faults > 0 => faults - 1 \in 0 .. MaxFaults
    BY AssetStoreAssumption DEF IInv, TypeOK
  <2>2. TypeOK'
    BY <1>3, <2>1 DEF WriteFails, Abort, GiveUp, Path, IInv, TypeOK, Phases
  <2>3. Onward
    BY <1>3 DEF WriteFails, Abort, GiveUp, Path, Onward, IInv, TypeOK, Phases, SyncedAreSafe, Renamed
  <2> QED BY <2>2, <2>3, OnwardKeeps DEF IInv
<1>4. CASE Sync(e)
  <2>1. TypeOK'
    BY <1>4 DEF Sync, Abort, Step, GiveUp, Path, IInv, TypeOK, Phases
  <2>2. Onward
    BY <1>4 DEF Sync, Abort, Step, GiveUp, Path, Onward, IInv, TypeOK, Phases, SyncedAreSafe, Renamed
  <2> QED BY <2>1, <2>2, OnwardKeeps DEF IInv
<1> QED BY <1>1, <1>2, <1>3, <1>4

\* The rename puts synced rows in the directory of the execution.
LEMMA RenameKeeps ==
    ASSUME IInv, NEW e \in Executions, Rename(e)
    PROVE  IInv'
<1>1. CASE temps[e] = None
  <2>1. TypeOK'
    BY <1>1 DEF Rename, Abort, GiveUp, Path, IInv, TypeOK, Phases
  <2>2. Onward
    BY <1>1 DEF Rename, Abort, GiveUp, Path, Onward, IInv, TypeOK, Phases, SyncedAreSafe, Renamed
  <2> QED BY <2>1, <2>2, OnwardKeeps DEF IInv
<1>2. CASE temps[e] # None
  <2>1. PICK file : file = [by |-> e, whole |-> temps[e] = "synced", safe |-> FALSE]
    OBVIOUS
  <2>2. /\ phase[e] = "synced" /\ temps[e] = "synced"
        /\ phase' = [phase EXCEPT ![e] = "renamed"]
        /\ temps' = [temps EXCEPT ![e] = None]
        /\ finals' = [finals EXCEPT ![e] = file]
        /\ UNCHANGED <<lease, late, locks, asset, up, faults>>
    BY <1>2, <2>1 DEF Rename, Step, Path, IInv, SyncedAreSafe
  <2>3. file \in Finals /\ file.by = e /\ file.whole /\ e # None
    BY <2>1, <2>2, AssetStoreAssumption DEF Finals
  <2>4. /\ \A d \in Executions : finals'[d] = IF d = e THEN file ELSE finals[d]
        /\ \A d \in Executions : phase'[d] = IF d = e THEN "renamed" ELSE phase[d]
    BY <2>2 DEF IInv, TypeOK, FilesWhole
  <2>5. TypeOK'
    BY <2>2, <2>3, <2>4 DEF IInv, TypeOK, Phases
  <2>6. FilesWhole'
    BY <2>2, <2>3, <2>4 DEF IInv, FilesWhole, Present, Renamed
  <2>7. SyncedAreSafe'
    BY <2>2 DEF IInv, TypeOK, SyncedAreSafe
  <2>8. AssetSettled'
    BY <2>2, <2>4 DEF IInv, AssetSettled, Assets, Present, Renamed
  <2> QED BY <2>5, <2>6, <2>7, <2>8 DEF IInv
<1> QED BY <1>1, <1>2

\* A file is safe once its directory is synced.
LEMMA SealKeeps ==
    ASSUME IInv, NEW e \in Executions, Seal(e)
    PROVE  IInv'
<1>1. /\ phase[e] = "renamed"
      /\ phase' = [phase EXCEPT ![e] = "sealed"]
      /\ finals' = [finals EXCEPT ![e].safe = TRUE]
      /\ locks' = locks \ {e}
      /\ UNCHANGED <<lease, late, temps, asset, up, faults>>
  BY DEF Seal, Step, Path
<1>2. PICK file : file = [finals[e] EXCEPT !.safe = TRUE]
  OBVIOUS
<1>3. finals[e] \in Finals
  BY DEF IInv, FilesWhole
<1>4. file \in Finals /\ file.by = finals[e].by /\ file.whole = finals[e].whole /\ file.safe
  BY <1>2, <1>3 DEF Finals
<1>5. finals' = [finals EXCEPT ![e] = file]
  BY <1>1, <1>2
<1>6. /\ finals' \in [Executions -> Finals]
      /\ \A d \in Executions : finals'[d] = IF d = e THEN file ELSE finals[d]
      /\ \A d \in Executions : phase'[d] = IF d = e THEN "sealed" ELSE phase[d]
  <2>1. finals \in [Executions -> Finals] /\ phase \in [Executions -> Phases]
    BY DEF IInv, TypeOK, FilesWhole
  <2> QED BY <1>1, <1>4, <1>5, <2>1
<1>7. TypeOK'
  BY <1>1, <1>4, <1>6 DEF IInv, TypeOK, Phases
<1>8. FilesWhole'
  BY <1>1, <1>3, <1>4, <1>6 DEF IInv, FilesWhole, Present, Renamed
<1>9. SyncedAreSafe'
  BY <1>1 DEF IInv, TypeOK, SyncedAreSafe
<1>10. AssetSettled'
  BY <1>1, <1>4, <1>6 DEF IInv, AssetSettled, Assets, Present, Renamed
<1> QED BY <1>7, <1>8, <1>9, <1>10 DEF IInv

\* A writer registers what it sealed, under the lease.
LEMMA RegisterKeeps ==
    ASSUME IInv, NEW e \in Executions, Register(e)
    PROVE  IInv'
<1>1. /\ phase[e] = "sealed"
      /\ phase' = [phase EXCEPT ![e] = "over"]
      /\ asset' = IF lease = e THEN Asset(e, e, TRUE) ELSE asset
      /\ lease' = IF lease = e THEN None ELSE lease
      /\ UNCHANGED <<late, temps, locks, finals, up, faults>>
  BY DEF Register, Step
<1>2. \A d \in Executions : phase'[d] = IF d = e THEN "over" ELSE phase[d]
  BY <1>1 DEF IInv, TypeOK
<1>3. TypeOK'
  BY <1>1 DEF IInv, TypeOK, Phases, Asset, Path
<1>4. FilesWhole'
  BY <1>1, <1>2 DEF IInv, FilesWhole, Present, Renamed
<1>5. SyncedAreSafe'
  BY <1>1, <1>2 DEF IInv, SyncedAreSafe
<1>6. AssetSettled'
  <2>1. CASE lease = e
    <3>1. asset' = [path |-> e, by |-> e, sealed |-> TRUE, missing |-> FALSE]
      BY <1>1, <2>1 DEF Asset, Path
    <3>2. Present(e)' /\ finals'[e].safe
      BY <1>1 DEF IInv, FilesWhole, Present
    <3> QED BY <3>1, <3>2, <1>1, <1>2, <2>1 DEF AssetSettled, Assets, Renamed
  <2>2. CASE lease # e
    BY <2>2, <1>1, <1>2 DEF IInv, AssetSettled, Assets, Present, Renamed
  <2> QED BY <2>1, <2>2
<1> QED BY <1>3, <1>4, <1>5, <1>6 DEF IInv

\* What a reconciliation makes of the asset: one that was settled stays so, and may be found
\* missing; a file that is registered is whole, though perhaps not safe.
LEMMA RegisteredIsSettled ==
    ASSUME IInv, NEW to, to = Registered, to # None
    PROVE  /\ to \in Assets
           /\ to.by = to.path
           /\ phase[to.path] \in Renamed
           /\ to.sealed => Present(to.path) /\ finals[to.path].safe
           /\ ~Present(to.path) => to.missing
           /\ Registered # Audited \/ lease = None
<1>1. CASE lease # None /\ Present(Path(lease))
  <2>1. to = [path |-> lease, by |-> finals[lease].by, sealed |-> FALSE, missing |-> FALSE]
    BY <1>1 DEF Registered, Asset, Path
  <2>2. lease \in Executions /\ finals[lease].by = lease /\ phase[lease] \in Renamed
    BY <1>1 DEF IInv, TypeOK, FilesWhole, Path
  <2>3. asset = None
    BY <1>1 DEF IInv, AssetSettled
  <2>4. to # Audited
    BY <2>3 DEF Audited
  <2> QED BY <1>1, <2>1, <2>2, <2>4 DEF Assets, Path
<1>2. CASE ~(lease # None /\ Present(Path(lease)))
  <2>1. asset # None /\ to = [asset EXCEPT !.missing = @ \/ ~Present(asset.path)]
    BY <1>2 DEF Registered, Audited
  <2>2. asset \in Assets /\ lease = None
    BY <2>1 DEF IInv, AssetSettled
  <2>3. Present(asset.path) \in BOOLEAN
    BY DEF Present
  <2>4. /\ to \in Assets
        /\ to.path = asset.path /\ to.by = asset.by /\ to.sealed = asset.sealed
        /\ to.missing = (asset.missing \/ ~Present(asset.path))
    BY <2>1, <2>2, <2>3 DEF Assets
  <2> QED BY <2>1, <2>2, <2>4 DEF IInv, AssetSettled
<1> QED BY <1>1, <1>2

\* A reconciliation registers files and removes leftovers; no file of a directory goes.
LEMMA ReconcileKeeps ==
    ASSUME IInv, Reconcile(FALSE)
    PROVE  IInv'
<1>1. /\ up
      /\ asset' = Registered
      /\ lease' = IF lease \in late \/ Registered # Audited THEN None ELSE lease
      /\ UNCHANGED <<late, phase, finals, up, faults>>
      /\ locks' \subseteq locks
  BY DEF Reconcile
<1>2. PICK removed :
         temps' = [f \in Executions |-> IF f \in removed THEN None ELSE temps[f]]
  BY DEF Reconcile
<1>3. asset' = None \/ asset'.path \in Executions
  BY <1>1, RegisteredIsSettled DEF Assets
<1>4. TypeOK'
  BY <1>1, <1>2, <1>3 DEF IInv, TypeOK
<1>5. FilesWhole'
  BY <1>1 DEF IInv, FilesWhole, Present
<1>6. SyncedAreSafe'
  BY <1>1, <1>2 DEF IInv, SyncedAreSafe
<1>7. AssetSettled'
  <2> SUFFICES ASSUME asset' # None
               PROVE  AssetSettled'
    BY DEF AssetSettled
  <2>1. /\ asset' \in Assets
        /\ asset'.by = asset'.path
        /\ phase[asset'.path] \in Renamed
        /\ asset'.sealed => Present(asset'.path) /\ finals[asset'.path].safe
        /\ ~Present(asset'.path) => asset'.missing
        /\ Registered # Audited \/ lease = None
    BY <1>1, RegisteredIsSettled
  <2>2. lease' = None
    BY <1>1, <2>1
  <2> QED BY <1>1, <2>1, <2>2 DEF AssetSettled, Assets, Present
<1> QED BY <1>4, <1>5, <1>6, <1>7 DEF IInv

\* Who claimed the task is over when the process is down.
LEMMA OverWithProcess ==
    ASSUME IInv,
           phase' = [e \in Executions |-> IF phase[e] = "none" THEN "none" ELSE "over"]
    PROVE  /\ phase' \in [Executions -> {"none", "over"}]
           /\ \A e \in Executions : phase[e] \in Renamed => phase'[e] \in Renamed
  BY DEF IInv, TypeOK, Renamed

\* A process that dies leaves everything where it is.
LEMMA DieKeeps ==
    ASSUME IInv, Die
    PROVE  IInv'
<1>1. /\ phase' \in [Executions -> {"none", "over"}]
      /\ \A e \in Executions : phase[e] \in Renamed => phase'[e] \in Renamed
  BY OverWithProcess DEF Die
<1>2. faults - 1 \in 0 .. MaxFaults
  BY AssetStoreAssumption DEF Die, IInv, TypeOK
<1>3. TypeOK'
  BY <1>1, <1>2 DEF Die, IInv, TypeOK, Phases
<1>4. Onward
  BY <1>1 DEF Die, Onward, Phases, Renamed
<1> QED BY <1>3, <1>4, OnwardKeeps DEF IInv

\* The power takes only what is not safe.
LEMMA PowerFailsKeeps ==
    ASSUME IInv, PowerFails
    PROVE  IInv'
<1>1. /\ phase' \in [Executions -> {"none", "over"}]
      /\ \A e \in Executions : phase[e] \in Renamed => phase'[e] \in Renamed
  BY OverWithProcess DEF PowerFails
<1>2. faults - 1 \in 0 .. MaxFaults
  BY AssetStoreAssumption DEF PowerFails, IInv, TypeOK
<1>3. PICK lost \in SUBSET {d \in Executions : ~finals[d].safe} :
         finals' = [d \in Executions |-> IF d \in lost THEN NoFile ELSE finals[d]]
  BY DEF PowerFails
<1>4. NoFile \in Finals /\ NoFile.by = None
  BY DEF NoFile, Finals
<1>5. /\ finals' \in [Executions -> Finals]
      /\ \A d \in Executions : finals'[d] = finals[d] \/ (~finals[d].safe /\ finals'[d].by = None)
  BY <1>3, <1>4 DEF IInv, FilesWhole
<1>6. TypeOK'
  <2>1. \A d \in Executions : finals'[d].by \in Executions \cup {None}
    BY <1>5 DEF Finals
  <2> QED BY <1>1, <1>2, <2>1 DEF PowerFails, IInv, TypeOK, Phases
<1>7. FilesWhole'
  BY <1>1, <1>5 DEF IInv, FilesWhole, Present, Renamed
<1>8. SyncedAreSafe'
  BY <1>1 DEF SyncedAreSafe
<1>9. AssetSettled'
  BY <1>1, <1>5 DEF PowerFails, IInv, AssetSettled, Assets, Present
<1> QED BY <1>6, <1>7, <1>8, <1>9 DEF IInv

\* A start registers what is there for the task and clears the rest.
LEMMA StartKeeps ==
    ASSUME IInv, Start
    PROVE  IInv'
<1>1. /\ up' /\ asset' = Registered /\ lease' = None
      /\ temps' = [e \in Executions |-> None]
      /\ locks' = {}
      /\ finals' = [d \in Executions |-> [finals[d] EXCEPT !.safe = Present(d)]]
      /\ up' = TRUE
      /\ UNCHANGED <<late, phase, faults>>
  BY DEF Start
<1>2. /\ finals' \in [Executions -> Finals]
      /\ \A d \in Executions : /\ finals'[d].by = finals[d].by
                               /\ finals'[d].whole = finals[d].whole
                               /\ finals'[d].safe = Present(d)
  <2> SUFFICES ASSUME NEW d \in Executions
               PROVE  /\ finals'[d] \in Finals
                      /\ finals'[d].by = finals[d].by
                      /\ finals'[d].whole = finals[d].whole
                      /\ finals'[d].safe = Present(d)
    BY <1>1
  <2>1. finals[d] \in Finals /\ Present(d) \in BOOLEAN
    BY DEF IInv, FilesWhole, Present
  <2>2. finals'[d] = [finals[d] EXCEPT !.safe = Present(d)]
    BY <1>1
  <2> QED BY <2>1, <2>2 DEF Finals
<1>3. asset' = None \/ asset'.path \in Executions
  BY <1>1, RegisteredIsSettled DEF Assets
<1>4. TypeOK'
  BY <1>1, <1>2, <1>3 DEF IInv, TypeOK, Finals
<1>5. FilesWhole'
  <2>1. \A d \in Executions : (finals'[d].by # None) = (finals[d].by # None)
    BY <1>2
  <2>2. \A d \in Executions : finals[d].by # None => finals[d].by = d /\ finals[d].whole /\ phase[d] \in Renamed
    BY DEF IInv, FilesWhole, Present
  <2>3. \A d \in Executions : finals'[d].by # None => finals'[d].by = d /\ finals'[d].whole /\ phase'[d] \in Renamed
    <3> SUFFICES ASSUME NEW d \in Executions, finals'[d].by # None
                 PROVE  finals'[d].by = d /\ finals'[d].whole /\ phase'[d] \in Renamed
      OBVIOUS
    <3>1. finals[d].by = d /\ finals[d].whole /\ phase[d] \in Renamed
      BY <2>1, <2>2
    <3>2. finals'[d].by = finals[d].by /\ finals'[d].whole = finals[d].whole
      BY <1>2
    <3>3. phase' = phase
      BY <1>1
    <3> QED BY <3>1, <3>2, <3>3 DEF Renamed
  <2>4. \A d \in Executions : phase'[d] \in {"renamed", "sealed"} => finals'[d].by # None /\ finals'[d].safe
    <3>1. \A d \in Executions : phase[d] \in {"renamed", "sealed"} => finals[d].by # None
      BY DEF IInv, FilesWhole, Present
    <3>2. \A d \in Executions : finals'[d].safe = (finals[d].by # None)
      BY <1>2 DEF Present
    <3> QED BY <1>1, <2>1, <3>1, <3>2
  <2> QED BY <1>2, <2>3, <2>4 DEF FilesWhole, Present
<1>6. SyncedAreSafe'
  BY <1>1 DEF SyncedAreSafe
<1>7. AssetSettled'
  <2> SUFFICES ASSUME asset' # None
               PROVE  AssetSettled'
    BY DEF AssetSettled
  <2>1. /\ asset' \in Assets
        /\ asset'.by = asset'.path
        /\ phase[asset'.path] \in Renamed
        /\ asset'.sealed => Present(asset'.path)
        /\ ~Present(asset'.path) => asset'.missing
    BY <1>1, RegisteredIsSettled
  <2>2. asset'.path \in Executions
    BY <2>1 DEF Assets
  <2>3. \A d \in Executions : (finals'[d].by # None) = Present(d)
    BY <1>2 DEF Present
  <2>4. /\ (finals'[asset'.path].by # None) = Present(asset'.path)
        /\ finals'[asset'.path].safe = Present(asset'.path)
    BY <1>2, <2>2, <2>3
  <2> QED BY <1>1, <2>1, <2>4 DEF AssetSettled, Present
<1> QED BY <1>4, <1>5, <1>6, <1>7 DEF IInv

-----------------------------------------------------------------------------
(* The theorems.                                                           *)

\* No step breaks the invariant.
LEMMA StepHolds == IInv /\ [Next]_vars => IInv'
<1> SUFFICES ASSUME IInv, [Next]_vars PROVE IInv'
  OBVIOUS
<1>1. ASSUME NEW e \in Executions,
             \/ Claim(e) \/ RunsLong(e) \/ AcquireLock(e) \/ Write(e) \/ WriteFails(e)
             \/ Sync(e) \/ Rename(e) \/ Seal(e) \/ Register(e)
      PROVE  IInv'
  BY <1>1, ClaimKeeps, RunsLongKeeps, PreparationKeeps, RenameKeeps, SealKeeps, RegisterKeeps
<1>2. CASE UNCHANGED vars
  BY <1>2 DEF vars, IInv, TypeOK, FilesWhole, SyncedAreSafe, AssetSettled, Present
<1> QED BY <1>1, <1>2, ReconcileKeeps, DieKeeps, PowerFailsKeeps, StartKeeps DEF Next

\* The files and the asset of a task are as the invariant says, however many executions,
\* crashes and power failures there are.
THEOREM Inductive == Spec => []IInv
<1> QED BY InitHolds, StepHolds, PTL DEF Spec

\* A registered asset names a whole file of its own execution that is there, however late
\* others write; only one that a reconciliation registered before it was safe on disk can go,
\* and is then found missing.
THEOREM AssetsAreKept == Spec => []AssetsKept
<1>1. IInv => AssetsKept
  <2> SUFFICES ASSUME IInv, asset # None PROVE RegisteredIsThere
    BY DEF AssetsKept, IInv, RegisteredIsThere
  <2>1. asset \in Assets /\ asset.by = asset.path
    BY DEF IInv, AssetSettled
  <2>2. CASE Present(asset.path)
    BY <2>1, <2>2 DEF IInv, FilesWhole, Assets, RegisteredIsThere
  <2>3. CASE ~Present(asset.path)
    BY <2>3 DEF IInv, AssetSettled, RegisteredIsThere
  <2> QED BY <2>2, <2>3
<1> QED BY <1>1, Inductive, PTL

\* A step that is no reconciliation and leaves everybody where it is takes no files.
LEMMA OnlyReconcile ==
    ASSUME IInv, [Next]_vars, phase' = phase, NEW e \in Executions, lease' = e
    PROVE  Reconcile(FALSE) \/ UNCHANGED <<temps, locks>> \/ phase[e] \in {"none", "claimed", "sealed", "over"}
<1>1. lease' # None
  BY AssetStoreAssumption
<1>2. ~Start
  BY <1>1 DEF Start
<1>3. CASE Die \/ PowerFails
  BY <1>3 DEF Die, PowerFails
<1>4. ASSUME NEW f \in Executions, Claim(f)
      PROVE  UNCHANGED <<temps, locks>>
  BY <1>4 DEF Claim
<1>5. ASSUME NEW f \in Executions, RunsLong(f)
      PROVE  UNCHANGED <<temps, locks>>
  BY <1>5 DEF RunsLong
<1>6. ASSUME NEW f \in Executions,
             \/ AcquireLock(f) \/ Write(f) \/ WriteFails(f) \/ Sync(f)
             \/ Rename(f) \/ Seal(f) \/ Register(f)
      PROVE  FALSE
  <2>1. phase[f] \in {"claimed", "locked", "written", "synced", "renamed", "sealed"}
    BY <1>6 DEF AcquireLock, Write, WriteFails, Sync, Rename, Seal, Register, Step
  <2>2. phase'[f] \in {"locked", "written", "synced", "renamed", "sealed", "over"} /\ phase'[f] # phase[f]
    BY <1>6 DEF AcquireLock, Write, WriteFails, Sync, Rename, Seal, Register, Step, Abort, GiveUp,
                IInv, TypeOK
  <2> QED BY <2>2
<1>7. CASE UNCHANGED vars
  BY <1>7 DEF vars
<1> QED BY <1>2, <1>3, <1>4, <1>5, <1>6, <1>7 DEF Next

\* No reconciliation takes the files of an execution that holds the lease: it would be late,
\* and would not have it afterwards.
THEOREM LiveIsLeftAlone == Spec => LiveLeftAlone
<1>1. IInv /\ [Next]_vars => [LeftAlone]_vars
  <2> SUFFICES ASSUME IInv, [Next]_vars,
                      NEW e \in Executions, lease = e, lease' = e, phase' = phase,
                      phase[e] \in {"locked", "written", "synced", "renamed"}
               PROVE  temps'[e] = temps[e] /\ (Path(e) \in locks => Path(e) \in locks')
    BY DEF LeftAlone
  <2>1. Reconcile(FALSE) \/ UNCHANGED <<temps, locks>>
    BY OnlyReconcile
  <2>2. CASE Reconcile(FALSE)
    <3>1. e # None
      BY AssetStoreAssumption
    <3>2. e \notin late
      BY <2>2, <3>1 DEF Reconcile
    <3>3. e \notin Removable(FALSE) /\ Path(e) \notin {Path(f) : f \in Removable(FALSE)}
      BY <3>2 DEF Removable, Path
    <3>4. PICK removed \in {Removable(FALSE)}
                           \cup {Removable(FALSE) \cap {f \in Executions : temps[f] = None}} :
             temps' = [f \in Executions |-> IF f \in removed THEN None ELSE temps[f]]
      BY <2>2 DEF Reconcile
    <3>5. locks' = locks \ {Path(f) : f \in Removable(FALSE)}
      BY <2>2 DEF Reconcile
    <3> QED BY <3>3, <3>4, <3>5
  <2> QED BY <2>1, <2>2
<1> QED BY <1>1, Inductive, PTL DEF Spec, LiveLeftAlone

-----------------------------------------------------------------------------
(* Backups. A file that has its name is whole and stays, so all files of a *)
(* dump are found when the directory is listed; and what a backup lists is *)
(* in the backup that it says holds it, which is never a later one.        *)

FileRows == [file : Files, root : {1, 2}]

\* A file under its own name is whole; only the temporary one is written in parts.
Disks == {d \in [B!Names -> {None, "part", "whole"}] : \A f \in Files : d[f] \in {None, "whole"}}

Items == [hash : {"part", "whole"}, storedIn : Nat]

Listings ==
    {l \in UNION {[X -> Items] : X \in SUBSET B!Names} :
        \A f \in Files \cap DOMAIN l : l[f].hash = "whole"}

Copies ==
    {c \in UNION {[X -> B!Contents] : X \in SUBSET B!Names} :
        \A f \in Files \cap DOMAIN c : c[f] \in {"whole", "rotten"}}

Hashes ==
    {h \in [name : B!Names \cup {None}, hash : {None, "part", "whole"}] :
        \/ h = B!NoHash
        \/ h.name \in B!Names /\ h.hash # None /\ (h.name \in Files => h.hash = "whole")}

BackupJobs ==
    [kind : {"backup"}, step : {"list", "copy"}, full : BOOLEAN, dump : SUBSET FileRows,
     previous : Listings, todo : SUBSET B!Names, files : Listings, own : Copies, hashed : Hashes]

RestoreJobs ==
    [kind : {"restore"}, step : {"files", "staged", "activated", "moved"}, of : 1 .. Len(backups),
     staging : SUBSET FileRows, previous : SUBSET FileRows, aside : Disks, files : Disks]

SavedBackups == [dump : SUBSET FileRows, root : {1, 2}, files : Listings, own : Copies]

BackupTypes ==
    /\ db \in SUBSET FileRows
    /\ disk \in Disks
    /\ root \in {1, 2}
    /\ backups \in Seq(SavedBackups)
    /\ backupFaults \in 0 .. BackupFaults
    /\ job \in {B!Idle} \cup BackupJobs \cup RestoreJobs

\* A listed file has its copy in one of the backups so far.
Stored(l, n) == l[n].storedIn \in 1 .. Len(backups) /\ n \in DOMAIN backups[l[n].storedIn].own

\* A backup has all files of its dump, and each in itself or in an earlier one.
BackupsSound ==
    \A i \in 1 .. Len(backups) :
        /\ \A a \in backups[i].dump : a.root = backups[i].root /\ a.file \in DOMAIN backups[i].files
        /\ \A n \in DOMAIN backups[i].files : backups[i].files[n].storedIn \in 1 .. i /\ Stored(backups[i].files, n)
        /\ DOMAIN backups[i].own \subseteq DOMAIN backups[i].files

\* A backup that is made has, or is still to list, all files of its dump.
BackupGoesOn ==
    job \in BackupJobs =>
        /\ job.dump \subseteq db
        /\ \A n \in DOMAIN job.previous : Stored(job.previous, n)
        /\ \A n \in DOMAIN job.files :
              \/ Stored(job.files, n)
              \/ job.files[n].storedIn = Len(backups) + 1 /\ n \in DOMAIN job.own
        /\ DOMAIN job.own \subseteq DOMAIN job.files
        /\ job.step = "list" => job.hashed = B!NoHash
        /\ job.step = "copy" =>
              \A a \in job.dump : a.file \in job.todo \cup DOMAIN job.files \cup {job.hashed.name}

\* A restore has all files of the dump, and what was there until it is over.
RestoreGoesOn ==
    job \in RestoreJobs =>
        /\ \A a \in job.previous : a.root = root /\ job.aside[a.file] = "whole"
        /\ \A a \in backups[job.of].dump : job.files[a.file] = "whole"
        /\ job.step \in {"files", "staged"} => db = job.previous /\ disk = job.aside
        /\ job.step \in {"staged", "activated", "moved"} => job.staging = backups[job.of].dump
        /\ job.step \in {"activated", "moved"} => db = B!Rewrite(job.staging)
        /\ job.step = "activated" => disk = job.aside
        /\ job.step = "moved" => disk = B!Empty

BackupInv == BackupTypes /\ B!AssetsThere /\ BackupsSound /\ BackupGoesOn /\ RestoreGoesOn

LEMMA BackupNames ==
    /\ None \notin Files /\ B!Temp \notin Files /\ None # B!Temp /\ None \notin {"part", "whole", "rotten"}
    /\ None # "backup" /\ None # "restore" /\ BackupFaults \in Nat
    /\ B!Names = Files \cup {B!Temp} /\ None \notin B!Names
BY DataAssumption DEF B!Temp, B!Names

LEMMA KindIs ==
    ASSUME BackupTypes
    PROVE  /\ B!Kind = "backup" <=> job \in BackupJobs
           /\ B!Kind = "restore" <=> job \in RestoreJobs
           /\ job = B!Idle => B!Running /\ job \notin BackupJobs /\ job \notin RestoreJobs
           /\ B!Running <=> job \notin RestoreJobs
<1>1. \A j \in BackupJobs : j.kind = "backup"
  BY DEF BackupJobs
<1>2. \A j \in RestoreJobs : j.kind = "restore"
  BY DEF RestoreJobs
<1>3. B!Idle.kind = None /\ None # "backup" /\ None # "restore"
  BY BackupNames DEF B!Idle
<1>4. job \in {B!Idle} \cup BackupJobs \cup RestoreJobs
  BY DEF BackupTypes
<1> QED BY <1>1, <1>2, <1>3, <1>4 DEF B!Kind, B!Running

LEMMA DisksAre ==
    ASSUME NEW d \in Disks
    PROVE  /\ DOMAIN d = B!Names
           /\ \A n \in B!Names : d[n] \in {None, "part", "whole"}
           /\ \A f \in Files : f \in B!Names /\ d[f] \in {None, "whole"}
BY DEF Disks, B!Names

LEMMA EmptyIsDisk == B!Empty \in Disks /\ \A n \in B!Names : B!Empty[n] = None
BY DEF Disks, B!Names, B!Empty

LEMMA BackupInitHolds == B!Init => BackupInv
<1> SUFFICES ASSUME B!Init PROVE BackupInv
  OBVIOUS
<1>1. BackupTypes
  BY EmptyIsDisk, BackupNames DEF B!Init, BackupTypes
<1>2. job = B!Idle /\ job \notin BackupJobs /\ job \notin RestoreJobs
  BY <1>1, KindIs DEF B!Init
<1> QED BY <1>1, <1>2 DEF B!Init, BackupInv, B!AssetsThere, BackupsSound, BackupGoesOn, RestoreGoesOn

LEMMA SealFileKeeps ==
    ASSUME BackupInv, NEW f \in Files, B!Seal(f)
    PROVE  BackupInv'
<1>1. B!Running /\ UNCHANGED <<db, root, backups, job, backupFaults>> /\ job \notin RestoreJobs
  BY KindIs DEF B!Seal, BackupInv
<1>2. disk[f] = None /\ \A a \in db : a.file # f
  BY DEF B!Seal, B!Unsealed
<1>3. disk \in Disks
  BY DEF BackupInv, BackupTypes
<1>4. disk' \in Disks /\ \A g \in Files \ {f} : disk'[g] = disk[g]
  <2>1. CASE disk' = [disk EXCEPT ![B!Temp] = IF @ = None THEN "part" ELSE "whole"]
    BY <1>3, <2>1, BackupNames DEF Disks
  <2>2. CASE disk' = [disk EXCEPT ![f] = "whole", ![B!Temp] = None]
    BY <1>3, <2>2, BackupNames DEF Disks
  <2> QED BY <2>1, <2>2 DEF B!Seal
<1>5. \A a \in db : a.file \in Files
  BY DEF BackupInv, BackupTypes, FileRows
<1>6. BackupTypes'
  BY <1>1, <1>4 DEF BackupInv, BackupTypes, RestoreJobs
<1>7. B!AssetsThere'
  BY <1>1, <1>2, <1>4, <1>5 DEF BackupInv, B!AssetsThere, B!Running, B!Kind
<1> QED BY <1>1, <1>6, <1>7 DEF BackupInv, BackupsSound, Stored, BackupGoesOn, RestoreGoesOn, RestoreJobs

LEMMA RegisterFileKeeps ==
    ASSUME BackupInv, NEW f \in Files, B!Register(f)
    PROVE  BackupInv'
<1>1. B!Running /\ UNCHANGED <<disk, root, backups, job, backupFaults>> /\ job \notin RestoreJobs
  BY KindIs DEF B!Register, BackupInv
<1>2. disk[f] = "whole"
  BY DisksAre DEF B!Register, BackupInv, BackupTypes
<1>3. db' = db \cup {[file |-> f, root |-> root]}
  BY DEF B!Register
<1>4. BackupTypes'
  BY <1>1, <1>3 DEF BackupInv, BackupTypes, RestoreJobs, FileRows
<1>5. B!AssetsThere'
  BY <1>1, <1>2, <1>3 DEF BackupInv, B!AssetsThere, B!Running, B!Kind
<1>6. BackupGoesOn'
  BY <1>1, <1>3 DEF BackupInv, Stored, BackupGoesOn
<1> QED BY <1>1, <1>4, <1>5, <1>6 DEF BackupInv, BackupsSound, Stored, RestoreGoesOn, RestoreJobs

LEMMA ReinstallKeeps == BackupInv /\ B!Reinstall => BackupInv'
<1> SUFFICES ASSUME BackupInv, B!Reinstall PROVE BackupInv'
  OBVIOUS
<1>1. /\ job = B!Idle /\ job' = job /\ backups' = backups /\ db' = {} /\ disk' = B!Empty
      /\ root' = 3 - root /\ backupFaults' = backupFaults - 1 /\ backupFaults > 0
  BY DEF B!Reinstall
<1>2. BackupTypes'
  <2>1. root' \in {1, 2} /\ backupFaults' \in 0 .. BackupFaults
    BY <1>1, BackupNames DEF BackupInv, BackupTypes
  <2> QED BY <1>1, <2>1, EmptyIsDisk DEF BackupInv, BackupTypes, RestoreJobs
<1>3. job \notin BackupJobs /\ job \notin RestoreJobs
  BY <1>1, KindIs DEF BackupInv
<1> QED BY <1>1, <1>2, <1>3 DEF BackupInv, B!AssetsThere, BackupsSound, Stored, BackupGoesOn, RestoreGoesOn, RestoreJobs

LEMMA BackupsAre ==
    ASSUME BackupInv
    PROVE  /\ Len(backups) \in Nat /\ DOMAIN backups = 1 .. Len(backups)
           /\ \A i \in 1 .. Len(backups) :
                /\ backups[i] \in SavedBackups
                /\ backups[i].dump \in SUBSET FileRows /\ backups[i].root \in {1, 2}
                /\ backups[i].files \in Listings /\ backups[i].own \in Copies
<1>1. backups \in Seq(SavedBackups)
  BY DEF BackupInv, BackupTypes
<1>2. /\ Len(backups) \in Nat /\ DOMAIN backups = 1 .. Len(backups)
      /\ \A i \in 1 .. Len(backups) : backups[i] \in SavedBackups
  BY <1>1
<1> QED BY <1>2 DEF SavedBackups

LEMMA ListingsAre ==
    ASSUME NEW l \in Listings
    PROVE  /\ DOMAIN l \subseteq B!Names
           /\ \A n \in DOMAIN l : l[n] \in Items
           /\ \A f \in Files \cap DOMAIN l : l[f].hash = "whole"
BY DEF Listings

LEMMA CopiesAre ==
    ASSUME NEW c \in Copies
    PROVE  /\ DOMAIN c \subseteq B!Names
           /\ \A n \in DOMAIN c : c[n] \in B!Contents
           /\ \A f \in Files \cap DOMAIN c : c[f] \in {"whole", "rotten"}
BY DEF Copies

LEMMA PutListing ==
    ASSUME NEW l \in Listings, NEW n \in B!Names, NEW v \in Items,
           n \in Files => v.hash = "whole"
    PROVE  /\ B!Put(l, n, v) \in Listings
           /\ DOMAIN B!Put(l, n, v) = DOMAIN l \cup {n}
           /\ B!Put(l, n, v)[n] = v
           /\ \A k \in DOMAIN l \ {n} : B!Put(l, n, v)[k] = l[k]
<1> DEFINE p == B!Put(l, n, v)
<1>2. /\ DOMAIN p = DOMAIN l \cup {n} /\ p[n] = v /\ \A k \in DOMAIN l \ {n} : p[k] = l[k]
      /\ p = [k \in DOMAIN l \cup {n} |-> IF k = n THEN v ELSE l[k]]
  BY DEF B!Put
<1> HIDE DEF p
<1>3. p \in [DOMAIN l \cup {n} -> Items]
  BY <1>2, ListingsAre
<1>4. DOMAIN l \cup {n} \in SUBSET B!Names
  BY ListingsAre
<1>5. \A f \in Files \cap DOMAIN p : p[f].hash = "whole"
  BY <1>2, ListingsAre
<1>6. p \in Listings
  BY <1>3, <1>4, <1>5 DEF Listings
<1> QED BY <1>2, <1>6 DEF p

LEMMA PutCopy ==
    ASSUME NEW c \in Copies, NEW n \in B!Names, NEW v \in {"part", "whole"}, n \in Files => v = "whole"
    PROVE  /\ B!Put(c, n, v) \in Copies
           /\ DOMAIN B!Put(c, n, v) = DOMAIN c \cup {n}
<1> DEFINE p == B!Put(c, n, v)
<1>2. /\ DOMAIN p = DOMAIN c \cup {n} /\ p[n] = v /\ \A k \in DOMAIN c \ {n} : p[k] = c[k]
      /\ p = [k \in DOMAIN c \cup {n} |-> IF k = n THEN v ELSE c[k]]
  BY DEF B!Put
<1> HIDE DEF p
<1>3. p \in [DOMAIN c \cup {n} -> B!Contents]
  BY <1>2, CopiesAre DEF B!Contents
<1>4. DOMAIN c \cup {n} \in SUBSET B!Names
  BY CopiesAre
<1>5. \A f \in Files \cap DOMAIN p : p[f] \in {"whole", "rotten"}
  BY <1>2, CopiesAre
<1>6. p \in Copies
  BY <1>3, <1>4, <1>5 DEF Copies
<1> QED BY <1>2, <1>6 DEF p

LEMMA NothingListed == B!NoFiles \in Listings /\ B!NoFiles \in Copies /\ DOMAIN B!NoFiles = {}
<1>1. DOMAIN B!NoFiles = {} /\ B!NoFiles = [n \in {} |-> None]
  BY DEF B!NoFiles
<1>2. B!NoFiles \in [{} -> Items] /\ B!NoFiles \in [{} -> B!Contents]
  BY <1>1
<1> QED BY <1>1, <1>2 DEF Listings, Copies

LEMMA RotKeeps ==
    ASSUME BackupInv, NEW i \in DOMAIN backups, NEW n \in B!Names, B!Rot(i, n)
    PROVE  BackupInv'
<1>1. /\ n \in DOMAIN backups[i].own /\ backups' = [backups EXCEPT ![i].own[n] = "rotten"]
      /\ backupFaults' = backupFaults - 1 /\ backupFaults > 0 /\ UNCHANGED <<db, disk, root, job>>
  BY DEF B!Rot
<1>2. i \in 1 .. Len(backups)
  BY BackupsAre
<1> DEFINE own == [backups[i].own EXCEPT ![n] = "rotten"]
           b == [backups[i] EXCEPT !.own = own]
<1>3. backups' = [backups EXCEPT ![i] = b]
  BY <1>1
<1>4. own \in Copies /\ DOMAIN own = DOMAIN backups[i].own
  <2>1. backups[i].own \in Copies
    BY <1>2, BackupsAre
  <2>2. PICK X \in SUBSET B!Names : backups[i].own \in [X -> B!Contents]
    BY <2>1 DEF Copies
  <2>3. own \in [X -> B!Contents]
    BY <2>2 DEF B!Contents
  <2>4. \A f \in Files \cap DOMAIN own : own[f] \in {"whole", "rotten"}
    BY <2>1, <2>2, CopiesAre
  <2> QED BY <2>2, <2>3, <2>4 DEF Copies
<1> HIDE DEF own
<1>5. /\ b \in SavedBackups
      /\ b.dump = backups[i].dump /\ b.root = backups[i].root /\ b.files = backups[i].files /\ b.own = own
  BY <1>2, <1>4, BackupsAre DEF SavedBackups
<1> HIDE DEF b
<1>6. /\ backups' \in Seq(SavedBackups)
      /\ Len(backups') = Len(backups)
      /\ \A k \in 1 .. Len(backups) : backups'[k] = IF k = i THEN b ELSE backups[k]
  BY <1>2, <1>3, <1>5 DEF BackupInv, BackupTypes
<1>7. \A k \in 1 .. Len(backups) :
          /\ backups'[k].dump = backups[k].dump /\ backups'[k].root = backups[k].root
          /\ backups'[k].files = backups[k].files /\ DOMAIN backups'[k].own = DOMAIN backups[k].own
  BY <1>4, <1>5, <1>6
<1>8. BackupTypes'
  <2>1. backupFaults' \in 0 .. BackupFaults
    BY <1>1, BackupNames DEF BackupInv, BackupTypes
  <2>2. RestoreJobs' = RestoreJobs
    BY <1>6 DEF RestoreJobs
  <2> QED BY <1>1, <1>6, <2>1, <2>2 DEF BackupInv, BackupTypes
<1>9. BackupsSound'
  BY <1>6, <1>7 DEF BackupInv, BackupsSound, Stored
<1>10. BackupGoesOn'
  BY <1>1, <1>6, <1>7 DEF BackupInv, BackupGoesOn, Stored
<1>11. RestoreGoesOn'
  <2>1. RestoreJobs' = RestoreJobs
    BY <1>6 DEF RestoreJobs
  <2>2. job \in RestoreJobs => job.of \in 1 .. Len(backups)
    BY DEF RestoreJobs
  <2>3. job \in RestoreJobs => backups'[job.of].dump = backups[job.of].dump /\ backups'[job.of].root = backups[job.of].root
    BY <1>7, <2>2
  <2>4. job \in RestoreJobs => B!Rewrite(job.staging)' = B!Rewrite(job.staging)
    BY <1>1, <2>3 DEF B!Rewrite
  <2> QED BY <1>1, <2>1, <2>3, <2>4 DEF BackupInv, RestoreGoesOn
<1>12. B!AssetsThere'
  BY <1>1 DEF BackupInv, B!AssetsThere, B!Running, B!Kind
<1> QED BY <1>8, <1>9, <1>10, <1>11, <1>12 DEF BackupInv

LEMMA IdleKeeps ==
    ASSUME BackupInv, job' = B!Idle, B!Running, UNCHANGED <<db, disk, root, backups, backupFaults>>
    PROVE  BackupInv'
<1>1. BackupTypes'
  BY DEF BackupInv, BackupTypes
<1>2. B!AssetsThere'
  BY DEF BackupInv, B!AssetsThere
<1>3. BackupsSound'
  BY DEF BackupInv, BackupsSound, Stored
<1>4. B!Idle \notin BackupJobs /\ B!Idle \notin RestoreJobs
  BY BackupNames DEF B!Idle, BackupJobs, RestoreJobs
<1>5. job' \notin BackupJobs' /\ job' \notin RestoreJobs'
  BY <1>4 DEF RestoreJobs
<1> QED BY <1>1, <1>2, <1>3, <1>5 DEF BackupInv, BackupGoesOn, RestoreGoesOn

\* A step of a backup changes the job alone.
LEMMA BackupJobKeeps ==
    ASSUME BackupInv, job \notin RestoreJobs, job' \in BackupJobs, BackupGoesOn',
           UNCHANGED <<db, disk, root, backups, backupFaults>>
    PROVE  BackupInv'
<1>1. job' \notin RestoreJobs'
  BY DEF BackupJobs, RestoreJobs
<1>2. B!AssetsThere'
  BY KindIs DEF BackupInv, B!AssetsThere, B!Running
<1> QED BY <1>1, <1>2 DEF BackupInv, BackupTypes, BackupsSound, Stored, RestoreGoesOn, BackupJobs

LEMMA BeginBackupKeeps ==
    ASSUME BackupInv, NEW full \in BOOLEAN, B!BeginBackup(full)
    PROVE  BackupInv'
<1>1. job = B!Idle /\ job \notin RestoreJobs /\ UNCHANGED <<db, disk, root, backups, backupFaults>>
  BY KindIs DEF B!BeginBackup, BackupInv
<1>2. job' = [kind |-> "backup", step |-> "list", full |-> full, dump |-> db, previous |-> B!NoFiles,
              todo |-> {}, files |-> B!NoFiles, own |-> B!NoFiles, hashed |-> B!NoHash]
  BY DEF B!BeginBackup
<1>3. B!NoHash \in Hashes
  BY DEF Hashes, B!NoHash
<1>4. job' \in BackupJobs
  BY <1>2, <1>3, NothingListed DEF BackupJobs, BackupInv, BackupTypes
<1>5. BackupGoesOn'
  BY <1>1, <1>2, NothingListed DEF BackupGoesOn
<1> QED BY <1>1, <1>4, <1>5, BackupJobKeeps

LEMMA BackupJobIs ==
    ASSUME NEW j \in BackupJobs
    PROVE  /\ j.kind = "backup" /\ j.step \in {"list", "copy"} /\ j.full \in BOOLEAN /\ j.dump \in SUBSET FileRows
           /\ j.previous \in Listings /\ j.todo \in SUBSET B!Names /\ j.files \in Listings
           /\ j.own \in Copies /\ j.hashed \in Hashes
BY DEF BackupJobs

LEMMA HashesAre ==
    ASSUME NEW h \in Hashes, h # B!NoHash
    PROVE  h.name \in B!Names /\ h.hash \in {"part", "whole"} /\ (h.name \in Files => h.hash = "whole")
BY DEF Hashes

LEMMA ListKeeps == BackupInv /\ B!List => BackupInv'
<1> SUFFICES ASSUME BackupInv, B!List PROVE BackupInv'
  OBVIOUS
<1> DEFINE newest == Len(backups)
           used == ~job.full /\ newest > 0
           previous == IF used THEN backups[newest].files ELSE B!NoFiles
           todo == {n \in B!Names : disk[n] # None}
<1>1. /\ job \in BackupJobs /\ job \notin RestoreJobs /\ B!Running /\ job.step = "list"
      /\ UNCHANGED <<db, disk, root, backups, backupFaults>>
  BY KindIs DEF B!List, BackupInv, B!Running
<1>2. CASE job' = B!Idle
  BY <1>1, <1>2, IdleKeeps
<1>3. CASE job' = [job EXCEPT !.step = "copy", !.previous = previous, !.todo = todo]
  <2>1. previous \in Listings /\ \A n \in DOMAIN previous : Stored(previous, n)
    BY BackupsAre, NothingListed DEF BackupInv, BackupsSound
  <2> HIDE DEF previous
  <2>2. todo \in SUBSET B!Names
    OBVIOUS
  <2>3. \A a \in job.dump : a.file \in todo
    <3>1. job.dump \subseteq db
      BY <1>1 DEF BackupInv, BackupGoesOn
    <3>2. \A a \in db : a.file \in Files /\ disk[a.file] = "whole"
      BY <1>1 DEF BackupInv, BackupTypes, FileRows, B!AssetsThere
    <3> QED BY <3>1, <3>2, BackupNames
  <2> HIDE DEF todo
  <2>4. job' \in BackupJobs
    BY <1>1, <1>3, <2>1, <2>2 DEF BackupJobs
  <2>5. /\ job'.step = "copy" /\ job'.previous = previous /\ job'.todo = todo /\ job'.dump = job.dump
        /\ job'.files = job.files /\ job'.own = job.own /\ job'.hashed = job.hashed
    BY <1>1, <1>3 DEF BackupJobs
  <2>6. BackupGoesOn'
    BY <1>1, <2>1, <2>3, <2>5 DEF BackupInv, BackupGoesOn, Stored
  <2> QED BY <1>1, <2>4, <2>6, BackupJobKeeps
<1> QED BY <1>2, <1>3 DEF B!List

LEMMA HashKeeps ==
    ASSUME BackupInv, NEW n \in B!Names, B!Hash(n)
    PROVE  BackupInv'
<1> DEFINE rest == [job EXCEPT !.todo = job.todo \ {n}]
           item == [hash |-> disk[n], storedIn |-> B!StoredIn(n)]
<1>1. /\ job \in BackupJobs /\ job \notin RestoreJobs /\ B!Running /\ job.step = "copy"
      /\ job.hashed = B!NoHash /\ n \in job.todo /\ UNCHANGED <<db, disk, root, backups, backupFaults>>
  BY KindIs DEF B!Hash, B!Copying, BackupInv, B!Running
<1>2. /\ job.dump \subseteq db /\ \A k \in DOMAIN job.previous : Stored(job.previous, k)
      /\ \A k \in DOMAIN job.files :
            \/ Stored(job.files, k)
            \/ job.files[k].storedIn = Len(backups) + 1 /\ k \in DOMAIN job.own
      /\ DOMAIN job.own \subseteq DOMAIN job.files
      /\ \A a \in job.dump : a.file \in job.todo \cup DOMAIN job.files
  <2>1. \A a \in job.dump : a.file \in Files
    BY <1>1, BackupJobIs DEF FileRows
  <2>2. B!NoHash.name \notin Files
    BY BackupNames DEF B!NoHash
  <2> QED BY <1>1, <2>1, <2>2 DEF BackupInv, BackupGoesOn
<1>3. \A a \in job.dump : a.file \in Files /\ disk[a.file] # None
  BY <1>1, <1>2, BackupNames DEF BackupInv, BackupTypes, FileRows, B!AssetsThere
<1>4. /\ rest \in BackupJobs /\ rest.todo = job.todo \ {n} /\ rest.step = "copy" /\ rest.dump = job.dump
      /\ rest.previous = job.previous /\ rest.files = job.files /\ rest.own = job.own /\ rest.hashed = job.hashed
  BY <1>1 DEF BackupJobs
<1>5. \/ disk[n] = None /\ job' \in {rest, B!Idle}
      \/ /\ disk[n] # None /\ n \in DOMAIN job.previous /\ job.previous[n].hash = disk[n]
         /\ job' = [rest EXCEPT !.files = B!Put(rest.files, n, item)]
      \/ disk[n] # None /\ job' = [rest EXCEPT !.hashed = [name |-> n, hash |-> disk[n]]]
  BY DEF B!Hash
<1> HIDE DEF rest
<1>6. CASE job' = B!Idle
  BY <1>1, <1>6, IdleKeeps
<1>7. CASE disk[n] = None /\ job' = rest
  <2>1. \A a \in job.dump : a.file \in (job.todo \ {n}) \cup DOMAIN job.files
    BY <1>2, <1>3, <1>7
  <2>2. BackupGoesOn'
    BY <1>1, <1>2, <1>4, <1>7, <2>1 DEF BackupGoesOn, Stored
  <2> QED BY <1>1, <1>4, <1>7, <2>2, BackupJobKeeps
<1>8. disk[n] # None => disk[n] \in {"part", "whole"} /\ (n \in Files => disk[n] = "whole")
  BY DisksAre DEF BackupInv, BackupTypes
<1>9. CASE /\ disk[n] # None /\ n \in DOMAIN job.previous /\ job.previous[n].hash = disk[n]
           /\ job' = [rest EXCEPT !.files = B!Put(rest.files, n, item)]
  <2> DEFINE files == B!Put(job.files, n, item)
  <2>1. B!StoredIn(n) = job.previous[n].storedIn /\ B!StoredIn(n) \in Nat /\ Stored(job.previous, n)
    BY <1>1, <1>2, <1>9, BackupJobIs, ListingsAre DEF B!StoredIn, Items
  <2>2. item \in Items /\ (n \in Files => item.hash = "whole")
    BY <1>8, <1>9, <2>1 DEF Items
  <2>3. item.storedIn = job.previous[n].storedIn
    BY <2>1
  <2> HIDE DEF item
  <2>4. /\ files \in Listings /\ DOMAIN files = DOMAIN job.files \cup {n} /\ files[n] = item
        /\ \A k \in DOMAIN job.files \ {n} : files[k] = job.files[k]
    <3>1. job.files \in Listings
      BY <1>1, BackupJobIs
    <3>2. files \in Listings
      BY <2>2, <3>1, PutListing
    <3>3. DOMAIN files = DOMAIN job.files \cup {n}
      BY <2>2, <3>1, PutListing
    <3>4. files[n] = item
      BY <2>2, <3>1, PutListing
    <3>5. \A k \in DOMAIN job.files \ {n} : files[k] = job.files[k]
      BY DEF B!Put
    <3> QED BY <3>2, <3>3, <3>4, <3>5
  <2> HIDE DEF files
  <2>5. Stored(files, n) /\ \A k \in DOMAIN job.files \ {n} : Stored(job.files, k) => Stored(files, k)
    BY <2>1, <2>4, <2>3 DEF Stored
  <2>6. /\ job' \in BackupJobs /\ job'.files = files /\ job'.todo = job.todo \ {n} /\ job'.step = "copy"
        /\ job'.dump = job.dump /\ job'.previous = job.previous /\ job'.own = job.own /\ job'.hashed = job.hashed
    BY <1>4, <1>9, <2>4 DEF BackupJobs, files
  <2>7. \A k \in DOMAIN files :
            \/ Stored(files, k)
            \/ files[k].storedIn = Len(backups) + 1 /\ k \in DOMAIN job.own
    BY <1>2, <2>4, <2>5
  <2>8. BackupGoesOn'
    BY <1>1, <1>2, <2>4, <2>6, <2>7 DEF BackupGoesOn, Stored
  <2> QED BY <1>1, <2>6, <2>8, BackupJobKeeps
<1>10. CASE disk[n] # None /\ job' = [rest EXCEPT !.hashed = [name |-> n, hash |-> disk[n]]]
  <2>1. [name |-> n, hash |-> disk[n]] \in Hashes /\ [name |-> n, hash |-> disk[n]].name = n
    BY <1>8, <1>10, BackupNames DEF Hashes
  <2>2. /\ job' \in BackupJobs /\ job'.files = job.files /\ job'.todo = job.todo \ {n} /\ job'.step = "copy"
        /\ job'.dump = job.dump /\ job'.previous = job.previous /\ job'.own = job.own /\ job'.hashed.name = n
    BY <1>4, <1>10, <2>1 DEF BackupJobs
  <2>3. BackupGoesOn'
    BY <1>1, <1>2, <2>2 DEF BackupGoesOn, Stored
  <2> QED BY <1>1, <2>2, <2>3, BackupJobKeeps
<1> QED BY <1>5, <1>6, <1>7, <1>9, <1>10

LEMMA CopyKeeps == BackupInv /\ B!Copy => BackupInv'
<1> SUFFICES ASSUME BackupInv, B!Copy PROVE BackupInv'
  OBVIOUS
<1> DEFINE n == job.hashed.name
           item == [hash |-> job.hashed.hash, storedIn |-> Len(backups) + 1]
           files == B!Put(job.files, n, item)
           own == B!Put(job.own, n, disk[n])
<1>1. /\ job \in BackupJobs /\ job \notin RestoreJobs /\ B!Running /\ job.step = "copy"
      /\ job.hashed # B!NoHash /\ UNCHANGED <<db, disk, root, backups, backupFaults>>
  BY KindIs DEF B!Copy, B!Copying, BackupInv, B!Running
<1>2. CASE job' = B!Idle
  BY <1>1, <1>2, IdleKeeps
<1>3. CASE disk[n] # None /\ job' = [job EXCEPT !.hashed = B!NoHash, !.own = own, !.files = files]
  <2>1. n \in B!Names /\ job.hashed.hash \in {"part", "whole"} /\ (n \in Files => job.hashed.hash = "whole")
    BY <1>1, BackupJobIs, HashesAre
  <2>2. disk[n] \in {"part", "whole"} /\ (n \in Files => disk[n] = "whole")
    BY <1>3, <2>1, DisksAre DEF BackupInv, BackupTypes
  <2>3. job.files \in Listings /\ job.own \in Copies /\ Len(backups) + 1 \in Nat
    BY <1>1, BackupJobIs, BackupsAre
  <2>4. item \in Items /\ (n \in Files => item.hash = "whole")
    BY <2>1, <2>3 DEF Items
  <2>5. item.storedIn = Len(backups) + 1
    OBVIOUS
  <2> HIDE DEF item, n
  <2>6. /\ files \in Listings /\ DOMAIN files = DOMAIN job.files \cup {n} /\ files[n] = item
        /\ \A k \in DOMAIN job.files \ {n} : files[k] = job.files[k]
    <3>1. job.files \in Listings /\ n \in B!Names
      BY <2>1, <2>3
    <3>2. files \in Listings
      BY <2>4, <3>1, PutListing
    <3>3. DOMAIN files = DOMAIN job.files \cup {n}
      BY <2>4, <3>1, PutListing
    <3>4. files[n] = item
      BY <2>4, <3>1, PutListing
    <3>5. \A k \in DOMAIN job.files \ {n} : files[k] = job.files[k]
      BY DEF B!Put
    <3> QED BY <3>2, <3>3, <3>4, <3>5
  <2>7. own \in Copies /\ DOMAIN own = DOMAIN job.own \cup {n}
    BY <2>1, <2>2, <2>3, PutCopy DEF n
  <2> HIDE DEF files, own
  <2>8. B!NoHash \in Hashes
    BY DEF Hashes, B!NoHash
  <2>9. /\ job' \in BackupJobs /\ job'.files = files /\ job'.own = own /\ job'.todo = job.todo /\ job'.step = "copy"
        /\ job'.dump = job.dump /\ job'.previous = job.previous
    BY <1>1, <1>3, <2>6, <2>7, <2>8 DEF BackupJobs
  <2>10. \A k \in DOMAIN files :
            \/ Stored(files, k)
            \/ files[k].storedIn = Len(backups) + 1 /\ k \in DOMAIN own
    BY <1>1, <2>6, <2>7, <2>5 DEF BackupInv, BackupGoesOn, Stored
  <2>11. DOMAIN own \subseteq DOMAIN files
    BY <1>1, <2>6, <2>7 DEF BackupInv, BackupGoesOn
  <2>12. \A a \in job.dump : a.file \in job.todo \cup DOMAIN files
    BY <1>1, <2>6 DEF BackupInv, BackupGoesOn, n
  <2>13. BackupGoesOn'
    BY <1>1, <2>9, <2>10, <2>11, <2>12 DEF BackupInv, BackupGoesOn, Stored
  <2> QED BY <1>1, <2>9, <2>13, BackupJobKeeps
<1> QED BY <1>2, <1>3 DEF B!Copy

LEMMA PublishKeeps == BackupInv /\ B!Publish => BackupInv'
<1> SUFFICES ASSUME BackupInv, B!Publish PROVE BackupInv'
  OBVIOUS
<1> DEFINE b == [dump |-> B!Dumped, root |-> root, files |-> job.files, own |-> job.own]
<1>1. /\ job \in BackupJobs /\ B!Running /\ job.step = "copy" /\ job.hashed = B!NoHash /\ job.todo = {}
      /\ job' = B!Idle /\ backups' = Append(backups, b) /\ UNCHANGED <<db, disk, root, backupFaults>>
  BY KindIs DEF B!Publish, B!Copying, BackupInv, B!Running
<1>2. /\ b.dump = job.dump /\ b.root = root /\ b.files = job.files /\ b.own = job.own /\ b \in SavedBackups
  BY <1>1, BackupJobIs DEF B!Dumped, SavedBackups, BackupInv, BackupTypes
<1> HIDE DEF b
<1>3. backups \in Seq(SavedBackups) /\ Len(backups) \in Nat
  BY DEF BackupInv, BackupTypes
<1>4. /\ backups' \in Seq(SavedBackups) /\ Len(backups') = Len(backups) + 1
      /\ backups'[Len(backups) + 1] = b /\ \A i \in 1 .. Len(backups) : backups'[i] = backups[i]
  BY <1>1, <1>2, <1>3
<1>5. \A a \in job.dump : a.root = root /\ a.file \in DOMAIN job.files
  <2>1. \A a \in job.dump : a \in db /\ a.file \in Files
    BY <1>1, BackupJobIs DEF BackupInv, BackupGoesOn, FileRows
  <2>2. B!NoHash.name \notin Files
    BY BackupNames DEF B!NoHash
  <2> QED BY <1>1, <2>1, <2>2 DEF BackupInv, BackupGoesOn, B!AssetsThere
<1>6. ASSUME NEW l, NEW n, Stored(l, n) PROVE Stored(l, n)'
  BY <1>3, <1>4, <1>6 DEF Stored
<1>7. ASSUME NEW n \in DOMAIN job.files
      PROVE  job.files[n].storedIn \in 1 .. Len(backups) + 1 /\ n \in DOMAIN backups'[job.files[n].storedIn].own
  BY <1>1, <1>2, <1>3, <1>4 DEF BackupInv, BackupGoesOn, Stored
<1>8. BackupsSound'
  <2> SUFFICES ASSUME NEW i \in 1 .. Len(backups')
               PROVE  /\ \A a \in backups'[i].dump : a.root = backups'[i].root /\ a.file \in DOMAIN backups'[i].files
                      /\ \A n \in DOMAIN backups'[i].files :
                            /\ backups'[i].files[n].storedIn \in 1 .. i
                            /\ backups'[i].files[n].storedIn \in 1 .. Len(backups')
                            /\ n \in DOMAIN backups'[backups'[i].files[n].storedIn].own
                      /\ DOMAIN backups'[i].own \subseteq DOMAIN backups'[i].files
    BY DEF BackupsSound, Stored
  <2>1. CASE i \in 1 .. Len(backups)
    BY <1>3, <1>4, <2>1 DEF BackupInv, BackupsSound, Stored
  <2>2. CASE i = Len(backups) + 1
    <3>1. backups'[i] = b
      BY <1>4, <2>2
    <3>2. DOMAIN job.own \subseteq DOMAIN job.files
      BY <1>1 DEF BackupInv, BackupGoesOn
    <3> QED BY <1>2, <1>4, <1>5, <1>7, <2>2, <3>1, <3>2
  <2> QED BY <1>3, <1>4, <2>1, <2>2
<1>9. BackupTypes'
  BY <1>1, <1>4 DEF BackupInv, BackupTypes
<1>10. B!AssetsThere'
  BY <1>1 DEF BackupInv, B!AssetsThere
<1>11. job' \notin BackupJobs' /\ job' \notin RestoreJobs'
  BY <1>1, BackupNames DEF B!Idle, BackupJobs, RestoreJobs
<1> QED BY <1>8, <1>9, <1>10, <1>11 DEF BackupInv, BackupGoesOn, RestoreGoesOn

LEMMA RestoreJobIs ==
    ASSUME NEW j \in RestoreJobs
    PROVE  /\ j.kind = "restore" /\ j.step \in {"files", "staged", "activated", "moved"} /\ j.of \in 1 .. Len(backups)
           /\ j.staging \in SUBSET FileRows /\ j.previous \in SUBSET FileRows
           /\ j.aside \in Disks /\ j.files \in Disks
BY DEF RestoreJobs

\* A step of a restore leaves the backups alone.
LEMMA RestoreJobKeeps ==
    ASSUME BackupInv, job' \in RestoreJobs, RestoreGoesOn', db' \in SUBSET FileRows, disk' \in Disks,
           UNCHANGED <<root, backups, backupFaults>>
    PROVE  BackupInv'
<1>1. job' \notin BackupJobs' /\ job' \in RestoreJobs'
  BY DEF BackupJobs, RestoreJobs
<1>2. job'.kind = "restore"
  BY RestoreJobIs
<1>3. B!AssetsThere'
  BY <1>2 DEF B!AssetsThere, B!Running, B!Kind
<1> QED BY <1>1, <1>3 DEF BackupInv, BackupTypes, BackupsSound, Stored, BackupGoesOn

\* A verified backup has all files of its dump, whole.
LEMMA VerifiedIsWhole ==
    ASSUME BackupInv, NEW i \in DOMAIN backups, B!Verified(i)
    PROVE  LET files == [n \in B!Names |-> IF n \in DOMAIN backups[i].files
                            THEN backups[backups[i].files[n].storedIn].own[n] ELSE None]
           IN files \in Disks /\ \A a \in backups[i].dump : files[a.file] = "whole"
<1> DEFINE files == [n \in B!Names |-> IF n \in DOMAIN backups[i].files
                        THEN backups[backups[i].files[n].storedIn].own[n] ELSE None]
<1>1. i \in 1 .. Len(backups) /\ backups[i].files \in Listings /\ backups[i].dump \in SUBSET FileRows
  BY BackupsAre
<1>2. ASSUME NEW n \in DOMAIN backups[i].files
      PROVE  backups[backups[i].files[n].storedIn].own[n] = backups[i].files[n].hash
  BY <1>2 DEF B!Verified, B!Matches
<1>3. ASSUME NEW n \in DOMAIN backups[i].files
      PROVE  backups[i].files[n].hash \in {"part", "whole"} /\ (n \in Files => backups[i].files[n].hash = "whole")
  BY <1>1, ListingsAre DEF Items
<1>4. \A n \in B!Names : files[n] \in {None, "part", "whole"} /\ (n \in Files => files[n] \in {None, "whole"})
  BY <1>2, <1>3
<1>5. files \in Disks
  BY <1>4, BackupNames DEF Disks
<1>6. ASSUME NEW a \in backups[i].dump PROVE files[a.file] = "whole"
  <2>1. a.file \in DOMAIN backups[i].files /\ a.file \in Files /\ a.file \in B!Names
    BY <1>1, BackupNames DEF BackupInv, BackupsSound, FileRows
  <2> QED BY <1>2, <1>3, <2>1
<1> QED BY <1>5, <1>6

LEMMA BeginRestoreKeeps ==
    ASSUME BackupInv, NEW i \in DOMAIN backups, B!BeginRestore(i)
    PROVE  BackupInv'
<1> DEFINE files == [n \in B!Names |-> IF n \in DOMAIN backups[i].files
                        THEN backups[backups[i].files[n].storedIn].own[n] ELSE None]
<1>1. /\ job = B!Idle /\ B!Running /\ B!Verified(i) /\ UNCHANGED <<db, disk, root, backups, backupFaults>>
      /\ job' = [kind |-> "restore", step |-> "files", of |-> i, staging |-> {}, previous |-> db,
                 aside |-> disk, files |-> files]
  BY KindIs DEF B!BeginRestore, BackupInv
<1>2. files \in Disks /\ \A a \in backups[i].dump : files[a.file] = "whole"
  BY <1>1, VerifiedIsWhole
<1> HIDE DEF files
<1>3. i \in 1 .. Len(backups) /\ db \in SUBSET FileRows /\ disk \in Disks
  BY BackupsAre DEF BackupInv, BackupTypes
<1>4. job' \in RestoreJobs
  BY <1>1, <1>2, <1>3 DEF RestoreJobs
<1>5. /\ job'.step = "files" /\ job'.of = i /\ job'.previous = db /\ job'.aside = disk /\ job'.files = files
  BY <1>1
<1>6. RestoreGoesOn'
  BY <1>1, <1>2, <1>5 DEF BackupInv, RestoreGoesOn, B!AssetsThere
<1> QED BY <1>1, <1>3, <1>4, <1>6, RestoreJobKeeps

LEMMA StageDatabaseKeeps == BackupInv /\ B!StageDatabase => BackupInv'
<1> SUFFICES ASSUME BackupInv, B!StageDatabase PROVE BackupInv'
  OBVIOUS
<1>1. /\ job \in RestoreJobs /\ job.step = "files" /\ UNCHANGED <<db, disk, root, backups, backupFaults>>
      /\ job' = [job EXCEPT !.step = "staged", !.staging = backups[job.of].dump]
  BY KindIs DEF B!StageDatabase, B!Restoring, BackupInv
<1>2. backups[job.of].dump \in SUBSET FileRows
  BY <1>1, RestoreJobIs, BackupsAre
<1>3. job' \in RestoreJobs
  BY <1>1, <1>2 DEF RestoreJobs
<1>4. /\ job'.step = "staged" /\ job'.of = job.of /\ job'.previous = job.previous /\ job'.aside = job.aside
      /\ job'.files = job.files /\ job'.staging = backups[job.of].dump
  BY <1>1 DEF RestoreJobs
<1>5. RestoreGoesOn'
  BY <1>1, <1>4 DEF BackupInv, RestoreGoesOn
<1> QED BY <1>1, <1>3, <1>5, RestoreJobKeeps DEF BackupInv, BackupTypes

\* Rewritten, what the directory of the backup named is in the directory there is.
LEMMA RewriteIs ==
    ASSUME NEW rows \in SUBSET FileRows, root \in {1, 2},
           \A a \in rows : a.root = backups[job.of].root
    PROVE  /\ B!Rewrite(rows) \in SUBSET FileRows
           /\ \A a \in B!Rewrite(rows) : a.root = root
           /\ {a.file : a \in B!Rewrite(rows)} = {a.file : a \in rows}
<1> DEFINE Moved(a) == [a EXCEPT !.root = root]
<1>1. \A a \in rows : Moved(a) \in FileRows /\ Moved(a).root = root /\ Moved(a).file = a.file
  BY DEF FileRows
<1>2. B!Rewrite(rows) = {Moved(a) : a \in rows}
  BY DEF B!Rewrite
<1> HIDE DEF Moved
<1>3. B!Rewrite(rows) \in SUBSET FileRows /\ \A a \in B!Rewrite(rows) : a.root = root
  BY <1>1, <1>2
<1>4. ASSUME NEW a \in rows PROVE \E c \in B!Rewrite(rows) : c.file = a.file
  BY <1>1, <1>2
<1>5. ASSUME NEW c \in B!Rewrite(rows) PROVE \E a \in rows : c.file = a.file
  BY <1>1, <1>2
<1> QED BY <1>3, <1>4, <1>5

LEMMA ActivateKeeps == BackupInv /\ B!Activate => BackupInv'
<1> SUFFICES ASSUME BackupInv, B!Activate PROVE BackupInv'
  OBVIOUS
<1>1. /\ job \in RestoreJobs /\ job.step = "staged" /\ UNCHANGED <<disk, root, backups, backupFaults>>
      /\ db' = B!Rewrite(job.staging) /\ job' = [job EXCEPT !.step = "activated"]
  BY KindIs DEF B!Activate, B!Restoring, BackupInv
<1>2. /\ job' \in RestoreJobs /\ job'.step = "activated" /\ job'.of = job.of /\ job'.previous = job.previous
      /\ job'.aside = job.aside /\ job'.files = job.files /\ job'.staging = job.staging
  BY <1>1 DEF RestoreJobs
<1>3. \A a \in job.staging : a.root = backups[job.of].root
  BY <1>1, RestoreJobIs DEF BackupInv, RestoreGoesOn, BackupsSound
<1>4. db' \in SUBSET FileRows
  BY <1>1, <1>3, RestoreJobIs, RewriteIs DEF BackupInv, BackupTypes
<1>5. B!Rewrite(job.staging)' = B!Rewrite(job.staging)
  BY <1>1, <1>2 DEF B!Rewrite
<1>6. RestoreGoesOn'
  BY <1>1, <1>2, <1>5 DEF BackupInv, RestoreGoesOn
<1> QED BY <1>1, <1>2, <1>4, <1>6, RestoreJobKeeps DEF BackupInv, BackupTypes

LEMMA MoveAsideKeeps == BackupInv /\ B!MoveAside => BackupInv'
<1> SUFFICES ASSUME BackupInv, B!MoveAside PROVE BackupInv'
  OBVIOUS
<1>1. /\ job \in RestoreJobs /\ job.step = "activated" /\ UNCHANGED <<db, root, backups, backupFaults>>
      /\ disk' = B!Empty /\ job' = [job EXCEPT !.step = "moved"]
  BY KindIs DEF B!MoveAside, B!Restoring, BackupInv
<1>2. /\ job' \in RestoreJobs /\ job'.step = "moved" /\ job'.of = job.of /\ job'.previous = job.previous
      /\ job'.aside = job.aside /\ job'.files = job.files /\ job'.staging = job.staging
  BY <1>1 DEF RestoreJobs
<1>3. B!Rewrite(job.staging)' = B!Rewrite(job.staging) /\ B!Empty' = B!Empty
  BY <1>1, <1>2 DEF B!Rewrite, B!Empty
<1>4. RestoreGoesOn'
  BY <1>1, <1>2, <1>3 DEF BackupInv, RestoreGoesOn
<1> QED BY <1>1, <1>2, <1>4, EmptyIsDisk, RestoreJobKeeps DEF BackupInv, BackupTypes

\* A restore that is over has left assets that are there.
LEMMA RestoredKeeps ==
    ASSUME BackupInv, job' = B!Idle, db' \in SUBSET FileRows, disk' \in Disks,
           \A a \in db' : a.root = root /\ disk'[a.file] = "whole",
           backupFaults' \in 0 .. BackupFaults, UNCHANGED <<root, backups>>
    PROVE  BackupInv'
<1>1. job' \notin BackupJobs' /\ job' \notin RestoreJobs'
  BY BackupNames DEF B!Idle, BackupJobs, RestoreJobs
<1>2. B!AssetsThere'
  BY DEF B!AssetsThere
<1> QED BY <1>1, <1>2 DEF BackupInv, BackupTypes, BackupsSound, Stored, BackupGoesOn, RestoreGoesOn

LEMMA MoveInKeeps ==
    ASSUME BackupInv, B!MoveIn
    PROVE  BackupInv' /\ disk' = job.files /\ {a.file : a \in db'} = {a.file : a \in backups[job.of].dump}
<1>1. /\ job \in RestoreJobs /\ job.step = "moved" /\ UNCHANGED <<db, root, backups, backupFaults>>
      /\ disk' = job.files /\ job' = B!Idle
  BY KindIs DEF B!MoveIn, B!Restoring, BackupInv
<1>2. /\ db = B!Rewrite(job.staging) /\ job.staging = backups[job.of].dump
      /\ \A a \in job.staging : a.root = backups[job.of].root
  BY <1>1, RestoreJobIs DEF BackupInv, RestoreGoesOn, BackupsSound
<1>3. \A a \in backups[job.of].dump : job.files[a.file] = "whole"
  BY <1>1 DEF BackupInv, RestoreGoesOn
<1>4. /\ job.staging \in SUBSET FileRows /\ root \in {1, 2} /\ job.files \in Disks
      /\ db \in SUBSET FileRows /\ backupFaults \in 0 .. BackupFaults
  BY <1>1, RestoreJobIs DEF BackupInv, BackupTypes
<1>5. (\A a \in db : a.root = root) /\ {a.file : a \in db} = {a.file : a \in job.staging}
  BY <1>2, <1>4, RewriteIs
<1>6. \A a \in db : job.files[a.file] = "whole"
  <2> SUFFICES ASSUME NEW a \in db PROVE job.files[a.file] = "whole"
    OBVIOUS
  <2>1. PICK c \in job.staging : c.file = a.file
    BY <1>5
  <2> QED BY <1>2, <1>3, <2>1
<1>7. BackupInv'
  BY <1>1, <1>4, <1>5, <1>6, RestoredKeeps
<1> QED BY <1>1, <1>2, <1>5, <1>7

LEMMA RestoreFailsKeeps ==
    ASSUME BackupInv, B!RestoreFails
    PROVE  BackupInv' /\ db' = job.previous /\ disk' = job.aside
<1>1. /\ job \in RestoreJobs /\ job' = B!Idle /\ UNCHANGED <<root, backups>>
      /\ backupFaults > 0 /\ backupFaults' = backupFaults - 1
      /\ db' = IF job.step \in {"activated", "moved"} THEN job.previous ELSE db
      /\ disk' = IF job.step = "moved" THEN job.aside ELSE disk
  BY KindIs DEF B!RestoreFails, B!RollbackDatabase, BackupInv
<1>2. /\ job.step \in {"files", "staged", "activated", "moved"} /\ job.previous \in SUBSET FileRows /\ job.aside \in Disks
  BY <1>1, RestoreJobIs
<1>3. db' = job.previous /\ disk' = job.aside
  BY <1>1, <1>2 DEF BackupInv, RestoreGoesOn
<1>4. \A a \in job.previous : a.root = root /\ job.aside[a.file] = "whole"
  BY <1>1 DEF BackupInv, RestoreGoesOn
<1>5. backupFaults' \in 0 .. BackupFaults
  BY <1>1, BackupNames DEF BackupInv, BackupTypes
<1> QED BY <1>1, <1>2, <1>3, <1>4, <1>5, RestoredKeeps

LEMMA BackupStepHolds == BackupInv /\ (B!Next \/ UNCHANGED backupVars) => BackupInv'
<1> SUFFICES ASSUME BackupInv, B!Next \/ UNCHANGED backupVars PROVE BackupInv'
  OBVIOUS
<1>1. CASE UNCHANGED backupVars
  <2>1. /\ db' = db /\ disk' = disk /\ root' = root /\ backups' = backups /\ job' = job /\ backupFaults' = backupFaults
    BY <1>1 DEF backupVars
  <2> QED BY <2>1 DEF BackupInv, BackupTypes, B!AssetsThere, B!Running, B!Kind, BackupsSound, Stored, BackupGoesOn,
                   RestoreGoesOn, RestoreJobs, B!Rewrite
<1>2. CASE B!Next
  BY <1>2, SealFileKeeps, RegisterFileKeeps, ReinstallKeeps, RotKeeps, BeginBackupKeeps, ListKeeps, HashKeeps, CopyKeeps,
     PublishKeeps, BeginRestoreKeeps, StageDatabaseKeeps, ActivateKeeps, MoveAsideKeeps, MoveInKeeps,
     RestoreFailsKeeps DEF B!Next
<1> QED BY <1>1, <1>2

\* A restore that is over has given all of the backup or has changed nothing.
LEMMA RestoreIsWhole == BackupInv /\ (B!Next \/ UNCHANGED backupVars) => B!BeforeOrAfter
<1> SUFFICES ASSUME BackupInv, B!Next \/ UNCHANGED backupVars, ~B!Running, job' = B!Idle
             PROVE  \/ db' = job.previous /\ disk' = job.aside
                    \/ disk' = job.files /\ {a.file : a \in db'} = {a.file : a \in backups[job.of].dump}
  BY DEF B!BeforeOrAfter
<1>1. job \in RestoreJobs /\ job # B!Idle /\ B!Kind = "restore"
  BY KindIs DEF BackupInv
<1>2. ~(UNCHANGED backupVars)
  BY <1>1 DEF backupVars
<1>3. job' # job
  BY <1>1
<1>4. B!Kind # "backup"
  BY <1>1
<1>5. B!Next => B!MoveIn \/ B!RestoreFails
  <2>1. \A f \in Files : ~B!Seal(f) /\ ~B!Register(f)
    BY DEF B!Seal, B!Register
  <2>2. ~B!Reinstall /\ (\A full \in BOOLEAN : ~B!BeginBackup(full)) /\ \A i \in DOMAIN backups : ~B!BeginRestore(i)
    BY <1>1 DEF B!Reinstall, B!BeginBackup, B!BeginRestore
  <2>3. \A i \in DOMAIN backups : \A n \in B!Names : ~B!Rot(i, n)
    BY <1>3 DEF B!Rot
  <2>4. ~B!List /\ (\A n \in B!Names : ~B!Hash(n)) /\ ~B!Copy /\ ~B!Publish
    BY <1>4 DEF B!List, B!Hash, B!Copy, B!Publish, B!Copying
  <2>5. ~B!StageDatabase /\ ~B!Activate /\ ~B!MoveAside
    <3>1. \A j \in RestoreJobs : j # B!Idle
      BY BackupNames DEF RestoreJobs, B!Idle
    <3>2. backups[job.of].dump \in SUBSET FileRows
      BY <1>1, RestoreJobIs, BackupsAre
    <3>3. /\ [job EXCEPT !.step = "staged", !.staging = backups[job.of].dump] \in RestoreJobs
          /\ [job EXCEPT !.step = "activated"] \in RestoreJobs /\ [job EXCEPT !.step = "moved"] \in RestoreJobs
      BY <1>1, <3>2 DEF RestoreJobs
    <3> QED BY <3>1, <3>3 DEF B!StageDatabase, B!Activate, B!MoveAside
  <2> QED BY <2>1, <2>2, <2>3, <2>4, <2>5 DEF B!Next
<1> QED BY <1>2, <1>5, MoveInKeeps, RestoreFailsKeeps

LEMMA BackupsHold == BackupInv => B!TypeOK /\ B!AssetsThere /\ B!ChainHolds
<1> SUFFICES ASSUME BackupInv PROVE B!TypeOK /\ B!ChainHolds
  BY DEF BackupInv
<1>1. B!TypeOK
  <2>1. \A a \in db : a.file \in Files /\ a.root \in {1, 2}
    BY DEF BackupInv, BackupTypes, FileRows
  <2>2. disk \in [B!Names -> B!Contents \cup {None}]
    BY DEF BackupInv, BackupTypes, Disks, B!Contents
  <2>3. B!Kind \in {None, "backup", "restore"}
    <3>1. job = B!Idle => B!Kind = None
      BY DEF B!Idle, B!Kind
    <3> QED BY <3>1, KindIs DEF BackupInv, BackupTypes
  <2> QED BY <2>1, <2>2, <2>3, BackupsAre DEF BackupInv, BackupTypes, BackupsSound, B!TypeOK
<1>2. B!ChainHolds
  <2> SUFFICES ASSUME NEW i \in DOMAIN backups, B!Temp \notin DOMAIN backups[i].files,
                      \A k \in DOMAIN backups : \A n \in DOMAIN backups[k].own : backups[k].own[n] # "rotten"
               PROVE  B!Verified(i) /\ \A a \in backups[i].dump : a.file \in DOMAIN backups[i].files
    BY DEF B!ChainHolds
  <2>1. i \in 1 .. Len(backups)
    BY BackupsAre
  <2>2. ASSUME NEW n \in DOMAIN backups[i].files PROVE B!Matches(i, n)
    <3> DEFINE k == backups[i].files[n].storedIn
    <3>1. k \in 1 .. Len(backups) /\ n \in DOMAIN backups[k].own
      BY <2>1 DEF BackupInv, BackupsSound, Stored
    <3>2. n \in Files /\ backups[i].files[n].hash = "whole"
      BY <2>1, BackupsAre, ListingsAre, BackupNames
    <3> HIDE DEF k
    <3>3. backups[k].own[n] = "whole"
      BY <3>1, <3>2, BackupsAre, CopiesAre
    <3> QED BY <3>1, <3>2, <3>3 DEF B!Matches, k
  <2> QED BY <2>1, <2>2 DEF B!Verified, BackupInv, BackupsSound
<1> QED BY <1>1, <1>2

-----------------------------------------------------------------------------
(* ProviderCalls.  A slot is handed out once: whoever got one, and whatever *)
(* was sent under one, is a whole distance before the next that is free.    *)

CallSteps == {"idle", "reserve own", "sleep own", "reserve", "sleep", "sent", "wait"}

CallStates == [step : CallSteps, api : C!Apis \cup {None}, own : Nat \cup {None}, slot : Nat \cup {None},
               tries : 0 .. MaxAttempts]

Requests == [by : Threads, try : 0 .. MaxAttempts, api : C!Apis, own : Nat \cup {None}, slot : Nat,
             at : 0 .. Horizon]

CallTypes ==
    /\ callClock \in 0 .. Horizon
    /\ next \in [C!Limiters -> Nat]
    /\ call \in [Threads -> CallStates]
    /\ sent \subseteq Requests

\* Slots that are taken and whose request is not sent yet.
OwnHeld(t) == call[t].step \in {"sleep own", "reserve", "sleep"} /\ call[t].api \in Limited
SlotHeld(t) == call[t].step = "sleep"

OwnTaken ==
    \A t \in Threads : OwnHeld(t) =>
        /\ call[t].own \in Nat
        /\ call[t].own + Every[call[t].api] <= next[call[t].api]

SlotTaken ==
    \A t \in Threads : SlotHeld(t) => call[t].slot \in Nat /\ call[t].slot + Every[All] <= next[All]

\* A thread has an API while it asks, and it asks for the shared slot when its own has come.
InStep ==
    \A t \in Threads :
        /\ call[t].step # "idle" => call[t].api \in C!Apis
        /\ call[t].step \in {"reserve own", "sleep own"} => call[t].api \in Limited
        /\ call[t].step = "reserve" /\ call[t].api \in Limited => call[t].own <= callClock
        /\ call[t].step = "sleep" /\ call[t].api \in Limited => call[t].own <= call[t].slot

SentTaken ==
    \A r \in sent :
        /\ r.slot + Every[All] <= next[All]
        /\ r.api \in Limited => r.own \in Nat /\ r.own + Every[r.api] <= next[r.api]

Between(a, b, every) == a - b >= every \/ b - a >= every

HeldApart ==
    \A t, u \in Threads : t # u =>
        /\ SlotHeld(t) /\ SlotHeld(u) => Between(call[t].slot, call[u].slot, Every[All])
        /\ OwnHeld(t) /\ OwnHeld(u) /\ call[t].api = call[u].api =>
                Between(call[t].own, call[u].own, Every[call[t].api])

SentApart ==
    \A t \in Threads, r \in sent :
        /\ SlotHeld(t) => Between(call[t].slot, r.slot, Every[All])
        /\ OwnHeld(t) /\ call[t].api = r.api => Between(call[t].own, r.own, Every[r.api])

Budgets ==
    /\ \A r, s \in sent : r # s => Between(r.slot, s.slot, Every[All])
    /\ \A r, s \in sent : r # s /\ r.api = s.api /\ r.api \in Limited =>
            Between(r.own, s.own, Every[r.api])
    /\ \A r \in sent : r.at >= r.slot /\ (r.api \in Limited => r.slot >= r.own)

CallInv ==
    CallTypes /\ OwnTaken /\ SlotTaken /\ InStep /\ SentTaken /\ HeldApart /\ SentApart /\ Budgets

LEMMA CallNumbers ==
    /\ Horizon \in Nat /\ MaxAttempts \in Nat \ {0} /\ Wait \in Nat
    /\ None \notin C!Apis /\ None \notin Nat
    /\ All \in C!Limiters /\ All \notin C!Apis /\ Limited \subseteq C!Limiters /\ Limited \subseteq C!Apis
    /\ \A l \in C!Limiters : Every[l] \in Nat
BY DataAssumption DEF C!Apis, C!Limiters

LEMMA CallIdle == C!Idle \in CallStates
<1>1. 0 \in 0 .. MaxAttempts
  BY CallNumbers
<1> QED BY <1>1 DEF C!Idle, CallStates, CallSteps

LEMMA CallBegun ==
    ASSUME NEW api \in C!Apis, NEW new, new = [C!Idle EXCEPT !.step = C!Begin(api), !.api = api, !.tries = 1]
    PROVE  new \in CallStates /\ new.step = C!Begin(api) /\ new.api = api
<1>1. C!Begin(api) \in CallSteps /\ 1 \in 0 .. MaxAttempts
  BY CallNumbers DEF CallSteps, C!Begin
<1> QED BY <1>1, CallIdle DEF CallStates

LEMMA CallInitHolds == C!Init => CallInv
<1> SUFFICES ASSUME C!Init PROVE CallInv
  OBVIOUS
<1>0. 0 \in 0 .. Horizon /\ 0 \in Nat
  BY CallNumbers
<1>1. CallTypes
  BY <1>0, CallIdle DEF C!Init, CallTypes
<1>2. \A t \in Threads : call[t].step = "idle"
  BY DEF C!Init, C!Idle
<1>3. sent = {}
  BY DEF C!Init
<1> QED BY <1>1, <1>2, <1>3 DEF CallInv, OwnTaken, SlotTaken, InStep, SentTaken, HeldApart, SentApart, Budgets,
           OwnHeld, SlotHeld

LEMMA CallTypesKept == CallTypes /\ InStep /\ SlotTaken /\ C!Next => CallTypes'
<1> SUFFICES ASSUME CallTypes, InStep, SlotTaken, C!Next PROVE CallTypes'
  OBVIOUS
<1>1. CASE C!Tick
  BY <1>1, CallNumbers DEF C!Tick, CallTypes
<1>2. ASSUME NEW t \in Threads, NEW api \in C!Apis, C!Query(t, api) PROVE CallTypes'
  BY <1>2, CallBegun DEF C!Query, CallTypes
<1>s. \A l \in C!Limiters : C!Slot(l) \in Nat /\ C!Advance(l, C!Slot(l)) \in Nat
  BY CallNumbers DEF CallTypes, C!Slot, C!Advance
<1>3. ASSUME NEW t \in Threads, C!ReserveOwn(t) PROVE CallTypes'
  <2>1. call[t] \in CallStates /\ call[t].api \in Limited
    BY <1>3 DEF C!ReserveOwn, CallTypes, InStep
  <2>2. next' \in [C!Limiters -> Nat]
    BY <1>3, <2>1, <1>s, CallNumbers DEF C!ReserveOwn, C!Reserve, CallTypes
  <2>3. [call[t] EXCEPT !.step = "sleep own", !.own = C!Slot(call[t].api)] \in CallStates
    BY <2>1, <1>s, CallNumbers DEF CallStates, CallSteps
  <2> QED BY <1>3, <2>1, <2>2, <2>3 DEF C!ReserveOwn, CallTypes
<1>4. ASSUME NEW t \in Threads, C!SleptOwn(t) PROVE CallTypes'
  BY <1>4 DEF C!SleptOwn, CallTypes, CallStates, CallSteps
<1>5. ASSUME NEW t \in Threads, C!ReserveShared(t) PROVE CallTypes'
  <2>1. call[t] \in CallStates
    BY DEF CallTypes
  <2>2. next' \in [C!Limiters -> Nat]
    BY <1>5, <2>1, <1>s, CallNumbers DEF C!ReserveShared, C!Reserve, CallTypes
  <2>3. [call[t] EXCEPT !.step = "sleep", !.slot = C!Slot(All)] \in CallStates
    BY <2>1, <1>s, CallNumbers DEF CallStates, CallSteps
  <2> QED BY <1>5, <2>1, <2>2, <2>3 DEF C!ReserveShared, CallTypes
<1>6. ASSUME NEW t \in Threads, C!Send(t) PROVE CallTypes'
  <2>1. call[t] \in CallStates /\ call[t].api \in C!Apis /\ call[t].slot \in Nat
    BY <1>6 DEF C!Send, CallTypes, InStep, SlotTaken, SlotHeld
  <2>2. [by |-> t, try |-> call[t].tries, api |-> call[t].api, own |-> call[t].own,
         slot |-> call[t].slot, at |-> callClock] \in Requests
    BY <2>1 DEF Requests, CallStates, CallTypes
  <2>3. [call[t] EXCEPT !.step = "sent"] \in CallStates
    BY <2>1 DEF CallStates, CallSteps
  <2> QED BY <1>6, <2>1, <2>2, <2>3 DEF C!Send, CallTypes
<1>7. ASSUME NEW t \in Threads, C!Answered(t) PROVE CallTypes'
  BY <1>7, CallIdle DEF C!Answered, CallTypes
<1>8. ASSUME NEW t \in Threads, C!NetworkError(t) PROVE CallTypes'
  <2>1. call[t] \in CallStates /\ call[t].tries \in 0 .. MaxAttempts
    BY DEF CallTypes, CallStates
  <2>2. call[t].tries # MaxAttempts => call[t].tries + 1 \in 0 .. MaxAttempts
    BY <2>1, CallNumbers
  <2>3. call[t].tries # MaxAttempts =>
            [call[t] EXCEPT !.step = "wait", !.tries = call[t].tries + 1] \in CallStates
    BY <2>1, <2>2 DEF CallStates, CallSteps
  <2> QED BY <1>8, <2>1, <2>3, CallIdle DEF C!NetworkError, CallTypes
<1>9. ASSUME NEW t \in Threads, C!Retry(t) PROVE CallTypes'
  <2>1. C!Retried(t) \in CallStates
    BY DEF CallTypes, CallStates, CallSteps, C!Retried, C!Begin
  <2> QED BY <1>9, <2>1 DEF C!Retry, CallTypes
<1> QED BY <1>1, <1>2, <1>3, <1>4, <1>5, <1>6, <1>7, <1>8, <1>9 DEF C!Next

\* A thread that takes no slot and holds none leaves the others as they were.
LEMMA LetGo ==
    ASSUME CallInv, CallTypes', UNCHANGED <<callClock, next, sent>>, NEW t \in Threads, NEW new \in CallStates,
           call' = [call EXCEPT ![t] = new],
           new.step \in {"idle", "reserve own", "reserve", "wait"},
           new.step = "reserve" => new.api \notin Limited,
           new.step # "idle" => new.api \in C!Apis,
           new.step = "reserve own" => new.api \in Limited
    PROVE  CallInv'
<1>1. call'[t] = new /\ \A u \in Threads \ {t} : call'[u] = call[u]
  BY DEF CallInv, CallTypes
<1>2. ~OwnHeld(t)' /\ ~SlotHeld(t)'
  BY <1>1 DEF OwnHeld, SlotHeld
<1>3. \A u \in Threads \ {t} : (OwnHeld(u)' <=> OwnHeld(u)) /\ (SlotHeld(u)' <=> SlotHeld(u))
  BY <1>1 DEF OwnHeld, SlotHeld
<1>4. OwnTaken' /\ SlotTaken'
  BY <1>1, <1>2, <1>3 DEF CallInv, OwnTaken, SlotTaken
<1>5. InStep'
  BY <1>1 DEF CallInv, InStep
<1>6. HeldApart'
  <2> SUFFICES ASSUME NEW u \in Threads, NEW v \in Threads, u # v
               PROVE  /\ SlotHeld(u)' /\ SlotHeld(v)' => Between(call'[u].slot, call'[v].slot, Every[All])
                      /\ OwnHeld(u)' /\ OwnHeld(v)' /\ call'[u].api = call'[v].api =>
                            Between(call'[u].own, call'[v].own, Every[call'[u].api])
    BY DEF HeldApart
  <2>1. CASE u = t \/ v = t
    BY <2>1, <1>2
  <2>2. CASE u # t /\ v # t
    BY <2>2, <1>1, <1>3 DEF CallInv, HeldApart
  <2> QED BY <2>1, <2>2
<1>8. SentApart'
  <2> SUFFICES ASSUME NEW u \in Threads, NEW r \in sent
               PROVE  /\ SlotHeld(u)' => Between(call'[u].slot, r.slot, Every[All])
                      /\ OwnHeld(u)' /\ call'[u].api = r.api => Between(call'[u].own, r.own, Every[r.api])
    BY DEF SentApart
  <2>1. CASE u = t
    BY <2>1, <1>2
  <2>2. CASE u # t
    BY <2>2, <1>1, <1>3 DEF CallInv, SentApart
  <2> QED BY <2>1, <2>2
<1>7. SentTaken' /\ Budgets'
  BY DEF CallInv, SentTaken, Budgets
<1> QED BY <1>4, <1>5, <1>6, <1>7, <1>8 DEF CallInv

\* A limiter gives a slot that is a distance away from all it gave before.
LEMMA Reserved ==
    ASSUME CallTypes, NEW l \in C!Limiters, C!Reserve(l)
    PROVE  /\ C!Slot(l) \in Nat /\ callClock <= C!Slot(l) /\ next[l] <= C!Slot(l)
           /\ next'[l] = C!Slot(l) + Every[l]
           /\ \A k \in C!Limiters : /\ next[k] \in Nat /\ next'[k] \in Nat /\ next[k] <= next'[k]
                                    /\ k # l => next'[k] = next[k]
<1>1. next \in [C!Limiters -> Nat] /\ callClock \in Nat /\ Every[l] \in Nat
  BY CallNumbers DEF CallTypes
<1>2. C!Slot(l) \in Nat /\ callClock <= C!Slot(l) /\ next[l] <= C!Slot(l)
  BY <1>1 DEF C!Slot
<1>3. next' = [next EXCEPT ![l] = C!Slot(l) + Every[l]]
  BY DEF C!Reserve, C!Advance
<1> QED BY <1>1, <1>2, <1>3

LEMMA HeldNumbers ==
    ASSUME CallInv
    PROVE  /\ callClock \in Nat
           /\ \A t \in Threads : /\ OwnHeld(t) => call[t].own \in Nat /\ call[t].api \in C!Limiters
                                 /\ SlotHeld(t) => call[t].slot \in Nat
           /\ \A r \in sent : r.slot \in Nat /\ (r.api \in Limited => r.own \in Nat)
<1>1. callClock \in Nat
  BY CallNumbers DEF CallInv, CallTypes
<1>2. \A t \in Threads : OwnHeld(t) => call[t].own \in Nat /\ call[t].api \in C!Limiters
  BY CallNumbers DEF CallInv, OwnTaken, OwnHeld
<1>3. \A t \in Threads : SlotHeld(t) => call[t].slot \in Nat
  BY DEF CallInv, SlotTaken
<1>4. \A r \in sent : r.slot \in Nat
  BY DEF CallInv, CallTypes, Requests
<1>5. \A r \in sent : r.api \in Limited => r.own \in Nat
  BY DEF CallInv, SentTaken
<1> QED BY <1>1, <1>2, <1>3, <1>4, <1>5

LEMMA ReserveOwnKeeps ==
    ASSUME CallInv, CallTypes', NEW t \in Threads, C!ReserveOwn(t)
    PROVE  CallInv'
<1> DEFINE l == call[t].api
<1> DEFINE slot == C!Slot(l)
<1>0. /\ call[t].step = "reserve own" /\ C!Reserve(l)
      /\ call' = [call EXCEPT ![t].step = "sleep own", ![t].own = slot]
      /\ UNCHANGED <<callClock, sent>>
  BY DEF C!ReserveOwn
<1>1. l \in Limited /\ l \in C!Limiters /\ l # All
  BY <1>0, CallNumbers DEF CallInv, InStep
<1>2. /\ slot \in Nat /\ next[l] <= slot /\ next'[l] = slot + Every[l] /\ next'[All] = next[All]
      /\ \A k \in C!Limiters : next[k] \in Nat /\ next'[k] \in Nat /\ next[k] <= next'[k]
  BY <1>0, <1>1, Reserved, CallNumbers DEF CallInv
<1>3. /\ call'[t].step = "sleep own" /\ call'[t].own = slot /\ call'[t].api = l
      /\ \A u \in Threads \ {t} : call'[u] = call[u]
  BY <1>0 DEF CallInv, CallTypes, CallStates
<1>4. OwnHeld(t)' /\ ~SlotHeld(t)'
  BY <1>1, <1>3 DEF OwnHeld, SlotHeld
<1>5. \A u \in Threads \ {t} : (OwnHeld(u)' <=> OwnHeld(u)) /\ (SlotHeld(u)' <=> SlotHeld(u))
  BY <1>3 DEF OwnHeld, SlotHeld
<1>6. \A k \in C!Limiters : Every[k] \in Nat
  BY CallNumbers
<1>7. OwnTaken'
  <2> SUFFICES ASSUME NEW u \in Threads, OwnHeld(u)'
               PROVE  call'[u].own \in Nat /\ call'[u].own + Every[call'[u].api] <= next'[call'[u].api]
    BY DEF OwnTaken
  <2>1. CASE u = t
    <3>1. Every[l] \in Nat /\ next'[l] \in Nat
      BY <1>1, <1>2, <1>6
    <3>2. slot + Every[l] <= next'[l]
      <4> HIDE DEF slot, l
      <4> QED BY <3>1, <1>2
    <3> QED BY <2>1, <3>2, <1>2, <1>3
  <2>2. CASE u # t
    <3>1. OwnHeld(u) /\ call'[u] = call[u]
      BY <2>2, <1>3, <1>5
    <3>2. call[u].own \in Nat /\ call[u].own + Every[call[u].api] <= next[call[u].api] /\ call[u].api \in C!Limiters
      BY <3>1, HeldNumbers DEF CallInv, OwnTaken
    <3> QED BY <3>1, <3>2, <1>2, <1>6
  <2> QED BY <2>1, <2>2
<1>8. SlotTaken'
  BY <1>2, <1>3, <1>4, <1>5 DEF CallInv, SlotTaken
<1>9. InStep'
  <2>1. call'[t].api \in C!Apis
    BY <1>1, <1>3, CallNumbers
  <2> QED BY <2>1, <1>0, <1>1, <1>3 DEF CallInv, InStep
<1>10. SentTaken'
  <2> SUFFICES ASSUME NEW r \in sent, r.api \in Limited
               PROVE  r.own + Every[r.api] <= next'[r.api]
    BY <1>0, <1>2 DEF CallInv, SentTaken
  <2>1. r.own \in Nat /\ r.own + Every[r.api] <= next[r.api] /\ r.api \in C!Limiters
    BY CallNumbers DEF CallInv, SentTaken
  <2> QED BY <2>1, <1>2, <1>6
<1>11. \A u \in Threads : u # t /\ OwnHeld(u)' /\ call[u].api = l =>
            call[u].own \in Nat /\ Between(slot, call[u].own, Every[l]) /\ Between(call[u].own, slot, Every[l])
  <2> SUFFICES ASSUME NEW u \in Threads, u # t, OwnHeld(u)', call[u].api = l
               PROVE  call[u].own \in Nat /\ Between(slot, call[u].own, Every[l]) /\ Between(call[u].own, slot, Every[l])
    OBVIOUS
  <2>1. call[u].own \in Nat /\ call[u].own + Every[l] <= next[l]
    BY <1>5 DEF CallInv, OwnTaken
  <2> QED BY <2>1, <1>1, <1>2, <1>6 DEF Between
<1> HIDE DEF slot, l
<1>12. HeldApart'
  <2> SUFFICES ASSUME NEW u \in Threads, NEW v \in Threads, u # v
               PROVE  /\ SlotHeld(u)' /\ SlotHeld(v)' => Between(call'[u].slot, call'[v].slot, Every[All])
                      /\ OwnHeld(u)' /\ OwnHeld(v)' /\ call'[u].api = call'[v].api =>
                            Between(call'[u].own, call'[v].own, Every[call'[u].api])
    BY DEF HeldApart
  <2>1. CASE u = t
    BY <2>1, <1>3, <1>4, <1>11
  <2>2. CASE v = t
    BY <2>2, <1>3, <1>4, <1>11
  <2>3. CASE u # t /\ v # t
    BY <2>3, <1>3, <1>5 DEF CallInv, HeldApart
  <2> QED BY <2>1, <2>2, <2>3
<1>13. SentApart'
  <2> SUFFICES ASSUME NEW u \in Threads, NEW r \in sent
               PROVE  /\ SlotHeld(u)' => Between(call'[u].slot, r.slot, Every[All])
                      /\ OwnHeld(u)' /\ call'[u].api = r.api => Between(call'[u].own, r.own, Every[r.api])
    BY <1>0 DEF SentApart
  <2>1. CASE u = t
    <3>1. ASSUME r.api = l PROVE Between(slot, r.own, Every[l])
      <4>1. r.own \in Nat /\ r.own + Every[l] <= next[l]
        BY <1>1, <3>1 DEF CallInv, SentTaken
      <4> QED BY <4>1, <1>1, <1>2, <1>6 DEF Between
    <3> QED BY <2>1, <3>1, <1>3, <1>4
  <2>2. CASE u # t
    BY <2>2, <1>3, <1>5 DEF CallInv, SentApart
  <2> QED BY <2>1, <2>2
<1>14. Budgets'
  BY <1>0 DEF CallInv, Budgets
<1> QED BY <1>7, <1>8, <1>9, <1>10, <1>12, <1>13, <1>14 DEF CallInv

LEMMA SleptOwnKeeps ==
    ASSUME CallInv, CallTypes', NEW t \in Threads, C!SleptOwn(t)
    PROVE  CallInv'
<1>1. /\ call[t].step = "sleep own" /\ callClock >= call[t].own
      /\ call' = [call EXCEPT ![t].step = "reserve"]
      /\ UNCHANGED <<callClock, next, sent>>
  BY DEF C!SleptOwn
<1>2. /\ call'[t].step = "reserve" /\ call'[t].own = call[t].own /\ call'[t].api = call[t].api
      /\ \A u \in Threads \ {t} : call'[u] = call[u]
  BY <1>1 DEF CallInv, CallTypes, CallStates
<1>3. \A u \in Threads : (OwnHeld(u)' <=> OwnHeld(u)) /\ (SlotHeld(u)' <=> SlotHeld(u))
  BY <1>1, <1>2 DEF OwnHeld, SlotHeld
<1>4. \A u \in Threads : call'[u].own = call[u].own /\ call'[u].api = call[u].api /\ (SlotHeld(u) => call'[u].slot = call[u].slot)
  BY <1>1, <1>2 DEF SlotHeld
<1>5. OwnTaken' /\ SlotTaken' /\ SentTaken' /\ Budgets'
  BY <1>1, <1>3, <1>4 DEF CallInv, OwnTaken, SlotTaken, SentTaken, Budgets
<1>6. HeldApart' /\ SentApart'
  BY <1>1, <1>3, <1>4 DEF CallInv, HeldApart, SentApart
<1>7. InStep'
  <2>1. call[t].own \in Nat /\ callClock \in Nat
    BY <1>1, HeldNumbers DEF OwnHeld, CallInv, InStep
  <2> QED BY <2>1, <1>1, <1>2 DEF CallInv, InStep
<1> QED BY <1>5, <1>6, <1>7 DEF CallInv

LEMMA ReserveSharedKeeps ==
    ASSUME CallInv, CallTypes', NEW t \in Threads, C!ReserveShared(t)
    PROVE  CallInv'
<1> DEFINE slot == C!Slot(All)
<1>0. /\ call[t].step = "reserve" /\ C!Reserve(All)
      /\ call' = [call EXCEPT ![t].step = "sleep", ![t].slot = slot]
      /\ UNCHANGED <<callClock, sent>>
  BY DEF C!ReserveShared
<1>1. /\ slot \in Nat /\ callClock <= slot /\ next[All] <= slot /\ next'[All] = slot + Every[All]
      /\ \A k \in Limited : next'[k] = next[k]
      /\ \A k \in C!Limiters : next[k] \in Nat /\ next'[k] \in Nat /\ next[k] <= next'[k]
  BY <1>0, Reserved, CallNumbers DEF CallInv
<1>2. /\ call'[t].step = "sleep" /\ call'[t].slot = slot /\ call'[t].api = call[t].api /\ call'[t].own = call[t].own
      /\ \A u \in Threads \ {t} : call'[u] = call[u]
  BY <1>0 DEF CallInv, CallTypes, CallStates
<1>3. \A u \in Threads : /\ OwnHeld(u)' <=> OwnHeld(u)
                         /\ call'[u].own = call[u].own /\ call'[u].api = call[u].api
                         /\ u # t => (SlotHeld(u)' <=> SlotHeld(u)) /\ call'[u].slot = call[u].slot
  BY <1>0, <1>2 DEF OwnHeld, SlotHeld
<1>4. SlotHeld(t)' /\ ~SlotHeld(t) /\ Every[All] \in Nat
  BY <1>0, <1>2, CallNumbers DEF SlotHeld
<1>5. OwnTaken'
  BY <1>1, <1>3 DEF CallInv, OwnTaken, OwnHeld
<1>6. SlotTaken'
  <2> SUFFICES ASSUME NEW u \in Threads, SlotHeld(u)'
               PROVE  call'[u].slot \in Nat /\ call'[u].slot + Every[All] <= next'[All]
    BY DEF SlotTaken
  <2>1. CASE u = t
    BY <2>1, <1>1, <1>2, <1>4
  <2>2. CASE u # t
    <3>1. call[u].slot \in Nat /\ call[u].slot + Every[All] <= next[All] /\ call'[u].slot = call[u].slot
      BY <2>2, <1>3 DEF CallInv, SlotTaken
    <3>2. next[All] \in Nat /\ next'[All] \in Nat /\ next[All] <= next'[All]
      BY <1>1, CallNumbers
    <3> QED BY <3>1, <3>2, <1>4
  <2> QED BY <2>1, <2>2
<1>7. InStep'
  <2>1. call[t].api \in Limited => call[t].own \in Nat /\ call[t].own <= callClock
    BY <1>0, HeldNumbers DEF CallInv, InStep, OwnHeld
  <2>2. call[t].api \in Limited => call[t].own <= slot
    BY <2>1, <1>1, HeldNumbers
  <2> QED BY <2>2, <1>0, <1>2 DEF CallInv, InStep
<1>8. SentTaken'
  <2> SUFFICES ASSUME NEW r \in sent
               PROVE  /\ r.slot + Every[All] <= next'[All]
                      /\ r.api \in Limited => r.own \in Nat /\ r.own + Every[r.api] <= next'[r.api]
    BY <1>0 DEF SentTaken
  <2>1. r.slot \in Nat /\ r.slot + Every[All] <= next[All] /\ next[All] \in Nat
    BY HeldNumbers, <1>1, CallNumbers DEF CallInv, SentTaken
  <2>2. r.slot + Every[All] <= next'[All]
    BY <2>1, <1>1, <1>4
  <2> QED BY <2>2, <1>1 DEF CallInv, SentTaken
<1>9. \A a \in Nat : a + Every[All] <= next[All] => Between(a, slot, Every[All]) /\ Between(slot, a, Every[All])
  <2>1. next[All] \in Nat
    BY <1>1, CallNumbers
  <2> QED BY <2>1, <1>1, <1>4 DEF Between
<1>10. HeldApart'
  <2>1. \A u \in Threads : SlotHeld(u) => Between(call[u].slot, slot, Every[All]) /\ Between(slot, call[u].slot, Every[All])
    BY <1>9 DEF CallInv, SlotTaken
  <2> QED BY <2>1, <1>2, <1>3, <1>4 DEF CallInv, HeldApart
<1>11. SentApart'
  <2> SUFFICES ASSUME NEW u \in Threads, NEW r \in sent
               PROVE  /\ SlotHeld(u)' => Between(call'[u].slot, r.slot, Every[All])
                      /\ OwnHeld(u)' /\ call'[u].api = r.api => Between(call'[u].own, r.own, Every[r.api])
    BY <1>0 DEF SentApart
  <2>1. Between(slot, r.slot, Every[All])
    BY <1>9, HeldNumbers DEF CallInv, SentTaken
  <2>2. OwnHeld(u)' /\ call'[u].api = r.api => Between(call'[u].own, r.own, Every[r.api])
    BY <1>3 DEF CallInv, SentApart
  <2>3. CASE u = t
    BY <2>1, <2>2, <2>3, <1>2, <1>4
  <2>4. CASE u # t
    BY <2>2, <2>4, <1>2, <1>3 DEF CallInv, SentApart
  <2> QED BY <2>3, <2>4
<1>12. Budgets'
  BY <1>0 DEF CallInv, Budgets
<1> QED BY <1>5, <1>6, <1>7, <1>8, <1>10, <1>11, <1>12 DEF CallInv

LEMMA SendKeeps ==
    ASSUME CallInv, CallTypes', NEW t \in Threads, C!Send(t)
    PROVE  CallInv'
<1> DEFINE new == [by |-> t, try |-> call[t].tries, api |-> call[t].api, own |-> call[t].own,
                   slot |-> call[t].slot, at |-> callClock]
<1>1. /\ call[t].step = "sleep" /\ callClock >= call[t].slot
      /\ call' = [call EXCEPT ![t].step = "sent"]
      /\ sent' = sent \cup {new}
      /\ UNCHANGED <<callClock, next>>
  BY DEF C!Send
<1>2. /\ call'[t].step = "sent" /\ call'[t].api = call[t].api
      /\ \A u \in Threads \ {t} : call'[u] = call[u]
  BY <1>1 DEF CallInv, CallTypes, CallStates
<1>3. ~OwnHeld(t)' /\ ~SlotHeld(t)' /\ SlotHeld(t) /\ (call[t].api \in Limited => OwnHeld(t))
  BY <1>1, <1>2 DEF OwnHeld, SlotHeld
<1>4. \A u \in Threads \ {t} : (OwnHeld(u)' <=> OwnHeld(u)) /\ (SlotHeld(u)' <=> SlotHeld(u))
  BY <1>2 DEF OwnHeld, SlotHeld
<1>5. new.api = call[t].api /\ new.own = call[t].own /\ new.slot = call[t].slot /\ new.at = callClock
  OBVIOUS
<1> HIDE DEF new
<1>6. OwnTaken' /\ SlotTaken'
  BY <1>1, <1>2, <1>3, <1>4 DEF CallInv, OwnTaken, SlotTaken
<1>7. InStep'
  BY <1>1, <1>2 DEF CallInv, InStep
<1>8. SentTaken'
  BY <1>1, <1>3, <1>5 DEF CallInv, SentTaken, OwnTaken, SlotTaken
<1>9. HeldApart'
  BY <1>1, <1>2, <1>3, <1>4 DEF CallInv, HeldApart
<1>10. \A u \in Threads : u # t =>
            /\ SlotHeld(u) => Between(call[u].slot, new.slot, Every[All])
            /\ OwnHeld(u) /\ call[u].api = new.api => Between(call[u].own, new.own, Every[new.api])
  BY <1>3, <1>5 DEF CallInv, HeldApart, OwnHeld
<1>11. SentApart'
  BY <1>1, <1>2, <1>3, <1>4, <1>10 DEF CallInv, SentApart
<1>12. \A r \in sent :
            /\ Between(new.slot, r.slot, Every[All])
            /\ r.api = new.api /\ new.api \in Limited => Between(new.own, r.own, Every[new.api])
  BY <1>3, <1>5 DEF CallInv, SentApart
<1>13. \A r \in sent :
            /\ Between(r.slot, new.slot, Every[All])
            /\ r.api = new.api /\ new.api \in Limited => Between(r.own, new.own, Every[new.api])
  BY <1>12 DEF Between
<1>14. new.at >= new.slot /\ (new.api \in Limited => new.slot >= new.own)
  <2>1. callClock \in Nat /\ call[t].slot \in Nat /\ (call[t].api \in Limited => call[t].own \in Nat)
    BY <1>3, HeldNumbers
  <2> QED BY <2>1, <1>1, <1>5 DEF CallInv, InStep
<1>15. Budgets'
  BY <1>1, <1>12, <1>13, <1>14 DEF CallInv, Budgets
<1> QED BY <1>6, <1>7, <1>8, <1>9, <1>11, <1>15 DEF CallInv

LEMMA TickLeaves == CallInv /\ CallTypes' /\ C!Tick => CallInv'
<1> SUFFICES ASSUME CallInv, CallTypes', C!Tick PROVE CallInv'
  OBVIOUS
<1>1. callClock' = callClock + 1 /\ UNCHANGED <<next, call, sent>>
  BY DEF C!Tick
<1>2. OwnTaken' /\ SlotTaken' /\ SentTaken' /\ HeldApart' /\ SentApart' /\ Budgets'
  BY <1>1 DEF CallInv, OwnTaken, SlotTaken, SentTaken, HeldApart, SentApart, Budgets, OwnHeld, SlotHeld
<1>3. InStep'
  <2>1. \A t \in Threads : call[t].step = "reserve" /\ call[t].api \in Limited => call[t].own <= callClock + 1
    <3> SUFFICES ASSUME NEW t \in Threads, call[t].step = "reserve", call[t].api \in Limited
                 PROVE  call[t].own <= callClock + 1
      OBVIOUS
    <3>1. OwnHeld(t)
      BY DEF OwnHeld
    <3>2. call[t].own \in Nat /\ callClock \in Nat /\ call[t].own <= callClock
      BY <3>1, HeldNumbers DEF CallInv, InStep
    <3> QED BY <3>2
  <2> QED BY <2>1, <1>1 DEF CallInv, InStep
<1> QED BY <1>2, <1>3 DEF CallInv

LEMMA CallStepHolds == CallInv /\ (C!Next \/ UNCHANGED callVars) => CallInv'
<1> SUFFICES ASSUME CallInv, C!Next \/ UNCHANGED callVars PROVE CallInv'
  OBVIOUS
<1>1. CASE UNCHANGED callVars
  BY <1>1 DEF callVars, CallInv, CallTypes, OwnTaken, SlotTaken, InStep, SentTaken, HeldApart, SentApart, Budgets,
     OwnHeld, SlotHeld
<1>2. CASE C!Next
  <2>0. CallTypes'
    BY <1>2, CallTypesKept DEF CallInv
  <2>1. CASE C!Tick
    BY <2>0, <2>1, TickLeaves
  <2>2. ASSUME NEW t \in Threads, NEW api \in C!Apis, C!Query(t, api) PROVE CallInv'
    <3> DEFINE new == [C!Idle EXCEPT !.step = C!Begin(api), !.api = api, !.tries = 1]
    <3>1. new \in CallStates /\ new.step = C!Begin(api) /\ new.api = api
      BY CallBegun
    <3>2. call' = [call EXCEPT ![t] = new] /\ UNCHANGED <<callClock, next, sent>>
      BY <2>2 DEF C!Query
    <3>3. new.step \in {"reserve own", "reserve"} /\ (new.step = "reserve" <=> api \notin Limited)
      BY <3>1 DEF C!Begin
    <3> HIDE DEF new
    <3> QED BY <2>0, <3>1, <3>2, <3>3, LetGo
  <2>3. ASSUME NEW t \in Threads, C!ReserveOwn(t) \/ C!SleptOwn(t) \/ C!ReserveShared(t) \/ C!Send(t) PROVE CallInv'
    BY <2>0, <2>3, ReserveOwnKeeps, SleptOwnKeeps, ReserveSharedKeeps, SendKeeps
  <2>4. ASSUME NEW t \in Threads, C!Answered(t) PROVE CallInv'
    <3>1. C!Idle.step = "idle"
      BY DEF C!Idle
    <3> QED BY <2>0, <2>4, <3>1, CallIdle, LetGo DEF C!Answered
  <2>5. ASSUME NEW t \in Threads, C!NetworkError(t) PROVE CallInv'
    <3> DEFINE new == IF call[t].tries = MaxAttempts THEN C!Idle
                      ELSE [call[t] EXCEPT !.step = "wait", !.tries = call[t].tries + 1]
    <3>1. call[t] \in CallStates /\ call[t].api \in C!Apis
      BY <2>5 DEF C!NetworkError, CallInv, CallTypes, InStep
    <3>2. call' = [call EXCEPT ![t] = new] /\ UNCHANGED <<callClock, next, sent>>
      BY <2>5 DEF C!NetworkError
    <3>3. new \in CallStates
      BY <2>0, <3>1, <3>2 DEF CallInv, CallTypes
    <3>4. new.step = "idle" \/ (new.step = "wait" /\ new.api = call[t].api)
      BY <3>1 DEF C!Idle, CallStates
    <3> HIDE DEF new
    <3> QED BY <2>0, <3>1, <3>2, <3>3, <3>4, LetGo
  <2>6. ASSUME NEW t \in Threads, C!Retry(t) PROVE CallInv'
    <3> DEFINE new == C!Retried(t)
    <3>1. call[t] \in CallStates /\ call[t].api \in C!Apis
      BY <2>6 DEF C!Retry, CallInv, CallTypes, InStep
    <3>2. call' = [call EXCEPT ![t] = new] /\ UNCHANGED <<callClock, next, sent>>
      BY <2>6 DEF C!Retry
    <3>3. new \in CallStates
      BY <2>0, <3>1, <3>2 DEF CallInv, CallTypes
    <3>4. new.step = C!Begin(call[t].api) /\ new.api = call[t].api
      BY <3>1 DEF C!Retried, CallStates
    <3>5. new.step \in {"reserve own", "reserve"} /\ (new.step = "reserve" <=> new.api \notin Limited)
      BY <3>4 DEF C!Begin
    <3> HIDE DEF new
    <3> QED BY <2>0, <3>1, <3>2, <3>3, <3>4, <3>5, LetGo
  <2> QED BY <1>2, <2>1, <2>2, <2>3, <2>4, <2>5, <2>6 DEF C!Next
<1> QED BY <1>1, <1>2

\* What is proved of the slots is what the run checks.
LEMMA CallsHold == CallInv => C!TypeOK /\ C!BudgetsKept
<1> SUFFICES ASSUME CallInv PROVE C!TypeOK /\ C!BudgetsKept
  OBVIOUS
<1>1. C!TypeOK
  BY DEF CallInv, CallTypes, CallStates, CallSteps, Requests, C!TypeOK
<1>2. \A r, s \in sent : r # s => r.slot - s.slot >= Every[All] \/ s.slot - r.slot >= Every[All]
  BY DEF CallInv, Budgets, Between
<1>3. C!Apart(sent, C!Shared, Every[All])
  BY <1>2 DEF C!Apart, C!Shared
<1>4. ASSUME NEW api \in Limited PROVE C!Apart({r \in sent : r.api = api}, C!Own, Every[api])
  BY <1>4 DEF CallInv, Budgets, Between, C!Apart, C!Own
<1> QED BY <1>1, <1>3, <1>4 DEF C!BudgetsKept, CallInv, Budgets

-----------------------------------------------------------------------------
(* Paging.  A page takes the rows from the offset on, and rows that come   *)
(* move the others only further away from the start: what was there at the *)
(* first page has been read or is still ahead.                             *)

PageTypes ==
    /\ offsets \in BOOLEAN
    /\ source \in Seq(G!Keys) /\ pageRows \in Seq(G!Keys) /\ before \in Seq(G!Keys)
    /\ last \in 0 .. Limit \cup {None}
    /\ pageOutcome \in {None, "sealed", "empty", "DUPLICATE_NATURAL_KEY", "RESULT_MAY_BE_TRUNCATED"}
    /\ changes \in Seq({"insert", "delete"})

Unread == last = None => pageOutcome = None /\ pageRows = <<>> /\ changes = <<>>

\* Only a short page is the last.
SealedShort == pageOutcome = "sealed" => last # None /\ last < Limit

Good == last # None /\ pageOutcome \in {None, "sealed"}

ReadSoFar ==
    Good /\ changes = <<>> =>
        /\ Len(pageRows) <= Len(source)
        /\ \A i \in 1 .. Len(pageRows) : pageRows[i] = source[i]
        /\ last < Limit => Len(pageRows) = Len(source)

Ahead(k) == last = Limit /\ \E i \in 1 .. Len(source) : i > Len(pageRows) /\ source[i] = k

ReadOrAhead ==
    Good /\ "delete" \notin G!Elements(changes) =>
        \A k \in G!Elements(before) : k \in G!Elements(pageRows) \/ Ahead(k)

PagingInv ==
    /\ PageTypes /\ Unread /\ SealedShort /\ G!Distinct(source) /\ G!Distinct(pageRows)
    /\ ReadSoFar /\ ReadOrAhead

LEMMA PageNumbers ==
    /\ Limit \in Nat \ {0} /\ None \notin Nat /\ MaxKeys \in Nat
    /\ None \notin {"sealed", "empty", "DUPLICATE_NATURAL_KEY", "RESULT_MAY_BE_TRUNCATED"}
BY DataAssumption

LEMMA ElementsOf ==
    ASSUME NEW X, NEW s \in Seq(X)
    PROVE  /\ Len(s) \in Nat /\ DOMAIN s = 1 .. Len(s) /\ G!Elements(s) = {s[i] : i \in 1 .. Len(s)}
           /\ \A i \in 1 .. Len(s) : s[i] \in X
<1>1. Len(s) \in Nat /\ DOMAIN s = 1 .. Len(s) /\ s \in [1 .. Len(s) -> X]
  BY LenProperties
<1> QED BY <1>1 DEF G!Elements

LEMMA DistinctOf ==
    ASSUME NEW X, NEW s \in Seq(X)
    PROVE  G!Distinct(s) <=> \A i, j \in 1 .. Len(s) : s[i] = s[j] => i = j
BY ElementsOf DEF G!Distinct

\* What a page holds.
LEMMA PageIs ==
    ASSUME PageTypes, NEW page, page = G!Page
    PROVE  /\ page \in Seq(G!Keys) /\ Len(page) \in 0 .. Limit
           /\ Len(pageRows) + Len(page) <= Len(source) \/ Len(page) = 0
           /\ Len(page) < Limit => Len(pageRows) + Len(page) >= Len(source)
           /\ \A i \in 1 .. Len(page) : page[i] = source[Len(pageRows) + i]
<1> DEFINE off == Len(pageRows)
<1> DEFINE size == Len(source)
<1> DEFINE end == IF off + Limit < size THEN off + Limit ELSE size
<1>1. off \in Nat /\ size \in Nat /\ Limit \in Nat \ {0}
  BY PageNumbers, LenProperties DEF PageTypes
<1>2. \A i \in 1 .. size : source[i] \in G!Keys
  BY ElementsOf DEF PageTypes
<1>3. page = SubSeq(source, off + 1, end)
  BY DEF G!Page, G!Offset, G!Least
<1> HIDE DEF off, size
<1>4. end \in Int /\ off + 1 \in Int /\ end <= size /\ end <= off + Limit
  BY <1>1
<1>5. \A i \in off + 1 .. end : source[i] \in G!Keys
  <2>1. off + 1 .. end \subseteq 1 .. size
    BY <1>1, <1>4
  <2> QED BY <1>2, <2>1
<1>6. end < size => end = off + Limit
  BY <1>1
<1> HIDE DEF end
<1>7. /\ page \in Seq(G!Keys)
      /\ Len(page) = IF off + 1 <= end THEN end - (off + 1) + 1 ELSE 0
      /\ \A i \in 1 .. end - (off + 1) + 1 : page[i] = source[off + 1 + i - 1]
  BY <1>3, <1>4, <1>5, SubSeqProperties
<1>8. Len(page) \in 0 .. Limit /\ (off + Len(page) <= size \/ Len(page) = 0)
  BY <1>1, <1>4, <1>7
<1>9. Len(page) < Limit => off + Len(page) >= size
  BY <1>1, <1>4, <1>6, <1>7
<1>10. ASSUME NEW i \in 1 .. Len(page) PROVE page[i] = source[off + i]
  <2>1. i \in Int /\ i >= 1 /\ i <= Len(page)
    BY <1>8
  <2>2. i \in 1 .. end - (off + 1) + 1
    BY <1>1, <1>4, <1>7, <2>1
  <2>3. off + 1 + i - 1 = off + i
    BY <1>1, <2>1
  <2> QED BY <1>7, <2>2, <2>3
<1> QED BY <1>7, <1>8, <1>9, <1>10 DEF off, size

With(s, i, key) == SubSeq(s, 1, i) \o <<key>> \o SubSeq(s, i + 1, Len(s))

LEMMA Inserted ==
    ASSUME NEW X, NEW s \in Seq(X), NEW key \in X, NEW i \in 0 .. Len(s)
    PROVE  /\ With(s, i, key) \in Seq(X) /\ Len(With(s, i, key)) = Len(s) + 1
           /\ \A j \in 1 .. Len(s) + 1 :
                 With(s, i, key)[j] = IF j <= i THEN s[j] ELSE IF j = i + 1 THEN key ELSE s[j - 1]
<1> DEFINE new == With(s, i, key)
<1> DEFINE first == SubSeq(s, 1, i)
<1> DEFINE second == <<key>>
<1> DEFINE third == SubSeq(s, i + 1, Len(s))
<1>1. /\ Len(s) \in Nat /\ i \in Int /\ 1 \in Int /\ i + 1 \in Int /\ i >= 0 /\ i <= Len(s) /\ Len(s) \in Int
      /\ \A j \in 1 .. Len(s) : s[j] \in X
  BY ElementsOf
<1>2. \A j \in 1 .. i : s[j] \in X
  BY <1>1
<1>3. \A j \in i + 1 .. Len(s) : s[j] \in X
  BY <1>1
<1>4. /\ first \in Seq(X) /\ Len(first) = IF 1 <= i THEN i - 1 + 1 ELSE 0
      /\ \A j \in 1 .. i - 1 + 1 : first[j] = s[1 + j - 1]
  BY <1>1, <1>2, SubSeqProperties
<1>5. /\ third \in Seq(X) /\ Len(third) = IF i + 1 <= Len(s) THEN Len(s) - (i + 1) + 1 ELSE 0
      /\ \A j \in 1 .. Len(s) - (i + 1) + 1 : third[j] = s[i + 1 + j - 1]
  BY <1>1, <1>3, SubSeqProperties
<1>6. second \in Seq(X) /\ Len(second) = 1 /\ second[1] = key
  OBVIOUS
<1>7. new = (first \o second) \o third
  BY Zenon DEF With
<1> HIDE DEF first, second, third, new
<1>8. /\ first \o second \in Seq(X) /\ Len(first \o second) = Len(first) + Len(second)
      /\ \A j \in 1 .. Len(first) + Len(second) :
            (first \o second)[j] = IF j <= Len(first) THEN first[j] ELSE second[j - Len(first)]
  BY <1>4, <1>6, ConcatProperties
<1> DEFINE both == first \o second
<1>b. both \in Seq(X) /\ new = both \o third
  BY <1>7, <1>8
<1> HIDE DEF both
<1>9. /\ new \in Seq(X) /\ Len(new) = Len(both) + Len(third)
      /\ \A j \in 1 .. Len(both) + Len(third) :
            new[j] = IF j <= Len(both) THEN both[j] ELSE third[j - Len(both)]
  BY <1>5, <1>b, ConcatProperties
<1>10. Len(first) = i /\ Len(both) = i + 1 /\ Len(third) = Len(s) - i
  BY <1>1, <1>4, <1>5, <1>6, <1>8 DEF both
<1>11. ASSUME NEW j \in 1 .. Len(s) + 1
       PROVE  new[j] = IF j <= i THEN s[j] ELSE IF j = i + 1 THEN key ELSE s[j - 1]
  <2>1. j \in Int /\ j >= 1 /\ j <= Len(s) + 1
    BY <1>1
  <2>2. CASE j <= i
    <3>1. j \in 1 .. Len(both) + Len(third) /\ j <= Len(both) /\ j \in 1 .. Len(first) + Len(second)
      BY <1>1, <1>6, <1>10, <2>1, <2>2
    <3>2. new[j] = both[j] /\ both[j] = first[j]
      BY <1>8, <1>9, <1>10, <2>2, <3>1 DEF both
    <3>3. j \in 1 .. i - 1 + 1 /\ 1 + j - 1 = j
      BY <1>1, <2>1, <2>2
    <3> QED BY <1>4, <2>2, <3>2, <3>3
  <2>3. CASE j = i + 1
    <3>1. /\ j \in 1 .. Len(both) + Len(third) /\ j <= Len(both) /\ j \in 1 .. Len(first) + Len(second)
          /\ ~(j <= i) /\ j - Len(first) = 1
      BY <1>1, <1>6, <1>10, <2>1, <2>3
    <3>2. new[j] = both[j] /\ both[j] = second[1]
      BY <1>8, <1>9, <1>10, <3>1 DEF both
    <3> QED BY <1>6, <2>3, <3>1, <3>2
  <2>4. CASE j > i + 1
    <3>1. /\ j \in 1 .. Len(both) + Len(third) /\ ~(j <= Len(both)) /\ ~(j <= i) /\ j # i + 1
          /\ j - Len(both) \in 1 .. Len(s) - (i + 1) + 1 /\ i + 1 + (j - Len(both)) - 1 = j - 1
      BY <1>1, <1>10, <2>1, <2>4
    <3>2. new[j] = third[j - Len(both)] /\ third[j - Len(both)] = s[j - 1]
      BY <1>5, <1>9, <3>1
    <3> QED BY <3>1, <3>2
  <2> QED BY <1>1, <2>1, <2>2, <2>3, <2>4
<1>12. new \in Seq(X) /\ Len(new) = Len(s) + 1
  BY <1>1, <1>9, <1>10
<1> QED BY <1>11, <1>12 DEF new

LEMMA Deleted ==
    ASSUME NEW X, NEW s \in Seq(X), NEW i \in 1 .. Len(s)
    PROVE  LET new == SubSeq(s, 1, i - 1) \o SubSeq(s, i + 1, Len(s))
           IN  /\ new \in Seq(X) /\ Len(new) = Len(s) - 1
               /\ \A j \in 1 .. Len(s) - 1 : new[j] = IF j < i THEN s[j] ELSE s[j + 1]
<1> DEFINE new == SubSeq(s, 1, i - 1) \o SubSeq(s, i + 1, Len(s))
<1> DEFINE first == SubSeq(s, 1, i - 1)
<1> DEFINE third == SubSeq(s, i + 1, Len(s))
<1>1. /\ Len(s) \in Nat /\ i - 1 \in Int /\ 1 \in Int /\ i + 1 \in Int /\ i >= 1 /\ i <= Len(s) /\ Len(s) \in Int /\ i \in Int
      /\ \A j \in 1 .. Len(s) : s[j] \in X
  BY ElementsOf
<1>2. \A j \in 1 .. i - 1 : s[j] \in X
  BY <1>1
<1>3. \A j \in i + 1 .. Len(s) : s[j] \in X
  BY <1>1
<1>4. /\ first \in Seq(X) /\ Len(first) = IF 1 <= i - 1 THEN (i - 1) - 1 + 1 ELSE 0
      /\ \A j \in 1 .. (i - 1) - 1 + 1 : first[j] = s[1 + j - 1]
  BY <1>1, <1>2, SubSeqProperties
<1>5. /\ third \in Seq(X) /\ Len(third) = IF i + 1 <= Len(s) THEN Len(s) - (i + 1) + 1 ELSE 0
      /\ \A j \in 1 .. Len(s) - (i + 1) + 1 : third[j] = s[i + 1 + j - 1]
  BY <1>1, <1>3, SubSeqProperties
<1>6. new = first \o third
  BY Zenon
<1> HIDE DEF first, third, new
<1>7. /\ new \in Seq(X) /\ Len(new) = Len(first) + Len(third)
      /\ \A j \in 1 .. Len(first) + Len(third) :
            new[j] = IF j <= Len(first) THEN first[j] ELSE third[j - Len(first)]
  BY <1>4, <1>5, <1>6, ConcatProperties
<1>8. Len(first) = i - 1 /\ Len(third) = Len(s) - i
  BY <1>1, <1>4, <1>5
<1>9. ASSUME NEW j \in 1 .. Len(s) - 1 PROVE new[j] = IF j < i THEN s[j] ELSE s[j + 1]
  <2>1. j \in Int /\ j >= 1 /\ j <= Len(s) - 1
    BY <1>1
  <2>2. CASE j < i
    <3>1. j \in 1 .. Len(first) + Len(third) /\ j <= Len(first) /\ j \in 1 .. (i - 1) - 1 + 1 /\ 1 + j - 1 = j
      BY <1>1, <1>8, <2>1, <2>2
    <3> QED BY <1>4, <1>7, <2>2, <3>1
  <2>3. CASE ~(j < i)
    <3>1. /\ j \in 1 .. Len(first) + Len(third) /\ ~(j <= Len(first))
          /\ j - Len(first) \in 1 .. Len(s) - (i + 1) + 1 /\ i + 1 + (j - Len(first)) - 1 = j + 1
      BY <1>1, <1>8, <2>1, <2>3
    <3>2. new[j] = third[j - Len(first)] /\ third[j - Len(first)] = s[j + 1]
      BY <1>5, <1>7, <3>1
    <3> QED BY <2>3, <3>2
  <2> QED BY <2>2, <2>3
<1>10. new \in Seq(X) /\ Len(new) = Len(s) - 1
  BY <1>1, <1>7, <1>8
<1> QED BY <1>9, <1>10 DEF new

LEMMA PagingInitHolds == G!Init => PagingInv
<1> SUFFICES ASSUME G!Init PROVE PagingInv
  OBVIOUS
<1>1. PICK n \in 0 .. MaxKeys : source = [i \in 1 .. n |-> i]
  BY DEF G!Init
<1>2. n \in Nat /\ 1 .. n \subseteq 1 .. MaxKeys
  BY PageNumbers
<1>3. source \in Seq(G!Keys) /\ Len(source) = n
  BY <1>1, <1>2 DEF G!Keys
<1>4. G!Distinct(source)
  BY <1>1 DEF G!Distinct
<1>5. /\ offsets \in BOOLEAN /\ pageRows = <<>> /\ last = None /\ pageOutcome = None /\ before = <<>> /\ changes = <<>>
  BY DEF G!Init
<1>6. PageTypes
  BY <1>3, <1>5, EmptySeq DEF PageTypes
<1>7. G!Distinct(pageRows)
  <2>1. pageRows \in Seq(G!Keys) /\ Len(pageRows) = 0
    BY <1>5, EmptySeq
  <2>2. 1 .. Len(pageRows) = {}
    BY <2>1
  <2> QED BY <2>1, <2>2, DistinctOf
<1>8. pageOutcome # "sealed"
  BY <1>5, PageNumbers
<1> QED BY <1>3, <1>4, <1>5, <1>6, <1>7, <1>8 DEF PagingInv, Unread, SealedShort, ReadSoFar, ReadOrAhead, Good

LEMMA InsertKeeps ==
    ASSUME PagingInv, NEW key \in G!Keys, NEW i \in 0 .. Len(source), G!Insert(key, i)
    PROVE  PagingInv'
<1>0. /\ key \notin G!Elements(source) /\ pageOutcome = None /\ last # None
      /\ source' = SubSeq(source, 1, i) \o <<key>> \o SubSeq(source, i + 1, Len(source))
      /\ changes' = Append(changes, "insert")
      /\ UNCHANGED <<offsets, pageRows, last, pageOutcome, before>>
  BY DEF G!Insert, G!Reading
<1>1. source \in Seq(G!Keys) /\ changes \in Seq({"insert", "delete"}) /\ pageRows \in Seq(G!Keys) /\ before \in Seq(G!Keys)
  BY DEF PagingInv, PageTypes
<1> DEFINE size == Len(source)
<1> DEFINE off == Len(pageRows)
<1>2. size \in Nat /\ off \in Nat /\ i \in Int /\ 0 <= i /\ i <= size
  BY <1>1, ElementsOf
<1>3. /\ source' \in Seq(G!Keys) /\ Len(source') = size + 1
      /\ \A j \in 1 .. size + 1 :
            source'[j] = IF j <= i THEN source[j] ELSE IF j = i + 1 THEN key ELSE source[j - 1]
  <2>1. source' = With(source, i, key)
    BY <1>0 DEF With
  <2>2. source \in Seq(G!Keys) /\ key \in G!Keys /\ i \in 0 .. Len(source)
    BY <1>1
  <2>3. With(source, i, key) \in Seq(G!Keys) /\ Len(With(source, i, key)) = Len(source) + 1
    BY <2>2, Inserted
  <2>4. \A j \in 1 .. Len(source) + 1 :
            With(source, i, key)[j] = IF j <= i THEN source[j] ELSE IF j = i + 1 THEN key ELSE source[j - 1]
    BY <2>2, Inserted
  <2> QED BY <2>1, <2>3, <2>4
<1>4. \A j \in 1 .. size : source[j] # key
  BY <1>0, <1>1, ElementsOf
<1>5. changes' \in Seq({"insert", "delete"}) /\ changes' # <<>>
  <2>1. "insert" \in {"insert", "delete"}
    OBVIOUS
  <2> QED BY <1>0, <1>1, <2>1, AppendProperties
<1>6. "delete" \notin G!Elements(changes)' => "delete" \notin G!Elements(changes)
  <2> SUFFICES ASSUME "delete" \in G!Elements(changes) PROVE "delete" \in G!Elements(changes')
    OBVIOUS
  <2>1. PICK j \in 1 .. Len(changes) : changes[j] = "delete"
    BY <1>1, ElementsOf
  <2>2. Len(changes') = Len(changes) + 1 /\ Len(changes) \in Nat /\ changes'[j] = changes[j]
    BY <1>0, <1>1, <2>1, AppendProperties, ElementsOf
  <2>3. j \in 1 .. Len(changes')
    BY <2>1, <2>2
  <2> QED BY <1>5, <2>1, <2>2, <2>3, ElementsOf
<1>7. PageTypes'
  BY <1>0, <1>3, <1>5 DEF PagingInv, PageTypes
<1> HIDE DEF size, off
<1>8. G!Distinct(source')
  <2> DEFINE at(j) == IF j <= i THEN j ELSE j - 1
  <2> SUFFICES ASSUME NEW j \in 1 .. size + 1, NEW k \in 1 .. size + 1, source'[j] = source'[k] PROVE j = k
    BY <1>3, DistinctOf
  <2>1. \A l, m \in 1 .. size : source[l] = source[m] => l = m
    BY <1>1, DistinctOf DEF PagingInv, size
  <2>2. \A l \in 1 .. size + 1 : l # i + 1 => at(l) \in 1 .. size /\ source'[l] = source[at(l)]
    BY <1>2, <1>3
  <2>3. CASE j = i + 1 /\ k = i + 1
    BY <2>3
  <2>4. CASE j = i + 1 /\ k # i + 1
    BY <1>2, <1>3, <1>4, <2>2, <2>4
  <2>5. CASE j # i + 1 /\ k = i + 1
    BY <1>2, <1>3, <1>4, <2>2, <2>5
  <2>6. CASE j # i + 1 /\ k # i + 1
    <3>1. at(j) = at(k)
      BY <2>1, <2>2, <2>6
    <3> QED BY <1>2, <2>6, <3>1
  <2> QED BY <2>3, <2>4, <2>5, <2>6
<1>9. ReadOrAhead'
  <2> SUFFICES ASSUME Good', "delete" \notin G!Elements(changes)', NEW k \in G!Elements(before)
               PROVE  k \in G!Elements(pageRows) \/ Ahead(k)'
    BY <1>0 DEF ReadOrAhead
  <2>1. k \in G!Elements(pageRows) \/ Ahead(k)
    BY <1>0, <1>6 DEF PagingInv, ReadOrAhead, Good
  <2>2. ASSUME Ahead(k) PROVE Ahead(k)'
    <3>1. PICK j \in 1 .. size : j > off /\ source[j] = k /\ last = Limit
      BY <2>2 DEF Ahead, size, off
    <3>2. CASE j <= i
      <4>1. j \in 1 .. Len(source') /\ source'[j] = k
        BY <1>2, <1>3, <3>1, <3>2
      <4> QED BY <1>0, <3>1, <4>1 DEF Ahead, off
    <3>3. CASE ~(j <= i)
      <4>1. j + 1 \in 1 .. Len(source') /\ source'[j + 1] = source[j + 1 - 1] /\ j + 1 - 1 = j /\ j + 1 > off
        BY <1>2, <1>3, <3>1, <3>3
      <4> QED BY <1>0, <3>1, <4>1 DEF Ahead, off
    <3> QED BY <3>2, <3>3
  <2> QED BY <2>1, <2>2
<1>10. Unread' /\ SealedShort' /\ G!Distinct(pageRows)' /\ ReadSoFar'
  BY <1>0, <1>5 DEF PagingInv, Unread, SealedShort, ReadSoFar
<1> QED BY <1>3, <1>7, <1>8, <1>9, <1>10 DEF PagingInv

LEMMA DeleteKeeps ==
    ASSUME PagingInv, NEW i \in DOMAIN source, G!Delete(i)
    PROVE  PagingInv'
<1>0. /\ pageOutcome = None /\ last # None
      /\ source' = SubSeq(source, 1, i - 1) \o SubSeq(source, i + 1, Len(source))
      /\ changes' = Append(changes, "delete")
      /\ UNCHANGED <<offsets, pageRows, last, pageOutcome, before>>
  BY DEF G!Delete, G!Reading
<1>1. source \in Seq(G!Keys) /\ changes \in Seq({"insert", "delete"}) /\ pageRows \in Seq(G!Keys)
  BY DEF PagingInv, PageTypes
<1> DEFINE size == Len(source)
<1>2. size \in Nat /\ i \in 1 .. size
  BY <1>1, ElementsOf
<1>3. /\ source' \in Seq(G!Keys) /\ Len(source') = size - 1
      /\ \A j \in 1 .. size - 1 : source'[j] = IF j < i THEN source[j] ELSE source[j + 1]
  BY <1>0, <1>1, <1>2, Deleted
<1>4. changes' \in Seq({"insert", "delete"}) /\ changes' # <<>> /\ "delete" \in G!Elements(changes')
  <2>1. /\ changes' \in Seq({"insert", "delete"}) /\ changes' # <<>> /\ Len(changes') = Len(changes) + 1
        /\ changes'[Len(changes) + 1] = "delete" /\ Len(changes) \in Nat
    <3>1. "delete" \in {"insert", "delete"} /\ Len(changes) \in Nat
      BY <1>1, ElementsOf
    <3> QED BY <1>0, <1>1, <3>1, AppendProperties
  <2>2. Len(changes) + 1 \in 1 .. Len(changes')
    BY <2>1
  <2> QED BY <2>1, <2>2, ElementsOf
<1>5. PageTypes'
  BY <1>0, <1>3, <1>4 DEF PagingInv, PageTypes
<1>6. G!Distinct(source')
  <2> DEFINE at(j) == IF j < i THEN j ELSE j + 1
  <2> SUFFICES ASSUME NEW j \in 1 .. size - 1, NEW k \in 1 .. size - 1, source'[j] = source'[k] PROVE j = k
    BY <1>3, DistinctOf
  <2>1. \A l, m \in 1 .. size : source[l] = source[m] => l = m
    BY <1>1, DistinctOf DEF PagingInv
  <2> HIDE DEF size
  <2>2. \A l \in 1 .. size - 1 : at(l) \in 1 .. size /\ source'[l] = source[at(l)]
    BY <1>2, <1>3
  <2>3. at(j) = at(k)
    BY <2>1, <2>2
  <2> QED BY <1>2, <2>3
<1>7. ReadOrAhead'
  BY <1>4 DEF ReadOrAhead
<1>8. Unread' /\ SealedShort' /\ G!Distinct(pageRows)' /\ ReadSoFar'
  BY <1>0, <1>4 DEF PagingInv, Unread, SealedShort, ReadSoFar
<1> QED BY <1>3, <1>5, <1>6, <1>7, <1>8 DEF PagingInv

LEMMA FirstPageKeeps == PagingInv /\ G!FirstPage => PagingInv'
<1> SUFFICES ASSUME PagingInv, G!FirstPage PROVE PagingInv'
  OBVIOUS
<1>0. /\ last = None /\ pageOutcome = None /\ pageRows = <<>> /\ changes = <<>>
      /\ last' = Len(G!Page) /\ pageRows' = G!Page /\ before' = source
      /\ pageOutcome' = IF G!Page = <<>> THEN "empty" ELSE None
      /\ UNCHANGED <<offsets, source, changes>>
  BY DEF G!FirstPage, PagingInv, Unread
<1>1. source \in Seq(G!Keys) /\ Limit \in Nat \ {0} /\ None \notin Nat /\ Len(pageRows) = 0
  BY <1>0, PageNumbers DEF PagingInv, PageTypes
<1> DEFINE page == G!Page
<1>2. /\ page \in Seq(G!Keys) /\ Len(page) \in 0 .. Limit
      /\ Len(pageRows) + Len(page) <= Len(source) \/ Len(page) = 0
      /\ Len(page) < Limit => Len(pageRows) + Len(page) >= Len(source)
      /\ \A i \in 1 .. Len(page) : page[i] = source[Len(pageRows) + i]
  BY PageIs DEF PagingInv
<1> HIDE DEF page
<1>3. Len(source) \in Nat /\ Len(page) \in Nat
  BY <1>1, <1>2, ElementsOf
<1>4. /\ Len(page) <= Len(source) /\ (Len(page) < Limit => Len(page) = Len(source))
      /\ \A i \in 1 .. Len(page) : page[i] = source[i]
  <2>1. Len(page) <= Len(source) /\ (Len(page) < Limit => Len(page) = Len(source))
    BY <1>1, <1>2, <1>3
  <2>2. ASSUME NEW i \in 1 .. Len(page) PROVE page[i] = source[i]
    <3>1. Len(pageRows) + i = i
      BY <1>1, <1>3
    <3> QED BY <1>2, <3>1
  <2> QED BY <2>1, <2>2
<1>5. last' = Len(page) /\ pageRows' = page /\ (pageOutcome' = "empty" \/ pageOutcome' = None)
  BY <1>0 DEF page
<1>6. PageTypes'
  BY <1>0, <1>1, <1>2, <1>5 DEF PagingInv, PageTypes
<1>7. G!Distinct(page)
  <2>1. \A i, j \in 1 .. Len(source) : source[i] = source[j] => i = j
    BY <1>1, DistinctOf DEF PagingInv
  <2>2. 1 .. Len(page) \subseteq 1 .. Len(source)
    BY <1>3, <1>4
  <2>3. \A i, j \in 1 .. Len(page) : page[i] = page[j] => i = j
    BY <2>1, <2>2, <1>4
  <2> QED BY <1>2, <2>3, DistinctOf
<1>8. last' # None /\ pageOutcome' # "sealed"
  BY <1>1, <1>3, <1>5, PageNumbers
<1>9. ReadSoFar'
  BY <1>0, <1>4, <1>5 DEF ReadSoFar
<1>10. ReadOrAhead'
  <2> SUFFICES ASSUME NEW k \in G!Elements(source) PROVE k \in G!Elements(page) \/ Ahead(k)'
    BY <1>0, <1>5 DEF ReadOrAhead
  <2>1. PICK i \in 1 .. Len(source) : source[i] = k
    BY <1>1, ElementsOf
  <2>2. CASE i <= Len(page)
    <3>1. i \in 1 .. Len(page) /\ page[i] = k
      BY <1>3, <1>4, <2>1, <2>2
    <3> QED BY <1>2, <3>1, ElementsOf
  <2>3. CASE ~(i <= Len(page))
    <3>1. i > Len(page) /\ Len(page) = Limit
      BY <1>1, <1>2, <1>3, <1>4, <2>1, <2>3
    <3> QED BY <1>0, <1>5, <2>1, <3>1 DEF Ahead
  <2> QED BY <2>2, <2>3
<1>11. Unread' /\ SealedShort' /\ G!Distinct(source)'
  BY <1>0, <1>8 DEF PagingInv, Unread, SealedShort
<1> QED BY <1>5, <1>6, <1>7, <1>9, <1>10, <1>11 DEF PagingInv

LEMMA NextPageKeeps == PagingInv /\ G!NextPage => PagingInv'
<1> SUFFICES ASSUME PagingInv, G!NextPage PROVE PagingInv'
  OBVIOUS
<1> DEFINE page == G!Page
<1> DEFINE off == Len(pageRows)
<1> DEFINE size == Len(source)
<1>0. /\ last # None /\ pageOutcome = None /\ last = Limit /\ last' = Len(page)
      /\ \/ G!Distinct(pageRows \o page) /\ pageRows' = pageRows \o page /\ pageOutcome' = pageOutcome
         \/ pageOutcome' = "DUPLICATE_NATURAL_KEY" /\ pageRows' = pageRows
      /\ UNCHANGED <<offsets, source, before, changes>>
  BY DEF G!NextPage, G!More, G!Validated
<1>1. source \in Seq(G!Keys) /\ pageRows \in Seq(G!Keys) /\ before \in Seq(G!Keys) /\ Limit \in Nat \ {0} /\ None \notin Nat
  BY PageNumbers DEF PagingInv, PageTypes
<1>2. /\ page \in Seq(G!Keys) /\ Len(page) \in 0 .. Limit
      /\ off + Len(page) <= size \/ Len(page) = 0
      /\ Len(page) < Limit => off + Len(page) >= size
      /\ \A i \in 1 .. Len(page) : page[i] = source[off + i]
  BY PageIs DEF PagingInv
<1> HIDE DEF page
<1>3. size \in Nat /\ Len(page) \in Nat /\ off \in Nat
  BY <1>1, <1>2, ElementsOf
<1>4. /\ pageRows \o page \in Seq(G!Keys) /\ Len(pageRows \o page) = off + Len(page)
      /\ \A i \in 1 .. off + Len(page) :
            (pageRows \o page)[i] = IF i <= off THEN pageRows[i] ELSE page[i - off]
  BY <1>1, <1>2, ConcatProperties
<1>5. PageTypes'
  BY <1>0, <1>2, <1>4 DEF PagingInv, PageTypes
<1>6. last' # None /\ pageOutcome' # "sealed" /\ G!Distinct(pageRows)' /\ G!Distinct(source)'
  <2>1. last' # None /\ pageOutcome' # "sealed"
    BY <1>0, <1>1, <1>3, PageNumbers
  <2> QED BY <1>0, <2>1 DEF PagingInv
<1>7. Unread' /\ SealedShort'
  BY <1>6 DEF Unread, SealedShort
<1>8. CASE pageOutcome' = "DUPLICATE_NATURAL_KEY"
  <2>1. ~Good'
    BY <1>8, PageNumbers DEF Good
  <2> QED BY <1>5, <1>6, <1>7, <2>1 DEF PagingInv, ReadSoFar, ReadOrAhead
<1>9. CASE pageRows' = pageRows \o page /\ pageOutcome' = pageOutcome
  <2> HIDE DEF off, size
  <2>1. Good
    BY <1>0 DEF Good
  <2>2. /\ Len(pageRows') = off + Len(page)
        /\ \A i \in 1 .. off + Len(page) : pageRows'[i] = IF i <= off THEN pageRows[i] ELSE page[i - off]
    BY <1>4, <1>9
  <2>3. \A i \in 1 .. Len(page) : pageRows'[off + i] = source[off + i]
    <3> SUFFICES ASSUME NEW i \in 1 .. Len(page) PROVE pageRows'[off + i] = source[off + i]
      OBVIOUS
    <3> DEFINE at == off + i
    <3>1. at \in 1 .. off + Len(page) /\ ~(at <= off) /\ at - off = i
      BY <1>3
    <3> HIDE DEF at
    <3>2. pageRows'[at] = page[at - off]
      BY <2>2, <3>1
    <3>3. pageRows'[at] = source[off + i]
      BY <1>2, <3>1, <3>2
    <3> QED BY <3>3 DEF at
  <2>4. ReadSoFar'
    <3> SUFFICES ASSUME changes = <<>>
                 PROVE  /\ Len(pageRows') <= size
                        /\ \A i \in 1 .. Len(pageRows') : pageRows'[i] = source[i]
                        /\ last' < Limit => Len(pageRows') = size
      BY <1>0 DEF ReadSoFar, size
    <3>1. off <= size /\ \A i \in 1 .. off : pageRows[i] = source[i]
      BY <2>1 DEF PagingInv, ReadSoFar, off, size
    <3>2. Len(pageRows') <= size /\ (last' < Limit => Len(pageRows') = size)
      <4>1. Len(pageRows') = off + Len(page) /\ last' = Len(page)
        BY <1>0, <2>2
      <4>2. off + Len(page) <= size \/ Len(page) = 0
        BY <1>2 DEF off, size
      <4>3. Len(page) < Limit => off + Len(page) >= size
        BY <1>2 DEF off, size
      <4>4. off \in Nat /\ size \in Nat /\ Len(page) \in Nat
        BY <1>3 DEF off, size
      <4> QED BY <3>1, <4>1, <4>2, <4>3, <4>4
    <3>3. ASSUME NEW i \in 1 .. off + Len(page) PROVE pageRows'[i] = source[i]
      <4>1. CASE i <= off
        <5>1. i \in 1 .. off
          BY <1>3, <4>1
        <5> QED BY <2>2, <3>1, <4>1, <5>1
      <4>2. CASE ~(i <= off)
        <5>1. i - off \in 1 .. Len(page) /\ off + (i - off) = i
          BY <1>3, <4>2
        <5> QED BY <2>3, <5>1
      <4> QED BY <4>1, <4>2
    <3> QED BY <2>2, <3>2, <3>3
  <2>5. ReadOrAhead'
    <3> SUFFICES ASSUME "delete" \notin G!Elements(changes), NEW k \in G!Elements(before)
                 PROVE  k \in G!Elements(pageRows') \/ Ahead(k)'
      BY <1>0 DEF ReadOrAhead
    <3>1. k \in G!Elements(pageRows) \/ Ahead(k)
      BY <2>1 DEF PagingInv, ReadOrAhead
    <3>2. pageRows' \in Seq(G!Keys)
      BY <1>4, <1>9
    <3>3. ASSUME NEW i \in 1 .. Len(pageRows'), pageRows'[i] = k PROVE k \in G!Elements(pageRows')
      BY <3>2, <3>3, ElementsOf
    <3>4. CASE k \in G!Elements(pageRows)
      <4>1. PICK i \in 1 .. off : pageRows[i] = k
        BY <1>1, <3>4, ElementsOf DEF off
      <4>2. i \in 1 .. off + Len(page) /\ i <= off
        BY <1>3, <4>1
      <4> QED BY <2>2, <3>3, <4>1, <4>2
    <3>5. CASE Ahead(k)
      <4>1. PICK i \in 1 .. size : i > off /\ source[i] = k
        BY <3>5 DEF Ahead, off, size
      <4>2. CASE i <= off + Len(page)
        <5>1. i - off \in 1 .. Len(page) /\ off + (i - off) = i /\ i \in 1 .. off + Len(page)
          BY <1>3, <4>1, <4>2
        <5> QED BY <2>2, <2>3, <3>3, <4>1, <5>1
      <4>3. CASE ~(i <= off + Len(page))
        <5>1. Len(page) = Limit /\ i > off + Len(page)
          BY <1>1, <1>2, <1>3, <4>1, <4>3
        <5> QED BY <1>0, <2>2, <4>1, <5>1 DEF Ahead, size
      <4> QED BY <4>2, <4>3
    <3> QED BY <3>1, <3>4, <3>5
  <2> QED BY <1>5, <1>6, <1>7, <2>4, <2>5 DEF PagingInv
<1> QED BY <1>0, <1>8, <1>9

LEMMA LastKeeps == PagingInv /\ (G!Whole \/ G!Seal) => PagingInv'
<1> SUFFICES ASSUME PagingInv, G!Whole \/ G!Seal PROVE PagingInv'
  OBVIOUS
<1>0. /\ last # None /\ pageOutcome = None
      /\ pageOutcome' = "RESULT_MAY_BE_TRUNCATED" \/ (pageOutcome' = "sealed" /\ last < Limit)
      /\ UNCHANGED <<offsets, source, pageRows, last, before, changes>>
  <2>1. last # None => last \in 0 .. Limit /\ Limit \in Nat
    BY PageNumbers DEF PagingInv, PageTypes
  <2>2. last # None /\ ~(last >= Limit) => last < Limit
    BY <2>1
  <2>3. last # None /\ last # Limit => last < Limit
    BY <2>1
  <2> QED BY <2>2, <2>3 DEF G!Whole, G!Seal, G!More
<1>1. PageTypes' /\ Unread' /\ SealedShort'
  BY <1>0 DEF PagingInv, PageTypes, Unread, SealedShort
<1>2. Good' => Good
  BY <1>0 DEF Good
<1>3. ReadSoFar'
  BY <1>0, <1>2 DEF PagingInv, ReadSoFar
<1>4. ReadOrAhead'
  BY <1>0, <1>2 DEF PagingInv, ReadOrAhead, Ahead
<1> QED BY <1>0, <1>1, <1>3, <1>4 DEF PagingInv

LEMMA PagingStepHolds == PagingInv /\ (G!Next \/ UNCHANGED pagingVars) => PagingInv'
<1> SUFFICES ASSUME PagingInv, G!Next \/ UNCHANGED pagingVars PROVE PagingInv'
  OBVIOUS
<1>1. CASE UNCHANGED pagingVars
  BY <1>1 DEF pagingVars, PagingInv, PageTypes, Unread, SealedShort, ReadSoFar, ReadOrAhead, Ahead, Good
<1> QED BY <1>1, InsertKeeps, DeleteKeeps, FirstPageKeeps, NextPageKeeps, LastKeeps DEF G!Next

\* Sealed means that the last page was short, so nothing is ahead any more.
LEMMA PagingHolds == PagingInv => G!TypeOK /\ G!NothingMissed
<1> SUFFICES ASSUME PagingInv PROVE G!TypeOK /\ G!NothingMissed
  OBVIOUS
<1>1. G!TypeOK
  <2>1. ASSUME NEW X, NEW s \in Seq(X) PROVE G!Elements(s) \subseteq X
    BY ElementsOf
  <2> QED BY <2>1 DEF PagingInv, PageTypes, G!TypeOK
<1>2. ASSUME pageOutcome = "sealed"
      PROVE  /\ changes = <<>> => pageRows = source
             /\ "delete" \notin G!Elements(changes) => G!Elements(before) \subseteq G!Elements(pageRows)
  <2>1. last # None /\ last < Limit /\ Good /\ last \in Nat /\ Limit \in Nat
    BY <1>2, PageNumbers DEF PagingInv, SealedShort, Good, PageTypes
  <2>2. last # Limit
    BY <2>1
  <2>3. ASSUME changes = <<>> PROVE pageRows = source
    <3>1. Len(pageRows) = Len(source) /\ \A i \in 1 .. Len(pageRows) : pageRows[i] = source[i]
      BY <2>1, <2>3 DEF PagingInv, ReadSoFar
    <3>2. pageRows \in [1 .. Len(pageRows) -> G!Keys] /\ source \in [1 .. Len(source) -> G!Keys]
      BY LenProperties DEF PagingInv, PageTypes
    <3> QED BY <3>1, <3>2
  <2>4. "delete" \notin G!Elements(changes) => G!Elements(before) \subseteq G!Elements(pageRows)
    BY <2>1, <2>2 DEF PagingInv, ReadOrAhead, Ahead
  <2> QED BY <2>3, <2>4
<1> QED BY <1>1, <1>2 DEF G!NothingMissed, PagingInv

-----------------------------------------------------------------------------
(* Partitions and the calendar.  A partition is the month it is named      *)
(* after, so a date can only be in that of its own month; and whoever      *)
(* promises a date has planned that month.                                 *)

DateTypes == [year : Nat, month : 1 .. 12, day : Nat \ {0}]

LEMMA DateNumbers == PartitionDates \subseteq DateTypes /\ MonthsAhead \in Nat /\ MaxSteps \in Nat
BY DataAssumption DEF DateTypes

\* A partition is that of the month it is named after.
Month(table, year, month) ==
    [table |-> table, name |-> <<year, month>>, from |-> [year |-> year, month |-> month, day |-> 1],
     to |-> N!MonthStart([year |-> year, month |-> month, day |-> 1], 1)]

PartitionKeys == Tables \X Nat \X (1 .. 12)

MonthsOnly ==
    \A p \in partitions : \E t \in Tables, y \in Nat, m \in 1 .. 12 : p = Month(t, y, m)

PromisesPlanned ==
    \A w \in promised : /\ w \in Tables \X PartitionDates
                        /\ Month(w[1], w[2].year, w[2].month) \in partitions

CalendarWhole ==
    /\ calendar \in [N!Exchanges \X Years -> 0 .. 366]
    /\ \A y \in Years : \/ \A x \in N!Exchanges : calendar[<<x, y>>] = 0
                        \/ \A x \in N!Exchanges : calendar[<<x, y>>] = N!DaysIn(y)

DateInv == MonthsOnly /\ PromisesPlanned /\ CalendarWhole /\ steps \in 0 .. MaxSteps

\* The month so many months after another.
LEMMA MonthStartIs ==
    ASSUME NEW d \in DateTypes, NEW n \in Nat
    PROVE  /\ N!MonthStart(d, n) \in [year : Nat, month : 1 .. 12, day : {1}]
           /\ N!MonthStart(d, n).year * 12 + N!MonthStart(d, n).month = d.year * 12 + d.month + n
<1> DEFINE index == d.year * 12 + d.month - 1 + n
<1>1. d.year \in Nat /\ d.month \in 1 .. 12
  BY DEF DateTypes
<1>2. index \in Nat
  BY <1>1
<1>3. N!MonthStart(d, n) = [year |-> index \div 12, month |-> (index % 12) + 1, day |-> 1]
  BY DEF N!MonthStart
<1> HIDE DEF index
<1>4. index \div 12 \in Nat /\ index % 12 \in 0 .. 11 /\ index = 12 * (index \div 12) + (index % 12)
  BY <1>2
<1>5. N!MonthStart(d, n).year * 12 + N!MonthStart(d, n).month = index + 1
  <2>1. N!MonthStart(d, n).year = index \div 12 /\ N!MonthStart(d, n).month = (index % 12) + 1
    BY <1>3
  <2> QED BY <1>2, <1>4, <2>1
<1>6. index + 1 = d.year * 12 + d.month + n
  BY <1>1 DEF index
<1>7. (index % 12) + 1 \in 1 .. 12
  BY <1>4
<1> QED BY <1>3, <1>4, <1>5, <1>6, <1>7

LEMMA MonthStartOnly ==
    ASSUME NEW d \in DateTypes
    PROVE  N!MonthStart(d, 0) = [year |-> d.year, month |-> d.month, day |-> 1]
<1> DEFINE start == N!MonthStart(d, 0)
<1>1. start \in [year : Nat, month : 1 .. 12, day : {1}] /\ start.year * 12 + start.month = d.year * 12 + d.month + 0
  BY MonthStartIs
<1> HIDE DEF start
<1>2. d.year \in Nat /\ d.month \in 1 .. 12
  BY DEF DateTypes
<1>3. start.year \in Nat /\ start.month \in 1 .. 12 /\ start = [year |-> start.year, month |-> start.month, day |-> 1]
  BY <1>1
<1>4. start.year = d.year /\ start.month = d.month
  BY <1>1, <1>2, <1>3
<1> QED BY <1>3, <1>4 DEF start

LEMMA PartitionOfMonth ==
    ASSUME NEW t \in Tables, NEW start \in [year : Nat, month : 1 .. 12, day : {1}]
    PROVE  N!PartitionOf(t, start) = Month(t, start.year, start.month)
<1>1. start = [year |-> start.year, month |-> start.month, day |-> 1]
  OBVIOUS
<1> QED BY <1>1 DEF N!PartitionOf, Month

\* A date is within the partition of its month, and in no other.
LEMMA WithinItsMonth ==
    ASSUME NEW t \in Tables, NEW y \in Nat, NEW m \in 1 .. 12, NEW d \in DateTypes
    PROVE  (~N!Before(d, Month(t, y, m).from) /\ N!Before(d, Month(t, y, m).to)) <=> (d.year = y /\ d.month = m)
<1> DEFINE from == [year |-> y, month |-> m, day |-> 1]
<1> DEFINE to == N!MonthStart(from, 1)
<1>1. from \in DateTypes /\ 1 \in Nat
  BY DEF DateTypes
<1>2. to \in [year : Nat, month : 1 .. 12, day : {1}] /\ to.year * 12 + to.month = from.year * 12 + from.month + 1
  BY <1>1, MonthStartIs
<1>3. Month(t, y, m).from = from /\ Month(t, y, m).to = to
  BY DEF Month
<1> HIDE DEF to
<1>4. to.year \in Nat /\ to.month \in 1 .. 12 /\ to.day = 1 /\ to.year * 12 + to.month = y * 12 + m + 1
  BY <1>2
<1>5. from.year = y /\ from.month = m /\ from.day = 1
  OBVIOUS
<1>6. d.year \in Nat /\ d.month \in 1 .. 12 /\ d.day \in Nat \ {0}
  BY DEF DateTypes
<1> HIDE DEF from
<1>7. N!Before(d, from) <=> d.year < y \/ (d.year = y /\ d.month < m)
  BY <1>5, <1>6 DEF N!Before
<1>8. N!Before(d, to) <=> d.year < to.year \/ (d.year = to.year /\ d.month < to.month)
  BY <1>4, <1>6 DEF N!Before
<1>9. ~N!Before(d, from) /\ N!Before(d, to) <=> d.year = y /\ d.month = m
  BY <1>4, <1>6, <1>7, <1>8
<1> QED BY <1>3, <1>9

\* What is planned is there afterwards: a partition that has its name already is the same.
LEMMA CreatedHas ==
    ASSUME MonthsOnly, NEW planned, partitions' = N!Created(planned),
           \A p \in planned : \E t \in Tables, y \in Nat, m \in 1 .. 12 : p = Month(t, y, m)
    PROVE  MonthsOnly' /\ partitions \subseteq partitions' /\ planned \subseteq partitions'
<1>1. partitions' = partitions \cup {p \in planned : ~\E q \in partitions : q.table = p.table /\ q.name = p.name}
  BY DEF N!Created
<1>2. MonthsOnly' /\ partitions \subseteq partitions'
  BY <1>1 DEF MonthsOnly
<1>3. ASSUME NEW p \in planned, NEW q \in partitions, q.table = p.table, q.name = p.name PROVE p = q
  <2>1. PICK t \in Tables, y \in Nat, m \in 1 .. 12 : p = Month(t, y, m)
    OBVIOUS
  <2>2. PICK u \in Tables, z \in Nat, n \in 1 .. 12 : q = Month(u, z, n)
    BY DEF MonthsOnly
  <2>3. t = u
    BY <1>3, <2>1, <2>2 DEF Month
  <2>4. <<y, m>> = <<z, n>>
    BY <1>3, <2>1, <2>2 DEF Month
  <2>5. y = z /\ m = n
    BY <2>4
  <2> QED BY <2>1, <2>2, <2>3, <2>5
<1> QED BY <1>1, <1>2, <1>3

LEMMA PlannedAre ==
    ASSUME NEW from \in DateTypes, NEW ahead \in Nat
    PROVE  /\ \A p \in N!Planned(from, ahead) : \E t \in Tables, y \in Nat, m \in 1 .. 12 : p = Month(t, y, m)
           /\ \A t \in Tables, d \in DateTypes :
                 (d.year * 12 + d.month) - (from.year * 12 + from.month) \in 0 .. ahead =>
                     Month(t, d.year, d.month) \in N!Planned(from, ahead)
<1>1. ASSUME NEW t \in Tables, NEW n \in 0 .. ahead
      PROVE  /\ N!MonthStart(from, n) \in [year : Nat, month : 1 .. 12, day : {1}]
             /\ N!PartitionOf(t, N!MonthStart(from, n))
                = Month(t, N!MonthStart(from, n).year, N!MonthStart(from, n).month)
             /\ N!MonthStart(from, n).year * 12 + N!MonthStart(from, n).month
                = from.year * 12 + from.month + n
  <2>1. n \in Nat
    OBVIOUS
  <2>2. N!MonthStart(from, n) \in [year : Nat, month : 1 .. 12, day : {1}]
    BY <2>1, MonthStartIs
  <2> QED BY <2>1, <2>2, MonthStartIs, PartitionOfMonth
<1>2. ASSUME NEW p \in N!Planned(from, ahead)
      PROVE  \E t \in Tables, y \in Nat, m \in 1 .. 12 : p = Month(t, y, m)
  <2>1. PICK t \in Tables, n \in 0 .. ahead : p = N!PartitionOf(t, N!MonthStart(from, n))
    BY DEF N!Planned
  <2>2. N!MonthStart(from, n).year \in Nat /\ N!MonthStart(from, n).month \in 1 .. 12
    BY <1>1
  <2> QED BY <1>1, <2>1, <2>2
<1>3. ASSUME NEW t \in Tables, NEW d \in DateTypes,
             (d.year * 12 + d.month) - (from.year * 12 + from.month) \in 0 .. ahead
      PROVE  Month(t, d.year, d.month) \in N!Planned(from, ahead)
  <2> DEFINE n == (d.year * 12 + d.month) - (from.year * 12 + from.month)
  <2> DEFINE start == N!MonthStart(from, n)
  <2>1. n \in 0 .. ahead
    BY <1>3
  <2>2. d.year \in Nat /\ d.month \in 1 .. 12 /\ from.year \in Nat /\ from.month \in 1 .. 12
    BY DEF DateTypes
  <2>3. d.year * 12 + d.month = from.year * 12 + from.month + n
    BY <2>2
  <2> HIDE DEF n
  <2>4. /\ start \in [year : Nat, month : 1 .. 12, day : {1}]
        /\ N!PartitionOf(t, start) = Month(t, start.year, start.month)
        /\ start.year * 12 + start.month = from.year * 12 + from.month + n
    BY <1>1, <2>1
  <2>5. start.year \in Nat /\ start.month \in 1 .. 12
    BY <2>4
  <2>6. start.year = d.year /\ start.month = d.month
    BY <2>2, <2>3, <2>4, <2>5
  <2>7. N!PartitionOf(t, start) \in N!Planned(from, ahead)
    BY <2>1 DEF N!Planned
  <2> QED BY <2>4, <2>6, <2>7
<1> QED BY <1>2, <1>3

LEMMA DateInitHolds == N!Init => DateInv
<1> SUFFICES ASSUME N!Init PROVE DateInv
  OBVIOUS
<1>1. calendar = [e \in N!Exchanges \X Years |-> 0]
  BY DEF N!Init
<1>2. CalendarWhole
  BY <1>1 DEF CalendarWhole
<1>3. partitions = {} /\ promised = {} /\ steps = 0
  BY DEF N!Init
<1> QED BY <1>2, <1>3, DateNumbers DEF DateInv, MonthsOnly, PromisesPlanned

\* An operation promises dates of the months it plans.
LEMMA EnsureKeeps ==
    ASSUME DateInv, NEW planned, NEW new, partitions' = N!Created(planned), promised' = promised \cup new,
           \A p \in planned : \E t \in Tables, y \in Nat, m \in 1 .. 12 : p = Month(t, y, m),
           \A w \in new : w \in Tables \X PartitionDates /\ Month(w[1], w[2].year, w[2].month) \in planned,
           N!Counted, calendar' = calendar
    PROVE  DateInv'
<1>1. MonthsOnly' /\ partitions \subseteq partitions' /\ planned \subseteq partitions'
  BY CreatedHas DEF DateInv
<1>2. PromisesPlanned'
  BY <1>1 DEF DateInv, PromisesPlanned
<1>3. steps' \in 0 .. MaxSteps
  BY DateNumbers DEF DateInv, N!Counted
<1>4. CalendarWhole'
  BY DEF DateInv, CalendarWhole
<1> QED BY <1>1, <1>2, <1>3, <1>4 DEF DateInv

LEMMA MonthlyKeeps ==
    ASSUME DateInv, NEW reference \in PartitionDates, N!EnsureMonthly(reference)
    PROVE  DateInv'
<1> DEFINE planned == N!Planned(reference, MonthsAhead)
<1> DEFINE new == {<<t, d>> : t \in Tables,
                              d \in {e \in PartitionDates :
                                        /\ ~N!Before(e, reference)
                                        /\ (e.year * 12 + e.month) - (reference.year * 12 + reference.month)
                                              \in 0 .. MonthsAhead}}
<1>1. /\ partitions' = N!Created(planned) /\ promised' = promised \cup new
      /\ N!Counted /\ calendar' = calendar
  BY DEF N!EnsureMonthly
<1>2. reference \in DateTypes /\ MonthsAhead \in Nat
  BY DateNumbers
<1>3. /\ \A p \in planned : \E t \in Tables, y \in Nat, m \in 1 .. 12 : p = Month(t, y, m)
      /\ \A t \in Tables, d \in DateTypes :
            (d.year * 12 + d.month) - (reference.year * 12 + reference.month) \in 0 .. MonthsAhead =>
                Month(t, d.year, d.month) \in planned
  BY <1>2, PlannedAre
<1>4. ASSUME NEW w \in new
      PROVE  w \in Tables \X PartitionDates /\ Month(w[1], w[2].year, w[2].month) \in planned
  <2>1. PICK t \in Tables, d \in PartitionDates :
            /\ w = <<t, d>>
            /\ (d.year * 12 + d.month) - (reference.year * 12 + reference.month) \in 0 .. MonthsAhead
    OBVIOUS
  <2>2. d \in DateTypes
    BY DateNumbers
  <2>3. Month(t, d.year, d.month) \in planned
    BY <1>3, <2>1, <2>2
  <2> HIDE DEF planned
  <2> QED BY <2>1, <2>3
<1> HIDE DEF planned, new
<1> QED BY <1>1, <1>3, <1>4, EnsureKeeps

LEMMA NotBefore ==
    ASSUME NEW a \in DateTypes, NEW b \in DateTypes, ~N!Before(a, b)
    PROVE  b.year * 12 + b.month <= a.year * 12 + a.month
<1>1. a.year \in Nat /\ a.month \in 1 .. 12 /\ b.year \in Nat /\ b.month \in 1 .. 12
  BY DEF DateTypes
<1>2. ~(a.year < b.year) /\ ~(a.year = b.year /\ a.month < b.month)
  BY DEF N!Before
<1>3. \A y, z \in Nat, m, n \in 1 .. 12 : ~(y < z) /\ ~(y = z /\ m < n) => z * 12 + n <= y * 12 + m
  OBVIOUS
<1> QED BY <1>1, <1>2, <1>3

LEMMA RangeKeeps ==
    ASSUME DateInv, NEW from \in PartitionDates, NEW upto \in PartitionDates, N!EnsureRange(from, upto)
    PROVE  DateInv'
<1> DEFINE start == N!MonthStart(from, 0)
<1> DEFINE ahead == N!MonthCount(from, upto)
<1> DEFINE planned == N!Planned(start, ahead)
<1> DEFINE new == {<<t, d>> : t \in Tables,
                              d \in {e \in PartitionDates : ~N!Before(e, from) /\ ~N!Before(upto, e)}}
<1>1. /\ partitions' = N!Created(planned) /\ promised' = promised \cup new
      /\ N!Counted /\ calendar' = calendar /\ ~N!Before(upto, from)
  BY DEF N!EnsureRange, N!PlannedForRange
<1>2. from \in DateTypes /\ upto \in DateTypes
  BY DateNumbers
<1>3. start = [year |-> from.year, month |-> from.month, day |-> 1]
  BY <1>2, MonthStartOnly
<1>4. /\ from.year \in Nat /\ from.month \in 1 .. 12 /\ from.day \in Nat
      /\ upto.year \in Nat /\ upto.month \in 1 .. 12 /\ upto.day \in Nat
  BY <1>2 DEF DateTypes
<1>5. start \in DateTypes /\ start.year = from.year /\ start.month = from.month
  BY <1>3, <1>4 DEF DateTypes
<1>6. ahead = (upto.year * 12 + upto.month) - (from.year * 12 + from.month)
  BY DEF N!MonthCount
<1> HIDE DEF start, ahead
<1>7. ahead \in Nat
  <2>1. from.year * 12 + from.month <= upto.year * 12 + upto.month
    BY <1>1, <1>2, NotBefore
  <2>2. from.year * 12 + from.month \in Nat /\ upto.year * 12 + upto.month \in Nat
    BY <1>4
  <2>3. \A a, b \in Nat : a <= b => b - a \in Nat
    OBVIOUS
  <2> QED BY <1>6, <2>1, <2>2, <2>3
<1>8. /\ \A p \in planned : \E t \in Tables, y \in Nat, m \in 1 .. 12 : p = Month(t, y, m)
      /\ \A t \in Tables, d \in DateTypes :
            (d.year * 12 + d.month) - (start.year * 12 + start.month) \in 0 .. ahead =>
                Month(t, d.year, d.month) \in planned
  BY <1>5, <1>7, PlannedAre
<1>9. ASSUME NEW w \in new
      PROVE  w \in Tables \X PartitionDates /\ Month(w[1], w[2].year, w[2].month) \in planned
  <2>1. PICK t \in Tables, d \in PartitionDates : w = <<t, d>> /\ ~N!Before(d, from) /\ ~N!Before(upto, d)
    OBVIOUS
  <2>2. d \in DateTypes
    BY DateNumbers
  <2>3. d.year \in Nat /\ d.month \in 1 .. 12 /\ d.day \in Nat
    BY <2>2 DEF DateTypes
  <2>4. (d.year * 12 + d.month) - (start.year * 12 + start.month) \in 0 .. ahead
    <3>1. /\ from.year * 12 + from.month <= d.year * 12 + d.month
          /\ d.year * 12 + d.month <= upto.year * 12 + upto.month
      BY <1>2, <2>1, <2>2, NotBefore
    <3>2. /\ from.year * 12 + from.month \in Nat /\ upto.year * 12 + upto.month \in Nat
          /\ d.year * 12 + d.month \in Nat
      BY <1>4, <2>3
    <3>3. \A a, b, c \in Nat : a <= c /\ c <= b => c - a \in 0 .. b - a
      OBVIOUS
    <3> QED BY <1>5, <1>6, <3>1, <3>2, <3>3
  <2>5. Month(t, d.year, d.month) \in planned
    BY <1>8, <2>2, <2>4
  <2> HIDE DEF planned
  <2> QED BY <2>1, <2>5
<1> HIDE DEF planned, new
<1> QED BY <1>1, <1>8, <1>9, EnsureKeeps

LEMMA WriteKeeps ==
    ASSUME DateInv, NEW table \in Tables, NEW dates \in SUBSET PartitionDates, N!EnsureForWrite(table, dates)
    PROVE  DateInv'
<1> DEFINE planned == N!PlannedForTable(table, dates)
<1> DEFINE new == {<<table, d>> : d \in dates}
<1>1. /\ partitions' = N!Created(planned) /\ promised' = promised \cup new
      /\ N!Counted /\ calendar' = calendar
  BY DEF N!EnsureForWrite
<1>2. ASSUME NEW d \in dates
      PROVE  /\ d.year \in Nat /\ d.month \in 1 .. 12
             /\ N!PartitionOf(table, N!MonthStart(d, 0)) = Month(table, d.year, d.month)
  <2>1. d \in DateTypes
    BY DateNumbers
  <2>2. N!MonthStart(d, 0) = [year |-> d.year, month |-> d.month, day |-> 1]
    BY <2>1, MonthStartOnly
  <2> QED BY <2>1, <2>2 DEF DateTypes, N!PartitionOf, Month
<1>3. planned = {N!PartitionOf(table, N!MonthStart(d, 0)) : d \in dates}
  BY DEF N!PlannedForTable
<1> HIDE DEF planned
<1>4. \A p \in planned : \E t \in Tables, y \in Nat, m \in 1 .. 12 : p = Month(t, y, m)
  BY <1>2, <1>3
<1>5. \A w \in new : w \in Tables \X PartitionDates /\ Month(w[1], w[2].year, w[2].month) \in planned
  BY <1>2, <1>3
<1> HIDE DEF new
<1> QED BY <1>1, <1>4, <1>5, EnsureKeeps

\* A payload has whole years or none; the greater of the two counts of a year is whole again.
LEMMA CalendarKeeps ==
    ASSUME DateInv, NEW counts \in N!Counts, N!PublishCalendar(counts)
    PROVE  DateInv'
<1>1. \A y \in Years : N!DaysIn(y) \in {365, 366}
  BY DEF N!DaysIn
<1>2. /\ counts \in [N!Exchanges \X Years -> 0 .. 366] /\ calendar \in [N!Exchanges \X Years -> 0 .. 366]
      /\ calendar' = [e \in N!Exchanges \X Years |-> IF counts[e] > calendar[e] THEN counts[e] ELSE calendar[e]]
      /\ N!Complete(counts)
  <2>1. {0, 364, 365, 366} \subseteq 0 .. 366
    OBVIOUS
  <2>2. counts \in [N!Exchanges \X Years -> 0 .. 366]
    BY <2>1 DEF N!Counts
  <2> QED BY <2>2 DEF N!PublishCalendar, DateInv, CalendarWhole
<1>3. calendar' \in [N!Exchanges \X Years -> 0 .. 366]
  BY <1>2
<1>4. ASSUME NEW y \in Years
      PROVE  \/ \A x \in N!Exchanges : calendar'[<<x, y>>] = 0
             \/ \A x \in N!Exchanges : calendar'[<<x, y>>] = N!DaysIn(y)
  <2>1. \A x \in N!Exchanges :
            /\ calendar'[<<x, y>>] = IF counts[<<x, y>>] > calendar[<<x, y>>] THEN counts[<<x, y>>] ELSE calendar[<<x, y>>]
            /\ counts[<<x, y>>] \in 0 .. 366
    BY <1>2
  <2>2. (\E x \in N!Exchanges : counts[<<x, y>>] > 0) => \A x \in N!Exchanges : counts[<<x, y>>] = N!DaysIn(y)
    BY <1>2 DEF N!Complete
  <2>3. \/ \A x \in N!Exchanges : calendar[<<x, y>>] = 0
        \/ \A x \in N!Exchanges : calendar[<<x, y>>] = N!DaysIn(y)
    BY DEF DateInv, CalendarWhole
  <2>4. CASE \A x \in N!Exchanges : counts[<<x, y>>] = N!DaysIn(y)
    BY <1>1, <2>1, <2>3, <2>4
  <2>5. CASE ~\E x \in N!Exchanges : counts[<<x, y>>] > 0
    <3>1. \A x \in N!Exchanges : counts[<<x, y>>] = 0
      BY <2>1, <2>5
    <3> QED BY <1>1, <2>1, <2>3, <3>1
  <2> QED BY <2>2, <2>4, <2>5
<1>5. steps' \in 0 .. MaxSteps /\ UNCHANGED <<partitions, promised>>
  BY DateNumbers DEF DateInv, N!PublishCalendar, N!Counted
<1> QED BY <1>3, <1>4, <1>5 DEF DateInv, CalendarWhole, MonthsOnly, PromisesPlanned

LEMMA DateStepHolds == DateInv /\ (N!Next \/ UNCHANGED dateVars) => DateInv'
<1> SUFFICES ASSUME DateInv, N!Next \/ UNCHANGED dateVars PROVE DateInv'
  OBVIOUS
<1>1. CASE UNCHANGED dateVars
  BY <1>1 DEF dateVars, DateInv, MonthsOnly, PromisesPlanned, CalendarWhole
<1>2. ASSUME NEW n \in 1 .. 2 PROVE N!kSubset(n, PartitionDates) \subseteq SUBSET PartitionDates
  BY DEF N!kSubset
<1> QED BY <1>1, <1>2, MonthlyKeeps, RangeKeeps, WriteKeeps, CalendarKeeps DEF N!Next

LEMMA DatesHold == DateInv => N!TypeOK /\ N!OnePartitionForDate /\ N!YearsWhole
<1> SUFFICES ASSUME DateInv PROVE N!TypeOK /\ N!OnePartitionForDate /\ N!YearsWhole
  OBVIOUS
<1>1. ASSUME NEW p \in partitions
      PROVE  p.table \in Tables /\ p.from.day = 1 /\ p.to.day = 1 /\ p.from.month \in 1 .. 12
  <2>1. PICK t \in Tables, y \in Nat, m \in 1 .. 12 : p = Month(t, y, m)
    BY DEF DateInv, MonthsOnly
  <2>2. [year |-> y, month |-> m, day |-> 1] \in DateTypes /\ 1 \in Nat
    BY DEF DateTypes
  <2>3. N!MonthStart([year |-> y, month |-> m, day |-> 1], 1).day = 1
    BY <2>2, MonthStartIs
  <2> QED BY <2>1, <2>3 DEF Month
<1>2. N!TypeOK
  BY <1>1 DEF N!TypeOK, DateInv, PromisesPlanned, CalendarWhole
<1>3. ASSUME NEW w \in promised
      PROVE  N!Cardinality({p \in partitions : p.table = w[1] /\ ~N!Before(w[2], p.from) /\ N!Before(w[2], p.to)}) = 1
  <2> DEFINE own == Month(w[1], w[2].year, w[2].month)
  <2> DEFINE in == {p \in partitions : p.table = w[1] /\ ~N!Before(w[2], p.from) /\ N!Before(w[2], p.to)}
  <2>1. w[1] \in Tables /\ w[2] \in DateTypes /\ own \in partitions
    BY DateNumbers DEF DateInv, PromisesPlanned
  <2>2. w[2].year \in Nat /\ w[2].month \in 1 .. 12 /\ own.table = w[1]
    BY <2>1 DEF DateTypes, Month
  <2>3. own \in in
    BY <2>1, <2>2, WithinItsMonth
  <2>4. ASSUME NEW p \in in PROVE p = own
    <3>1. PICK t \in Tables, y \in Nat, m \in 1 .. 12 : p = Month(t, y, m)
      BY DEF DateInv, MonthsOnly
    <3>2. t = w[1]
      BY <3>1 DEF Month
    <3>3. ~N!Before(w[2], Month(t, y, m).from) /\ N!Before(w[2], Month(t, y, m).to)
      BY <3>1
    <3>4. w[2].year = y /\ w[2].month = m
      <4> DEFINE d == w[2]
      <4>1. d \in DateTypes /\ ~N!Before(d, Month(t, y, m).from) /\ N!Before(d, Month(t, y, m).to)
        BY <2>1, <3>3
      <4> HIDE DEF d, in, own
      <4> QED
        <5>1. d.year = y /\ d.month = m
          BY <4>1, WithinItsMonth
        <5> QED BY <5>1 DEF d
    <3> QED BY <3>1, <3>2, <3>4
  <2>5. in = {own}
    BY <2>3, <2>4
  <2>6. N!Cardinality({own}) = 1
    BY FS_Singleton DEF N!Cardinality, Cardinality
  <2> QED BY <2>5, <2>6
<1>4. N!YearsWhole
  <2> SUFFICES ASSUME NEW y \in Years, NEW x \in N!Exchanges, calendar[<<x, y>>] > 0
               PROVE  \A z \in N!Exchanges : calendar[<<z, y>>] = IF N!Leap(y) THEN 366 ELSE 365
    BY DEF N!YearsWhole
  <2>1. \A z \in N!Exchanges : calendar[<<z, y>>] = N!DaysIn(y)
    BY DEF DateInv, CalendarWhole
  <2> QED BY <2>1 DEF N!DaysIn
<1> QED BY <1>2, <1>3, <1>4 DEF N!OnePartitionForDate

-----------------------------------------------------------------------------
(* Publication.  A write replaces the whole scope it writes, so what stays *)
(* beside it is of another scope; masters only grow; and a publication of  *)
(* themes is newer than any time that was read before it.                  *)

Theme == "market_theme_daily"
ThemeMember == "market_theme_member_daily"

Payloads == [code : Codes, member : Codes \cup {None}, day : Days]
TableRows == [code : Codes, member : Codes \cup {None}, day : Days, at : Nat]

WriteTasks == [dataset : family, date : Days, payload : SUBSET Payloads, at : Nat, parent : Nat \cup {None}]

PublicationTypes ==
    /\ family \in Families
    /\ masters \in [P!Masters(family) -> SUBSET Codes]
    /\ tableRows \in [family -> SUBSET TableRows]
    /\ tasks \subseteq WriteTasks
    /\ publicationClock \in 0 .. MaxTasks
    /\ themes \in [Days -> SUBSET Payloads]

\* Rows carry the time of a task that was begun, which belongs to one task.
Dated ==
    /\ \A d \in family : \A r \in tableRows[d] : r.at \in 1 .. publicationClock
    /\ \A t \in tasks : t.at \in 1 .. publicationClock

InScope == \A t \in tasks : t.payload \subseteq P!PayloadRows(t.dataset, t.date)

OneTask == \A t, u \in tasks : t.dataset = u.dataset /\ t.date = u.date => t = u

\* The time of the latest themes of a day: none is later, what is written will be, and who
\* prunes read no later one.
Latest(day, at) ==
    /\ \A p \in themes[day] : p.day = day /\ \E r \in tableRows[Theme] : r.code = p.code /\ r.day = day /\ r.at = at
    /\ \A r \in tableRows[Theme] : r.day = day => r.at <= at
    /\ \A t \in tasks : t.dataset = Theme /\ t.date = day => at < t.at
    /\ \A t \in tasks : t.parent # None /\ t.date = day => t.parent <= at

LatestKnown == Theme \in family => \A day \in Days : \E at \in 0 .. publicationClock : Latest(day, at)

PublicationInv ==
    /\ PublicationTypes /\ Dated /\ InScope /\ OneTask /\ LatestKnown
    /\ P!RowsHaveMasters /\ P!OneWritePerScope

LEMMA PublicationNumbers ==
    /\ MaxTasks \in Nat /\ None \notin Nat
    /\ \A f \in Families : f \subseteq DOMAIN P!Rules /\ (ThemeMember \in f => Theme \in f)
BY DataAssumption DEF Theme, ThemeMember

DeclaredRules ==
    P!ConceptRules \cup P!ThemeIndexRules \cup P!HotRules \cup P!ThemeRules \cup P!TopListRules
    \cup P!LimitRules \cup P!StockRules \cup P!CompanyRules \cup P!EtfDailyRules \cup P!EtfShareRules
    \cup P!IndexRules \cup P!WeightRules \cup P!FlowRules

LEMMA RulesAre ==
    /\ \A r \in DeclaredRules : r.write \in {"day", "all", "month", "keys"}
    /\ \A r \in DeclaredRules : r.name = Theme => r.write = "keys" /\ r.of = None /\ r.in = None
    /\ \E r \in DeclaredRules : r.name = Theme
<1>2. \A r \in P!ThemeRules :
          /\ r.write \in {"day", "all", "month", "keys"}
          /\ r.name = Theme => r.write = "keys" /\ r.of = None /\ r.in = None
  BY DEF P!ThemeRules, P!Rule, Theme
<1>1. ASSUME NEW r \in DeclaredRules, r \notin P!ThemeRules
      PROVE  r.write \in {"day", "all", "month", "keys"} /\ r.name # Theme
  <2>1. CASE r \in P!ConceptRules
    BY <2>1 DEF P!ConceptRules, P!Rule, Theme
  <2>2. CASE r \in P!ThemeIndexRules
    BY <2>2 DEF P!ThemeIndexRules, P!Rule, Theme
  <2>3. CASE r \in P!HotRules
    BY <2>3 DEF P!HotRules, P!Rule, Theme
  <2>4. CASE r \in P!TopListRules
    BY <2>4 DEF P!TopListRules, P!Rule, Theme
  <2>5. CASE r \in P!LimitRules
    BY <2>5 DEF P!LimitRules, P!Rule, Theme
  <2>6. CASE r \in P!StockRules
    BY <2>6 DEF P!StockRules, P!Rule, Theme
  <2>7. CASE r \in P!CompanyRules
    BY <2>7 DEF P!CompanyRules, P!Rule, Theme
  <2>8. CASE r \in P!EtfDailyRules
    BY <2>8 DEF P!EtfDailyRules, P!Rule, Theme
  <2>9. CASE r \in P!EtfShareRules
    BY <2>9 DEF P!EtfShareRules, P!Rule, Theme
  <2>10. CASE r \in P!IndexRules
    BY <2>10 DEF P!IndexRules, P!Rule, Theme
  <2>11. CASE r \in P!WeightRules
    BY <2>11 DEF P!WeightRules, P!Rule, Theme
  <2>12. CASE r \in P!FlowRules
    BY <2>12 DEF P!FlowRules, P!Rule, Theme
  <2> QED BY <1>1, <2>1, <2>2, <2>3, <2>4, <2>5, <2>6, <2>7, <2>8, <2>9, <2>10, <2>11, <2>12 DEF DeclaredRules
<1>5. \E r \in P!ThemeRules : r.name = Theme
  BY DEF P!ThemeRules, P!Rule, Theme
<1> QED BY <1>1, <1>2, <1>5 DEF DeclaredRules

LEMMA RuleOf ==
    /\ \A d \in DOMAIN P!Rules : P!Rules[d].write \in {"day", "all", "month", "keys"}
    /\ P!Rules[Theme].write = "keys" /\ P!Rules[Theme].of = None /\ P!Rules[Theme].in = None
<1>1. P!Rules = [n \in {r.name : r \in DeclaredRules} |-> CHOOSE r \in DeclaredRules : r.name = n]
  BY DEF P!Rules, P!Named, P!Names, DeclaredRules
<1>2. ASSUME NEW n \in {r.name : r \in DeclaredRules}
      PROVE  P!Rules[n] \in DeclaredRules /\ P!Rules[n].name = n
  BY <1>1
<1>3. Theme \in {r.name : r \in DeclaredRules}
  BY RulesAre
<1>4. DOMAIN P!Rules = {r.name : r \in DeclaredRules}
  BY <1>1
<1> HIDE DEF Theme
<1> QED BY <1>2, <1>3, <1>4, RulesAre

\* A set of numbers that has a bound, and is not empty, has a greatest.
LEMMA HasGreatest ==
    ASSUME NEW n \in Nat, NEW S \in SUBSET (0 .. n), S # {}
    PROVE  \E x \in S : \A y \in S : x >= y
<1> DEFINE Above == {m \in Nat : \A k \in S : k <= m}
<1>1. n \in Above
  OBVIOUS
<1>2. PICK m \in Above : \A k \in Nat : <<k, m>> \in OpToRel(<, Nat) => k \notin Above
  <2>1. IsWellFoundedOn(OpToRel(<, Nat), Nat)
    BY NatLessThanWellFounded, Zenon
  <2> QED BY <1>1, <2>1, WFMin, Zenon
<1>3. m \in Nat /\ \A k \in S : k <= m
  OBVIOUS
<1>4. m \in S
  <2> SUFFICES ASSUME m \notin S PROVE FALSE
    OBVIOUS
  <2>1. m # 0
    <3>1. PICK k \in S : k \in 0 .. n
      OBVIOUS
    <3>2. k <= m /\ k # m
      BY <1>3, <3>1
    <3> QED BY <1>3, <3>1, <3>2
  <2>2. m - 1 \in Nat /\ m - 1 < m
    BY <1>3, <2>1
  <2>3. m - 1 \in Above
    BY <1>3, <2>2
  <2>4. <<m - 1, m>> \in OpToRel(<, Nat)
    BY <1>3, <2>2 DEF OpToRel
  <2> QED BY <1>2, <2>2, <2>3, <2>4
<1> QED BY <1>3, <1>4

LEMMA GreatestOf ==
    ASSUME NEW n \in Nat, NEW S \in SUBSET (0 .. n), 0 \in S
    PROVE  P!Max(S) \in S /\ \A k \in S : k <= P!Max(S)
<1>1. \E x \in S : \A y \in S : x >= y
  BY HasGreatest
<1>2. P!Max(S) = CHOOSE x \in S : \A y \in S : x >= y
  BY DEF P!Max
<1>3. P!Max(S) \in S /\ \A y \in S : P!Max(S) >= y
  BY <1>1, <1>2
<1> QED BY <1>3

LEMMA PublicationInitHolds == P!Init => PublicationInv
<1> SUFFICES ASSUME P!Init PROVE PublicationInv
  OBVIOUS
<1>1. /\ family \in Families /\ masters = [m \in P!Masters(family) |-> {}]
      /\ tableRows = [d \in family |-> {}] /\ tasks = {} /\ publicationClock = 0
      /\ themes = [day \in Days |-> {}]
  BY DEF P!Init
<1>2. PublicationTypes
  BY <1>1, PublicationNumbers DEF PublicationTypes
<1>3. Dated /\ InScope /\ OneTask
  BY <1>1 DEF Dated, InScope, OneTask
<1>4. LatestKnown
  <2> SUFFICES ASSUME Theme \in family, NEW day \in Days PROVE Latest(day, 0)
    BY <1>1 DEF LatestKnown
  <2> QED BY <1>1 DEF Latest
<1>5. P!RowsHaveMasters /\ P!OneWritePerScope
  BY <1>1 DEF P!RowsHaveMasters, P!OneWritePerScope
<1> QED BY <1>2, <1>3, <1>4, <1>5 DEF PublicationInv

LEMMA MasterKeeps ==
    ASSUME PublicationInv, NEW m \in DOMAIN masters, NEW codes \in SUBSET Codes, P!PublishMaster(m, codes)
    PROVE  PublicationInv'
<1>1. /\ masters' = [masters EXCEPT ![m] = masters[m] \cup codes]
      /\ UNCHANGED <<family, tableRows, tasks, publicationClock, themes>>
  BY DEF P!PublishMaster, P!Merge
<1>2. masters \in [P!Masters(family) -> SUBSET Codes]
  BY DEF PublicationInv, PublicationTypes
<1>3. masters' \in [P!Masters(family) -> SUBSET Codes] /\ \A n \in P!Masters(family) : masters[n] \subseteq masters'[n]
  BY <1>1, <1>2
<1>4. PublicationTypes'
  BY <1>1, <1>3 DEF PublicationInv, PublicationTypes, WriteTasks
<1>5. P!RowsHaveMasters'
  <2> SUFFICES ASSUME NEW d \in family, NEW r \in tableRows[d] PROVE P!InMasters(d, r)'
    BY <1>1 DEF P!RowsHaveMasters
  <2>1. P!InMasters(d, r)
    BY DEF PublicationInv, P!RowsHaveMasters
  <2>2. /\ P!Rules[d].of # None => P!Rules[d].of \in P!Masters(family)
        /\ P!Rules[d].in # None => P!Rules[d].in \in P!Masters(family)
    BY DEF P!Masters
  <2> QED BY <1>3, <2>1, <2>2 DEF P!InMasters
<1>6. Dated' /\ InScope' /\ OneTask' /\ LatestKnown' /\ P!OneWritePerScope'
  BY <1>1 DEF PublicationInv, Dated, InScope, OneTask, LatestKnown, Latest, P!OneWritePerScope
<1> QED BY <1>4, <1>5, <1>6 DEF PublicationInv

LEMMA PayloadOf ==
    ASSUME NEW d, NEW date \in Days
    PROVE  /\ P!PayloadRows(d, date) \subseteq Payloads
           /\ P!Rules[d].write # "month" => \A p \in P!PayloadRows(d, date) : p.day = date
           /\ P!Rules[d].write = "month" => \A p \in P!PayloadRows(d, date) : P!Month(p.day) = P!Month(date)
<1>1. P!PayloadRows(d, date) \subseteq Payloads
  BY DEF P!PayloadRows, Payloads
<1>2. P!Rules[d].write # "month" => \A p \in P!PayloadRows(d, date) : p.day = date
  BY DEF P!PayloadRows
<1>3. P!Rules[d].write = "month" => \A p \in P!PayloadRows(d, date) : P!Month(p.day) = P!Month(date)
  BY DEF P!PayloadRows
<1> QED BY <1>1, <1>2, <1>3

LEMMA BeginKeeps ==
    ASSUME PublicationInv, NEW d \in family, NEW date \in Days, NEW payload \in SUBSET P!PayloadRows(d, date),
           P!Begin(d, date, payload)
    PROVE  PublicationInv'
<1> DEFINE new == [dataset |-> d, date |-> date, payload |-> payload, at |-> publicationClock', parent |-> None]
<1>1. /\ publicationClock < MaxTasks /\ publicationClock' = publicationClock + 1
      /\ tasks' = tasks \cup {new} /\ P!Free(d, date)
      /\ UNCHANGED <<family, masters, tableRows, themes>>
  BY DEF P!Begin
<1>2. /\ new.dataset = d /\ new.date = date /\ new.payload = payload /\ new.parent = None
      /\ new.at = publicationClock + 1
  BY <1>1
<1>3. /\ publicationClock \in 0 .. MaxTasks /\ publicationClock' \in 1 .. MaxTasks /\ publicationClock \in Nat
      /\ MaxTasks \in Nat
  BY <1>1, PublicationNumbers DEF PublicationInv, PublicationTypes
<1>4. new \in WriteTasks
  BY <1>3, PayloadOf DEF WriteTasks
<1> HIDE DEF new
<1>5. PublicationTypes'
  BY <1>1, <1>3, <1>4 DEF PublicationInv, PublicationTypes, WriteTasks
<1>6. Dated' /\ InScope'
  <2>1. \A k \in 1 .. publicationClock : k \in 1 .. publicationClock'
    BY <1>1, <1>3
  <2>2. new.at \in 1 .. publicationClock'
    BY <1>1, <1>2, <1>3
  <2>3. Dated'
    BY <1>1, <2>1, <2>2 DEF PublicationInv, Dated
  <2>4. InScope'
    BY <1>1, <1>2 DEF PublicationInv, InScope
  <2> QED BY <2>3, <2>4
<1>7. OneTask'
  BY <1>1, <1>2 DEF PublicationInv, OneTask, P!Free
<1>8. LatestKnown'
  <2> SUFFICES ASSUME Theme \in family, NEW day \in Days
               PROVE  \E at \in 0 .. publicationClock' : Latest(day, at)'
    BY <1>1 DEF LatestKnown
  <2>1. PICK at \in 0 .. publicationClock : Latest(day, at)
    BY DEF PublicationInv, LatestKnown
  <2>2. at \in 0 .. publicationClock' /\ at < new.at
    BY <1>1, <1>2, <1>3
  <2>3. Latest(day, at)'
    BY <1>1, <1>2, <2>1, <2>2 DEF Latest
  <2> QED BY <2>2, <2>3
<1>9. P!RowsHaveMasters' /\ P!OneWritePerScope'
  BY <1>1 DEF PublicationInv, P!RowsHaveMasters, P!InMasters, P!OneWritePerScope
<1> QED BY <1>5, <1>6, <1>7, <1>8, <1>9 DEF PublicationInv

LEMMA FailKeeps ==
    ASSUME PublicationInv, NEW t \in tasks, P!Fail(t)
    PROVE  PublicationInv'
<1>1. tasks' \subseteq tasks /\ UNCHANGED <<family, masters, tableRows, publicationClock, themes>>
  BY DEF P!Fail
<1>2. PublicationTypes'
  BY <1>1 DEF PublicationInv, PublicationTypes, WriteTasks
<1>3. Dated' /\ InScope' /\ OneTask'
  BY <1>1 DEF PublicationInv, Dated, InScope, OneTask
<1>4. LatestKnown'
  BY <1>1 DEF PublicationInv, LatestKnown, Latest
<1>5. P!RowsHaveMasters' /\ P!OneWritePerScope'
  BY <1>1 DEF PublicationInv, P!RowsHaveMasters, P!InMasters, P!OneWritePerScope
<1> QED BY <1>2, <1>3, <1>4, <1>5 DEF PublicationInv

\* What is read is the time of a theme of the day, or 0.
LEMMA ReadParentKeeps ==
    ASSUME PublicationInv, NEW t \in tasks, P!ReadParent(t)
    PROVE  PublicationInv'
<1> DEFINE read == {r.at : r \in {s \in tableRows[Theme] : s.day = t.date}} \cup {0}
<1> DEFINE new == [t EXCEPT !.parent = P!Max(read)]
<1>1. /\ t.dataset = ThemeMember /\ tasks' = (tasks \ {t}) \cup {new}
      /\ UNCHANGED <<family, masters, tableRows, publicationClock, themes>>
  BY DEF P!ReadParent, P!PrunesThemes, Theme, ThemeMember
<1>2. t \in WriteTasks /\ publicationClock \in Nat /\ family \in Families /\ tableRows \in [family -> SUBSET TableRows]
  BY PublicationNumbers DEF PublicationInv, PublicationTypes
<1>3. Theme \in family
  <2>1. ThemeMember \in family
    BY <1>1, <1>2 DEF WriteTasks
  <2> QED BY <1>2, <2>1, PublicationNumbers
<1>4. read \in SUBSET (0 .. publicationClock) /\ 0 \in read
  <2>1. \A r \in tableRows[Theme] : r.at \in 0 .. publicationClock
    BY <1>2, <1>3 DEF PublicationInv, Dated
  <2>2. 0 \in 0 .. publicationClock
    BY <1>2
  <2> QED BY <2>1, <2>2
<1>5. P!Max(read) \in read
  <2> HIDE DEF read
  <2> QED BY <1>2, <1>4, GreatestOf
<1>6. P!Max(read) \in Nat
  BY <1>2, <1>4, <1>5
<1>7. /\ new \in WriteTasks /\ new.dataset = t.dataset /\ new.date = t.date /\ new.payload = t.payload
      /\ new.at = t.at /\ new.parent = P!Max(read)
  <2> HIDE DEF read
  <2> QED BY <1>2, <1>6 DEF WriteTasks
<1> HIDE DEF new
<1>8. PublicationTypes'
  BY <1>1, <1>7 DEF PublicationInv, PublicationTypes, WriteTasks
<1>9. Dated' /\ InScope'
  BY <1>1, <1>7 DEF PublicationInv, Dated, InScope
<1>10. OneTask'
  BY <1>1, <1>7 DEF PublicationInv, OneTask
<1>11. LatestKnown'
  <2> SUFFICES ASSUME NEW day \in Days
               PROVE  \E at \in 0 .. publicationClock : Latest(day, at)'
    BY <1>1 DEF LatestKnown
  <2>1. PICK at \in 0 .. publicationClock : Latest(day, at)
    BY <1>3 DEF PublicationInv, LatestKnown
  <2>2. new.dataset # Theme
    BY <1>1, <1>7 DEF Theme, ThemeMember
  <2>3. new.date = day => new.parent <= at
    <3> SUFFICES ASSUME t.date = day PROVE P!Max(read) <= at
      BY <1>7
    <3>1. \A k \in read : k <= at
      BY <1>2, <2>1 DEF Latest
    <3> QED BY <1>5, <3>1
  <2>4. Latest(day, at)'
    BY <1>1, <2>1, <2>2, <2>3 DEF Latest
  <2> QED BY <2>4
<1>12. P!RowsHaveMasters' /\ P!OneWritePerScope'
  BY <1>1 DEF PublicationInv, P!RowsHaveMasters, P!InMasters, P!OneWritePerScope
<1> QED BY <1>8, <1>9, <1>10, <1>11, <1>12 DEF PublicationInv

\* What a write leaves of its table is of another scope than what it writes.
LEMMA ScopesApart ==
    ASSUME NEW d \in DOMAIN P!Rules, NEW date \in Days, NEW payload \in SUBSET P!PayloadRows(d, date),
           NEW r \in tableRows[d] \ P!Replaced(d, date, payload), NEW p \in payload
    PROVE  \/ P!Rules[d].write = "keys" /\ (p.code # r.code \/ p.day # r.day)
           \/ P!Rules[d].write = "day" /\ r.day # p.day
           \/ P!Rules[d].write = "month" /\ (r.code # p.code \/ P!Month(r.day) # P!Month(p.day))
<1>1. P!Rules[d].write \in {"day", "all", "month", "keys"}
  BY RuleOf
<1>2. CASE P!Rules[d].write = "day"
  <2>1. r.day # date
    BY <1>2 DEF P!Replaced
  <2> QED BY <1>2, <2>1, PayloadOf
<1>3. CASE P!Rules[d].write = "all"
  BY <1>3 DEF P!Replaced
<1>4. CASE P!Rules[d].write = "month"
  <2>1. ~(P!Month(r.day) = P!Month(date) /\ \E q \in payload : q.code = r.code)
    BY <1>4 DEF P!Replaced
  <2>2. P!Month(p.day) = P!Month(date)
    BY <1>4, PayloadOf
  <2> QED BY <1>4, <2>1, <2>2
<1>5. CASE P!Rules[d].write = "keys"
  <2>1. ~\E q \in payload : q.code = r.code /\ q.day = r.day
    BY <1>5 DEF P!Replaced
  <2> QED BY <1>5, <2>1
<1> QED BY <1>1, <1>2, <1>3, <1>4, <1>5

\* A write adds the rows of the payload that match, with its time, and else only takes.
LEMMA WriteIs ==
    ASSUME PublicationInv, NEW t \in tasks, P!Write(t)
    PROVE  /\ t \in WriteTasks /\ t.payload \subseteq P!PayloadRows(t.dataset, t.date)
           /\ tableRows' \in [family -> SUBSET TableRows]
           /\ \A d \in family : d # t.dataset => tableRows'[d] \subseteq tableRows[d]
           /\ \A r \in tableRows'[t.dataset] :
                 \/ r \in tableRows[t.dataset] \ P!Replaced(t.dataset, t.date, t.payload)
                 \/ \E p \in P!Matched(t.dataset, t.payload) :
                       r = [code |-> p.code, member |-> p.member, day |-> p.day, at |-> t.at]
           /\ \A p \in P!Matched(t.dataset, t.payload) :
                 [code |-> p.code, member |-> p.member, day |-> p.day, at |-> t.at] \in tableRows'[t.dataset]
           /\ \A r \in tableRows[t.dataset] \ P!Replaced(t.dataset, t.date, t.payload) : r \in tableRows'[t.dataset]
<1> DEFINE RowOf(p) == [code |-> p.code, member |-> p.member, day |-> p.day, at |-> t.at]
<1> DEFINE new == P!Written(t.dataset, t.date, t.payload, t.at)
<1>1. t \in WriteTasks /\ t.payload \subseteq P!PayloadRows(t.dataset, t.date) /\ tableRows \in [family -> SUBSET TableRows]
  BY DEF PublicationInv, PublicationTypes, InScope
<1>2. t.dataset \in family /\ t.payload \subseteq Payloads /\ t.at \in Nat
  BY <1>1 DEF WriteTasks
<1>3. \A p \in P!Matched(t.dataset, t.payload) : p \in Payloads /\ RowOf(p) \in TableRows
  BY <1>2 DEF P!Matched, Payloads, TableRows
<1>4. new = (tableRows[t.dataset] \ P!Replaced(t.dataset, t.date, t.payload))
            \cup {RowOf(p) : p \in P!Matched(t.dataset, t.payload)}
  BY DEF P!Written
<1>5. tableRows' = [d \in family |->
            IF d = t.dataset THEN new
            ELSE IF P!PrunesThemes(t) THEN tableRows[d] \ P!Stale(t) ELSE tableRows[d]]
  BY DEF P!Write
<1> HIDE DEF RowOf, new
<1>6. new \in SUBSET TableRows
  BY <1>1, <1>2, <1>3, <1>4
<1>7. tableRows' \in [family -> SUBSET TableRows]
  BY <1>1, <1>5, <1>6
<1>8. tableRows'[t.dataset] = new /\ \A d \in family : d # t.dataset => tableRows'[d] \subseteq tableRows[d]
  BY <1>2, <1>5
<1> QED BY <1>1, <1>4, <1>7, <1>8 DEF RowOf

LEMMA WriteKeepsRows ==
    ASSUME PublicationInv, NEW t \in tasks, P!Write(t)
    PROVE  P!RowsHaveMasters' /\ P!OneWritePerScope'
<1>1. UNCHANGED <<family, masters>> /\ t.dataset \in family /\ family \subseteq DOMAIN P!Rules
  BY WriteIs, PublicationNumbers DEF WriteTasks, PublicationInv, PublicationTypes, P!Write
<1>2. \A r \in tableRows'[t.dataset] :
          \/ r \in tableRows[t.dataset] \ P!Replaced(t.dataset, t.date, t.payload)
          \/ \E p \in P!Matched(t.dataset, t.payload) :
                r = [code |-> p.code, member |-> p.member, day |-> p.day, at |-> t.at]
  BY WriteIs
<1>3. \A d \in family : d # t.dataset => tableRows'[d] \subseteq tableRows[d]
  BY WriteIs
<1>4. P!RowsHaveMasters'
  <2> SUFFICES ASSUME NEW d \in family, NEW r \in tableRows'[d] PROVE P!InMasters(d, r)
    BY <1>1 DEF P!RowsHaveMasters, P!InMasters
  <2>1. CASE r \in tableRows[d]
    BY <2>1 DEF PublicationInv, P!RowsHaveMasters
  <2>2. ASSUME d = t.dataset, NEW p \in P!Matched(d, t.payload),
               r = [code |-> p.code, member |-> p.member, day |-> p.day, at |-> t.at]
        PROVE  P!InMasters(d, r)
    <3>1. P!InMasters(d, p)
      BY DEF P!Matched
    <3>2. r.code = p.code /\ r.member = p.member
      BY <2>2
    <3> QED BY <3>1, <3>2 DEF P!InMasters
  <2> QED BY <1>2, <1>3, <2>1, <2>2
<1>5. P!OneWritePerScope'
  <2> DEFINE Apart(d, r, s) ==
          \/ r.at = s.at
          \/ P!Rules[d].write = "keys"
          \/ P!Rules[d].write = "day" /\ r.day # s.day
          \/ P!Rules[d].write = "month" /\ (r.code # s.code \/ P!Month(r.day) # P!Month(s.day))
  <2>1. \A d \in family : \A r, s \in tableRows[d] : Apart(d, r, s)
    BY DEF PublicationInv, P!OneWritePerScope
  <2>2. SUFFICES ASSUME NEW d \in family, NEW r \in tableRows'[d], NEW s \in tableRows'[d] PROVE Apart(d, r, s)
    BY <1>1 DEF P!OneWritePerScope
  <2> DEFINE Kept == tableRows[d] \ P!Replaced(d, t.date, t.payload)
  <2> DEFINE New(x) == \E p \in P!Matched(d, t.payload) :
                          x = [code |-> p.code, member |-> p.member, day |-> p.day, at |-> t.at]
  <2>3. CASE r \in tableRows[d] /\ s \in tableRows[d]
    BY <2>1, <2>3
  <2>4. ASSUME d = t.dataset, NEW x \in Kept, NEW y, New(y) PROVE Apart(d, x, y) /\ Apart(d, y, x)
    <3>1. PICK p \in P!Matched(d, t.payload) :
              y = [code |-> p.code, member |-> p.member, day |-> p.day, at |-> t.at]
      BY <2>4
    <3>2. p \in t.payload /\ t.payload \in SUBSET P!PayloadRows(d, t.date) /\ t.date \in Days
      BY <2>4, WriteIs DEF P!Matched, WriteTasks
    <3>3. d \in DOMAIN P!Rules
      BY <1>1
    <3>4. \/ P!Rules[d].write = "keys" /\ (p.code # x.code \/ p.day # x.day)
          \/ P!Rules[d].write = "day" /\ x.day # p.day
          \/ P!Rules[d].write = "month" /\ (x.code # p.code \/ P!Month(x.day) # P!Month(p.day))
      BY <3>2, <3>3, ScopesApart
    <3>5. y.code = p.code /\ y.day = p.day
      BY <3>1
    <3> QED BY <3>4, <3>5
  <2>5. CASE New(r) /\ New(s)
    <3>1. r.at = t.at /\ s.at = t.at
      BY <2>5
    <3> QED BY <3>1
  <2>6. d = t.dataset => (r \in Kept \/ New(r)) /\ (s \in Kept \/ New(s))
    BY <1>2
  <2>7. d # t.dataset => r \in tableRows[d] /\ s \in tableRows[d]
    BY <1>3
  <2>8. Kept \subseteq tableRows[d]
    OBVIOUS
  <2> HIDE DEF Apart, Kept, New
  <2> QED BY <2>3, <2>4, <2>5, <2>6, <2>7, <2>8
<1> QED BY <1>4, <1>5

LEMMA WriteKeepsLatest ==
    ASSUME PublicationInv, NEW t \in tasks, P!Write(t)
    PROVE  LatestKnown'
<1>1. /\ t \in WriteTasks /\ t.date \in Days /\ t.dataset \in family /\ t.payload \subseteq P!PayloadRows(t.dataset, t.date)
      /\ t.at \in 1 .. publicationClock /\ publicationClock \in Nat
  BY WriteIs DEF WriteTasks, PublicationInv, PublicationTypes, Dated
<1>2. /\ tasks' = tasks \ {t} /\ UNCHANGED <<family, masters, publicationClock>>
      /\ themes' = IF t.dataset = Theme THEN [themes EXCEPT ![t.date] = t.payload] ELSE themes
      /\ (t.dataset = ThemeMember => t.parent # None)
  BY DEF P!Write, Theme, ThemeMember, P!PrunesThemes
<1>3. themes \in [Days -> SUBSET Payloads]
  BY DEF PublicationInv, PublicationTypes
<1> SUFFICES ASSUME Theme \in family, NEW day \in Days
             PROVE  \E at \in 0 .. publicationClock : Latest(day, at)'
  BY <1>2 DEF LatestKnown
<1>4. PICK at \in 0 .. publicationClock : Latest(day, at)
  BY DEF PublicationInv, LatestKnown
<1>5. /\ tableRows \in [family -> SUBSET TableRows] /\ tableRows' \in [family -> SUBSET TableRows]
      /\ \A u \in tasks : u \in WriteTasks
  BY WriteIs DEF PublicationInv, PublicationTypes
<1>6. CASE t.dataset = Theme /\ t.date = day
  <2>1. P!Rules[Theme].write = "keys" /\ P!Matched(Theme, t.payload) = t.payload
    BY RuleOf DEF P!Matched, P!InMasters
  <2>2. \A p \in t.payload : p.day = day
    BY <1>1, <1>6, <2>1, PayloadOf
  <2>3. themes'[day] = t.payload
    BY <1>2, <1>3, <1>6
  <2>4. at < t.at
    BY <1>4, <1>6 DEF Latest
  <2>5. ASSUME NEW p \in themes'[day]
        PROVE  p.day = day /\ \E r \in tableRows'[Theme] : r.code = p.code /\ r.day = day /\ r.at = t.at
    <3>1. [code |-> p.code, member |-> p.member, day |-> p.day, at |-> t.at] \in tableRows'[Theme]
      BY <1>6, <2>1, <2>3, WriteIs
    <3> QED BY <2>2, <2>3, <3>1
  <2>6. ASSUME NEW r \in tableRows'[Theme], r.day = day PROVE r.at <= t.at
    <3>1. r \in tableRows[Theme] => r.at \in Nat /\ r.at <= at
      BY <1>4, <1>5, <2>6 DEF Latest, TableRows
    <3>2. r \in tableRows[Theme] \/ r.at = t.at
      BY <1>6, WriteIs
    <3> QED BY <1>1, <1>4, <2>4, <3>1, <3>2
  <2>7. ASSUME NEW u \in tasks', u.dataset = Theme, u.date = day PROVE t.at < u.at
    BY <1>2, <1>6, <2>7 DEF PublicationInv, OneTask
  <2>8. ASSUME NEW u \in tasks', u.parent # None, u.date = day PROVE u.parent <= t.at
    <3>1. u.parent <= at /\ u.parent \in Nat
      BY <1>2, <1>4, <1>5, <2>8 DEF Latest, WriteTasks
    <3> QED BY <1>1, <1>4, <2>4, <3>1
  <2>9. Latest(day, t.at)'
    BY <1>2, <2>5, <2>6, <2>7, <2>8 DEF Latest
  <2>10. t.at \in 0 .. publicationClock
    BY <1>1
  <2> QED BY <2>9, <2>10, <1>2 DEF Latest
<1>7. CASE ~(t.dataset = Theme /\ t.date = day)
  <2>1. themes'[day] = themes[day]
    BY <1>2, <1>3, <1>7
  <2>2. ASSUME NEW r \in tableRows[Theme], r.day = day, r.at = at PROVE r \in tableRows'[Theme]
    <3>1. CASE t.dataset = Theme
      <4>1. P!Rules[Theme].write = "keys" /\ \A p \in t.payload : p.day = t.date
        BY <1>1, <3>1, RuleOf, PayloadOf
      <4>2. r \notin P!Replaced(Theme, t.date, t.payload)
        BY <1>7, <2>2, <3>1, <4>1 DEF P!Replaced
      <4> QED BY <3>1, <4>2, WriteIs
    <3>2. CASE t.dataset # Theme
      <4>1. tableRows'[Theme] = IF P!PrunesThemes(t) THEN tableRows[Theme] \ P!Stale(t) ELSE tableRows[Theme]
        BY <1>5, <3>2 DEF P!Write
      <4>2. r \notin P!Stale(t) \/ ~P!PrunesThemes(t)
        <5> SUFFICES ASSUME r \in P!Stale(t), P!PrunesThemes(t) PROVE FALSE
          OBVIOUS
        <5>1. t.date = day /\ r.at < t.parent /\ t.parent # None
          BY <1>2, <2>2 DEF P!Stale, P!PrunesThemes, ThemeMember
        <5>2. t.parent <= at /\ t.parent \in Nat
          BY <1>1, <1>4, <5>1 DEF Latest, WriteTasks
        <5> QED BY <1>4, <2>2, <5>1, <5>2
      <4> QED BY <4>1, <4>2
    <3> QED BY <3>1, <3>2
  <2>3. ASSUME NEW p \in themes'[day]
        PROVE  p.day = day /\ \E r \in tableRows'[Theme] : r.code = p.code /\ r.day = day /\ r.at = at
    <3>1. PICK r \in tableRows[Theme] : r.code = p.code /\ r.day = day /\ r.at = at
      BY <1>4, <2>1 DEF Latest
    <3> QED BY <1>4, <2>1, <2>2, <3>1 DEF Latest
  <2>4. ASSUME NEW r \in tableRows'[Theme], r.day = day PROVE r.at <= at
    <3>1. r \in tableRows[Theme]
      <4>1. CASE t.dataset # Theme
        BY <4>1, WriteIs
      <4>2. CASE t.dataset = Theme
        <5>1. P!Rules[Theme].write = "keys" /\ \A p \in t.payload : p.day = t.date
          BY <1>1, <4>2, RuleOf, PayloadOf
        <5>2. \A p \in P!Matched(Theme, t.payload) : p.day # day
          BY <1>7, <4>2, <5>1 DEF P!Matched
        <5>3. \/ r \in tableRows[Theme]
              \/ \E p \in P!Matched(Theme, t.payload) :
                    r = [code |-> p.code, member |-> p.member, day |-> p.day, at |-> t.at]
          BY <4>2, WriteIs
        <5> QED BY <2>4, <5>2, <5>3
      <4> QED BY <4>1, <4>2
    <3> QED BY <1>4, <2>4, <3>1 DEF Latest
  <2>5. Latest(day, at)'
    BY <1>2, <1>4, <2>3, <2>4 DEF Latest
  <2> QED BY <2>5
<1> QED BY <1>6, <1>7

LEMMA WriteKeepsAll ==
    ASSUME PublicationInv, NEW t \in tasks, P!Write(t)
    PROVE  PublicationInv'
<1>1. /\ t \in WriteTasks /\ t.date \in Days /\ t.dataset \in family /\ t.payload \in SUBSET Payloads
      /\ t.at \in 1 .. publicationClock
  BY WriteIs DEF WriteTasks, PublicationInv, Dated
<1>2. /\ tasks' = tasks \ {t} /\ UNCHANGED <<family, masters, publicationClock>>
      /\ themes' = IF t.dataset = Theme THEN [themes EXCEPT ![t.date] = t.payload] ELSE themes
  BY DEF P!Write, Theme
<1>3. PublicationTypes'
  <2>1. tableRows' \in [family -> SUBSET TableRows]
    BY WriteIs
  <2>2. themes' \in [Days -> SUBSET Payloads]
    BY <1>1, <1>2 DEF PublicationInv, PublicationTypes
  <2> QED BY <1>2, <2>1, <2>2 DEF PublicationInv, PublicationTypes, WriteTasks
<1>4. Dated' /\ InScope' /\ OneTask'
  <2>1. ASSUME NEW d \in family, NEW r \in tableRows'[d] PROVE r.at \in 1 .. publicationClock
    <3>1. CASE r \in tableRows[d]
      BY <3>1 DEF PublicationInv, Dated
    <3>2. CASE r.at = t.at
      BY <1>1, <3>2
    <3>3. r \in tableRows[d] \/ r.at = t.at
      BY WriteIs
    <3> QED BY <3>1, <3>2, <3>3
  <2>2. Dated'
    BY <1>2, <2>1 DEF PublicationInv, Dated
  <2>3. InScope'
    BY <1>2 DEF PublicationInv, InScope
  <2>4. OneTask'
    BY <1>2 DEF PublicationInv, OneTask
  <2> QED BY <2>2, <2>3, <2>4
<1> QED BY <1>3, <1>4, WriteKeepsRows, WriteKeepsLatest DEF PublicationInv

LEMMA PublicationStepHolds == PublicationInv /\ (P!Next \/ UNCHANGED publicationVars) => PublicationInv'
<1> SUFFICES ASSUME PublicationInv, P!Next \/ UNCHANGED publicationVars PROVE PublicationInv'
  OBVIOUS
<1>1. CASE UNCHANGED publicationVars
  BY <1>1 DEF publicationVars, PublicationInv, PublicationTypes, WriteTasks, Dated, InScope, OneTask, LatestKnown,
              Latest, P!RowsHaveMasters, P!InMasters, P!OneWritePerScope
<1>2. ASSUME NEW d, NEW date, NEW n \in 0 .. MaxRows
      PROVE  P!kSubset(n, P!PayloadRows(d, date)) \subseteq SUBSET P!PayloadRows(d, date)
  BY DEF P!kSubset
<1> QED BY <1>1, <1>2, MasterKeeps, BeginKeeps, FailKeeps, ReadParentKeeps, WriteKeepsAll DEF P!Next

LEMMA PublicationHolds ==
    PublicationInv => P!TypeOK /\ P!RowsHaveMasters /\ P!OneWritePerScope /\ P!LatestThemesKept
<1> SUFFICES ASSUME PublicationInv PROVE P!TypeOK /\ P!LatestThemesKept
  BY DEF PublicationInv
<1>1. P!TypeOK
  <2>1. DOMAIN tableRows = family /\ \A d \in family : \A r \in tableRows[d] : r.day \in Days
    BY DEF PublicationInv, PublicationTypes, TableRows
  <2>2. \A t \in tasks : t.dataset \in family
    BY DEF PublicationInv, PublicationTypes, WriteTasks
  <2> QED BY <2>1, <2>2 DEF PublicationInv, Dated, P!TypeOK
<1>2. P!LatestThemesKept
  BY DEF PublicationInv, LatestKnown, Latest, P!LatestThemesKept, Theme
<1> QED BY <1>1, <1>2

-----------------------------------------------------------------------------
(* Queries. What is released stays released, the limits excepted, so a day *)
(* that was complete when a call began is found by it unless its limits    *)
(* were withdrawn; and as many releases of a day as datasets are asked for *)
(* are those of all of them.                                               *)

Limits == "stock_daily.limit"

\* What makes a tool sound: what it shows is what it asks for, or what that is made from,
\* or the limits.
SoundTool(t) ==
    /\ t.form \in {"day", "range", "month"}
    /\ t.topic \in {None, "first", "of_the_day"}
    /\ t.topic # None => t.form = "day"
    /\ t.form = "month" => t.needs = {"market_index_weight"}
    /\ t.needs \subseteq t.shows
    /\ \A d \in t.shows \ t.needs : d = Limits \/ \E e \in t.needs : d \in Q!MadeFrom(e)
    /\ IsFiniteSet(t.needs)

DeclaredTools ==
    Q!StockTools \cup Q!HistoryTools \cup Q!ScreenTools \cup Q!EventTools \cup Q!RankingTools
    \cup Q!ConceptTools \cup Q!ThemeIndexTools \cup Q!ThemeTools \cup Q!EtfTools \cup Q!IndexTools
    \cup Q!ConstituentTools

LEMMA FewAreFinite ==
    /\ \A a : IsFiniteSet({a})
    /\ \A a, b : IsFiniteSet({a, b})
    /\ IsFiniteSet(Q!Quote) /\ \A a : IsFiniteSet(Q!Quote \cup {a})
<1>1. \A a : IsFiniteSet({a})
  BY FS_Singleton
<1>2. ASSUME NEW a, NEW b PROVE IsFiniteSet({a, b})
  <2>1. IsFiniteSet({a} \cup {b})
    BY <1>1, FS_AddElement
  <2>2. {a, b} = {a} \cup {b}
    OBVIOUS
  <2> QED BY <2>1, <2>2, Zenon
<1>3. ASSUME NEW a, NEW b, NEW c, NEW d PROVE IsFiniteSet({a, b, c, d})
  <2>1. {a, b, c, d} = ({a, b} \cup {c}) \cup {d}
    OBVIOUS
  <2>2. IsFiniteSet({a, b} \cup {c})
    BY <1>2, FS_AddElement
  <2> QED BY <2>1, <2>2, FS_AddElement
<1>4. IsFiniteSet(Q!Quote)
  BY <1>3 DEF Q!Quote
<1>5. ASSUME NEW a PROVE IsFiniteSet(Q!Quote \cup {a})
  BY <1>4, FS_AddElement
<1> QED BY <1>1, <1>2, <1>4, <1>5

LEMMA UsesIs ==
    ASSUME NEW name, NEW form, NEW datasets
    PROVE  /\ Q!Uses(name, form, datasets).form = form /\ Q!Uses(name, form, datasets).topic = None
           /\ Q!Uses(name, form, datasets).needs = datasets /\ Q!Uses(name, form, datasets).shows = datasets
BY DEF Q!Uses, Q!Tool

\* Most tools ask for what they show.
LEMMA UsesIsSound ==
    ASSUME NEW name, NEW form \in {"day", "range"}, NEW datasets, IsFiniteSet(datasets)
    PROVE  SoundTool(Q!Uses(name, form, datasets))
BY UsesIs DEF SoundTool

About(name, topic, datasets) == [Q!Uses(name, "day", datasets) EXCEPT !.topic = topic]

LEMMA AboutIsSound ==
    ASSUME NEW name, NEW topic \in {"first", "of_the_day"}, NEW datasets, IsFiniteSet(datasets)
    PROVE  SoundTool(About(name, topic, datasets))
<1>1. /\ About(name, topic, datasets).form = "day" /\ About(name, topic, datasets).topic = topic
      /\ About(name, topic, datasets).needs = datasets /\ About(name, topic, datasets).shows = datasets
  BY DEF About, Q!Uses, Q!Tool
<1> QED BY <1>1 DEF SoundTool

LEMMA ToolsAre == \A t \in DeclaredTools : SoundTool(t)
<1>1. ASSUME NEW t \in Q!StockTools PROVE SoundTool(t)
  BY UsesIsSound, FewAreFinite DEF Q!StockTools
<1>2. ASSUME NEW t \in Q!HistoryTools PROVE SoundTool(t)
  <2>1. PICK needs \in {{"stock_daily.core"}, {"stock_daily.core", "stock_technical_daily"},
                       {"stock_daily.core", "stock_moneyflow_daily"}} :
             t = Q!Tool("stock_history", "range", needs, needs \cup {"stock_daily.limit"})
    BY <1>2 DEF Q!HistoryTools
  <2>2. t.form = "range" /\ t.topic = None /\ t.needs = needs /\ t.shows = needs \cup {Limits}
    BY <2>1 DEF Q!Tool, Limits
  <2>3. IsFiniteSet(needs)
    BY <2>1, FewAreFinite
  <2> QED BY <2>2, <2>3 DEF SoundTool
<1>3. ASSUME NEW t \in Q!ScreenTools PROVE SoundTool(t)
  BY UsesIsSound, FewAreFinite DEF Q!ScreenTools
<1>4. ASSUME NEW t \in Q!EventTools PROVE SoundTool(t)
  <2> DEFINE marketThemes == Q!Tool("market_themes", "range", {"market_theme_member_daily"},
                               {"market_theme_member_daily", "market_theme_daily"})
  <2>1. t = marketThemes \/ \E d : t = Q!Uses(d, "range", {d})
    BY <1>4 DEF Q!EventTools
  <2>2. SoundTool(marketThemes)
    <3>1. /\ marketThemes.form = "range" /\ marketThemes.topic = None /\ marketThemes.needs = {"market_theme_member_daily"}
          /\ marketThemes.shows = {"market_theme_member_daily", "market_theme_daily"}
      BY DEF Q!Tool
    <3> HIDE DEF marketThemes
    <3>2. Q!MadeFrom("market_theme_member_daily") = {"market_theme_daily"}
      BY DEF Q!MadeFrom
    <3>3. IsFiniteSet(marketThemes.needs)
      BY <3>1, FewAreFinite
    <3> QED BY <3>1, <3>2, <3>3 DEF SoundTool
  <2> HIDE DEF marketThemes
  <2> QED BY <2>1, <2>2, UsesIsSound, FewAreFinite
<1>5. ASSUME NEW t \in Q!RankingTools PROVE SoundTool(t)
  BY UsesIsSound, FewAreFinite DEF Q!RankingTools
<1>6. ASSUME NEW t \in Q!ConceptTools \cup Q!ThemeIndexTools PROVE SoundTool(t)
  <2>1. \/ t = About("concept", "first", {"concept_board_daily"})
        \/ t = About("theme_index", "first", {"theme_index_daily"})
    BY <1>6 DEF Q!ConceptTools, Q!ThemeIndexTools, About
  <2> QED BY <2>1, AboutIsSound, FewAreFinite
<1>7. ASSUME NEW t \in Q!ThemeTools PROVE SoundTool(t)
  <2>1. t = About("topic_of_the_market", "of_the_day", {"market_theme_daily", "market_theme_member_daily"})
    BY <1>7 DEF Q!ThemeTools, About
  <2> QED BY <2>1, AboutIsSound, FewAreFinite
<1>8. ASSUME NEW t \in Q!EtfTools PROVE SoundTool(t)
  BY UsesIsSound, FewAreFinite DEF Q!EtfTools
<1>9. ASSUME NEW t \in Q!IndexTools PROVE SoundTool(t)
  BY UsesIsSound, FewAreFinite DEF Q!IndexTools
<1>10. ASSUME NEW t \in Q!ConstituentTools PROVE SoundTool(t)
  <2>1. t = Q!Uses("constituents", "month", {"market_index_weight"})
    BY <1>10 DEF Q!ConstituentTools
  <2>2. t.form = "month" /\ t.topic = None /\ t.needs = {"market_index_weight"} /\ t.shows = {"market_index_weight"}
    BY <2>1, UsesIs
  <2> QED BY <2>2, FewAreFinite DEF SoundTool
<1> QED BY <1>1, <1>2, <1>3, <1>4, <1>5, <1>6, <1>7, <1>8, <1>9, <1>10 DEF DeclaredTools

LEMMA ToolIsSound == \A n \in DOMAIN Q!Tools : SoundTool(Q!Tools[n])
<1>1. Q!Tools = [n \in {t.name : t \in DeclaredTools} |-> CHOOSE t \in DeclaredTools : t.name = n]
  BY DEF Q!Tools, Q!Named, Q!Names, DeclaredTools
<1>2. ASSUME NEW n \in {t.name : t \in DeclaredTools} PROVE Q!Tools[n] \in DeclaredTools
  BY <1>1
<1>3. DOMAIN Q!Tools = {t.name : t \in DeclaredTools}
  BY <1>1
<1> QED BY <1>2, <1>3, ToolsAre

QueryCalls ==
    [phase : {"idle", "topic", "fuzzy", "resolve", "pick", "select", "done"}, asked : Dates \cup {None},
     ready : SUBSET Dates, withdrawn : SUBSET Dates, day : Dates \cup {None}, topic : Topics \cup {None},
     result : {"answered", "not_ready", "not_found", "ambiguous", None}]

QueryTypes ==
    /\ SoundTool(tool)
    /\ releases \subseteq (tool.needs \cup tool.shows) \X Dates
    /\ names \in [Topics -> {"no", "part_of_the_name", "name", "code"}]
    /\ snapshots \in [FirstDays -> SUBSET Dates]
    /\ \A m \in FirstDays : snapshots[m] \subseteq Q!InMonth(m)
    /\ toolCall \in QueryCalls
    /\ toolCall.phase # "done" => toolCall.result = None

\* What is made from a dataset is released after it.
MadeAfter ==
    \A r \in releases : \A d \in Q!MadeFrom(r[1]) \cap (tool.needs \cup tool.shows) : <<d, r[2]>> \in releases

\* Weights are released under the first day of their month.
MonthsReleased ==
    tool.form = "month" =>
        /\ \A r \in releases : r[2] \in FirstDays
        /\ \A m \in FirstDays : snapshots[m] # {} => <<"market_index_weight", m>> \in releases

\* The days whose limits are needed and were withdrawn during the call.
TakenBack == IF Limits \in tool.needs THEN toolCall.withdrawn ELSE {}

ReadyStays == toolCall.ready \ TakenBack \subseteq Q!Complete(tool.needs)

\* What is shown of a day is released, the limits excepted.
Shown(day) ==
    \A d \in tool.shows :
        \/ <<d, day>> \in releases
        \/ d = Limits /\ (d \notin tool.needs \/ day \in toolCall.withdrawn)

\* The day of a call is released, and none that was complete since its beginning is later.
RightDay ==
    /\ toolCall.day # None =>
          /\ Shown(toolCall.day)
          /\ tool.form = "day" /\ toolCall.asked # None => toolCall.day = toolCall.asked
    /\ \A d \in toolCall.ready \ TakenBack :
          \/ toolCall.asked = None
          \/ tool.form = "range" /\ d <= toolCall.asked
          \/ tool.form # "range" /\ d = toolCall.asked
          => toolCall.day # None /\ d <= toolCall.day

\* The steps after the day was resolved.
DayIsResolved ==
    /\ tool.form # "month"
    /\ \/ toolCall.phase = "select"
       \/ toolCall.phase \in {"topic", "fuzzy"} /\ tool.topic = "of_the_day"
       \/ toolCall.result \in {"answered", "not_ready"}

\* A topic is looked up for tools that have one, with a day if it is one of the day.
NoDayYet ==
    /\ toolCall.phase \in {"topic", "fuzzy"} => tool.topic # None
    /\ \/ toolCall.phase \in {"idle", "resolve"}
       \/ toolCall.phase \in {"topic", "fuzzy"} /\ tool.topic # "of_the_day"
       => toolCall.day = None

MonthIsRight ==
    toolCall.phase = "pick" =>
        /\ tool.form = "month" /\ toolCall.day \in Dates
        /\ <<"market_index_weight", toolCall.day>> \in releases
        /\ toolCall.asked # None => toolCall.day <= toolCall.asked

QueryInv ==
    /\ QueryTypes /\ MadeAfter /\ MonthsReleased /\ ReadyStays /\ NoDayYet /\ MonthIsRight
    /\ DayIsResolved => RightDay

LEMMA QueryDates ==
    /\ None \notin Dates /\ Dates \subseteq Nat /\ FirstDays \subseteq Dates /\ TradeDays \subseteq Dates
    /\ None \notin {"answered", "not_ready", "first", "of_the_day"}
BY DataAssumption

LEMMA LatestOf ==
    ASSUME NEW S \in SUBSET Dates, S # {}
    PROVE  Q!Max(S) \in S /\ \A k \in S : k <= Q!Max(S)
<1>1. PICK n \in Nat : Dates = 1 .. n
  BY DataAssumption
<1>2. S \in SUBSET (0 .. n)
  BY <1>1
<1>3. \E x \in S : \A y \in S : x >= y
  BY <1>2, HasGreatest
<1>4. Q!Max(S) = CHOOSE x \in S : \A y \in S : x >= y
  BY DEF Q!Max
<1>5. Q!Max(S) \in S /\ \A y \in S : Q!Max(S) >= y
  BY <1>3, <1>4
<1>6. \A k \in S : k \in Nat
  BY <1>1
<1> QED BY <1>5, <1>6

\* As many releases of a day as datasets are those of all of them.
LEMMA CommonIsComplete ==
    ASSUME QueryTypes
    PROVE  Q!Common(tool.needs) = Q!Complete(tool.needs)
<1>1. IsFiniteSet(tool.needs) /\ releases \subseteq (tool.needs \cup tool.shows) \X Dates
  BY DEF QueryTypes, SoundTool
<1>2. ASSUME NEW day \in Dates
      PROVE  Q!Cardinality({r \in releases : r[1] \in tool.needs /\ r[2] = day}) = Q!Cardinality(tool.needs)
                <=> \A d \in tool.needs : <<d, day>> \in releases
  <2> DEFINE S == {r \in releases : r[1] \in tool.needs /\ r[2] = day}
             f == [r \in S |-> r[1]]
  <2>1. f \in Injection(S, tool.needs)
    <3>1. f \in [S -> tool.needs]
      OBVIOUS
    <3>2. ASSUME NEW a \in S, NEW b \in S, f[a] = f[b] PROVE a = b
      <4>1. a = <<a[1], a[2]>> /\ b = <<b[1], b[2]>> /\ a[2] = day /\ b[2] = day
        BY <1>1
      <4> QED BY <3>2, <4>1
    <3> QED BY <3>1, <3>2 DEF Injection, IsInjective
  <2>2. Cardinality(S) = Cardinality(tool.needs) <=> f \in Surjection(S, tool.needs)
    BY <1>1, <2>1, FS_Injection
  <2>3. f \in Surjection(S, tool.needs) <=> \A d \in tool.needs : \E r \in S : f[r] = d
    BY DEF Surjection
  <2>4. ASSUME NEW d \in tool.needs PROVE (\E r \in S : f[r] = d) <=> <<d, day>> \in releases
    <3>1. ASSUME NEW r \in S, f[r] = d PROVE <<d, day>> \in releases
      <4>1. r = <<r[1], r[2]>> /\ r[2] = day /\ r[1] = d
        BY <1>1, <3>1
      <4> QED BY <4>1
    <3>2. ASSUME <<d, day>> \in releases PROVE \E r \in S : f[r] = d
      <4>1. <<d, day>> \in S /\ f[<<d, day>>] = d
        BY <3>2
      <4> QED BY <4>1
    <3> QED BY <3>1, <3>2
  <2>5. Q!Cardinality(S) = Cardinality(S) /\ Q!Cardinality(tool.needs) = Cardinality(tool.needs)
    BY DEF Q!Cardinality, Cardinality
  <2> HIDE DEF f
  <2> QED BY <2>2, <2>3, <2>4, <2>5
<1>3. ASSUME NEW day \in Dates, NEW d PROVE day \in Q!Released(d) <=> <<d, day>> \in releases
  <2>1. \A r \in releases : r = <<r[1], r[2]>>
    BY <1>1
  <2> QED BY <2>1 DEF Q!Released
<1> QED BY <1>2, <1>3 DEF Q!Common, Q!Complete

LEMMA CompleteIs ==
    ASSUME QueryTypes, NEW datasets
    PROVE  Q!Complete(datasets) = {day \in Dates : \A d \in datasets : <<d, day>> \in releases}
<1>1. \A r \in releases : r = <<r[1], r[2]>>
  BY DEF QueryTypes
<1>2. \A d : Q!Released(d) = {r[2] : r \in {x \in releases : x[1] = d}}
  BY DEF Q!Released
<1>3. ASSUME NEW day, NEW d PROVE day \in Q!Released(d) <=> <<d, day>> \in releases
  BY <1>1, <1>2
<1> QED BY <1>3 DEF Q!Complete

\* What a tool asks for being complete, all that it shows is, the limits excepted.
LEMMA ShownIsComplete ==
    ASSUME QueryInv
    PROVE  /\ Q!Common(tool.needs) = Q!Complete(tool.needs) /\ Q!Complete(tool.needs) \subseteq Dates
           /\ \A day \in Q!Complete(tool.needs) : Shown(day)
<1>1. SoundTool(tool) /\ QueryTypes
  BY DEF QueryInv, QueryTypes
<1>2. ASSUME NEW day \in Dates, \A d \in tool.needs : <<d, day>> \in releases, NEW d \in tool.shows
      PROVE  <<d, day>> \in releases \/ (d = Limits /\ d \notin tool.needs)
  <2>1. CASE d \in tool.needs
    BY <1>2, <2>1
  <2>2. CASE d \notin tool.needs /\ d # Limits
    <3>1. PICK e \in tool.needs : d \in Q!MadeFrom(e)
      BY <1>1, <2>2 DEF SoundTool
    <3>2. <<e, day>> \in releases /\ <<e, day>>[1] = e /\ <<e, day>>[2] = day
      BY <1>2
    <3>3. \A x \in Q!MadeFrom(e) \cap (tool.needs \cup tool.shows) : <<x, day>> \in releases
      BY <3>2 DEF QueryInv, MadeAfter
    <3> QED BY <3>1, <3>3
  <2> QED BY <2>1, <2>2
<1>3. Q!Common(tool.needs) = Q!Complete(tool.needs)
  BY <1>1, CommonIsComplete
<1>4. Q!Complete(tool.needs) = {day \in Dates : \A d \in tool.needs : <<d, day>> \in releases}
  BY <1>1, CompleteIs
<1> QED BY <1>2, <1>3, <1>4 DEF Shown

LEMMA QueryInitHolds == Q!Init => QueryInv
<1> SUFFICES ASSUME Q!Init PROVE QueryInv
  OBVIOUS
<1>1. SoundTool(tool)
  BY ToolIsSound DEF Q!Init
<1>2. /\ releases = {} /\ names = [t \in Topics |-> "no"] /\ snapshots = [m \in FirstDays |-> {}]
      /\ toolCall = [phase |-> "idle", asked |-> None, ready |-> {}, withdrawn |-> {},
                   day |-> None, topic |-> None, result |-> None]
  BY DEF Q!Init, Q!Idle
<1>3. toolCall \in QueryCalls /\ toolCall.phase = "idle" /\ toolCall.result = None /\ toolCall.ready = {}
  BY <1>2 DEF QueryCalls
<1>4. QueryTypes
  BY <1>1, <1>2, <1>3 DEF QueryTypes
<1>5. ~DayIsResolved
  BY <1>3, QueryDates DEF DayIsResolved
<1> QED BY <1>2, <1>3, <1>4, <1>5 DEF QueryInv, MadeAfter, MonthsReleased, ReadyStays, NoDayYet, MonthIsRight

\* What is published leaves a call that runs right: the releases grow, but for limits that
\* are withdrawn.
LEMMA MoreReleased ==
    ASSUME QueryInv, QueryTypes', MadeAfter', MonthsReleased', UNCHANGED tool,
           \A r \in releases : r \in releases' \/ (r[1] = Limits /\ r[2] \in toolCall'.withdrawn),
           toolCall'.phase = toolCall.phase, toolCall'.asked = toolCall.asked, toolCall'.ready = toolCall.ready,
           toolCall'.day = toolCall.day, toolCall'.result = toolCall.result,
           toolCall.withdrawn \subseteq toolCall'.withdrawn
    PROVE  QueryInv'
<1>1. Q!Complete(tool.needs) = {day \in Dates : \A d \in tool.needs : <<d, day>> \in releases}
  BY CompleteIs DEF QueryInv
<1>2. Q!Complete(tool.needs)' = {day \in Dates : \A d \in tool'.needs : <<d, day>> \in releases'}
  <2>1. \A r \in releases' : r = <<r[1], r[2]>>
    BY DEF QueryTypes
  <2>2. \A d : Q!Released(d)' = {r[2] : r \in {x \in releases' : x[1] = d}}
    BY DEF Q!Released
  <2>3. ASSUME NEW day, NEW d PROVE day \in Q!Released(d)' <=> <<d, day>> \in releases'
    BY <2>1, <2>2
  <2> QED BY <2>3 DEF Q!Complete
<1>3. \A d, day : <<d, day>> \in releases =>
          <<d, day>> \in releases' \/ (d = Limits /\ day \in toolCall'.withdrawn)
  <2>1. \A d, day : <<d, day>>[1] = d /\ <<d, day>>[2] = day
    OBVIOUS
  <2> QED BY <2>1
<1>4. Q!Complete(tool.needs) \ TakenBack' \subseteq Q!Complete(tool.needs)' /\ TakenBack \subseteq TakenBack'
  BY <1>1, <1>2, <1>3 DEF TakenBack
<1>5. ReadyStays'
  BY <1>4 DEF QueryInv, ReadyStays
<1>6. NoDayYet' /\ MonthIsRight'
  <2>1. "market_index_weight" # Limits
    BY DEF Limits
  <2> QED BY <1>3, <2>1 DEF QueryInv, NoDayYet, MonthIsRight
<1>7. \A day : Shown(day) => Shown(day)'
  BY <1>3 DEF Shown
<1>8. DayIsResolved' => RightDay'
  BY <1>4, <1>7 DEF QueryInv, DayIsResolved, RightDay
<1> QED BY <1>5, <1>6, <1>8 DEF QueryInv

LEMMA PublishReleases ==
    ASSUME QueryInv, NEW d \in tool.needs \cup tool.shows, NEW day \in TradeDays, Q!Publish(d, day)
    PROVE  QueryInv' /\ toolCall'.topic = toolCall.topic /\ toolCall'.result = toolCall.result
<1> DEFINE gone == Q!Withdrawn(d, day)
<1>1. /\ tool.form # "month" /\ releases' = (releases \ gone) \cup {<<d, day>>}
      /\ Q!MadeFrom(d) \cap (tool.needs \cup tool.shows) \subseteq {r[1] : r \in {x \in releases : x[2] = day}}
      /\ toolCall' = [toolCall EXCEPT !.withdrawn = @ \cup {r[2] : r \in gone}]
      /\ UNCHANGED <<tool, names, snapshots>>
  BY DEF Q!Publish
<1>2. day \in Dates
  BY QueryDates
<1>3. \A r \in gone : r = <<Limits, day>> /\ d = "stock_daily.core"
  BY DEF Q!Withdrawn, Limits
<1>4. \A r \in gone : r[1] = Limits /\ r[2] = day /\ r[2] \in {x[2] : x \in gone}
  BY <1>3
<1> HIDE DEF gone
<1>5. {r[2] : r \in gone} \in SUBSET Dates
  BY <1>2, <1>4
<1>6. /\ toolCall' \in QueryCalls /\ toolCall'.phase = toolCall.phase /\ toolCall'.asked = toolCall.asked
      /\ toolCall'.ready = toolCall.ready /\ toolCall'.day = toolCall.day /\ toolCall'.result = toolCall.result
      /\ toolCall'.topic = toolCall.topic
      /\ toolCall'.withdrawn = toolCall.withdrawn \cup {r[2] : r \in gone}
  BY <1>1, <1>5 DEF QueryCalls, QueryInv, QueryTypes
<1>7. QueryTypes'
  BY <1>1, <1>2, <1>6 DEF QueryInv, QueryTypes, Q!InMonth
<1>8. MadeAfter'
  <2>1. ASSUME NEW x \in Q!MadeFrom(d) \cap (tool.needs \cup tool.shows) PROVE <<x, day>> \in releases
    <3>1. PICK r \in releases : r[2] = day /\ r[1] = x
      BY <1>1
    <3>2. r = <<r[1], r[2]>>
      BY DEF QueryInv, QueryTypes
    <3> QED BY <3>1, <3>2
  <2>2. <<d, day>>[1] = d /\ <<d, day>>[2] = day
    OBVIOUS
  <2>3. \A e : Limits \notin Q!MadeFrom(e)
    BY DEF Q!MadeFrom, Limits
  <2>4. \A x, y : <<x, y>> \in gone => x = Limits
    <3>1. \A x, y : <<x, y>>[1] = x
      OBVIOUS
    <3> QED BY <1>4, <3>1
  <2>5. ASSUME NEW r \in releases', NEW x \in Q!MadeFrom(r[1]) \cap (tool.needs \cup tool.shows)
        PROVE  <<x, r[2]>> \in releases'
    <3>1. CASE r \in releases
      <4>1. <<x, r[2]>> \in releases
        BY <2>5, <3>1 DEF QueryInv, MadeAfter
      <4>2. <<x, r[2]>> \notin gone
        BY <2>3, <2>4, <2>5
      <4> QED BY <1>1, <4>1, <4>2
    <3>2. CASE r = <<d, day>>
      <4>1. <<x, day>> \in releases /\ <<x, day>> \notin gone
        BY <2>1, <2>2, <2>3, <2>4, <2>5, <3>2
      <4> QED BY <1>1, <2>2, <3>2, <4>1
    <3> QED BY <1>1, <3>1, <3>2
  <2> QED BY <1>1, <2>5 DEF MadeAfter
<1>9. MonthsReleased'
  BY <1>1 DEF MonthsReleased
<1>10. \A r \in releases : r \in releases' \/ (r[1] = Limits /\ r[2] \in toolCall'.withdrawn)
  BY <1>1, <1>4, <1>6
<1>11. toolCall.withdrawn \subseteq toolCall'.withdrawn
  BY <1>6
<1> QED BY <1>1, <1>6, <1>7, <1>8, <1>9, <1>10, <1>11, MoreReleased

LEMMA PublishWeightsReleases ==
    ASSUME QueryInv, NEW m \in FirstDays, NEW dates \in SUBSET Q!InMonth(m), Q!PublishWeights(m, dates)
    PROVE  QueryInv'
<1>1. /\ tool.form = "month" /\ releases' = releases \cup {<<"market_index_weight", m>>}
      /\ snapshots' = [snapshots EXCEPT ![m] = dates] /\ UNCHANGED <<tool, names, toolCall>>
  BY DEF Q!PublishWeights
<1>2. m \in Dates /\ dates \in SUBSET Dates
  BY QueryDates DEF Q!InMonth
<1>3. tool.needs = {"market_index_weight"}
  BY <1>1 DEF QueryInv, QueryTypes, SoundTool
<1>4. /\ snapshots' \in [FirstDays -> SUBSET Dates]
      /\ \A n \in FirstDays : snapshots'[n] = IF n = m THEN dates ELSE snapshots[n]
  BY <1>1, <1>2 DEF QueryInv, QueryTypes
<1>5. QueryTypes'
  <2>1. \A n \in FirstDays : Q!InMonth(n)' = Q!InMonth(n)
    BY DEF Q!InMonth
  <2>2. \A n \in FirstDays : snapshots'[n] \subseteq Q!InMonth(n)
    BY <1>4 DEF QueryInv, QueryTypes
  <2> QED BY <1>1, <1>2, <1>3, <1>4, <2>1, <2>2 DEF QueryInv, QueryTypes
<1>6. MadeAfter'
  <2>1. Q!MadeFrom("market_index_weight") = {}
    BY DEF Q!MadeFrom
  <2>2. <<"market_index_weight", m>>[1] = "market_index_weight"
    OBVIOUS
  <2> HIDE DEF Q!MadeFrom
  <2>3. ASSUME NEW r \in releases', NEW x \in Q!MadeFrom(r[1]) \cap (tool.needs \cup tool.shows)
        PROVE  <<x, r[2]>> \in releases'
    <3>1. CASE r \in releases
      BY <1>1, <2>3, <3>1 DEF QueryInv, MadeAfter
    <3>2. CASE r = <<"market_index_weight", m>>
      BY <2>1, <2>2, <2>3, <3>2
    <3> QED BY <1>1, <3>1, <3>2
  <2> QED BY <1>1, <2>3 DEF MadeAfter
<1>7. MonthsReleased'
  BY <1>1, <1>4 DEF QueryInv, MonthsReleased
<1> QED BY <1>1, <1>5, <1>6, <1>7, MoreReleased

LEMMA PublishTopicsKeeps == QueryInv /\ Q!PublishTopics => QueryInv'
<1> SUFFICES ASSUME QueryInv, Q!PublishTopics PROVE QueryInv'
  OBVIOUS
<1>1. /\ names' \in [Topics -> {"no", "part_of_the_name", "name", "code"}]
      /\ UNCHANGED <<tool, releases, snapshots, toolCall>>
  BY DEF Q!PublishTopics
<1>2. QueryTypes'
  BY <1>1 DEF QueryInv, QueryTypes, Q!InMonth
<1> QED BY <1>1, <1>2, MoreReleased DEF QueryInv, MadeAfter, MonthsReleased

\* A step of a call changes the call alone.
LEMMA CallMoves ==
    ASSUME QueryInv, UNCHANGED <<tool, releases, names, snapshots>>, toolCall' \in QueryCalls,
           toolCall'.phase # "done" => toolCall'.result = None,
           ReadyStays', NoDayYet', MonthIsRight', DayIsResolved' => RightDay'
    PROVE  QueryInv'
<1>1. QueryTypes'
  BY DEF QueryInv, QueryTypes, Q!InMonth, QueryCalls
<1> QED BY <1>1 DEF QueryInv, MadeAfter, MonthsReleased

LEMMA CompleteStays ==
    ASSUME tool' = tool, releases' = releases, toolCall'.withdrawn = toolCall.withdrawn
    PROVE  /\ Q!Complete(tool.needs)' = Q!Complete(tool.needs) /\ TakenBack' = TakenBack
           /\ \A day : Shown(day)' <=> Shown(day)
BY DEF Q!Complete, Q!Released, TakenBack, Shown

\* A call that ends without a day that counts.
LEMMA CallEnds ==
    ASSUME QueryInv, UNCHANGED <<tool, releases, names, snapshots>>, NEW result \in {"not_found", "ambiguous"},
           Q!Ends(result)
    PROVE  QueryInv' /\ toolCall'.topic = toolCall.topic
<1>1. toolCall' = [toolCall EXCEPT !.phase = "done", !.result = result] /\ toolCall \in QueryCalls
  BY DEF Q!Ends, QueryInv, QueryTypes
<1>2. /\ toolCall' \in QueryCalls /\ toolCall'.phase = "done" /\ toolCall'.result = result
      /\ toolCall'.ready = toolCall.ready /\ toolCall'.withdrawn = toolCall.withdrawn
      /\ toolCall'.topic = toolCall.topic
  BY <1>1 DEF QueryCalls
<1>3. ~DayIsResolved'
  BY <1>2 DEF DayIsResolved
<1>4. ReadyStays' /\ NoDayYet' /\ MonthIsRight'
  BY <1>2, CompleteStays DEF QueryInv, ReadyStays, NoDayYet, MonthIsRight
<1> QED BY <1>2, <1>3, <1>4, CallMoves

\* A call that has its day resolved goes on, or ends, with that day.
LEMMA CallKeepsDay ==
    ASSUME QueryInv, DayIsResolved, UNCHANGED <<tool, releases, names, snapshots>>, toolCall' \in QueryCalls,
           toolCall'.phase # "done" => toolCall'.result = None,
           toolCall'.phase \notin {"idle", "resolve", "pick"}, NoDayYet', toolCall'.asked = toolCall.asked, toolCall'.ready = toolCall.ready,
           toolCall'.withdrawn = toolCall.withdrawn,
           toolCall'.day = toolCall.day
    PROVE  QueryInv'
<1>1. RightDay'
  BY CompleteStays DEF QueryInv, RightDay
<1>2. ReadyStays' /\ MonthIsRight'
  BY CompleteStays DEF QueryInv, ReadyStays, MonthIsRight
<1> QED BY <1>1, <1>2, CallMoves

LEMMA BeginCallKeeps == QueryInv /\ Q!Begin => QueryInv' /\ toolCall'.topic = toolCall.topic
<1> SUFFICES ASSUME QueryInv, Q!Begin PROVE QueryInv' /\ toolCall'.topic = toolCall.topic
  OBVIOUS
<1>1. /\ toolCall.phase = "idle" /\ toolCall \in QueryCalls /\ toolCall.result = None
      /\ UNCHANGED <<tool, releases, names, snapshots>>
  BY DEF Q!Begin, QueryInv, QueryTypes
<1>2. PICK asked \in Dates \cup {None} :
         toolCall' = [toolCall EXCEPT !.phase = IF tool.topic = "first" THEN "topic" ELSE "resolve",
                                      !.asked = asked, !.ready = Q!Complete(tool.needs), !.withdrawn = {}]
  BY DEF Q!Begin
<1>3. Q!Complete(tool.needs) \in SUBSET Dates
  BY DEF Q!Complete
<1>4. /\ toolCall' \in QueryCalls /\ toolCall'.phase = (IF tool.topic = "first" THEN "topic" ELSE "resolve")
      /\ toolCall'.ready = Q!Complete(tool.needs) /\ toolCall'.withdrawn = {} /\ toolCall'.result = None /\ toolCall'.topic = toolCall.topic
      /\ toolCall'.day = toolCall.day
  BY <1>1, <1>2, <1>3 DEF QueryCalls
<1>5. Q!Complete(tool.needs)' = Q!Complete(tool.needs)
  BY <1>1 DEF Q!Complete, Q!Released
<1>6. ReadyStays' /\ NoDayYet' /\ MonthIsRight'
  BY <1>1, <1>4, <1>5, QueryDates DEF QueryInv, ReadyStays, NoDayYet, MonthIsRight
<1>7. ~DayIsResolved'
  BY <1>1, <1>4, QueryDates DEF DayIsResolved
<1> QED BY <1>1, <1>4, <1>6, <1>7, CallMoves

LEMMA ResolvedIs ==
    ASSUME QueryInv, NEW asked \in Dates \cup {None}
    PROVE  LET day == Q!Resolved(asked)
           IN  /\ day # None => day \in Dates /\ Shown(day) /\ (asked # None => day = asked)
               /\ \A d \in Q!Complete(tool.needs) : asked = None \/ d = asked => day # None /\ d <= day
<1> DEFINE found == {day \in Q!Common(tool.needs) : asked = None \/ day = asked}
           day == Q!Resolved(asked)
<1>1. /\ Q!Common(tool.needs) = Q!Complete(tool.needs) /\ found \in SUBSET Dates
      /\ \A d \in found : Shown(d)
  BY ShownIsComplete
<1>2. day = IF found = {} THEN None ELSE Q!Max(found)
  BY DEF Q!Resolved
<1>3. CASE found = {}
  <2>1. \A d \in Q!Complete(tool.needs) : ~(asked = None \/ d = asked)
    BY <1>1, <1>3
  <2> QED BY <1>2, <1>3, <2>1
<1>4. CASE found # {}
  <2>1. day \in found /\ \A d \in found : d <= day
    BY <1>1, <1>2, <1>4, LatestOf
  <2>2. day # None
    BY <1>1, <2>1, QueryDates
  <2> HIDE DEF day
  <2> QED BY <1>1, <2>1, <2>2 DEF day
<1> QED BY <1>3, <1>4

LEMMA ResolveKeeps == QueryInv /\ Q!Resolve => QueryInv' /\ toolCall'.topic = toolCall.topic
<1> SUFFICES ASSUME QueryInv, Q!Resolve PROVE QueryInv' /\ toolCall'.topic = toolCall.topic
  OBVIOUS
<1> DEFINE day == Q!Resolved(toolCall.asked)
           then_ == IF tool.topic = "of_the_day" THEN "topic" ELSE "select"
<1>1. /\ toolCall.phase = "resolve" /\ tool.form = "day" /\ toolCall \in QueryCalls /\ toolCall.result = None
      /\ UNCHANGED <<tool, releases, names, snapshots>>
  BY DEF Q!Resolve, QueryInv, QueryTypes
<1>2. \/ day # None /\ toolCall' = [toolCall EXCEPT !.day = day, !.phase = then_]
      \/ /\ day = None
         /\ \/ toolCall' = [toolCall EXCEPT !.phase = "done", !.result = "answered"]
            \/ toolCall' = [toolCall EXCEPT !.phase = "done", !.result = "not_ready"]
  BY DEF Q!Resolve, Q!Ends
<1>3. toolCall.asked \in Dates \cup {None}
  BY <1>1 DEF QueryCalls
<1>4. /\ day # None => day \in Dates /\ Shown(day) /\ (toolCall.asked # None => day = toolCall.asked)
      /\ \A d \in Q!Complete(tool.needs) : toolCall.asked = None \/ d = toolCall.asked => day # None /\ d <= day
  BY <1>3, ResolvedIs
<1>5. day \in Dates \cup {None}
  BY <1>4
<1> HIDE DEF day
<1>6. toolCall.ready \ TakenBack \subseteq Q!Complete(tool.needs) /\ toolCall.day = None
  BY <1>1 DEF QueryInv, ReadyStays, NoDayYet
<1>7. /\ toolCall' \in QueryCalls /\ toolCall'.ready = toolCall.ready /\ toolCall'.withdrawn = toolCall.withdrawn
      /\ toolCall'.asked = toolCall.asked
      /\ toolCall'.topic = toolCall.topic /\ toolCall'.phase \in {then_, "done"} /\ toolCall'.day = day
      /\ toolCall'.phase = "done" \/ toolCall'.result = None
  BY <1>1, <1>2, <1>5, <1>6 DEF QueryCalls
<1>8. ReadyStays' /\ MonthIsRight' /\ NoDayYet'
  BY <1>1, <1>6, <1>7, CompleteStays, QueryDates DEF ReadyStays, MonthIsRight, NoDayYet
<1>9. RightDay'
  BY <1>1, <1>4, <1>6, <1>7, CompleteStays DEF RightDay
<1> QED BY <1>1, <1>7, <1>8, <1>9, CallMoves

\* Looking up the topic leaves the day of the call as it is.
LEMMA TopicMoves ==
    ASSUME QueryInv, UNCHANGED <<tool, releases, names, snapshots>>, toolCall' \in QueryCalls,
           toolCall.phase \in {"topic", "fuzzy"}, toolCall'.result = None,
           toolCall'.phase \in {"fuzzy", IF tool.topic = "first" THEN "resolve" ELSE "select"},
           toolCall'.asked = toolCall.asked, toolCall'.ready = toolCall.ready, toolCall'.day = toolCall.day,
           toolCall'.withdrawn = toolCall.withdrawn
    PROVE  QueryInv'
<1>1. tool.topic \in {"first", "of_the_day"} /\ tool.form # "month"
  BY DEF QueryInv, QueryTypes, SoundTool, NoDayYet
<1>2. CASE tool.topic = "of_the_day"
  <2>1. DayIsResolved /\ NoDayYet' /\ toolCall'.phase \in {"fuzzy", "select"}
    BY <1>2, <1>1, QueryDates DEF DayIsResolved, NoDayYet
  <2> QED BY <2>1, CallKeepsDay
<1>3. CASE tool.topic = "first"
  <2>1. toolCall'.day = None /\ toolCall'.phase \in {"fuzzy", "resolve"}
    BY <1>3 DEF QueryInv, NoDayYet
  <2>2. ReadyStays' /\ MonthIsRight' /\ NoDayYet' /\ ~DayIsResolved'
    BY <1>3, <2>1, CompleteStays, QueryDates DEF QueryInv, ReadyStays, MonthIsRight, NoDayYet, DayIsResolved
  <2> QED BY <2>2, CallMoves
<1> QED BY <1>1, <1>2, <1>3

\* The topics that match as well as the one taken: in the first statement and in the second.
LEMMA FindTopicKeeps ==
    ASSUME QueryInv, Q!FindTopic
    PROVE  /\ QueryInv'
           /\ toolCall'.topic # toolCall.topic =>
                \A t \in Topics \ {toolCall'.topic} : names[t] \notin {"name", "code"}
<1> DEFINE exact == {t \in Topics : names[t] \in {"name", "code"}}
<1>1. /\ toolCall.phase = "topic" /\ toolCall \in QueryCalls /\ toolCall.result = None
      /\ UNCHANGED <<tool, releases, names, snapshots>>
  BY DEF Q!FindTopic, QueryInv, QueryTypes
<1>2. \/ \E t \in exact : exact = {t} /\ toolCall' = [toolCall EXCEPT !.topic = t, !.phase = Q!AfterTopic]
      \/ toolCall' = [toolCall EXCEPT !.phase = "fuzzy"]
      \/ Q!Ends("ambiguous")
  BY DEF Q!FindTopic, Q!Found, Q!Goes
<1>3. CASE Q!Ends("ambiguous")
  BY <1>1, <1>3, CallEnds
<1>4. CASE toolCall' = [toolCall EXCEPT !.phase = "fuzzy"]
  <2>1. /\ toolCall' \in QueryCalls /\ toolCall'.phase = "fuzzy" /\ toolCall'.result = None
        /\ toolCall'.asked = toolCall.asked /\ toolCall'.ready = toolCall.ready /\ toolCall'.withdrawn = toolCall.withdrawn
        /\ toolCall'.day = toolCall.day
        /\ toolCall'.topic = toolCall.topic
    BY <1>1, <1>4 DEF QueryCalls
  <2> QED BY <1>1, <2>1, TopicMoves
<1>5. ASSUME NEW t \in exact, exact = {t}, toolCall' = [toolCall EXCEPT !.topic = t, !.phase = Q!AfterTopic]
      PROVE  QueryInv' /\ toolCall'.topic = t
  <2>1. Q!AfterTopic = IF tool.topic = "first" THEN "resolve" ELSE "select"
    BY DEF Q!AfterTopic
  <2>2. /\ toolCall' \in QueryCalls /\ toolCall'.phase = Q!AfterTopic /\ toolCall'.result = None
        /\ toolCall'.asked = toolCall.asked /\ toolCall'.ready = toolCall.ready /\ toolCall'.withdrawn = toolCall.withdrawn
        /\ toolCall'.day = toolCall.day
        /\ toolCall'.topic = t
    BY <1>1, <1>5, <2>1 DEF QueryCalls
  <2> QED BY <1>1, <2>1, <2>2, TopicMoves
<1> QED BY <1>2, <1>3, <1>4, <1>5

LEMMA FindByPartKeeps ==
    ASSUME QueryInv, Q!FindByPart
    PROVE  /\ QueryInv'
           /\ toolCall'.topic # toolCall.topic =>
                \A t \in Topics \ {toolCall'.topic} : names[t] \notin {"name", "part_of_the_name"}
<1> DEFINE similar == {t \in Topics : names[t] \in {"name", "part_of_the_name"}}
<1>1. /\ toolCall.phase = "fuzzy" /\ toolCall \in QueryCalls /\ toolCall.result = None
      /\ UNCHANGED <<tool, releases, names, snapshots>>
  BY DEF Q!FindByPart, QueryInv, QueryTypes
<1>2. \/ \E t \in similar : similar = {t} /\ toolCall' = [toolCall EXCEPT !.topic = t, !.phase = Q!AfterTopic]
      \/ Q!Ends("not_found")
      \/ Q!Ends("ambiguous")
  BY DEF Q!FindByPart, Q!Found
<1>3. CASE Q!Ends("ambiguous") \/ Q!Ends("not_found")
  BY <1>1, <1>3, CallEnds
<1>4. ASSUME NEW t \in similar, similar = {t}, toolCall' = [toolCall EXCEPT !.topic = t, !.phase = Q!AfterTopic]
      PROVE  QueryInv' /\ toolCall'.topic = t
  <2>1. Q!AfterTopic = IF tool.topic = "first" THEN "resolve" ELSE "select"
    BY DEF Q!AfterTopic
  <2>2. /\ toolCall' \in QueryCalls /\ toolCall'.phase = Q!AfterTopic /\ toolCall'.result = None
        /\ toolCall'.asked = toolCall.asked /\ toolCall'.ready = toolCall.ready /\ toolCall'.withdrawn = toolCall.withdrawn
        /\ toolCall'.day = toolCall.day
        /\ toolCall'.topic = t
    BY <1>1, <1>4, <2>1 DEF QueryCalls
  <2> QED BY <1>1, <2>1, <2>2, TopicMoves
<1> QED BY <1>2, <1>3, <1>4

LEMMA SelectKeeps == QueryInv /\ Q!Select => QueryInv' /\ toolCall'.topic = toolCall.topic
<1> SUFFICES ASSUME QueryInv, Q!Select PROVE QueryInv' /\ toolCall'.topic = toolCall.topic
  OBVIOUS
<1>1. /\ toolCall.phase = "select" /\ tool.form = "day" /\ toolCall \in QueryCalls
      /\ toolCall' = [toolCall EXCEPT !.phase = "done", !.result = "answered"]
      /\ UNCHANGED <<tool, releases, names, snapshots>>
  BY DEF Q!Select, Q!Ends, QueryInv, QueryTypes
<1>2. /\ toolCall' \in QueryCalls /\ toolCall'.phase = "done" /\ toolCall'.topic = toolCall.topic
      /\ toolCall'.asked = toolCall.asked /\ toolCall'.ready = toolCall.ready /\ toolCall'.withdrawn = toolCall.withdrawn
      /\ toolCall'.day = toolCall.day
  BY <1>1 DEF QueryCalls
<1>3. DayIsResolved /\ NoDayYet'
  BY <1>1, <1>2 DEF DayIsResolved, NoDayYet
<1> QED BY <1>1, <1>2, <1>3, CallKeepsDay

LEMMA SelectRangeKeeps == QueryInv /\ Q!SelectRange => QueryInv' /\ toolCall'.topic = toolCall.topic
<1> SUFFICES ASSUME QueryInv, Q!SelectRange PROVE QueryInv' /\ toolCall'.topic = toolCall.topic
  OBVIOUS
<1> DEFINE days == {day \in Q!Common(tool.needs) : toolCall.asked = None \/ day <= toolCall.asked}
           newest == IF days = {} THEN None ELSE Q!Max(days)
<1>1. /\ toolCall.phase = "resolve" /\ tool.form = "range" /\ toolCall \in QueryCalls
      /\ toolCall' = [toolCall EXCEPT !.phase = "done", !.result = "answered", !.day = newest]
      /\ UNCHANGED <<tool, releases, names, snapshots>>
  BY DEF Q!SelectRange, QueryInv, QueryTypes
<1>2. /\ Q!Common(tool.needs) = Q!Complete(tool.needs) /\ days \in SUBSET Dates
      /\ \A d \in days : Shown(d)
  BY ShownIsComplete
<1>3. /\ newest # None => newest \in days
      /\ \A d \in days : newest # None /\ d <= newest
  <2>1. CASE days = {}
    BY <2>1
  <2>2. CASE days # {}
    <3>1. newest \in days /\ \A d \in days : d <= newest
      BY <1>2, <2>2, LatestOf
    <3>2. newest # None
      BY <1>2, <3>1, QueryDates
    <3> QED BY <3>1, <3>2
  <2> QED BY <2>1, <2>2
<1>4. newest \in Dates \cup {None}
  BY <1>2, <1>3
<1> HIDE DEF newest
<1>5. /\ toolCall' \in QueryCalls /\ toolCall'.phase = "done" /\ toolCall'.topic = toolCall.topic
      /\ toolCall'.asked = toolCall.asked /\ toolCall'.ready = toolCall.ready /\ toolCall'.withdrawn = toolCall.withdrawn
      /\ toolCall'.day = newest
  BY <1>1, <1>4 DEF QueryCalls
<1>6. ReadyStays' /\ MonthIsRight' /\ NoDayYet'
  BY <1>1, <1>5, CompleteStays DEF QueryInv, ReadyStays, MonthIsRight, NoDayYet
<1>7. toolCall.ready \ TakenBack \subseteq Q!Complete(tool.needs)
  BY DEF QueryInv, ReadyStays
<1>8. RightDay'
  BY <1>1, <1>2, <1>3, <1>5, <1>7, CompleteStays DEF RightDay
<1> QED BY <1>1, <1>5, <1>6, <1>8, CallMoves

LEMMA ReleasedIs ==
    ASSUME QueryTypes, NEW d
    PROVE  Q!Released(d) = {day \in Dates : <<d, day>> \in releases}
<1>1. \A r \in releases : r = <<r[1], r[2]>> /\ r[2] \in Dates
  BY DEF QueryTypes
<1> QED BY <1>1 DEF Q!Released

LEMMA ResolveMonthKeeps == QueryInv /\ Q!ResolveMonth => QueryInv' /\ toolCall'.topic = toolCall.topic
<1> SUFFICES ASSUME QueryInv, Q!ResolveMonth PROVE QueryInv' /\ toolCall'.topic = toolCall.topic
  OBVIOUS
<1> DEFINE months == {m \in Q!Released("market_index_weight") : toolCall.asked = None \/ m <= toolCall.asked}
           month == Q!Max(months)
<1>1. /\ toolCall.phase = "resolve" /\ tool.form = "month" /\ toolCall \in QueryCalls /\ toolCall.result = None
      /\ UNCHANGED <<tool, releases, names, snapshots>>
      /\ \/ toolCall' = [toolCall EXCEPT !.phase = "done", !.result = "not_ready"]
         \/ months # {} /\ toolCall' = [toolCall EXCEPT !.phase = "pick", !.day = month]
  BY DEF Q!ResolveMonth, Q!Ends, QueryInv, QueryTypes
<1>2. Q!Released("market_index_weight") = {day \in Dates : <<"market_index_weight", day>> \in releases}
  BY ReleasedIs DEF QueryInv
<1>3. CASE toolCall' = [toolCall EXCEPT !.phase = "done", !.result = "not_ready"]
  <2>1. /\ toolCall' \in QueryCalls /\ toolCall'.phase = "done" /\ toolCall'.topic = toolCall.topic
        /\ toolCall'.ready = toolCall.ready /\ toolCall'.withdrawn = toolCall.withdrawn
    BY <1>1, <1>3 DEF QueryCalls
  <2>2. ReadyStays' /\ MonthIsRight' /\ NoDayYet' /\ ~DayIsResolved'
    BY <1>1, <2>1, CompleteStays DEF QueryInv, ReadyStays, MonthIsRight, NoDayYet, DayIsResolved
  <2> QED BY <1>1, <2>1, <2>2, CallMoves
<1>4. CASE months # {} /\ toolCall' = [toolCall EXCEPT !.phase = "pick", !.day = month]
  <2>1. months \in SUBSET Dates
    BY <1>2
  <2>2. month \in months
    BY <1>4, <2>1, LatestOf
  <2>3. month \in Dates /\ <<"market_index_weight", month>> \in releases
        /\ (toolCall.asked # None => month <= toolCall.asked)
    BY <1>2, <2>2
  <2> HIDE DEF month
  <2>4. /\ toolCall' \in QueryCalls /\ toolCall'.phase = "pick" /\ toolCall'.topic = toolCall.topic
        /\ toolCall'.ready = toolCall.ready /\ toolCall'.withdrawn = toolCall.withdrawn
        /\ toolCall'.asked = toolCall.asked /\ toolCall'.day = month
        /\ toolCall'.result = None
    BY <1>1, <1>4, <2>3 DEF QueryCalls
  <2>5. ReadyStays' /\ MonthIsRight' /\ NoDayYet' /\ ~DayIsResolved'
    BY <1>1, <2>3, <2>4, CompleteStays DEF QueryInv, ReadyStays, MonthIsRight, NoDayYet, DayIsResolved
  <2> QED BY <1>1, <2>4, <2>5, CallMoves
<1> QED BY <1>1, <1>3, <1>4

LEMMA PickKeeps ==
    ASSUME QueryInv, Q!Pick
    PROVE  QueryInv' /\ toolCall'.topic = toolCall.topic /\ Q!PickedWell
<1> DEFINE found == Q!Pickable(toolCall.day)
           day == Q!Max(found)
<1>1. /\ toolCall.phase = "pick" /\ tool.form = "month" /\ toolCall \in QueryCalls /\ toolCall.result = None
      /\ toolCall.day \in Dates /\ <<"market_index_weight", toolCall.day>> \in releases
      /\ toolCall.asked # None => toolCall.day <= toolCall.asked
      /\ UNCHANGED <<tool, releases, names, snapshots>>
  BY DEF Q!Pick, QueryInv, QueryTypes, MonthIsRight
<1>2. \/ Q!Ends("not_found")
      \/ found # {} /\ toolCall' = [toolCall EXCEPT !.day = day, !.phase = "done", !.result = "answered"]
  BY DEF Q!Pick
<1>3. CASE Q!Ends("not_found")
  <2>1. toolCall'.result = "not_found"
    BY <1>1, <1>3 DEF Q!Ends, QueryCalls
  <2> QED BY <1>1, <1>3, <2>1, CallEnds DEF Q!PickedWell
<1>4. CASE found # {} /\ toolCall' = [toolCall EXCEPT !.day = day, !.phase = "done", !.result = "answered"]
  <2>1. \A d : d \in found <=> (\E m \in FirstDays : d \in snapshots[m]) /\ d <= toolCall.day
    BY DEF Q!Pickable
  <2>2. \A m \in FirstDays : snapshots[m] \subseteq Dates /\ snapshots[m] \subseteq Q!InMonth(m)
    BY DEF QueryInv, QueryTypes
  <2>3. found \in SUBSET Dates
    BY <2>1, <2>2
  <2> HIDE DEF found
  <2>4. day \in found /\ \A d \in found : d <= day
    BY <1>4, <2>3, LatestOf
  <2> HIDE DEF day
  <2>5. /\ toolCall' \in QueryCalls /\ toolCall'.phase = "done" /\ toolCall'.topic = toolCall.topic
        /\ toolCall'.ready = toolCall.ready /\ toolCall'.withdrawn = toolCall.withdrawn
        /\ toolCall'.day = day
    BY <1>1, <1>4, <2>3, <2>4 DEF QueryCalls
  <2>6. ReadyStays' /\ MonthIsRight' /\ NoDayYet' /\ ~DayIsResolved'
    BY <1>1, <2>5, CompleteStays DEF QueryInv, ReadyStays, MonthIsRight, NoDayYet, DayIsResolved
  <2>7. Q!PickedWell
    <3>1. toolCall.asked # None => day <= toolCall.asked
      <4>1. day <= toolCall.day /\ day \in Nat /\ toolCall.day \in Nat
        BY <1>1, <2>1, <2>3, <2>4, QueryDates
      <4>2. toolCall.asked # None => toolCall.asked \in Nat
        BY <1>1, QueryDates DEF QueryCalls
      <4> QED BY <1>1, <4>1, <4>2
    <3>2. \E m \in Q!Released("market_index_weight") : day \in Q!InMonth(m)
      <4>1. PICK m \in FirstDays : day \in snapshots[m]
        BY <2>1, <2>4
      <4>2. <<"market_index_weight", m>> \in releases
        BY <1>1, <4>1 DEF QueryInv, MonthsReleased
      <4>3. m \in Q!Released("market_index_weight")
        BY <4>2, ReleasedIs, QueryDates DEF QueryInv
      <4> QED BY <2>2, <4>1, <4>3
    <3>3. ASSUME NEW m \in FirstDays, m < toolCall.day, NEW d \in snapshots[m] PROVE d <= day
      <4>1. toolCall.day \in FirstDays
        <5>1. <<"market_index_weight", toolCall.day>>[2] = toolCall.day
          OBVIOUS
        <5> QED BY <1>1, <5>1 DEF QueryInv, MonthsReleased
      <4>2. d \in Q!InMonth(m) /\ d \in Nat /\ m \in Nat /\ toolCall.day \in Nat
        BY <1>1, <2>2, <3>3, QueryDates
      <4>3. toolCall.day > m
        BY <3>3, <4>2
      <4>4. d < toolCall.day
        BY <4>1, <4>2, <4>3 DEF Q!InMonth
      <4>5. d <= toolCall.day
        BY <4>2, <4>4
      <4>6. d \in found
        BY <2>1, <3>3, <4>5
      <4> QED BY <2>4, <4>6
    <3> QED BY <2>5, <3>1, <3>2, <3>3 DEF Q!PickedWell
  <2> QED BY <1>1, <2>5, <2>6, <2>7, CallMoves
<1> QED BY <1>2, <1>3, <1>4

LEMMA QueryStepHolds == QueryInv /\ (Q!Next \/ UNCHANGED queryVars) => QueryInv'
<1> SUFFICES ASSUME QueryInv, Q!Next \/ UNCHANGED queryVars PROVE QueryInv'
  OBVIOUS
<1>1. CASE UNCHANGED queryVars
  <2>1. tool' = tool /\ releases' = releases /\ names' = names /\ snapshots' = snapshots /\ toolCall' = toolCall
    BY <1>1 DEF queryVars
  <2> QED BY <2>1, CompleteStays DEF QueryInv, QueryTypes, Q!InMonth, QueryCalls, MadeAfter, MonthsReleased, ReadyStays,
                   NoDayYet, MonthIsRight, DayIsResolved, RightDay
<1>2. CASE Q!Next
  BY <1>2, PublishReleases, PublishTopicsKeeps, PublishWeightsReleases, BeginCallKeeps, ResolveKeeps, FindTopicKeeps,
     FindByPartKeeps, SelectKeeps, SelectRangeKeeps, ResolveMonthKeeps, PickKeeps DEF Q!Next
<1> QED BY <1>1, <1>2

LEMMA TopicIsTheOnly == QueryInv /\ (Q!Next \/ UNCHANGED queryVars) => Q!OnlyMatch
<1> SUFFICES ASSUME QueryInv, Q!Next \/ UNCHANGED queryVars, toolCall'.topic # toolCall.topic
             PROVE  \A t \in Topics \ {toolCall'.topic} :
                        names[t] \notin {"name", IF toolCall.phase = "fuzzy" THEN "part_of_the_name" ELSE "code"}
  BY DEF Q!OnlyMatch
<1>1. Q!FindTopic \/ Q!FindByPart
  <2>1. toolCall' # toolCall
    OBVIOUS
  <2>2. ~(UNCHANGED queryVars)
    BY <2>1 DEF queryVars
  <2>3. /\ \A d \in tool.needs \cup tool.shows, day \in TradeDays : ~Q!Publish(d, day)
        /\ \A m, dates : ~Q!PublishWeights(m, dates)
        /\ ~Q!PublishTopics
    BY <2>1, PublishReleases DEF Q!PublishWeights, Q!PublishTopics
  <2> QED BY <2>2, <2>3, BeginCallKeeps, ResolveKeeps, SelectKeeps, SelectRangeKeeps, ResolveMonthKeeps, PickKeeps
          DEF Q!Next
<1>2. CASE Q!FindTopic
  <2>1. toolCall.phase = "topic"
    BY <1>2 DEF Q!FindTopic
  <2> QED BY <1>2, <2>1, FindTopicKeeps
<1>3. CASE Q!FindByPart
  <2>1. toolCall.phase = "fuzzy"
    BY <1>3 DEF Q!FindByPart
  <2> QED BY <1>3, <2>1, FindByPartKeeps
<1> QED BY <1>1, <1>2, <1>3

LEMMA PickIsRight == QueryInv /\ (Q!Next \/ UNCHANGED queryVars) => Q!PickedWell
<1> SUFFICES ASSUME QueryInv, Q!Next \/ UNCHANGED queryVars, toolCall.phase = "pick", toolCall'.result = "answered"
             PROVE  Q!PickedWell
  BY DEF Q!PickedWell
<1>1. toolCall' # toolCall /\ toolCall'.result # toolCall.result
  BY QueryDates DEF QueryInv, QueryTypes
<1>2. ~(UNCHANGED queryVars)
  BY <1>1 DEF queryVars
<1>3. /\ \A d \in tool.needs \cup tool.shows, day \in TradeDays : ~Q!Publish(d, day)
      /\ \A m, dates : ~Q!PublishWeights(m, dates)
      /\ ~Q!PublishTopics
  BY <1>1, PublishReleases DEF Q!PublishWeights, Q!PublishTopics
<1>4. ~Q!Begin /\ ~Q!Resolve /\ ~Q!FindTopic /\ ~Q!FindByPart /\ ~Q!Select /\ ~Q!SelectRange /\ ~Q!ResolveMonth
  BY DEF Q!Begin, Q!Resolve, Q!FindTopic, Q!FindByPart, Q!Select, Q!SelectRange, Q!ResolveMonth
<1> QED BY <1>2, <1>3, <1>4, PickKeeps DEF Q!Next

LEMMA QueriesHold == QueryInv => Q!TypeOK /\ Q!NothingUnpublished /\ Q!NewestComplete
<1> SUFFICES ASSUME QueryInv PROVE Q!TypeOK /\ Q!NothingUnpublished /\ Q!NewestComplete
  OBVIOUS
<1>1. Q!TypeOK
  BY DEF QueryInv, QueryTypes, SoundTool, QueryCalls, Q!TypeOK
<1>2. tool.form # "month" /\ toolCall.result \in {"answered", "not_ready"} => RightDay
  BY DEF QueryInv, DayIsResolved
<1>3. Q!NothingUnpublished
  <2>1. ASSUME NEW d, <<d, toolCall.day>> \in releases PROVE toolCall.day \in Q!Released(d)
    <3>1. <<d, toolCall.day>>[1] = d /\ <<d, toolCall.day>>[2] = toolCall.day
      OBVIOUS
    <3> QED BY <2>1, <3>1 DEF Q!Released
  <2> QED BY <1>2, <2>1 DEF RightDay, Shown, Limits, Q!NothingUnpublished, Q!Answered
<1>4. Q!NewestComplete
  <2>1. {d \in toolCall.ready : "stock_daily.limit" \in tool.needs => d \notin toolCall.withdrawn}
            = toolCall.ready \ TakenBack
    BY DEF TakenBack, Limits
  <2> QED BY <1>2, <2>1 DEF RightDay, Q!NewestComplete, Q!Answered
<1> QED BY <1>1, <1>3, <1>4

-----------------------------------------------------------------------------
(* RowQuality.  The number of stocks of some kinds is a sum over a finite  *)
(* set, which is as the sums of any two parts of it whatever order the     *)
(* kinds are taken in.  Induction over the set is by a least               *)
(* counterexample.                                                         *)

LEMMA LeastSubset ==
    ASSUME NEW K, IsFiniteSet(K), NEW bad \in SUBSET SUBSET K, bad # {}
    PROVE  \E T \in bad : \A z \in T : T \ {z} \notin bad
<1>1. FiniteSubsetsOf(K) = SUBSET K
  BY FS_FiniteSubsetsOfFinite
<1>2. IsWellFoundedOn(StrictSubsetOrdering(K), SUBSET K)
  BY <1>1, FS_StrictSubsetOrderingWellFounded
<1>3. PICK T \in bad : \A V \in SUBSET K : <<V, T>> \in StrictSubsetOrdering(K) => V \notin bad
  BY <1>2, WFMin, Zenon
<1>4. ASSUME NEW z \in T PROVE T \ {z} \notin bad
  <2>1. T \in SUBSET K /\ T \ {z} \in SUBSET K /\ T \ {z} \subseteq T /\ T \ {z} # T
    OBVIOUS
  <2>2. <<T \ {z}, T>> \in StrictSubsetOrdering(K)
    BY <2>1 DEF StrictSubsetOrdering
  <2> QED BY <1>3, <2>1, <2>2
<1> QED BY <1>4

\* A sum over the subsets of T, to which any element may be added last.
AddsUp(n, T, sum) ==
    /\ sum \in [SUBSET T -> Nat]
    /\ sum[{}] = 0
    /\ \A s \in SUBSET T : \A x \in s : sum[s] = n[x] + sum[s \ {x}]

LEMMA SumExists ==
    ASSUME NEW K, IsFiniteSet(K), NEW n \in [K -> Nat]
    PROVE  \E sum : AddsUp(n, K, sum)
<1> DEFINE bad == {T \in SUBSET K : ~ \E sum : AddsUp(n, T, sum)}
<1> SUFFICES ASSUME bad # {} PROVE FALSE
  OBVIOUS
<1>1. PICK T \in bad : \A z \in T : T \ {z} \notin bad
  <2> HIDE DEF bad
  <2>1. bad \in SUBSET SUBSET K
    BY DEF bad
  <2> QED BY <2>1, LeastSubset
<1>2. T # {}
  <2>1. AddsUp(n, {}, [s \in SUBSET {} |-> 0])
    BY DEF AddsUp
  <2> QED BY <2>1
<1>3. PICK z \in T : TRUE
  BY <1>2
<1>4. PICK g : AddsUp(n, T \ {z}, g)
  BY <1>1, <1>3
<1> DEFINE h == [s \in SUBSET T |-> g[s \ {z}] + (IF z \in s THEN n[z] ELSE 0)]
<1>5. n[z] \in Nat /\ \A s \in SUBSET T : s \ {z} \in SUBSET (T \ {z}) /\ g[s \ {z}] \in Nat
  BY <1>4 DEF AddsUp
<1>6. h \in [SUBSET T -> Nat]
  <2>1. \A s \in SUBSET T : g[s \ {z}] + (IF z \in s THEN n[z] ELSE 0) \in Nat
    <3>1. \A s \in SUBSET T : g[s \ {z}] \in Nat /\ n[z] \in Nat
      BY <1>5
    <3>2. \A a, d \in Nat : \A b \in BOOLEAN : a + (IF b THEN d ELSE 0) \in Nat
      OBVIOUS
    <3> QED BY <3>1, <3>2
  <2> QED BY <2>1
<1>7. h[{}] = 0
  <2>1. {} \ {z} = {} /\ {} \in SUBSET T
    OBVIOUS
  <2>2. h[{}] = g[{}] + 0
    BY <2>1
  <2> QED BY <2>2, <1>4 DEF AddsUp
<1>8. ASSUME NEW s \in SUBSET T, NEW x \in s PROVE h[s] = n[x] + h[s \ {x}]
  <2>1. CASE x = z
    <3>1. (s \ {z}) \ {z} = s \ {z} /\ s \ {z} \in SUBSET T
      OBVIOUS
    <3>2. h[s] = g[s \ {z}] + n[z] /\ h[s \ {z}] = g[s \ {z}] + 0
      BY <2>1, <3>1
    <3> QED BY <2>1, <3>2, <1>5
  <2>2. CASE x # z
    <3>1. (s \ {x}) \ {z} = (s \ {z}) \ {x} /\ s \ {x} \in SUBSET T /\ x \in s \ {z}
      BY <2>2
    <3>2. g[s \ {z}] = n[x] + g[(s \ {z}) \ {x}]
      BY <1>4, <1>5, <3>1 DEF AddsUp
    <3>3. /\ h[s] = g[s \ {z}] + (IF z \in s THEN n[z] ELSE 0)
          /\ h[s \ {x}] = g[(s \ {z}) \ {x}] + (IF z \in s THEN n[z] ELSE 0)
      BY <2>2, <3>1
    <3>4. n[x] \in Nat /\ g[(s \ {z}) \ {x}] \in Nat
      BY <1>5, <3>1
    <3> QED BY <3>2, <3>3, <3>4, <1>5
  <2> QED BY <2>1, <2>2
<1> HIDE DEF h
<1>9. AddsUp(n, T, h)
  BY <1>6, <1>7, <1>8 DEF AddsUp
<1> QED BY <1>1, <1>9

\* The code's sum is that one: taking some element of a set last is as good as any.
LEMMA NumberIs ==
    ASSUME NEW K, IsFiniteSet(K), NEW n, NEW sum, AddsUp(n, K, sum), NEW S \in SUBSET K
    PROVE  U!Number(n, S) = sum[S]
<1> DEFINE some(s) == CHOOSE x \in s : TRUE
           step(it) == [s \in SUBSET S |-> IF s = {} THEN 0 ELSE n[some(s)] + it[s \ {some(s)}]]
           it_ == CHOOSE it : it = step(it)
           part_ == [s \in SUBSET S |-> sum[s]]
<1>1. U!Number(n, S) = it_[S]
  BY DEF U!Number, U!MapThenSumSet, U!MapThenFoldSet
<1>2. \A s \in SUBSET S : s # {} => some(s) \in s /\ s \ {some(s)} \in SUBSET S /\ s \in SUBSET K
  OBVIOUS
<1> HIDE DEF some
<1>3. part_ = step(part_)
  <2>1. ASSUME NEW s \in SUBSET S
        PROVE  sum[s] = IF s = {} THEN 0 ELSE n[some(s)] + part_[s \ {some(s)}]
    BY <1>2 DEF AddsUp
  <2> QED BY <2>1
<1>4. it_ = step(it_)
  <2> HIDE DEF step, part_
  <2> QED BY <1>3
<1> HIDE DEF it_
<1>5. \A s \in SUBSET S : it_[s] = IF s = {} THEN 0 ELSE n[some(s)] + it_[s \ {some(s)}]
  BY <1>4
<1> DEFINE bad == {s \in SUBSET S : it_[s] # sum[s]}
<1>6. bad = {}
  <2> SUFFICES ASSUME bad # {} PROVE FALSE
    OBVIOUS
  <2>1. IsFiniteSet(S)
    BY FS_Subset
  <2>2. PICK t \in bad : \A z \in t : t \ {z} \notin bad
    <3> HIDE DEF bad
    <3>1. bad \in SUBSET SUBSET S
      BY DEF bad
    <3> QED BY <2>1, <3>1, LeastSubset
  <2>3. t \in SUBSET S /\ it_[t] # sum[t]
    BY <2>2
  <2>4. CASE t = {}
    BY <1>5, <2>3, <2>4 DEF AddsUp
  <2>5. CASE t # {}
    <3>1. some(t) \in t /\ t \ {some(t)} \in SUBSET S /\ t \in SUBSET K
      BY <1>2, <2>3, <2>5
    <3>2. it_[t \ {some(t)}] = sum[t \ {some(t)}]
      BY <2>2, <3>1
    <3>3. sum[t] = n[some(t)] + sum[t \ {some(t)}]
      BY <3>1 DEF AddsUp
    <3> QED BY <1>5, <2>3, <2>5, <3>2, <3>3
  <2> QED BY <2>4, <2>5
<1> QED BY <1>1, <1>6

LEMMA Numbers ==
    ASSUME NEW K, IsFiniteSet(K), NEW n \in [K -> Nat]
    PROVE  /\ U!Number(n, {}) = 0
           /\ \A S \in SUBSET K : U!Number(n, S) \in Nat
           /\ \A S \in SUBSET K : \A x \in S : U!Number(n, S) = n[x] + U!Number(n, S \ {x})
<1>1. PICK sum : AddsUp(n, K, sum)
  BY SumExists
<1>2. \A S \in SUBSET K : U!Number(n, S) = sum[S]
  BY <1>1, NumberIs
<1>3. \A S \in SUBSET K : \A x \in S : S \ {x} \in SUBSET K
  OBVIOUS
<1> QED BY <1>1, <1>2, <1>3 DEF AddsUp

LEMMA NumberOfUnion ==
    ASSUME NEW K, IsFiniteSet(K), NEW n \in [K -> Nat], NEW A \in SUBSET K, NEW D \in SUBSET K, A \cap D = {}
    PROVE  U!Number(n, A \cup D) = U!Number(n, A) + U!Number(n, D)
<1> DEFINE bad == {T \in SUBSET D : U!Number(n, A \cup T) # U!Number(n, A) + U!Number(n, T)}
<1> SUFFICES ASSUME bad # {} PROVE FALSE
  OBVIOUS
<1>1. IsFiniteSet(D)
  BY FS_Subset
<1>2. PICK T \in bad : \A z \in T : T \ {z} \notin bad
  <2> HIDE DEF bad
  <2>1. bad \in SUBSET SUBSET D
    BY DEF bad
  <2> QED BY <1>1, <2>1, LeastSubset
<1>3. T \in SUBSET D /\ U!Number(n, A \cup T) # U!Number(n, A) + U!Number(n, T)
  BY <1>2
<1>4. CASE T = {}
  <2>1. A \cup T = A
    BY <1>4
  <2> QED BY <1>3, <1>4, <2>1, Numbers
<1>5. CASE T # {}
  <2>1. PICK z \in T : TRUE
    BY <1>5
  <2>2. U!Number(n, A \cup (T \ {z})) = U!Number(n, A) + U!Number(n, T \ {z})
    BY <1>2, <2>1
  <2>3. (A \cup T) \ {z} = A \cup (T \ {z}) /\ A \cup T \in SUBSET K /\ T \in SUBSET K /\ T \ {z} \in SUBSET K
    BY <1>3, <2>1
  <2>4. U!Number(n, A \cup T) = n[z] + U!Number(n, A \cup (T \ {z}))
    BY <2>1, <2>3, Numbers
  <2>5. U!Number(n, T) = n[z] + U!Number(n, T \ {z})
    BY <2>1, <2>3, Numbers
  <2>6. n[z] \in Nat /\ U!Number(n, A) \in Nat /\ U!Number(n, T \ {z}) \in Nat
    BY <2>1, <2>3, Numbers
  <2> QED BY <1>3, <2>2, <2>4, <2>5, <2>6
<1> QED BY <1>4, <1>5

LEMMA NumberOfParts ==
    ASSUME NEW K, IsFiniteSet(K), NEW n \in [K -> Nat], NEW S \in SUBSET K,
           NEW A \in SUBSET K, NEW D \in SUBSET K, A \cap D = {}, A \cup D = S
    PROVE  U!Number(n, S) = U!Number(n, A) + U!Number(n, D)
<1>1. U!Number(n, A \cup D) = U!Number(n, A) + U!Number(n, D)
  BY NumberOfUnion
<1> QED BY <1>1, Zenon

LEMMA NumberGrows ==
    ASSUME NEW K, IsFiniteSet(K), NEW n \in [K -> Nat], NEW A \in SUBSET K, NEW D, D \subseteq A
    PROVE  U!Number(n, D) <= U!Number(n, A)
<1> DEFINE E == A \ D
<1>1. D \in SUBSET K /\ E \in SUBSET K /\ D \cap E = {} /\ D \cup E = A
  OBVIOUS
<1> HIDE DEF E
<1>2. U!Number(n, A) = U!Number(n, D) + U!Number(n, E)
  BY <1>1, NumberOfParts
<1>3. U!Number(n, E) \in Nat /\ U!Number(n, D) \in Nat
  BY <1>1, Numbers
<1> QED BY <1>2, <1>3

\* Sums of the same numbers are the same.
LEMMA SameNumber ==
    ASSUME NEW K, IsFiniteSet(K), NEW n \in [K -> Nat], NEW m \in [K -> Nat], NEW S \in SUBSET K,
           \A k \in S : n[k] = m[k]
    PROVE  U!Number(n, S) = U!Number(m, S)
<1> DEFINE bad == {T \in SUBSET S : U!Number(n, T) # U!Number(m, T)}
<1> SUFFICES ASSUME bad # {} PROVE FALSE
  OBVIOUS
<1>1. IsFiniteSet(S)
  BY FS_Subset
<1>2. PICK T \in bad : \A z \in T : T \ {z} \notin bad
  <2> HIDE DEF bad
  <2>1. bad \in SUBSET SUBSET S
    BY DEF bad
  <2> QED BY <1>1, <2>1, LeastSubset
<1>3. T \in SUBSET S /\ U!Number(n, T) # U!Number(m, T)
  BY <1>2
<1>4. CASE T = {}
  BY <1>3, <1>4, Numbers
<1>5. CASE T # {}
  <2>1. PICK z \in T : TRUE
    BY <1>5
  <2>2. U!Number(n, T \ {z}) = U!Number(m, T \ {z})
    BY <1>2, <2>1
  <2>3. T \in SUBSET K
    BY <1>3
  <2>4. U!Number(n, T) = n[z] + U!Number(n, T \ {z})
    BY <2>1, <2>3, Numbers
  <2>5. U!Number(m, T) = m[z] + U!Number(m, T \ {z})
    BY <2>1, <2>3, Numbers
  <2> QED BY <1>3, <2>1, <2>2, <2>4, <2>5
<1> QED BY <1>4, <1>5

\* Sums of smaller numbers are smaller.
LEMMA NumberBelow ==
    ASSUME NEW K, IsFiniteSet(K), NEW n \in [K -> Nat], NEW m \in [K -> Nat], NEW S \in SUBSET K,
           \A k \in S : n[k] <= m[k]
    PROVE  U!Number(n, S) <= U!Number(m, S)
<1> DEFINE bad == {T \in SUBSET S : ~(U!Number(n, T) <= U!Number(m, T))}
<1> SUFFICES ASSUME bad # {} PROVE FALSE
  OBVIOUS
<1>1. IsFiniteSet(S)
  BY FS_Subset
<1>2. PICK T \in bad : \A z \in T : T \ {z} \notin bad
  <2> HIDE DEF bad
  <2>1. bad \in SUBSET SUBSET S
    BY DEF bad
  <2> QED BY <1>1, <2>1, LeastSubset
<1>3. T \in SUBSET S /\ ~(U!Number(n, T) <= U!Number(m, T))
  BY <1>2
<1>4. CASE T = {}
  <2>1. U!Number(n, {}) = 0 /\ U!Number(m, {}) = 0
    BY Numbers
  <2> QED BY <1>3, <1>4, <2>1
<1>5. CASE T # {}
  <2>1. PICK z \in T : TRUE
    BY <1>5
  <2>2. U!Number(n, T \ {z}) <= U!Number(m, T \ {z})
    BY <1>2, <2>1
  <2>3. T \in SUBSET K /\ T \ {z} \in SUBSET K
    BY <1>3
  <2>4. U!Number(n, T) = n[z] + U!Number(n, T \ {z})
    BY <2>1, <2>3, Numbers
  <2>5. U!Number(m, T) = m[z] + U!Number(m, T \ {z})
    BY <2>1, <2>3, Numbers
  <2>6. n[z] <= m[z] /\ n[z] \in Nat /\ m[z] \in Nat
    BY <1>3, <2>1
  <2>7. U!Number(n, T \ {z}) \in Nat /\ U!Number(m, T \ {z}) \in Nat
    BY <2>3, Numbers
  <2> QED BY <1>3, <2>2, <2>4, <2>5, <2>6, <2>7
<1> QED BY <1>4, <1>5

LEMMA NumberZero ==
    ASSUME NEW K, IsFiniteSet(K), NEW n \in [K -> Nat], NEW S \in SUBSET K, \A k \in S : n[k] = 0
    PROVE  U!Number(n, S) = 0
<1> DEFINE sum == [T \in SUBSET K |-> 0]
           zero == [k \in K |-> 0]
<1>1. AddsUp(zero, K, sum)
  BY DEF AddsUp
<1>2. U!Number(zero, S) = sum[S]
  <2> HIDE DEF sum, zero
  <2> QED BY <1>1, NumberIs
<1>3. zero \in [K -> Nat] /\ \A k \in S : n[k] = zero[k]
  OBVIOUS
<1>4. U!Number(n, S) = U!Number(zero, S)
  <2> HIDE DEF zero
  <2> QED BY <1>3, SameNumber
<1> QED BY <1>2, <1>4

LEMMA FiveFinite == \A a, b, c, d, e : IsFiniteSet({a, b, c, d, e})
<1> SUFFICES ASSUME NEW a, NEW b, NEW c, NEW d, NEW e PROVE IsFiniteSet({a, b, c, d, e})
  OBVIOUS
<1>1. IsFiniteSet({a})
  BY FS_Singleton
<1>2. IsFiniteSet({a} \cup {b})
  BY <1>1, FS_AddElement
<1>3. IsFiniteSet(({a} \cup {b}) \cup {c})
  BY <1>2, FS_AddElement
<1>4. IsFiniteSet((({a} \cup {b}) \cup {c}) \cup {d})
  BY <1>3, FS_AddElement
<1>5. IsFiniteSet(((({a} \cup {b}) \cup {c}) \cup {d}) \cup {e})
  BY <1>4, FS_AddElement
<1>6. ((({a} \cup {b}) \cup {c}) \cup {d}) \cup {e} = {a, b, c, d, e}
  OBVIOUS
<1> QED BY <1>5, <1>6

LEMMA KindsFinite == IsFiniteSet(U!Kinds)
<1> DEFINE prices == {"moved", "flat", "no_pre_close", "invalid", "none"}
           basics == {"today", "before", "other", "none"}
           all_ == BOOLEAN \X (prices \X basics)
           f == [k \in U!Kinds |-> <<k.bj, <<k.price, k.basic>>>>]
<1>1. \A k \in U!Kinds : k \in [bj : BOOLEAN, price : prices, basic : basics]
  BY DEF U!Kinds
<1>2. IsFiniteSet(all_)
  <2>1. IsFiniteSet(BOOLEAN)
    <3>1. IsFiniteSet({TRUE} \cup {FALSE})
      BY FS_Singleton, FS_Union
    <3> QED BY <3>1
  <2>2. IsFiniteSet(prices)
    BY FiveFinite
  <2>3. IsFiniteSet(basics)
    <3>1. IsFiniteSet({"today", "before", "other", "none", "none"})
      BY FiveFinite
    <3>2. basics = {"today", "before", "other", "none", "none"}
      OBVIOUS
    <3> QED BY <3>1, <3>2
  <2> HIDE DEF prices, basics
  <2> QED BY <2>1, <2>2, <2>3, FS_Product
<1>3. f \in Injection(U!Kinds, all_)
  <2>1. f \in [U!Kinds -> all_]
    BY <1>1
  <2>2. \A k, l \in U!Kinds : f[k] = f[l] => k = l
    <3> SUFFICES ASSUME NEW k \in U!Kinds, NEW l \in U!Kinds, f[k] = f[l] PROVE k = l
      OBVIOUS
    <3>1. k.bj = l.bj /\ k.price = l.price /\ k.basic = l.basic
      OBVIOUS
    <3> QED BY <1>1, <3>1
  <2> HIDE DEF f, all_
  <2> QED BY <2>1, <2>2 DEF Injection, IsInjective
<1> HIDE DEF f, all_
<1> QED BY <1>2, <1>3, FS_Injection

\* One in a hundred, at least one and at most twenty.
LEMMA FewAllowed ==
    ASSUME NEW number \in Nat, NEW issues \in Nat, NEW valid \in Nat, ~U!TooMany(number, valid, issues)
    PROVE  issues <= 20 /\ (issues > 1 => 100 * issues <= number)
<1> DEFINE hundredth == number \div 100
           most == U!Max({1, hundredth})
<1>1. hundredth \in Nat /\ 100 * hundredth <= number
  OBVIOUS
<1> HIDE DEF hundredth
<1>2. most \in {1, hundredth}
  <2>1. \E x \in {1, hundredth} : \A y \in {1, hundredth} : x >= y
    BY <1>1
  <2> QED BY <2>1 DEF U!Max
<1> HIDE DEF most
<1>3. U!Min({20, most}) \in {20, most} /\ U!Min({20, most}) <= 20 /\ U!Min({20, most}) <= most
  <2>1. \E x \in {20, most} : \A y \in {20, most} : x =< y
    BY <1>1, <1>2
  <2>2. U!Min({20, most}) \in {20, most} /\ \A y \in {20, most} : U!Min({20, most}) =< y
    BY <2>1 DEF U!Min
  <2> QED BY <2>2
<1>4. U!Allowed(number) = U!Min({20, most})
  BY DEF U!Allowed, most, hundredth
<1>5. issues = 0 \/ issues <= U!Min({20, most})
  <2>1. U!Min({20, most}) \in Nat
    BY <1>1, <1>2, <1>3
  <2> QED BY <1>4, <2>1 DEF U!TooMany
<1> QED BY <1>1, <1>2, <1>3, <1>5

LEMMA KindSets ==
    ASSUME NEW n
    PROVE  /\ U!Traded \in SUBSET U!Kinds /\ U!Published \in SUBSET U!Traded
           /\ U!Compared \in SUBSET U!Traded /\ U!LikeBefore \in SUBSET U!Compared
           /\ U!Moved \in SUBSET U!Compared /\ U!Enriched(n) \in SUBSET U!Traded
           /\ U!BasicIssues(n) \in SUBSET U!Kinds
BY DEF U!Traded, U!Published, U!Compared, U!LikeBefore, U!Moved, U!Enriched, U!BasicIssues

\* Where the closes tell, no stock of Beijing keeps its figures.
LEMMA QualityOfYesterday ==
    ASSUME NEW n \in [U!Kinds -> Nat], U!Number(n, U!Compared) = U!Number(n, U!LikeBefore),
           U!Number(n, U!Moved) >= 20
    PROVE  \A k \in U!Enriched(n) : ~k.bj
<1> DEFINE like == U!Moved \cap U!LikeBefore
           rest == U!Moved \ U!LikeBefore
           unlike == U!Compared \ U!LikeBefore
<1>1. /\ U!Compared \in SUBSET U!Kinds /\ U!Moved \in SUBSET U!Kinds /\ U!LikeBefore \in SUBSET U!Kinds
      /\ like \in SUBSET U!Kinds /\ rest \in SUBSET U!Kinds /\ unlike \in SUBSET U!Kinds
      /\ rest \subseteq unlike /\ U!Moved \subseteq U!Compared
      /\ like \cap rest = {} /\ like \cup rest = U!Moved
      /\ U!LikeBefore \cap unlike = {} /\ U!LikeBefore \cup unlike = U!Compared
  BY KindSets
<1>2. like = U!Moved \cap U!LikeBefore
  OBVIOUS
<1> HIDE DEF like, rest, unlike
<1>3. /\ U!Number(n, U!Compared) \in Nat /\ U!Number(n, U!Moved) \in Nat /\ U!Number(n, like) \in Nat
      /\ U!Number(n, rest) \in Nat /\ U!Number(n, unlike) \in Nat
  BY <1>1, KindsFinite, Numbers
<1>4. U!Number(n, U!Moved) <= U!Number(n, U!Compared) /\ U!Number(n, rest) <= U!Number(n, unlike)
  BY <1>1, KindsFinite, NumberGrows
<1>5. U!Number(n, U!Compared) = U!Number(n, U!LikeBefore) + U!Number(n, unlike)
  BY <1>1, KindsFinite, NumberOfParts
<1>6. U!Number(n, U!Moved) = U!Number(n, like) + U!Number(n, rest)
  BY <1>1, KindsFinite, NumberOfParts
<1>7. /\ U!Number(n, U!Compared) >= 20 /\ U!Number(n, like) = U!Number(n, U!Moved)
      /\ U!Number(n, like) >= 20
  BY <1>3, <1>4, <1>5, <1>6
<1>8. /\ 100 * U!Number(n, U!LikeBefore) >= 95 * U!Number(n, U!Compared)
      /\ 100 * U!Number(n, like) >= 95 * U!Number(n, U!Moved)
  BY <1>3, <1>7
<1>9. U!Lags(n)
  BY <1>2, <1>7, <1>8 DEF U!Lags
<1> QED BY <1>9 DEF U!Enriched

\* Where no close is one of the day before, all stocks with today's keep their figures.
LEMMA QualityOfToday ==
    ASSUME NEW n \in [U!Kinds -> Nat], U!Number(n, {k \in U!Compared : k.basic = "before"}) = 0
    PROVE  \A k \in U!Traded : k.basic = "today" => k \in U!Enriched(n)
<1> DEFINE old == {k \in U!Compared : k.basic = "before"}
<1>1. /\ U!Moved \cap U!LikeBefore \subseteq old /\ old \in SUBSET U!Kinds
      /\ U!Moved \cap U!LikeBefore \in SUBSET U!Kinds
  BY KindSets DEF U!Moved, U!LikeBefore
<1>2. U!Number(n, U!Moved \cap U!LikeBefore) <= U!Number(n, old)
  <2> HIDE DEF old
  <2> QED BY <1>1, KindsFinite, NumberGrows
<1>3. U!Number(n, U!Moved \cap U!LikeBefore) \in Nat
  BY <1>1, KindsFinite, Numbers
<1>4. ~U!Lags(n)
  BY <1>2, <1>3 DEF U!Lags
<1> QED BY <1>4 DEF U!Enriched

\* Kinds of which there are no stocks do not count.
LEMMA NumberOfSome ==
    ASSUME NEW n \in [U!Kinds -> Nat], NEW S \in SUBSET U!Kinds, NEW T \in SUBSET S,
           \A k \in S \ T : n[k] = 0
    PROVE  U!Number(n, S) = U!Number(n, T)
<1>1. T \in SUBSET U!Kinds /\ S \ T \in SUBSET U!Kinds /\ T \cap (S \ T) = {} /\ T \cup (S \ T) = S
  OBVIOUS
<1>2. U!Number(n, T \cup (S \ T)) = U!Number(n, T) + U!Number(n, S \ T)
  BY <1>1, KindsFinite, NumberOfUnion
<1>3. U!Number(n, S \ T) = 0 /\ U!Number(n, T) \in Nat
  BY <1>1, KindsFinite, NumberZero, Numbers
<1>4. U!Number(n, S) = U!Number(n, T) + U!Number(n, S \ T)
  BY <1>1, <1>2, Zenon
<1> QED BY <1>3, <1>4

\* What a published day lost.
LEMMA QualityBounds ==
    ASSUME NEW n \in [U!Kinds -> Nat], ~U!RefusedCore(n)
    PROVE  LET main == U!Number(n, {k \in U!Traded : ~k.bj})
               bare == U!Number(n, {k \in U!Published : ~k.bj /\ k \notin U!Core(n).enriched})
               out == U!Number(n, U!Traded \ U!Core(n).rows)
           IN  /\ U!Core(n).rows # {}
               /\ bare <= 20 /\ (bare > 1 => 100 * bare <= main)
               /\ out <= 20 /\ (out > 1 => 100 * out <= U!Number(n, U!Traded))
<1> DEFINE rows == U!Core(n).rows
           enriched == U!Core(n).enriched
           mainKinds == {k \in U!Traded : ~k.bj}
           bareKinds == {k \in U!Published : ~k.bj /\ k \notin enriched}
           outKinds == U!Traded \ rows
           some == {k \in bareKinds : n[k] > 0}
           valid == {k \in U!Traded : ~k.bj /\ k \in U!Enriched(n)}
           noPrice == {k \in U!Traded : k.price = "no_pre_close"}
           invalid == {k \in U!Traded : k.price = "invalid"}
<1>1. /\ rows = {k \in U!Published : n[k] > 0}
      /\ enriched = {k \in U!Published \cap U!Enriched(n) : n[k] > 0}
  BY DEF U!Core
<1> HIDE DEF rows, enriched
<1>2. /\ mainKinds \in SUBSET U!Kinds /\ bareKinds \in SUBSET U!Kinds /\ outKinds \in SUBSET U!Kinds
      /\ valid \in SUBSET U!Kinds /\ noPrice \in SUBSET U!Kinds /\ invalid \in SUBSET U!Kinds
      /\ U!BasicIssues(n) \in SUBSET U!Kinds /\ U!Published \in SUBSET U!Kinds /\ U!Traded \in SUBSET U!Kinds
      /\ some \in SUBSET U!Kinds /\ some \subseteq bareKinds /\ rows \in SUBSET U!Kinds /\ rows \subseteq U!Published
  BY <1>1, KindSets
<1>3. /\ U!Number(n, mainKinds) \in Nat /\ U!Number(n, bareKinds) \in Nat /\ U!Number(n, outKinds) \in Nat
      /\ U!Number(n, valid) \in Nat /\ U!Number(n, noPrice) \in Nat /\ U!Number(n, invalid) \in Nat
      /\ U!Number(n, U!BasicIssues(n)) \in Nat /\ U!Number(n, U!Published) \in Nat
      /\ U!Number(n, U!Traded) \in Nat
  <2> HIDE DEF mainKinds, bareKinds, outKinds, valid, noPrice, invalid
  <2> QED BY <1>2, KindsFinite, Numbers
<1>4. /\ U!Number(n, invalid) = 0
      /\ ~U!TooMany(U!Number(n, mainKinds), U!Number(n, valid), U!Number(n, U!BasicIssues(n)))
      /\ ~U!TooMany(U!Number(n, U!Traded), U!Number(n, U!Published), U!Number(n, noPrice))
      /\ U!Number(n, U!Published) # 0
  <2>1. U!Number(n, invalid) = 0
    BY <1>3 DEF U!RefusedCore
  <2> QED BY <2>1 DEF U!RefusedCore
<1>5. rows # {}
  <2> SUFFICES ASSUME rows = {} PROVE FALSE
    OBVIOUS
  <2>1. \A k \in U!Published : n[k] = 0
    BY <1>1, <1>2
  <2> QED BY <2>1, <1>2, <1>4, KindsFinite, NumberZero
<1>6. U!Number(n, bareKinds) <= U!Number(n, U!BasicIssues(n))
  <2>1. some \subseteq U!BasicIssues(n)
    BY <1>1, <1>2, KindSets DEF U!BasicIssues
  <2>2. \A k \in bareKinds \ some : n[k] = 0
    BY <1>2
  <2> HIDE DEF bareKinds, some
  <2>3. U!Number(n, bareKinds) = U!Number(n, some)
    BY <1>2, <2>2, NumberOfSome
  <2>4. U!Number(n, some) <= U!Number(n, U!BasicIssues(n))
    BY <1>2, <2>1, KindsFinite, NumberGrows
  <2> QED BY <2>3, <2>4
<1>7. U!Number(n, outKinds) <= U!Number(n, noPrice)
  <2> DEFINE left == noPrice \cup invalid
  <2>1. /\ left \in SUBSET U!Kinds /\ left \subseteq outKinds /\ noPrice \cap invalid = {}
        /\ \A k \in outKinds \ left : k \in U!Published
    BY <1>1, <1>2 DEF U!Published, U!Traded, U!Kinds
  <2>2. \A k \in outKinds \ left : n[k] = 0
    BY <1>1, <1>2, <2>1
  <2> HIDE DEF outKinds, noPrice, invalid
  <2>3. U!Number(n, left) = U!Number(n, noPrice) + U!Number(n, invalid)
    BY <1>2, <2>1, KindsFinite, NumberOfUnion
  <2> HIDE DEF left
  <2>4. U!Number(n, outKinds) = U!Number(n, left)
    BY <1>2, <2>1, <2>2, NumberOfSome
  <2> QED BY <1>3, <1>4, <2>3, <2>4
<1> HIDE DEF mainKinds, bareKinds, outKinds, valid, noPrice
<1>8. /\ U!Number(n, U!BasicIssues(n)) <= 20
      /\ U!Number(n, U!BasicIssues(n)) > 1 => 100 * U!Number(n, U!BasicIssues(n)) <= U!Number(n, mainKinds)
  BY <1>3, <1>4, FewAllowed
<1>9. /\ U!Number(n, noPrice) <= 20
      /\ U!Number(n, noPrice) > 1 => 100 * U!Number(n, noPrice) <= U!Number(n, U!Traded)
  BY <1>3, <1>4, FewAllowed
<1>10. /\ U!Number(n, bareKinds) <= 20
       /\ U!Number(n, bareKinds) > 1 => 100 * U!Number(n, bareKinds) <= U!Number(n, mainKinds)
  BY <1>3, <1>6, <1>8
<1>11. /\ U!Number(n, outKinds) <= 20
       /\ U!Number(n, outKinds) > 1 => 100 * U!Number(n, outKinds) <= U!Number(n, U!Traded)
  BY <1>3, <1>7, <1>9
<1> QED BY <1>5, <1>10, <1>11 DEF mainKinds, bareKinds, outKinds, rows, enriched

\* A repaired day has as many stocks of each price, and the same but those of Beijing.
LEMMA RepairedNumbers ==
    ASSUME NEW n \in [U!Kinds -> Nat]
    PROVE  /\ U!Repaired(n) \in [U!Kinds -> Nat]
           /\ \A S \in SUBSET U!Kinds : (\A k \in S : ~k.bj) =>
                U!Number(U!Repaired(n), S) = U!Number(n, S)
           /\ \A p \in {"moved", "flat", "no_pre_close", "invalid"} :
                U!Number(U!Repaired(n), {k \in U!Traded : k.bj /\ k.price = p})
                  = U!Number(n, {k \in U!Traded : k.bj /\ k.price = p})
<1> DEFINE bj(p) == {k \in U!Traded : k.bj /\ k.price = p}
           r == U!Repaired(n)
<1>1. \A p : bj(p) \in SUBSET U!Kinds
  BY KindSets
<1>2. \A p : U!Number(n, bj(p)) \in Nat
  <2> HIDE DEF bj
  <2> QED BY <1>1, KindsFinite, Numbers
<1>3. r = [k \in U!Kinds |-> IF ~k.bj THEN n[k]
                             ELSE IF k.basic = "today" THEN U!Number(n, bj(k.price)) ELSE 0]
  BY DEF U!Repaired
<1> HIDE DEF bj, r
<1>4. r \in [U!Kinds -> Nat]
  <2>1. \A k \in U!Kinds : (IF ~k.bj THEN n[k]
                            ELSE IF k.basic = "today" THEN U!Number(n, bj(k.price)) ELSE 0) \in Nat
    BY <1>2
  <2> QED BY <1>3, <2>1
<1>5. ASSUME NEW S \in SUBSET U!Kinds, \A k \in S : ~k.bj PROVE U!Number(r, S) = U!Number(n, S)
  <2>1. \A k \in S : r[k] = n[k]
    BY <1>3, <1>5
  <2> QED BY <1>4, <2>1, KindsFinite, SameNumber
<1>6. ASSUME NEW p \in {"moved", "flat", "no_pre_close", "invalid"}
      PROVE  U!Number(r, bj(p)) = U!Number(n, bj(p))
  <2> DEFINE t == [bj |-> TRUE, price |-> p, basic |-> "today"]
             others == bj(p) \ {t}
  <2>1. t \in bj(p)
    BY DEF bj, U!Traded, U!Kinds
  <2>2. \A k \in others : k \in U!Kinds /\ k.bj /\ k.basic # "today"
    <3> SUFFICES ASSUME NEW k \in bj(p), k.basic = "today" PROVE k = t
      BY <1>1 DEF bj
    <3>1. k \in [bj : BOOLEAN, price : {"moved", "flat", "no_pre_close", "invalid", "none"},
                 basic : {"today", "before", "other", "none"}] /\ k.bj /\ k.price = p
      BY <1>1 DEF bj, U!Kinds, U!Traded
    <3> QED BY <3>1
  <2>3. r[t] = U!Number(n, bj(p))
    BY <1>1, <1>3, <2>1
  <2>4. \A k \in others : r[k] = 0
    BY <1>3, <2>2
  <2> HIDE DEF t
  <2>5. U!Number(r, bj(p)) = r[t] + U!Number(r, others)
    BY <1>1, <1>4, <2>1, KindsFinite, Numbers
  <2>6. U!Number(r, others) = 0
    <3>1. others \in SUBSET U!Kinds
      BY <1>1
    <3> HIDE DEF others
    <3> QED BY <1>4, <2>4, <3>1, KindsFinite, NumberZero
  <2> QED BY <1>2, <2>3, <2>5, <2>6
<1> QED BY <1>4, <1>5, <1>6 DEF bj, r

LEMMA RepairedPrices ==
    ASSUME NEW n \in [U!Kinds -> Nat],
           NEW prices \in SUBSET {"moved", "flat", "no_pre_close", "invalid"}
    PROVE  U!Number(U!Repaired(n), {k \in U!Traded : k.price \in prices})
             = U!Number(n, {k \in U!Traded : k.price \in prices})
<1> DEFINE known == {"moved", "flat", "no_pre_close", "invalid"}
           bj(ps) == {k \in U!Traded : k.bj /\ k.price \in ps}
           one(p) == {k \in U!Traded : k.bj /\ k.price = p}
           main == {k \in U!Traded : ~k.bj /\ k.price \in prices}
           both == {k \in U!Traded : k.price \in prices}
           r == U!Repaired(n)
           bad == {ps \in SUBSET prices : U!Number(r, bj(ps)) # U!Number(n, bj(ps))}
<1>1. /\ r \in [U!Kinds -> Nat]
      /\ \A S \in SUBSET U!Kinds : (\A k \in S : ~k.bj) => U!Number(r, S) = U!Number(n, S)
      /\ \A p \in known : U!Number(r, one(p)) = U!Number(n, one(p))
  BY RepairedNumbers
<1> HIDE DEF r
<1>2. IsFiniteSet(prices)
  <2>1. IsFiniteSet({"moved", "flat", "no_pre_close", "invalid", "invalid"})
    BY FiveFinite
  <2>2. prices \in SUBSET {"moved", "flat", "no_pre_close", "invalid", "invalid"}
    OBVIOUS
  <2> QED BY <2>1, <2>2, FS_Subset
<1>3. bad = {}
  <2> SUFFICES ASSUME bad # {} PROVE FALSE
    OBVIOUS
  <2>1. PICK ps \in bad : \A z \in ps : ps \ {z} \notin bad
    <3> HIDE DEF bad
    <3>1. bad \in SUBSET SUBSET prices
      BY DEF bad
    <3> QED BY <1>2, <3>1, LeastSubset
  <2>2. ps \in SUBSET prices /\ U!Number(r, bj(ps)) # U!Number(n, bj(ps))
    BY <2>1
  <2>3. CASE ps = {}
    <3>1. bj(ps) = {}
      BY <2>3
    <3>2. U!Number(r, {}) = 0 /\ U!Number(n, {}) = 0
      BY <1>1, KindsFinite, Numbers
    <3> HIDE DEF bj
    <3> QED BY <2>2, <3>1, <3>2
  <2>4. CASE ps # {}
    <3>1. PICK p \in ps : TRUE
      BY <2>4
    <3> DEFINE fewer == ps \ {p}
    <3>2. U!Number(r, bj(fewer)) = U!Number(n, bj(fewer))
      BY <2>1, <2>2, <3>1
    <3>3. /\ bj(ps) \in SUBSET U!Kinds /\ bj(fewer) \in SUBSET U!Kinds /\ one(p) \in SUBSET U!Kinds
          /\ bj(fewer) \cap one(p) = {} /\ bj(fewer) \cup one(p) = bj(ps)
      BY <3>1, KindSets
    <3> HIDE DEF bj, one, fewer
    <3>4. U!Number(r, one(p)) = U!Number(n, one(p))
      BY <1>1, <2>2, <3>1
    <3>5. U!Number(r, bj(ps)) = U!Number(r, bj(fewer)) + U!Number(r, one(p))
      BY <1>1, <3>3, KindsFinite, NumberOfParts
    <3>6. U!Number(n, bj(ps)) = U!Number(n, bj(fewer)) + U!Number(n, one(p))
      BY <3>3, KindsFinite, NumberOfParts
    <3> QED BY <2>2, <3>2, <3>4, <3>5, <3>6
  <2> QED BY <2>3, <2>4
<1>4. U!Number(r, bj(prices)) = U!Number(n, bj(prices))
  BY <1>3
<1>5. /\ bj(prices) \in SUBSET U!Kinds /\ main \in SUBSET U!Kinds /\ both \in SUBSET U!Kinds
      /\ main \cap bj(prices) = {} /\ main \cup bj(prices) = both /\ \A k \in main : ~k.bj
  BY KindSets
<1> HIDE DEF bj, main, both, bad
<1>6. U!Number(r, main) = U!Number(n, main)
  BY <1>1, <1>5
<1>7. U!Number(r, both) = U!Number(r, main) + U!Number(r, bj(prices))
  BY <1>1, <1>5, KindsFinite, NumberOfParts
<1>8. U!Number(n, both) = U!Number(n, main) + U!Number(n, bj(prices))
  BY <1>5, KindsFinite, NumberOfParts
<1>9. U!Number(r, both) = U!Number(n, both)
  BY <1>4, <1>6, <1>7, <1>8
<1> QED BY <1>9 DEF both, r

\* The verdict does not look at the daily_basic of Beijing.
LEMMA QualityOfBeijing ==
    ASSUME NEW n \in [U!Kinds -> Nat]
    PROVE  U!RefusedCore(n) = U!RefusedCore(U!Repaired(n))
<1> DEFINE r == U!Repaired(n)
           main == {k \in U!Traded : ~k.bj}
           valid(m) == {k \in U!Traded : ~k.bj /\ k \in U!Enriched(m)}
           noPrice == {k \in U!Traded : k.price = "no_pre_close"}
           invalid == {k \in U!Traded : k.price = "invalid"}
<1>1. U!Number(r, invalid) = U!Number(n, invalid)
  <2>1. invalid = {k \in U!Traded : k.price \in {"invalid"}}
    OBVIOUS
  <2> HIDE DEF invalid
  <2> QED BY <2>1, RepairedPrices
<1>2. U!Number(r, noPrice) = U!Number(n, noPrice)
  <2>1. noPrice = {k \in U!Traded : k.price \in {"no_pre_close"}}
    OBVIOUS
  <2> HIDE DEF noPrice
  <2> QED BY <2>1, RepairedPrices
<1>3. U!Number(r, U!Published) = U!Number(n, U!Published)
  <2>1. U!Published = {k \in U!Traded : k.price \in {"moved", "flat"}}
    BY DEF U!Published
  <2> QED BY <2>1, RepairedPrices
<1>4. U!Number(r, U!Traded) = U!Number(n, U!Traded)
  <2>1. U!Traded = {k \in U!Traded : k.price \in {"moved", "flat", "no_pre_close", "invalid"}}
    BY DEF U!Traded, U!Kinds
  <2>2. U!Number(r, {k \in U!Traded : k.price \in {"moved", "flat", "no_pre_close", "invalid"}})
          = U!Number(n, {k \in U!Traded : k.price \in {"moved", "flat", "no_pre_close", "invalid"}})
    BY RepairedPrices
  <2> QED BY <2>1, <2>2, Zenon
<1>5. /\ valid(r) = valid(n) /\ U!BasicIssues(r) = U!BasicIssues(n)
      /\ main \in SUBSET U!Kinds /\ valid(n) \in SUBSET U!Kinds /\ U!BasicIssues(n) \in SUBSET U!Kinds
      /\ \A k \in main \cup valid(n) \cup U!BasicIssues(n) : ~k.bj
  BY KindSets DEF U!Enriched, U!BasicIssues
<1> HIDE DEF main, valid
<1>6. /\ U!Number(r, main) = U!Number(n, main) /\ U!Number(r, valid(r)) = U!Number(n, valid(n))
      /\ U!Number(r, U!BasicIssues(r)) = U!Number(n, U!BasicIssues(n))
  BY <1>5, RepairedNumbers
<1> HIDE DEF r, noPrice, invalid
<1>7. ASSUME NEW m
      PROVE  U!RefusedCore(m) <=>
                \/ U!Number(m, invalid) > 0
                \/ U!TooMany(U!Number(m, main), U!Number(m, valid(m)), U!Number(m, U!BasicIssues(m)))
                \/ U!TooMany(U!Number(m, U!Traded), U!Number(m, U!Published), U!Number(m, noPrice))
                \/ U!Number(m, U!Published) = 0
  BY DEF U!RefusedCore, main, valid, noPrice, invalid
<1>8. U!RefusedCore(n) <=> U!RefusedCore(r)
  BY <1>1, <1>2, <1>3, <1>4, <1>6, <1>7
<1> QED BY <1>8 DEF r, U!RefusedCore

-----------------------------------------------------------------------------
\* Of the rows those are written whose stocks the master has.
WrittenIs(n, rows, w) ==
    \E gone \in [U!Kinds -> Nat] :
        /\ \A k \in U!Kinds : gone[k] <= n[k]
        /\ w = [gone |-> gone, rows |-> [k \in U!Kinds |-> IF k \in rows THEN n[k] - gone[k] ELSE 0]]

\* What was prepared is what the rules make of the day, and nothing else is written.
QualityInv ==
    /\ stocks \in [U!Kinds -> Nat]
    /\ quality # None => quality = U!Core(stocks)
    /\ qualityRows # None =>
          quality # None /\ ~quality.refused /\ WrittenIs(stocks, quality.rows, qualityRows)

LEMMA QualityInitHolds == U!Init => QualityInv
<1> SUFFICES ASSUME U!Init PROVE QualityInv
  OBVIOUS
<1>1. PICK m \in Main, l \in Lost \X Lost \X {0, 1} \X {0, 1}, b \in Beijing \X {0, 1, 20} \X {0, 1, 20} \X {0, 2} :
         stocks = [k \in U!Kinds |->
           CASE k = U!KindOf(FALSE, "moved", "today") -> m
             [] k = U!KindOf(FALSE, "moved", "none") -> l[1]
             [] k = U!KindOf(FALSE, "no_pre_close", "today") -> l[2]
             [] k = U!KindOf(FALSE, "none", "other") -> l[3]
             [] k = U!KindOf(FALSE, "invalid", "today") -> l[4]
             [] k = U!KindOf(TRUE, "moved", "before") -> b[1]
             [] k = U!KindOf(TRUE, "moved", "today") -> b[2]
             [] k = U!KindOf(TRUE, "flat", "today") -> b[3]
             [] k = U!KindOf(TRUE, "flat", "none") -> b[4]
             [] OTHER -> 0]
  BY DEF U!Init
<1>2. /\ m \in Nat /\ l[1] \in Nat /\ l[2] \in Nat /\ l[3] \in Nat /\ l[4] \in Nat
      /\ b[1] \in Nat /\ b[2] \in Nat /\ b[3] \in Nat /\ b[4] \in Nat
  <2>1. Main \subseteq Nat /\ Lost \subseteq Nat /\ Beijing \subseteq Nat
    BY DataAssumption
  <2> QED BY <1>1, <2>1
<1>3. stocks \in [U!Kinds -> Nat]
  BY <1>1, <1>2
<1>4. quality = None /\ qualityRows = None
  BY DEF U!Init
<1> QED BY <1>3, <1>4 DEF QualityInv

LEMMA QualityStepHolds ==
    ASSUME QualityInv, U!Next \/ UNCHANGED <<stocks, quality, qualityRows>>
    PROVE  QualityInv'
<1>1. CASE UNCHANGED <<stocks, quality, qualityRows>>
  BY <1>1 DEF QualityInv
<1>2. CASE U!Prepare
  BY <1>2 DEF QualityInv, U!Prepare
<1>3. CASE U!Write
  <2>1. /\ stocks' = stocks /\ quality' = quality /\ quality # None /\ ~quality.refused
        /\ stocks \in [U!Kinds -> Nat] /\ quality = U!Core(stocks)
    BY <1>3 DEF QualityInv, U!Write
  <2>2. PICK lacks \in Gone :
           LET gone == [k \in U!Kinds |-> IF lacks[k] < stocks[k] THEN lacks[k] ELSE stocks[k]]
           IN  qualityRows' = [gone |-> gone,
                   rows |-> [k \in U!Kinds |-> IF k \in quality.rows THEN stocks[k] - gone[k] ELSE 0]]
    BY <1>3 DEF U!Write
  <2>3. lacks \in [U!Kinds -> Nat]
    BY DataAssumption
  <2> DEFINE gone == [k \in U!Kinds |-> IF lacks[k] < stocks[k] THEN lacks[k] ELSE stocks[k]]
  <2>4. gone \in [U!Kinds -> Nat] /\ \A k \in U!Kinds : gone[k] <= stocks[k]
    BY <2>1, <2>3
  <2>5. qualityRows' = [gone |-> gone,
            rows |-> [k \in U!Kinds |-> IF k \in quality.rows THEN stocks[k] - gone[k] ELSE 0]]
    BY <2>2
  <2> HIDE DEF gone
  <2>6. WrittenIs(stocks, quality.rows, qualityRows')
    BY <2>4, <2>5 DEF WrittenIs
  <2>7. WrittenIs(stocks', quality'.rows, qualityRows')
    BY <2>1, <2>6
  <2> QED BY <2>1, <2>7 DEF QualityInv
<1> QED BY <1>1, <1>2, <1>3 DEF U!Next

\* What is written is bounded by what was prepared, and what is lost by what was not.
LEMMA WrittenBounds ==
    ASSUME NEW n \in [U!Kinds -> Nat], ~U!RefusedCore(n), NEW w, WrittenIs(n, U!Core(n).rows, w)
    PROVE  LET main == U!Number(n, {k \in U!Traded : ~k.bj})
               bare == U!Number(w.rows, {k \in U!Published : ~k.bj /\ k \notin U!Core(n).enriched})
               lost == U!Number([k \in U!Kinds |-> n[k] - w.gone[k] - w.rows[k]], U!Traded)
           IN  /\ bare <= 20 /\ (bare > 1 => 100 * bare <= main)
               /\ lost <= 20 /\ (lost > 1 => 100 * lost <= U!Number(n, U!Traded))
<1> DEFINE rows == U!Core(n).rows
           enriched == U!Core(n).enriched
           bareKinds == {k \in U!Published : ~k.bj /\ k \notin enriched}
           mainKinds == {k \in U!Traded : ~k.bj}
           left == U!Traded \ rows
           losses == [k \in U!Kinds |-> n[k] - w.gone[k] - w.rows[k]]
<1>1. PICK gone \in [U!Kinds -> Nat] :
         /\ \A k \in U!Kinds : gone[k] <= n[k]
         /\ w = [gone |-> gone, rows |-> [k \in U!Kinds |-> IF k \in rows THEN n[k] - gone[k] ELSE 0]]
  BY DEF WrittenIs
<1>2. /\ U!Number(n, bareKinds) <= 20 /\ (U!Number(n, bareKinds) > 1 => 100 * U!Number(n, bareKinds) <= U!Number(n, mainKinds))
      /\ U!Number(n, left) <= 20 /\ (U!Number(n, left) > 1 => 100 * U!Number(n, left) <= U!Number(n, U!Traded))
  BY QualityBounds
<1> HIDE DEF rows, enriched
<1>3. /\ bareKinds \in SUBSET U!Kinds /\ mainKinds \in SUBSET U!Kinds /\ U!Traded \in SUBSET U!Kinds
      /\ left \in SUBSET U!Traded /\ left \in SUBSET U!Kinds
      /\ \A k \in U!Traded \ left : k \in rows
  BY KindSets
<1>4. /\ w.rows \in [U!Kinds -> Nat] /\ \A k \in U!Kinds : w.rows[k] <= n[k]
      /\ losses \in [U!Kinds -> Nat] /\ \A k \in U!Kinds : losses[k] <= n[k]
      /\ \A k \in U!Kinds : k \in rows => losses[k] = 0
  <2>1. /\ w.gone = gone /\ w.rows \in [U!Kinds -> Int]
        /\ \A k \in U!Kinds : w.rows[k] = IF k \in rows THEN n[k] - gone[k] ELSE 0
    BY <1>1
  <2>2. ASSUME NEW k \in U!Kinds
        PROVE  /\ w.rows[k] \in Nat /\ w.rows[k] <= n[k]
               /\ n[k] - gone[k] - w.rows[k] \in Nat /\ n[k] - gone[k] - w.rows[k] <= n[k]
               /\ k \in rows => n[k] - gone[k] - w.rows[k] = 0
    <3>1. n[k] \in Nat /\ gone[k] \in Nat /\ gone[k] <= n[k]
      BY <1>1
    <3>2. w.rows[k] = IF k \in rows THEN n[k] - gone[k] ELSE 0
      BY <2>1
    <3> QED BY <3>1, <3>2
  <2> QED BY <2>1, <2>2
<1> HIDE DEF bareKinds, mainKinds, left, losses
<1>5. U!Number(w.rows, bareKinds) <= U!Number(n, bareKinds)
  BY <1>3, <1>4, KindsFinite, NumberBelow
<1>6. U!Number(losses, U!Traded) <= U!Number(n, left)
  <2>1. U!Number(losses, left) <= U!Number(n, left)
    BY <1>3, <1>4, KindsFinite, NumberBelow
  <2>2. \A k \in U!Traded \ left : losses[k] = 0
    BY <1>3, <1>4
  <2>3. U!Number(losses, U!Traded) = U!Number(losses, left)
    BY <1>3, <1>4, <2>2, NumberOfSome
  <2> QED BY <2>1, <2>3
<1>7. /\ U!Number(w.rows, bareKinds) \in Nat /\ U!Number(n, bareKinds) \in Nat
      /\ U!Number(losses, U!Traded) \in Nat /\ U!Number(n, left) \in Nat
      /\ U!Number(n, mainKinds) \in Nat /\ U!Number(n, U!Traded) \in Nat
  BY <1>3, <1>4, KindsFinite, Numbers
<1>8. /\ U!Number(w.rows, bareKinds) <= 20
      /\ U!Number(w.rows, bareKinds) > 1 => 100 * U!Number(w.rows, bareKinds) <= U!Number(n, mainKinds)
      /\ U!Number(losses, U!Traded) <= 20
      /\ U!Number(losses, U!Traded) > 1 => 100 * U!Number(losses, U!Traded) <= U!Number(n, U!Traded)
  BY <1>2, <1>5, <1>6, <1>7
<1> QED BY <1>8 DEF bareKinds, mainKinds, losses, enriched

LEMMA QualityHolds ==
    ASSUME QualityInv
    PROVE  /\ U!TypeOK /\ U!BeijingNeverBlocks /\ U!NothingOfYesterday
           /\ U!TodayKept /\ U!FewLost
<1>1. /\ stocks \in [U!Kinds -> Nat]
      /\ quality # None => quality = U!Core(stocks)
      /\ qualityRows # None =>
            quality # None /\ ~quality.refused /\ WrittenIs(stocks, quality.rows, qualityRows)
  BY DEF QualityInv
<1> DEFINE core == U!Core(stocks)
<1>2. /\ core.refused = U!RefusedCore(stocks)
      /\ core.rows = {k \in U!Published : stocks[k] > 0}
      /\ core.enriched = {k \in U!Published \cap U!Enriched(stocks) : stocks[k] > 0}
      /\ core.enriched \subseteq core.rows /\ core.rows \subseteq U!Published
      /\ core.enriched \subseteq U!Enriched(stocks)
  BY DEF U!Core
<1> HIDE DEF core
<1>3. U!TypeOK
  <2>1. U!Published \subseteq U!Kinds
    BY KindSets
  <2>2. ASSUME qualityRows # None
        PROVE  \A k \in U!Kinds : qualityRows.gone[k] \in 0 .. stocks[k] /\ qualityRows.rows[k] \in 0 .. stocks[k]
    <3> SUFFICES ASSUME NEW k \in U!Kinds
                 PROVE  qualityRows.gone[k] \in 0 .. stocks[k] /\ qualityRows.rows[k] \in 0 .. stocks[k]
      OBVIOUS
    <3>1. PICK gone \in [U!Kinds -> Nat] :
             /\ \A j \in U!Kinds : gone[j] <= stocks[j]
             /\ qualityRows = [gone |-> gone,
                    rows |-> [j \in U!Kinds |-> IF j \in quality.rows THEN stocks[j] - gone[j] ELSE 0]]
      BY <1>1, <2>2 DEF WrittenIs
    <3>2. /\ stocks[k] \in Nat /\ gone[k] \in Nat /\ gone[k] <= stocks[k]
          /\ qualityRows.gone[k] = gone[k]
          /\ qualityRows.rows[k] = IF k \in quality.rows THEN stocks[k] - gone[k] ELSE 0
      BY <1>1, <3>1
    <3> QED BY <3>2
  <2>3. DOMAIN stocks = U!Kinds /\ \A k \in U!Kinds : stocks[k] \in Nat
    BY <1>1
  <2> QED BY <1>1, <1>2, <2>1, <2>2, <2>3 DEF U!TypeOK, core
<1>4. U!BeijingNeverBlocks
  BY <1>1, <1>2, QualityOfBeijing DEF U!BeijingNeverBlocks, core
<1>5. U!NothingOfYesterday
  <2>1. \A k \in U!Enriched(stocks) : k.basic = "today"
    BY DEF U!Enriched
  <2>2. /\ U!Number(stocks, U!Compared) = U!Number(stocks, U!LikeBefore)
        /\ U!Number(stocks, U!Moved) >= 20
        => \A k \in U!Enriched(stocks) : ~k.bj
    BY <1>1, QualityOfYesterday
  <2> QED BY <1>1, <1>2, <2>1, <2>2 DEF U!NothingOfYesterday, core
<1>6. U!TodayKept
  <2>1. U!Number(stocks, {k \in U!Compared : k.basic = "before"}) = 0 =>
            \A k \in U!Traded : k.basic = "today" => k \in U!Enriched(stocks)
    BY <1>1, QualityOfToday
  <2>2. U!Published \subseteq U!Traded
    BY KindSets
  <2> QED BY <1>1, <1>2, <2>1, <2>2 DEF U!TodayKept, core
<1>7. U!FewLost
  <2>1. CASE qualityRows = None
    BY <2>1 DEF U!FewLost
  <2>2. CASE qualityRows # None
    <3>1. ~U!RefusedCore(stocks) /\ WrittenIs(stocks, U!Core(stocks).rows, qualityRows) /\ quality = U!Core(stocks)
      BY <1>1, <1>2, <2>2 DEF core
    <3> QED BY <1>1, <2>2, <3>1, WrittenBounds DEF U!FewLost
  <2> QED BY <2>1, <2>2
<1> QED BY <1>3, <1>4, <1>5, <1>6, <1>7

-----------------------------------------------------------------------------
(* RowRules.  A fold from the left has, after k rows, a value that follows *)
(* from the one after k - 1: what holds of the one before all rows and is  *)
(* kept by each row holds of the last.                                     *)

LEMMA LeastNatural ==
    ASSUME NEW T \in SUBSET Nat, T # {}
    PROVE  \E m \in T : \A k \in T : m <= k
<1>1. PICK m \in T : \A k \in Nat : <<k, m>> \in OpToRel(<, Nat) => k \notin T
  <2>1. IsWellFoundedOn(OpToRel(<, Nat), Nat)
    BY NatLessThanWellFounded, Zenon
  <2> QED BY <2>1, WFMin, Zenon
<1>2. ASSUME NEW k \in T, ~(m <= k) PROVE FALSE
  <2>1. <<k, m>> \in OpToRel(<, Nat)
    BY <1>2 DEF OpToRel
  <2> QED BY <1>1, <2>1
<1> QED BY <1>2

LEMMA LastRow ==
    ASSUME NEW n \in Nat, NEW s \in SUBSET (1 .. n), s # {}
    PROVE  L!Max(s) \in s /\ \A i \in s : i <= L!Max(s)
<1>1. \E x \in s : \A y \in s : x >= y
  <2>1. s \in SUBSET (0 .. n)
    OBVIOUS
  <2> QED BY <2>1, HasGreatest
<1>2. L!Max(s) \in s /\ \A y \in s : L!Max(s) >= y
  BY <1>1 DEF L!Max
<1> QED BY <1>2

\* The folds of rows up to the k-th, of which the last row is taken last.
FoldOf(it, k, base, step) ==
    /\ it[{}] = base
    /\ \A s \in SUBSET (1 .. k) : s # {} => it[s] = step[<<it[s \ {L!Max(s)}], L!Max(s)>>]

LEMMA FoldExists ==
    ASSUME NEW n \in Nat, NEW A, NEW base \in A, NEW step \in [A \X (1 .. n) -> A]
    PROVE  \E it \in [SUBSET (1 .. n) -> A] : FoldOf(it, n, base, step)
<1> DEFINE Bad == {k \in 0 .. n : ~ \E it \in [SUBSET (1 .. k) -> A] : FoldOf(it, k, base, step)}
<1> SUFFICES ASSUME n \in Bad PROVE FALSE
  <2>1. n \in 0 .. n
    OBVIOUS
  <2> QED BY <2>1, Zenon
<1>1. PICK k \in Bad : \A j \in Bad : k <= j
  <2>1. Bad \subseteq Nat /\ Bad # {}
    <3>1. \A i \in 0 .. n : i \in Nat
      OBVIOUS
    <3> QED BY <3>1, Zenon
  <2> HIDE DEF Bad
  <2>2. Bad \in SUBSET Nat
    BY <2>1
  <2> QED BY <2>1, <2>2, LeastNatural
<1>2. k \in 0 .. n /\ ~ \E it \in [SUBSET (1 .. k) -> A] : FoldOf(it, k, base, step)
  OBVIOUS
<1>3. k # 0
  <2> SUFFICES ASSUME k = 0 PROVE FALSE
    OBVIOUS
  <2>1. 1 .. k = {}
    OBVIOUS
  <2> DEFINE it == [s \in SUBSET (1 .. k) |-> base]
  <2>2. it \in [SUBSET (1 .. k) -> A] /\ it[{}] = base
    OBVIOUS
  <2>3. FoldOf(it, k, base, step)
    BY <2>1, <2>2 DEF FoldOf
  <2> QED BY <1>2, <2>2, <2>3
<1> DEFINE j == k - 1
<1>4. k \in Nat /\ j \in Nat /\ j \in 0 .. n /\ j < k /\ k \in 1 .. n /\ 1 .. j \subseteq 1 .. k /\ k \notin 1 .. j
  BY <1>2, <1>3
<1>5. PICK g \in [SUBSET (1 .. j) -> A] : FoldOf(g, j, base, step)
  <2>1. j \notin Bad
    <3> HIDE DEF Bad
    <3> QED BY <1>1, <1>4
  <2> QED BY <1>4, <2>1
<1> DEFINE h == [s \in SUBSET (1 .. k) |-> IF k \in s THEN step[<<g[s \ {k}], k>>] ELSE g[s]]
<1>6. \A s \in SUBSET (1 .. k) : s \ {k} \in SUBSET (1 .. j)
  BY <1>4
<1>7. \A s \in SUBSET (1 .. k) : g[s \ {k}] \in A
  BY <1>6
<1>8. h \in [SUBSET (1 .. k) -> A]
  <2>1. \A s \in SUBSET (1 .. k) : step[<<g[s \ {k}], k>>] \in A
    BY <1>4, <1>7
  <2>2. \A s \in SUBSET (1 .. k) : k \notin s => g[s] \in A
    <3>1. \A s \in SUBSET (1 .. k) : k \notin s => s \ {k} = s
      OBVIOUS
    <3> QED BY <1>7, <3>1
  <2> QED BY <2>1, <2>2
<1>9. ASSUME NEW s \in SUBSET (1 .. k), s # {}
      PROVE  h[s] = step[<<h[s \ {L!Max(s)}], L!Max(s)>>]
  <2>1. L!Max(s) \in s /\ \A i \in s : i <= L!Max(s)
    <3>1. k \in Nat
      BY <1>4
    <3> HIDE DEF j, h
    <3> QED BY <3>1, <1>9, LastRow
  <2>2. s \ {L!Max(s)} \in SUBSET (1 .. k)
    OBVIOUS
  <2>3. CASE k \in s
    <3>1. L!Max(s) = k
      <4>1. L!Max(s) \in 1 .. k /\ k <= L!Max(s)
        BY <2>1, <2>3
      <4> QED BY <1>4, <4>1
    <3>2. h[s] = step[<<g[s \ {k}], k>>]
      BY <2>3
    <3>3. h[s \ {k}] = g[s \ {k}]
      BY <2>2, <3>1
    <3> QED BY <3>1, <3>2, <3>3
  <2>4. CASE k \notin s
    <3>1. s \in SUBSET (1 .. j)
      BY <1>6, <2>4
    <3>2. g[s] = step[<<g[s \ {L!Max(s)}], L!Max(s)>>]
      BY <1>5, <1>9, <3>1 DEF FoldOf
    <3>3. h[s] = g[s] /\ h[s \ {L!Max(s)}] = g[s \ {L!Max(s)}]
      BY <2>2, <2>4
    <3> QED BY <3>2, <3>3
  <2> QED BY <2>3, <2>4
<1>10. h[{}] = base
  BY <1>5 DEF FoldOf
<1> HIDE DEF h
<1>11. FoldOf(h, k, base, step)
  BY <1>9, <1>10 DEF FoldOf
<1> QED BY <1>2, <1>8, <1>11

\* What is so before all rows and is kept by each is so after the last.
LEMMA FoldReaches ==
    ASSUME NEW n \in Nat, NEW it, NEW Held,
           it[{}] \in Held[0],
           \A k \in 1 .. n : it[1 .. k - 1] \in Held[k - 1] => it[1 .. k] \in Held[k]
    PROVE  it[1 .. n] \in Held[n]
<1> DEFINE Bad == {k \in 0 .. n : it[1 .. k] \notin Held[k]}
<1> SUFFICES ASSUME Bad # {} PROVE FALSE
  OBVIOUS
<1>1. PICK k \in Bad : \A j \in Bad : k <= j
  <2>1. Bad \in SUBSET Nat
    OBVIOUS
  <2> HIDE DEF Bad
  <2> QED BY <2>1, LeastNatural
<1>2. k \in 0 .. n /\ it[1 .. k] \notin Held[k]
  OBVIOUS
<1>3. k # 0
  <2>1. 1 .. 0 = {}
    OBVIOUS
  <2> QED BY <1>2, <2>1
<1>4. k - 1 \in 0 .. n /\ k \in 1 .. n /\ ~(k <= k - 1)
  BY <1>2, <1>3
<1>5. it[1 .. k - 1] \in Held[k - 1]
  <2>1. k - 1 \notin Bad
    <3> HIDE DEF Bad
    <3> QED BY <1>1, <1>4
  <2> QED BY <1>4, <2>1
<1> QED BY <1>2, <1>4, <1>5

LEMMA LastOfFirst ==
    ASSUME NEW n \in Nat, NEW k \in 1 .. n
    PROVE  /\ 1 .. k \in SUBSET (1 .. n) /\ 1 .. k # {}
           /\ L!Max(1 .. k) = k /\ (1 .. k) \ {k} = 1 .. k - 1
<1>1. 1 .. k \in SUBSET (1 .. n) /\ k \in 1 .. k /\ (1 .. k) \ {k} = 1 .. k - 1
  OBVIOUS
<1>2. L!Max(1 .. k) \in 1 .. k /\ \A i \in 1 .. k : i <= L!Max(1 .. k)
  BY <1>1, LastRow
<1> QED BY <1>1, <1>2

LEMMA NoneIsNoVerdict ==
    None # {} /\ \A row \in L!Coded \cup L!Listed : None # {row}
BY DataAssumption

\* The rows under the codes of a stock: the verdict after k of them.
CodesAfter(rows, k) ==
    {kept \in {None, {}} \cup {{row} : row \in L!Coded} :
        /\ kept = None => k = 0
        /\ \A i \in 1 .. k : ~rows[i].alias => kept = {} \/ kept = {rows[i]}}

LEMMA KeepIs ==
    ASSUME NEW n \in Nat, NEW rows \in [1 .. n -> L!Coded], NEW k \in 1 .. n,
           NEW kept \in CodesAfter(rows, k - 1)
    PROVE  L!Keep(kept, rows[k]) \in CodesAfter(rows, k)
<1> DEFINE row == rows[k]
<1>1. row \in L!Coded /\ k # 0 /\ \A i \in 1 .. k : i = k \/ i \in 1 .. k - 1
  OBVIOUS
<1>2. kept \in {None, {}} \cup {{r} : r \in L!Coded}
      /\ \A i \in 1 .. k - 1 : ~rows[i].alias => kept = {} \/ kept = {rows[i]}
  BY DEF CodesAfter
<1>3. CASE kept = None
  <2>1. k = 1
    <3>1. k - 1 = 0
      BY <1>3 DEF CodesAfter
    <3> QED BY <3>1
  <2>2. L!Keep(kept, row) = {row}
    BY <1>3 DEF L!Keep
  <2>3. \A i \in 1 .. k : i = k
    BY <2>1
  <2> QED BY <1>1, <2>2, <2>3, NoneIsNoVerdict DEF CodesAfter
<1>4. CASE kept = {}
  <2>1. L!Keep(kept, row) = {}
    BY <1>4, NoneIsNoVerdict DEF L!Keep, L!Refuses
  <2> QED BY <2>1, NoneIsNoVerdict DEF CodesAfter
<1>5. ASSUME NEW r \in L!Coded, kept = {r} PROVE L!Keep(kept, row) \in CodesAfter(rows, k)
  <2>1. kept # None /\ kept # {}
    BY <1>5, NoneIsNoVerdict
  <2>2. CASE L!Refuses(kept, row)
    <3>1. L!Keep(kept, row) = {}
      BY <2>1, <2>2 DEF L!Keep
    <3> QED BY <3>1, NoneIsNoVerdict DEF CodesAfter
  <2>3. CASE ~L!Refuses(kept, row) /\ r.alias
    <3>1. L!Keep(kept, row) = {row}
      BY <1>5, <2>1, <2>3 DEF L!Keep
    <3>2. \A i \in 1 .. k - 1 : rows[i].alias
      BY <1>2, <1>5, <2>1, <2>3
    <3> QED BY <1>1, <3>1, <3>2, NoneIsNoVerdict DEF CodesAfter
  <2>4. CASE ~L!Refuses(kept, row) /\ ~r.alias
    <3>1. L!Keep(kept, row) = {r}
      BY <1>5, <2>1, <2>4 DEF L!Keep
    <3>2. ~row.alias => row = r
      <4>1. ~row.alias => row.alias = r.alias
        BY <1>1, <2>4 DEF L!Coded
      <4>2. ~row.alias => row.value = r.value
        BY <1>5, <2>4, <4>1 DEF L!Refuses
      <4> QED BY <1>1, <4>1, <4>2 DEF L!Coded
    <3>3. \A i \in 1 .. k : ~rows[i].alias => {r} = {rows[i]}
      BY <1>1, <1>2, <1>5, <2>1, <3>2
    <3> HIDE DEF row
    <3> QED BY <3>1, <3>3, NoneIsNoVerdict DEF CodesAfter
  <2> QED BY <2>2, <2>3, <2>4
<1> QED BY <1>2, <1>3, <1>4, <1>5

LEMMA CodesSettled ==
    ASSUME NEW n \in Nat, n # 0, NEW rows \in [1 .. n -> L!Coded]
    PROVE  /\ L!Normalized(rows) \subseteq L!Coded
           /\ L!Normalized(rows) # {} =>
                \A i \in 1 .. n : ~rows[i].alias => L!Normalized(rows) = {rows[i]}
<1> DEFINE A == {None, {}} \cup {{row} : row \in L!Coded}
           step == [x \in A \X (1 .. n) |-> L!Keep(x[1], rows[x[2]])]
           fold(it) == [s \in SUBSET (1 .. n) |->
                           IF s = {} THEN None ELSE L!Keep(it[s \ {L!Max(s)}], rows[L!Max(s)])]
           it == CHOOSE f : f = fold(f)
           Held == [k \in 0 .. n |-> CodesAfter(rows, k)]
<1>1. L!Normalized(rows) = it[1 .. n]
  BY DEF L!Normalized, L!FoldLeft, L!MapThenFoldSet
<1>2. step \in [A \X (1 .. n) -> A]
  <2>1. \A kept \in A, i \in 1 .. n : L!Keep(kept, rows[i]) \in A
    BY DEF L!Keep
  <2> QED BY <2>1
<1>3. it = fold(it)
  <2>1. PICK f \in [SUBSET (1 .. n) -> A] : FoldOf(f, n, None, step)
    <3> HIDE DEF step
    <3>1. None \in A
      OBVIOUS
    <3> HIDE DEF A
    <3> QED BY <1>2, <3>1, FoldExists
  <2>2. ASSUME NEW s \in SUBSET (1 .. n), s # {}
        PROVE  f[s] = L!Keep(f[s \ {L!Max(s)}], rows[L!Max(s)])
    <3>1. f[s] = step[<<f[s \ {L!Max(s)}], L!Max(s)>>]
      BY <2>1, <2>2 DEF FoldOf
    <3>2. L!Max(s) \in 1 .. n
      BY <2>2, LastRow
    <3>3. f[s \ {L!Max(s)}] \in A
      OBVIOUS
    <3> HIDE DEF A
    <3> QED BY <3>1, <3>2, <3>3
  <2>3. f[{}] = None
    BY <2>1 DEF FoldOf
  <2>4. f = fold(f)
    BY <2>2, <2>3
  <2> HIDE DEF fold
  <2> QED BY <2>4
<1> HIDE DEF it
<1>4. it[{}] \in Held[0]
  <2>1. it[{}] = None /\ Held[0] = CodesAfter(rows, 0)
    BY <1>3
  <2>2. None \in CodesAfter(rows, 0)
    BY DEF CodesAfter
  <2> QED BY <2>1, <2>2
<1>5. ASSUME NEW k \in 1 .. n, it[1 .. k - 1] \in Held[k - 1] PROVE it[1 .. k] \in Held[k]
  <2>1. it[1 .. k] = L!Keep(it[(1 .. k) \ {L!Max(1 .. k)}], rows[L!Max(1 .. k)])
    BY <1>3, LastOfFirst
  <2>2. it[1 .. k] = L!Keep(it[1 .. k - 1], rows[k])
    BY <2>1, LastOfFirst
  <2>3. Held[k - 1] = CodesAfter(rows, k - 1) /\ Held[k] = CodesAfter(rows, k)
    OBVIOUS
  <2> QED BY <1>5, <2>2, <2>3, KeepIs
<1>6. it[1 .. n] \in Held[n]
  <2> HIDE DEF Held
  <2> QED BY <1>4, <1>5, FoldReaches
<1>7. it[1 .. n] \in CodesAfter(rows, n)
  BY <1>6
<1> HIDE DEF Held, A, step, fold
<1> QED BY <1>1, <1>7 DEF CodesAfter

\* The top list.  Of two amounts one is taken, with as many decimals as either.
LEMMA PreciseIs ==
    ASSUME NEW a, NEW b, a.places \in Int, b.places \in Int
    PROVE  /\ L!Precise(a, b) \in {a, b}
           /\ a.places <= L!Precise(a, b).places /\ b.places <= L!Precise(a, b).places
BY DEF L!Precise

LEMMA CloseBothWays ==
    ASSUME NEW a, NEW b, a.cents \in Int, b.cents \in Int, L!Close(a, b)
    PROVE  L!Close(b, a)
<1>1. L!Abs(b.cents - a.cents) = L!Abs(a.cents - b.cents)
  BY DEF L!Abs
<1> QED BY <1>1 DEF L!Close

\* However amounts are split in two, one of the one part is close to one of the other.
Linked(amounts) ==
    \A group \in (SUBSET amounts) \ {{}, amounts} :
        \E a \in group, b \in amounts \ group : L!Close(a, b)

LEMMA LinkedGrows ==
    ASSUME NEW amounts \in SUBSET Amounts, Linked(amounts), NEW c \in amounts, NEW d \in Amounts, L!Close(c, d)
    PROVE  Linked(amounts \cup {d})
<1>1. L!Close(d, c)
  BY CloseBothWays, DataAssumption
<1> SUFFICES ASSUME NEW group \in SUBSET (amounts \cup {d}), group # {}, group # amounts \cup {d}
             PROVE  \E a \in group, b \in (amounts \cup {d}) \ group : L!Close(a, b)
  BY DEF Linked
<1>2. CASE amounts \subseteq group
  <2>1. c \in group /\ d \in (amounts \cup {d}) \ group
    BY <1>2
  <2> QED BY <2>1
<1>3. CASE group \cap amounts = {}
  <2>1. d \in group /\ c \in (amounts \cup {d}) \ group
    BY <1>3
  <2> QED BY <1>1, <2>1
<1>4. CASE ~(amounts \subseteq group) /\ group \cap amounts # {}
  <2> DEFINE old == group \cap amounts
  <2>1. old \in (SUBSET amounts) \ {{}, amounts}
    BY <1>4
  <2>2. PICK a \in old, b \in amounts \ old : L!Close(a, b)
    <3> HIDE DEF old
    <3> QED BY <2>1 DEF Linked
  <2>3. a \in group /\ b \in (amounts \cup {d}) \ group
    BY <2>2
  <2> QED BY <2>2, <2>3
<1> QED BY <1>2, <1>3, <1>4

\* The amounts of k rows.
Known(rows, k) == {rows[i].amount : i \in 1 .. k} \ {None}

LEMMA KnownGrows ==
    ASSUME NEW n \in Nat, NEW rows \in [1 .. n -> L!Listed], NEW k \in 1 .. n
    PROVE  /\ Known(rows, k) = (Known(rows, k - 1) \cup {rows[k].amount}) \ {None}
           /\ Known(rows, k) \in SUBSET Amounts /\ Known(rows, k - 1) \in SUBSET Amounts
           /\ None \notin Known(rows, k) /\ None \notin Known(rows, k - 1)
<1>1. 1 .. k = (1 .. k - 1) \cup {k} /\ 1 .. k \subseteq 1 .. n
  OBVIOUS
<1>2. \A i \in 1 .. k : rows[i].amount \in Amounts \cup {None}
  BY <1>1 DEF L!Listed
<1> QED BY <1>1, <1>2 DEF Known

\* The row r has what k rows know: a name where one has, and of their amounts, which are
\* linked, one with as many decimals as any.
HasAllKnown(r, rows, k) ==
    /\ \A i \in 1 .. k : rows[i].name # None => r.name # None
    /\ Linked(Known(rows, k))
    /\ r.amount = None => Known(rows, k) = {}
    /\ r.amount # None => r.amount \in Known(rows, k)
    /\ \A a \in Known(rows, k) : a.places <= r.amount.places

ListedAfter(rows, k) ==
    {kept \in {None, {}} \cup {{row} : row \in L!Listed} :
        /\ kept = None => k = 0
        /\ kept = {} => \E a, b \in Known(rows, k) : ~L!Close(a, b)
        /\ \A r \in L!Listed : kept = {r} => HasAllKnown(r, rows, k)}

LEMMA AmountsAre ==
    /\ \A r \in L!Listed : r.amount # None => r.amount \in Amounts
    /\ \A a \in Amounts : a # None /\ a.cents \in Int /\ a.places \in Int
BY DataAssumption DEF L!Listed

LEMMA AddedOnly ==
    ASSUME NEW r, NEW row
    PROVE  L!Added({r}, row) = IF {r} = None THEN {row} ELSE IF L!Conflict(r, row) THEN {} ELSE {L!Merged(r, row)}
<1>1. CASE {r} = None
  BY <1>1 DEF L!Added
<1>2. CASE {r} # None
  <2>1. L!Added({r}, row) = {L!Merged(k, row) : k \in {j \in {r} : ~L!Conflict(j, row)}}
    BY <1>2 DEF L!Added
  <2>2. CASE L!Conflict(r, row)
    <3>1. {j \in {r} : ~L!Conflict(j, row)} = {}
      BY <2>2
    <3> QED BY <1>2, <2>1, <2>2, <3>1
  <2>3. CASE ~L!Conflict(r, row)
    <3>1. {j \in {r} : ~L!Conflict(j, row)} = {r}
      BY <2>3
    <3> QED BY <1>2, <2>1, <2>3, <3>1
  <2> QED BY <2>2, <2>3
<1> QED BY <1>1, <1>2

LEMMA MergedIs ==
    ASSUME NEW r \in L!Listed, NEW row \in L!Listed, ~L!Conflict(r, row)
    PROVE  /\ L!Merged(r, row) \in L!Listed
           /\ L!Merged(r, row).name = IF r.name = None THEN row.name ELSE r.name
           /\ r.amount = None => L!Merged(r, row).amount = row.amount
           /\ row.amount = None => L!Merged(r, row).amount = r.amount
           /\ r.amount # None /\ row.amount # None =>
                 /\ L!Merged(r, row).amount = L!Precise(r.amount, row.amount)
                 /\ L!Close(r.amount, row.amount)
                 /\ L!Precise(r.amount, row.amount) \in {r.amount, row.amount}
<1> DEFINE both == L!Merged(r, row)
<1>1. both.name = IF r.name = None THEN row.name ELSE r.name
  BY DEF L!Merged
<1>2. r.amount = None => both.amount = row.amount
  BY DEF L!Merged
<1>3. row.amount = None => both.amount = r.amount
  BY DEF L!Merged
<1>4. ASSUME r.amount # None, row.amount # None
      PROVE  /\ both.amount = L!Precise(r.amount, row.amount)
             /\ L!Close(r.amount, row.amount)
             /\ L!Precise(r.amount, row.amount) \in {r.amount, row.amount}
  <2>1. both.amount = L!Precise(r.amount, row.amount)
    BY <1>4 DEF L!Merged
  <2>2. L!Close(r.amount, row.amount)
    BY <1>4 DEF L!Conflict
  <2> QED BY <1>4, <2>1, <2>2, AmountsAre, PreciseIs
<1>5. both.amount \in {r.amount, row.amount}
  BY <1>2, <1>3, <1>4
<1>6. both = [name |-> both.name, amount |-> both.amount]
  BY DEF L!Merged
<1>7. both.name \in {None, "x", "y"} /\ both.amount \in Amounts \cup {None}
  BY <1>1, <1>5 DEF L!Listed
<1> HIDE DEF both
<1>8. both \in L!Listed
  BY <1>6, <1>7 DEF L!Listed
<1> QED BY <1>1, <1>2, <1>3, <1>4, <1>8 DEF both

LEMMA MergedHasAll ==
    ASSUME NEW n \in Nat, NEW rows \in [1 .. n -> L!Listed], NEW k \in 1 .. n,
           NEW r \in L!Listed, HasAllKnown(r, rows, k - 1), ~L!Conflict(r, rows[k])
    PROVE  HasAllKnown(L!Merged(r, rows[k]), rows, k)
<1> DEFINE row == rows[k]
           both == L!Merged(r, row)
           old == Known(rows, k - 1)
           new == Known(rows, k)
<1> SUFFICES HasAllKnown(both, rows, k)
  OBVIOUS
<1>1. row \in L!Listed /\ \A i \in 1 .. k : i = k \/ i \in 1 .. k - 1
  OBVIOUS
<1>2. both.name = IF r.name = None THEN row.name ELSE r.name
  BY <1>1, MergedIs
<1>3. \A i \in 1 .. k : rows[i].name # None => both.name # None
  BY <1>1, <1>2 DEF HasAllKnown
<1>4. /\ new = (old \cup {row.amount}) \ {None} /\ new \in SUBSET Amounts /\ old \in SUBSET Amounts
      /\ None \notin old /\ None \notin new
  BY KnownGrows
<1>5. /\ Linked(old)
      /\ r.amount = None => old = {}
      /\ r.amount # None => r.amount \in old
      /\ \A a \in old : a.places <= r.amount.places
  BY DEF HasAllKnown
<1>6. \A a \in Amounts : a # None /\ a.places \in Int
  BY AmountsAre
<1>7. SUFFICES /\ Linked(new)
               /\ both.amount = None => new = {}
               /\ both.amount # None => both.amount \in new
               /\ \A a \in new : a.places <= both.amount.places
  <2> HIDE DEF both
  <2> QED BY <1>3, <1>7 DEF HasAllKnown
<1>8. CASE r.amount = None
  <2>1. both.amount = row.amount
    BY <1>1, <1>8, MergedIs
  <2>2. new = {row.amount} \ {None}
    BY <1>4, <1>5, <1>8
  <2> HIDE DEF both, row, old, new
  <2>3. \A group \in SUBSET new : group = {} \/ group = new
    BY <2>2
  <2>4. Linked(new)
    BY <2>3 DEF Linked
  <2>5. \A a \in new : a = row.amount /\ a.places \in Int
    BY <1>4, <1>6, <2>2
  <2> QED BY <2>1, <2>2, <2>4, <2>5
<1>9. CASE r.amount # None /\ row.amount = None
  <2>1. both.amount = r.amount
    BY <1>1, <1>9, MergedIs
  <2>2. new = old
    BY <1>4, <1>9
  <2> HIDE DEF both, row, old, new
  <2> QED BY <1>5, <1>9, <2>1, <2>2
<1>10. CASE r.amount # None /\ row.amount # None
  <2>1. /\ both.amount = L!Precise(r.amount, row.amount) /\ L!Close(r.amount, row.amount)
    BY <1>1, <1>10, MergedIs
  <2>2. r.amount \in Amounts /\ row.amount \in Amounts /\ r.amount.places \in Int /\ row.amount.places \in Int
    BY <1>1, <1>10, AmountsAre
  <2>3. r.amount \in old /\ new = old \cup {row.amount}
    BY <1>4, <1>5, <1>10
  <2>4. /\ both.amount \in {r.amount, row.amount}
        /\ r.amount.places <= both.amount.places /\ row.amount.places <= both.amount.places
    BY <2>1, <2>2, PreciseIs
  <2> HIDE DEF both, row, old, new
  <2>5. Linked(new)
    BY <1>4, <1>5, <2>1, <2>2, <2>3, LinkedGrows
  <2>6. both.amount \in new /\ both.amount # None
    BY <1>10, <2>3, <2>4
  <2>7. ASSUME NEW a \in new PROVE a.places <= both.amount.places
    <3>1. CASE a = row.amount
      BY <2>4, <3>1
    <3>2. CASE a \in old
      <4>1. a.places <= r.amount.places /\ a.places \in Int /\ both.amount.places \in Int
        BY <1>4, <1>5, <1>6, <2>6, <3>2
      <4> QED BY <2>2, <2>4, <4>1
    <3> QED BY <2>3, <3>1, <3>2
  <2> QED BY <2>5, <2>6, <2>7
<1> QED BY <1>8, <1>9, <1>10

LEMMA AddedIs ==
    ASSUME NEW n \in Nat, NEW rows \in [1 .. n -> L!Listed], NEW k \in 1 .. n,
           NEW kept \in ListedAfter(rows, k - 1)
    PROVE  L!Added(kept, rows[k]) \in ListedAfter(rows, k)
<1> DEFINE row == rows[k]
<1>1. row \in L!Listed /\ k # 0
  OBVIOUS
<1>2. kept \in {None, {}} \cup {{r} : r \in L!Listed}
  BY DEF ListedAfter
<1>3. /\ Known(rows, k) = (Known(rows, k - 1) \cup {row.amount}) \ {None}
      /\ Known(rows, k) \in SUBSET Amounts /\ None \notin Known(rows, k - 1)
  BY KnownGrows
<1>4. CASE kept = None
  <2>1. k = 1 /\ Known(rows, k - 1) = {}
    <3>1. k - 1 = 0
      BY <1>4 DEF ListedAfter
    <3> QED BY <3>1 DEF Known
  <2>2. L!Added(kept, row) = {row}
    BY <1>4 DEF L!Added
  <2>3. HasAllKnown(row, rows, k)
    <3>1. Known(rows, k) = {row.amount} \ {None}
      BY <1>3, <2>1
    <3>2. \A group \in SUBSET Known(rows, k) : group = {} \/ group = Known(rows, k)
      BY <3>1
    <3>3. Linked(Known(rows, k))
      BY <3>2 DEF Linked
    <3>4. \A a \in Known(rows, k) : a = row.amount /\ a.places \in Int
      BY <1>3, <3>1, AmountsAre
    <3>5. \A i \in 1 .. k : i = k
      BY <2>1
    <3> QED BY <3>1, <3>3, <3>4, <3>5 DEF HasAllKnown
  <2>4. \A r \in L!Listed : {row} = {r} => r = row
    OBVIOUS
  <2> QED BY <1>1, <2>2, <2>3, <2>4, NoneIsNoVerdict DEF ListedAfter
<1>5. CASE kept = {}
  <2>1. L!Added(kept, row) = {}
    BY <1>5, NoneIsNoVerdict DEF L!Added
  <2>2. \E a, b \in Known(rows, k - 1) : ~L!Close(a, b)
    BY <1>5 DEF ListedAfter
  <2>3. \E a, b \in Known(rows, k) : ~L!Close(a, b)
    BY <1>3, <2>2
  <2> QED BY <2>1, <2>3, NoneIsNoVerdict DEF ListedAfter
<1>6. ASSUME NEW r \in L!Listed, kept = {r} PROVE L!Added(kept, row) \in ListedAfter(rows, k)
  <2>1. {r} # None
    BY NoneIsNoVerdict
  <2>2. HasAllKnown(r, rows, k - 1)
    BY <1>6 DEF ListedAfter
  <2>3. CASE L!Conflict(r, row)
    <3>1. L!Added(kept, row) = {}
      BY <1>6, <2>1, <2>3, AddedOnly
    <3>2. r.amount # None /\ row.amount # None /\ ~L!Close(r.amount, row.amount)
      BY <2>3 DEF L!Conflict
    <3>3. r.amount \in Known(rows, k) /\ row.amount \in Known(rows, k)
      BY <1>3, <2>2, <3>2 DEF HasAllKnown
    <3> QED BY <3>1, <3>2, <3>3, NoneIsNoVerdict DEF ListedAfter
  <2>4. CASE ~L!Conflict(r, row)
    <3> DEFINE both == L!Merged(r, row)
    <3>1. L!Added(kept, row) = {both}
      BY <1>6, <2>1, <2>4, AddedOnly
    <3>2. both \in L!Listed
      BY <1>1, <2>4, MergedIs
    <3>3. HasAllKnown(both, rows, k)
      BY <2>2, <2>4, MergedHasAll
    <3> HIDE DEF both
    <3>4. \A q \in L!Listed : {both} = {q} => q = both
      OBVIOUS
    <3> QED BY <3>1, <3>2, <3>3, <3>4, NoneIsNoVerdict DEF ListedAfter
  <2> QED BY <2>3, <2>4
<1> QED BY <1>2, <1>4, <1>5, <1>6

LEMMA ListedSettled ==
    ASSUME NEW n \in Nat, n # 0, NEW rows \in [1 .. n -> L!Listed]
    PROVE  /\ L!Deduplicated(rows) \subseteq L!Listed
           /\ \A r \in L!Deduplicated(rows) : HasAllKnown(r, rows, n)
           /\ L!Deduplicated(rows) = {} => \E a, b \in Known(rows, n) : ~L!Close(a, b)
<1> DEFINE A == {None, {}} \cup {{row} : row \in L!Listed}
           step == [x \in A \X (1 .. n) |-> L!Added(x[1], rows[x[2]])]
           fold(it) == [s \in SUBSET (1 .. n) |->
                           IF s = {} THEN None ELSE L!Added(it[s \ {L!Max(s)}], rows[L!Max(s)])]
           it == CHOOSE f : f = fold(f)
           Held == [k \in 0 .. n |-> ListedAfter(rows, k)]
<1>1. L!Deduplicated(rows) = it[1 .. n]
  BY DEF L!Deduplicated, L!FoldLeft, L!MapThenFoldSet
<1>2. step \in [A \X (1 .. n) -> A]
  <2>1. ASSUME NEW kept \in A, NEW i \in 1 .. n PROVE L!Added(kept, rows[i]) \in A
    <3>1. rows[i] \in L!Listed
      OBVIOUS
    <3>2. CASE kept = None
      BY <3>1, <3>2 DEF L!Added
    <3>3. CASE kept = {}
      <4>1. L!Added(kept, rows[i]) = {}
        BY <3>3, NoneIsNoVerdict DEF L!Added
      <4> QED BY <4>1
    <3>4. ASSUME NEW r \in L!Listed, kept = {r} PROVE L!Added(kept, rows[i]) \in A
      <4>1. {r} # None
        BY NoneIsNoVerdict
      <4>2. L!Added(kept, rows[i]) = IF L!Conflict(r, rows[i]) THEN {} ELSE {L!Merged(r, rows[i])}
        BY <3>4, <4>1, AddedOnly
      <4>3. ~L!Conflict(r, rows[i]) => L!Merged(r, rows[i]) \in L!Listed
        BY <3>1, MergedIs
      <4> QED BY <4>2, <4>3
    <3> QED BY <3>2, <3>3, <3>4
  <2> QED BY <2>1
<1>3. it = fold(it)
  <2>1. PICK f \in [SUBSET (1 .. n) -> A] : FoldOf(f, n, None, step)
    <3> HIDE DEF step
    <3>1. None \in A
      OBVIOUS
    <3> HIDE DEF A
    <3> QED BY <1>2, <3>1, FoldExists
  <2>2. ASSUME NEW s \in SUBSET (1 .. n), s # {}
        PROVE  f[s] = L!Added(f[s \ {L!Max(s)}], rows[L!Max(s)])
    <3>1. f[s] = step[<<f[s \ {L!Max(s)}], L!Max(s)>>]
      BY <2>1, <2>2 DEF FoldOf
    <3>2. L!Max(s) \in 1 .. n
      BY <2>2, LastRow
    <3>3. f[s \ {L!Max(s)}] \in A
      OBVIOUS
    <3> HIDE DEF A
    <3> QED BY <3>1, <3>2, <3>3
  <2>3. f[{}] = None
    BY <2>1 DEF FoldOf
  <2>4. f = fold(f)
    BY <2>2, <2>3
  <2> HIDE DEF fold
  <2> QED BY <2>4
<1> HIDE DEF it
<1>4. it[{}] \in Held[0]
  <2>1. it[{}] = None /\ Held[0] = ListedAfter(rows, 0)
    BY <1>3
  <2>2. None \in ListedAfter(rows, 0)
    BY NoneIsNoVerdict DEF ListedAfter
  <2> QED BY <2>1, <2>2
<1>5. ASSUME NEW k \in 1 .. n, it[1 .. k - 1] \in Held[k - 1] PROVE it[1 .. k] \in Held[k]
  <2>1. it[1 .. k] = L!Added(it[(1 .. k) \ {L!Max(1 .. k)}], rows[L!Max(1 .. k)])
    BY <1>3, LastOfFirst
  <2>2. it[1 .. k] = L!Added(it[1 .. k - 1], rows[k])
    BY <2>1, LastOfFirst
  <2>3. Held[k - 1] = ListedAfter(rows, k - 1) /\ Held[k] = ListedAfter(rows, k)
    OBVIOUS
  <2> QED BY <1>5, <2>2, <2>3, AddedIs
<1>6. it[1 .. n] \in Held[n]
  <2> HIDE DEF Held
  <2> QED BY <1>4, <1>5, FoldReaches
<1>7. it[1 .. n] \in ListedAfter(rows, n)
  BY <1>6
<1> HIDE DEF Held, A, step, fold
<1> DEFINE kept == L!Deduplicated(rows)
<1>8. kept \in ListedAfter(rows, n)
  BY <1>1, <1>7
<1> HIDE DEF kept
<1>9. \/ kept = {} /\ \E a, b \in Known(rows, n) : ~L!Close(a, b)
      \/ \E r \in L!Listed : kept = {r} /\ HasAllKnown(r, rows, n)
  BY <1>8 DEF ListedAfter
<1>10. /\ kept \subseteq L!Listed /\ \A r \in kept : HasAllKnown(r, rows, n)
       /\ kept = {} => \E a, b \in Known(rows, n) : ~L!Close(a, b)
  BY <1>9
<1> QED BY <1>10 DEF kept

\* Hot lists.  What the split does to sequences of up to three snapshots.
LEMMA Appended ==
    /\ \A x : Append(<<>>, x) = <<x>>
    /\ \A x, y : Append(<<x>>, y) = <<x, y>>
    /\ \A x, y, z : Append(<<x, y>>, z) = <<x, y, z>>
<1>1. \A x : Append(<<>>, x) = <<x>>
  OBVIOUS
<1>2. ASSUME NEW x, NEW y PROVE Append(<<x>>, y) = <<x, y>>
  <2> DEFINE S == {x, y}
             s == <<x>>
             t == <<x, y>>
  <2>1. s \in Seq(S) /\ Len(s) = 1 /\ s[1] = x /\ y \in S
    OBVIOUS
  <2>2. t \in Seq(S) /\ Len(t) = 2 /\ t[1] = x /\ t[2] = y
    OBVIOUS
  <2> HIDE DEF S, s, t
  <2>3. /\ Append(s, y) \in Seq(S) /\ Len(Append(s, y)) = Len(s) + 1
        /\ \A i \in 1 .. Len(s) : Append(s, y)[i] = s[i]
        /\ Append(s, y)[Len(s) + 1] = y
    <3>1. s \in Seq(S) /\ y \in S
      BY <2>1
    <3> QED BY <3>1, AppendProperties, SMTT(30)
  <2>4. \A i \in 1 .. 2 : Append(s, y)[i] = t[i]
    <3>1. Append(s, y)[1] = x /\ Append(s, y)[2] = y
      BY <2>1, <2>3
    <3>2. \A i \in 1 .. 2 : i = 1 \/ i = 2
      OBVIOUS
    <3> QED BY <2>2, <3>1, <3>2
  <2>5. Append(s, y) = t
    BY <2>1, <2>2, <2>3, <2>4, SeqEqual
  <2> QED BY <2>5 DEF s, t
<1>3. ASSUME NEW x, NEW y, NEW z PROVE Append(<<x, y>>, z) = <<x, y, z>>
  <2> DEFINE S == {x, y, z}
             s == <<x, y>>
             t == <<x, y, z>>
  <2>1. s \in Seq(S) /\ Len(s) = 2 /\ s[1] = x /\ s[2] = y /\ z \in S
    OBVIOUS
  <2>2. t \in Seq(S) /\ Len(t) = 3 /\ t[1] = x /\ t[2] = y /\ t[3] = z
    OBVIOUS
  <2> HIDE DEF S, s, t
  <2>3. /\ Append(s, z) \in Seq(S) /\ Len(Append(s, z)) = Len(s) + 1
        /\ \A i \in 1 .. Len(s) : Append(s, z)[i] = s[i]
        /\ Append(s, z)[Len(s) + 1] = z
    <3>1. s \in Seq(S) /\ z \in S
      BY <2>1
    <3> QED BY <3>1, AppendProperties, SMTT(30)
  <2>4. \A i \in 1 .. 3 : Append(s, z)[i] = t[i]
    <3>1. Append(s, z)[1] = x /\ Append(s, z)[2] = y /\ Append(s, z)[3] = z
      BY <2>1, <2>3
    <3>2. \A i \in 1 .. 3 : i = 1 \/ i = 2 \/ i = 3
      OBVIOUS
    <3> QED BY <2>2, <3>1, <3>2
  <2>5. Append(s, z) = t
    BY <2>1, <2>2, <2>3, <2>4, SeqEqual
  <2> QED BY <2>5 DEF s, t
<1> QED BY <1>1, <1>2, <1>3

\* Taking the last away and putting another there.
LEMMA LastReplaced ==
    /\ \A x, y : L!Last(<<x>>) = x /\ L!Front(<<x>>) \o <<y>> = <<y>>
    /\ \A x, y, z : L!Last(<<x, y>>) = y /\ L!Front(<<x, y>>) \o <<z>> = <<x, z>>
    /\ \A x, y, z, u : L!Last(<<x, y, z>>) = z /\ L!Front(<<x, y, z>>) \o <<u>> = <<x, y, u>>
<1>1. \A x : L!Last(<<x>>) = x
  BY DEF L!Last
<1>2. \A x, y : L!Last(<<x, y>>) = y
  BY DEF L!Last
<1>3. \A x, y, z : L!Last(<<x, y, z>>) = z
  BY DEF L!Last
<1>4. ASSUME NEW x, NEW y PROVE L!Front(<<x>>) \o <<y>> = <<y>>
  <2>1. L!Front(<<x>>) = <<>>
    BY DEF L!Front
  <2>2. <<>> \o <<y>> = <<y>>
    OBVIOUS
  <2> QED BY <2>1, <2>2
<1>5. ASSUME NEW x, NEW y, NEW z PROVE L!Front(<<x, y>>) \o <<z>> = <<x, z>>
  <2> DEFINE S == {x, y, z}
             s == <<x, y>>
             f == SubSeq(s, 1, 1)
             x1 == <<x>>
  <2>1. Len(s) = 2 /\ s[1] = x /\ x1 \in Seq(S) /\ Len(x1) = 1 /\ x1[1] = x /\ z \in S
    OBVIOUS
  <2>2. \A i \in 1 .. 1 : s[i] \in S
    OBVIOUS
  <2> HIDE DEF S, s, x1
  <2>3. f \in Seq(S) /\ Len(f) = 1 /\ \A i \in 1 .. 1 : f[i] = s[1 + i - 1]
    BY <2>2, SubSeqProperties
  <2>4. f = x1
    <3>1. \A i \in 1 .. 1 : f[i] = x1[i]
      BY <2>1, <2>3
    <3> HIDE DEF f
    <3> QED BY <2>1, <2>3, <3>1, SeqEqual
  <2>5. L!Front(s) = f
    BY <2>1 DEF L!Front
  <2>6. x1 \o <<z>> = Append(x1, z)
    BY <2>1, AppendIsConcat
  <2> QED BY <2>4, <2>5, <2>6, Appended DEF s, x1
<1>6. ASSUME NEW x, NEW y, NEW z, NEW u PROVE L!Front(<<x, y, z>>) \o <<u>> = <<x, y, u>>
  <2> DEFINE S == {x, y, z, u}
             s == <<x, y, z>>
             f == SubSeq(s, 1, 2)
             x1 == <<x, y>>
  <2>1. Len(s) = 3 /\ s[1] = x /\ s[2] = y /\ x1 \in Seq(S) /\ Len(x1) = 2 /\ x1[1] = x /\ x1[2] = y /\ u \in S
    OBVIOUS
  <2>2. \A i \in 1 .. 2 : s[i] \in S
    OBVIOUS
  <2> HIDE DEF S, s, x1
  <2>3. f \in Seq(S) /\ Len(f) = 2 /\ \A i \in 1 .. 2 : f[i] = s[1 + i - 1]
    BY <2>2, SubSeqProperties
  <2>4. f = x1
    <3>1. \A i \in 1 .. 2 : f[i] = x1[i]
      <4>1. \A i \in 1 .. 2 : i = 1 \/ i = 2
        OBVIOUS
      <4>2. f[1] = s[1] /\ f[2] = s[2]
        BY <2>3
      <4> QED BY <2>1, <4>1, <4>2
    <3> HIDE DEF f
    <3> QED BY <2>1, <2>3, <3>1, SeqEqual
  <2>5. L!Front(s) = f
    BY <2>1 DEF L!Front
  <2>6. x1 \o <<u>> = Append(x1, u)
    BY <2>1, AppendIsConcat
  <2> QED BY <2>4, <2>5, <2>6, Appended DEF s, x1
<1> QED BY <1>1, <1>2, <1>3, <1>4, <1>5, <1>6

LEMMA OneMore ==
    ASSUME NEW S, NEW q \in Seq(S), NEW j \in 1 .. Len(q)
    PROVE  /\ SubSeq(q, 1, j) \in Seq(S) /\ Len(SubSeq(q, 1, j)) = j
           /\ \A i \in 1 .. j : SubSeq(q, 1, j)[i] = q[i]
           /\ SubSeq(q, 1, j) = Append(SubSeq(q, 1, j - 1), q[j])
<1>0. Len(q) \in Nat /\ \A i \in 1 .. Len(q) : q[i] \in S
  BY LenProperties
<1>1. \A i \in 1 .. j : q[i] \in S
  BY <1>0
<1>2. /\ SubSeq(q, 1, j) \in Seq(S) /\ Len(SubSeq(q, 1, j)) = j
      /\ \A i \in 1 .. j : SubSeq(q, 1, j)[i] = q[i]
  <2>1. j \in Int /\ 1 <= j /\ j - 1 + 1 = j
    BY <1>0
  <2>2. /\ SubSeq(q, 1, j) \in Seq(S)
        /\ Len(SubSeq(q, 1, j)) = IF 1 <= j THEN j - 1 + 1 ELSE 0
        /\ \A i \in 1 .. j - 1 + 1 : SubSeq(q, 1, j)[i] = q[1 + i - 1]
    BY <1>1, <2>1, SubSeqProperties
  <2>3. \A i \in 1 .. j : 1 + i - 1 = i
    OBVIOUS
  <2> QED BY <2>1, <2>2, <2>3
<1>3. SubSeq(q, 1, j) = SubSeq(q, 1, j - 1) \o <<q[j]>>
  <2>1. 1 \in 1 .. Len(q) /\ j \in 1 .. Len(q)
    BY <1>0
  <2> QED BY <2>1, SubSeqRecursiveSecond
<1>4. SubSeq(q, 1, j - 1) \in Seq(S)
  <2>1. \A i \in 1 .. j - 1 : q[i] \in S
    BY <1>0
  <2> QED BY <1>0, <2>1, SubSeqProperties
<1>5. q[j] \in S
  BY <1>1, <1>0
<1>6. Append(SubSeq(q, 1, j - 1), q[j]) = SubSeq(q, 1, j - 1) \o <<q[j]>>
  BY <1>4, <1>5, AppendIsConcat
<1> QED BY <1>2, <1>3, <1>6

LEMMA GreatestIs ==
    ASSUME NEW S \in SUBSET Int, NEW x \in S, \A y \in S : y <= x
    PROVE  L!Max(S) = x
<1>1. \E m \in S : \A y \in S : m >= y
  OBVIOUS
<1>2. L!Max(S) \in S /\ \A y \in S : L!Max(S) >= y
  BY <1>1 DEF L!Max
<1>3. L!Max(S) \in Int /\ x \in Int /\ L!Max(S) >= x /\ L!Max(S) <= x
  BY <1>2
<1> QED BY <1>3

LEMMA GreatestOfTwo ==
    ASSUME NEW x \in Int, NEW y \in Int
    PROVE  /\ L!Max({x, y}) \in {x, y} /\ x <= L!Max({x, y}) /\ y <= L!Max({x, y})
           /\ L!Max({x, y}) \in Int
<1>1. CASE x <= y
  <2>1. L!Max({x, y}) = y
    BY <1>1, GreatestIs
  <2> QED BY <1>1, <2>1
<1>2. CASE ~(x <= y)
  <2>1. L!Max({x, y}) = x
    BY <1>2, GreatestIs
  <2> QED BY <1>2, <2>1
<1> QED BY <1>1, <1>2

HotRows == [code : StockCodes, rank : Int, time : Times]

\* A snapshot of n rows: its stocks differ, its ranks are those from 1 to n, its time is one.
IsSnapshot(s, n) ==
    /\ s \in Seq(HotRows) /\ Len(s) = n
    /\ \A i, j \in 1 .. n : i # j => s[i].code # s[j].code /\ s[i].rank # s[j].rank
    /\ \A i \in 1 .. n : \E j \in 1 .. n : s[j].rank = i
    /\ \A i \in 1 .. n : s[i].rank \in 1 .. n
    /\ \A i \in 1 .. n : s[i].time = L!Latest(s)

LEMMA LatestIs ==
    ASSUME NEW s \in Seq(HotRows), NEW t \in Int, Len(s) # 0, \A i \in 1 .. Len(s) : s[i].time = t
    PROVE  L!Latest(s) = t
<1>1. DOMAIN s = 1 .. Len(s) /\ Len(s) \in Nat /\ 1 \in 1 .. Len(s)
  BY LenProperties
<1>2. {s[i].time : i \in DOMAIN s} = {t}
  BY <1>1
<1>3. L!Max({t}) = t
  <2>1. {t} \in SUBSET Int /\ t \in {t} /\ \A y \in {t} : y <= t
    OBVIOUS
  <2> QED BY <2>1, GreatestIs
<1> QED BY <1>2, <1>3 DEF L!Latest

LEMMA SnapshotIs ==
    ASSUME NEW n \in 1 .. 2, NEW s \in L!Snapshots(n)
    PROVE  IsSnapshot(s, n) /\ L!Latest(s) \in Times /\ L!Latest(s) \in Int
<1>1. PICK codes \in {f \in [1 .. n -> StockCodes] : L!IsInjective(f)},
           ranks \in {f \in [1 .. n -> 1 .. n] : L!IsInjective(f)}, t \in Times :
        s = [i \in 1 .. n |-> [code |-> codes[i], rank |-> ranks[i], time |-> t]]
  BY DEF L!Snapshots
<1>2. /\ codes \in [1 .. n -> StockCodes] /\ ranks \in [1 .. n -> 1 .. n]
      /\ \A i, j \in 1 .. n : i # j => codes[i] # codes[j] /\ ranks[i] # ranks[j]
  BY DEF L!IsInjective
<1>3. \A i \in 1 .. n : s[i] = [code |-> codes[i], rank |-> ranks[i], time |-> t]
  BY <1>1
<1>4. \A i \in 1 .. n : s[i] \in HotRows
  <2>1. \A i \in 1 .. n : codes[i] \in StockCodes /\ ranks[i] \in Int
    BY <1>2
  <2>2. ASSUME NEW i \in 1 .. n PROVE s[i] \in HotRows
    <3>1. codes[i] \in StockCodes /\ ranks[i] \in Int
      BY <2>1
    <3>2. [code |-> codes[i], rank |-> ranks[i], time |-> t] \in HotRows
      BY <3>1 DEF HotRows
    <3> QED BY <1>3, <3>2
  <2> QED BY <2>2
<1>5. s \in [1 .. n -> HotRows]
  <2>1. DOMAIN s = 1 .. n /\ s = [i \in 1 .. n |-> s[i]]
    BY <1>1
  <2> QED BY <1>4, <2>1
<1>6. s \in Seq(HotRows) /\ Len(s) = n
  BY <1>5
<1>7. \A i \in 1 .. n : s[i].code = codes[i] /\ s[i].rank = ranks[i] /\ s[i].time = t
  <2> TAKE i \in 1 .. n
  <2>1. s[i] = [code |-> codes[i], rank |-> ranks[i], time |-> t]
    BY <1>3
  <2> QED BY <2>1
<1>8. t \in Int
  BY DataAssumption
<1>9. L!Latest(s) = t
  <2>1. s \in Seq(HotRows) /\ Len(s) # 0 /\ \A i \in 1 .. Len(s) : s[i].time = t
    BY <1>6, <1>7
  <2> QED BY <1>8, <2>1, LatestIs
<1>10. \A i \in 1 .. n : \E j \in 1 .. n : ranks[j] = i
  <2>1. CASE n = 1
    BY <1>2, <2>1
  <2>2. CASE n = 2
    <3>1. ranks[1] \in {1, 2} /\ ranks[2] \in {1, 2} /\ ranks[1] # ranks[2]
      BY <1>2, <2>2
    <3> QED BY <2>2, <3>1
  <2> QED BY <2>1, <2>2
<1>11. \A i \in 1 .. n : \E j \in 1 .. n : s[j].rank = i
  <2> TAKE i \in 1 .. n
  <2>1. PICK j \in 1 .. n : ranks[j] = i
    BY <1>10
  <2>2. s[j].rank = ranks[j]
    BY <1>7
  <2> QED BY <2>1, <2>2
<1>12. \A i \in 1 .. n : s[i].rank \in 1 .. n
  BY <1>2, <1>7
<1>13. \A i, j \in 1 .. n : i # j => s[i].code # s[j].code /\ s[i].rank # s[j].rank
  BY <1>2, <1>7
<1>14. \A i \in 1 .. n : s[i].time = L!Latest(s)
  BY <1>7, <1>9
<1> QED BY <1>6, <1>8, <1>9, <1>11, <1>12, <1>13, <1>14 DEF IsSnapshot

LEMMA ConcatRows ==
    ASSUME NEW p \in Seq(HotRows), NEW q \in Seq(HotRows), NEW r \in Seq(HotRows)
    PROVE  LET rows == (p \o q) \o r IN
           /\ rows \in Seq(HotRows)
           /\ Len(rows) = Len(p) + Len(q) + Len(r)
           /\ \A i \in 1 .. Len(p) : rows[i] = p[i]
           /\ \A i \in 1 .. Len(q) : rows[Len(p) + i] = q[i]
           /\ \A i \in 1 .. Len(r) : rows[Len(p) + Len(q) + i] = r[i]
<1> DEFINE pq == p \o q
           rows == pq \o r
<1>0. Len(p) \in Nat /\ Len(q) \in Nat /\ Len(r) \in Nat
  BY LenProperties
<1>1. /\ pq \in Seq(HotRows) /\ Len(pq) = Len(p) + Len(q)
      /\ \A i \in 1 .. Len(p) + Len(q) : pq[i] = IF i <= Len(p) THEN p[i] ELSE q[i - Len(p)]
  BY ConcatProperties
<1> HIDE DEF pq
<1>2. /\ rows \in Seq(HotRows) /\ Len(rows) = Len(pq) + Len(r)
      /\ \A i \in 1 .. Len(pq) + Len(r) : rows[i] = IF i <= Len(pq) THEN pq[i] ELSE r[i - Len(pq)]
  <2>1. pq \in Seq(HotRows)
    BY <1>1
  <2> QED BY <2>1, ConcatProperties, SMTT(30)
<1> HIDE DEF rows
<1>3. ASSUME NEW i \in 1 .. Len(p) PROVE rows[i] = p[i]
  <2>1. i \in 1 .. Len(pq) + Len(r) /\ i <= Len(pq) /\ i \in 1 .. Len(p) + Len(q) /\ i <= Len(p)
    BY <1>0, <1>1
  <2> QED BY <1>1, <1>2, <2>1
<1>4. ASSUME NEW i \in 1 .. Len(q) PROVE rows[Len(p) + i] = q[i]
  <2> DEFINE j == Len(p) + i
  <2>1. /\ j \in 1 .. Len(pq) + Len(r) /\ j <= Len(pq) /\ j \in 1 .. Len(p) + Len(q)
        /\ ~(j <= Len(p)) /\ j - Len(p) = i
    BY <1>0, <1>1
  <2> HIDE DEF j
  <2>2. rows[j] = q[i]
    BY <1>1, <1>2, <2>1
  <2> QED BY <2>2 DEF j
<1>5. ASSUME NEW i \in 1 .. Len(r) PROVE rows[Len(p) + Len(q) + i] = r[i]
  <2> DEFINE j == Len(p) + Len(q) + i
  <2>1. j \in 1 .. Len(pq) + Len(r) /\ ~(j <= Len(pq)) /\ j - Len(pq) = i
    BY <1>0, <1>1
  <2> HIDE DEF j
  <2>2. rows[j] = r[i]
    BY <1>2, <2>1
  <2> QED BY <2>2 DEF j
<1>6. Len(rows) = Len(p) + Len(q) + Len(r)
  BY <1>0, <1>1, <1>2
<1> QED BY <1>2, <1>3, <1>4, <1>5, <1>6 DEF rows, pq

\* The first j rows of q, none if j is not positive, and all if there are no more.
FirstRows(q, j) == SubSeq(q, 1, IF j <= Len(q) THEN j ELSE Len(q))

LEMMA FirstRowsAre ==
    ASSUME NEW q \in Seq(HotRows), NEW j \in Int
    PROVE  /\ FirstRows(q, j) \in Seq(HotRows)
           /\ j <= 0 => FirstRows(q, j) = <<>>
           /\ j >= Len(q) => FirstRows(q, j) = q
           /\ j \in 1 .. Len(q) => FirstRows(q, j) = Append(FirstRows(q, j - 1), q[j])
           /\ j > Len(q) => FirstRows(q, j) = FirstRows(q, j - 1)
<1>0. Len(q) \in Nat /\ \A i \in 1 .. Len(q) : q[i] \in HotRows
  BY LenProperties
<1>1. FirstRows(q, j) \in Seq(HotRows)
  <2> DEFINE l == IF j <= Len(q) THEN j ELSE Len(q)
  <2>1. l \in Int /\ \A i \in 1 .. l : q[i] \in HotRows
    BY <1>0
  <2> HIDE DEF l
  <2>2. SubSeq(q, 1, l) \in Seq(HotRows)
    BY <2>1, SubSeqProperties
  <2> QED BY <2>2 DEF FirstRows, l
<1>2. j <= 0 => FirstRows(q, j) = <<>>
  <2> SUFFICES ASSUME j <= 0 PROVE FirstRows(q, j) = <<>>
    OBVIOUS
  <2>1. FirstRows(q, j) = SubSeq(q, 1, j) /\ j < 1
    BY <1>0 DEF FirstRows
  <2> QED BY <2>1, SubSeqEmpty
<1>3. j >= Len(q) => FirstRows(q, j) = q
  <2> SUFFICES ASSUME j >= Len(q) PROVE FirstRows(q, j) = q
    OBVIOUS
  <2>1. FirstRows(q, j) = SubSeq(q, 1, Len(q))
    BY <1>0 DEF FirstRows
  <2> QED BY <2>1, SubSeqFull
<1>4. j \in 1 .. Len(q) => FirstRows(q, j) = Append(FirstRows(q, j - 1), q[j])
  <2> SUFFICES ASSUME j \in 1 .. Len(q) PROVE FirstRows(q, j) = Append(FirstRows(q, j - 1), q[j])
    OBVIOUS
  <2>1. FirstRows(q, j) = SubSeq(q, 1, j) /\ FirstRows(q, j - 1) = SubSeq(q, 1, j - 1)
    BY <1>0 DEF FirstRows
  <2> QED BY <2>1, OneMore
<1>5. j > Len(q) => FirstRows(q, j) = FirstRows(q, j - 1)
  BY <1>0 DEF FirstRows
<1> QED BY <1>1, <1>2, <1>3, <1>4, <1>5

\* The rows of the time of one of three snapshots that differ in their times are its rows.
LEMMA RowsAtIs ==
    ASSUME NEW p \in Seq(HotRows), NEW q \in Seq(HotRows), NEW r \in Seq(HotRows), NEW t,
           \A i \in 1 .. Len(p) : p[i].time # t,
           \A i \in 1 .. Len(q) : q[i].time = t,
           \A i \in 1 .. Len(r) : r[i].time # t
    PROVE  L!RowsAt((p \o q) \o r, t) = q
<1> DEFINE rows == (p \o q) \o r
           n == Len(p) + Len(q) + Len(r)
           A == Seq(HotRows)
           Taken(taken, row) == IF row.time = t THEN Append(taken, row) ELSE taken
           step == [x \in A \X (1 .. n) |-> Taken(x[1], rows[x[2]])]
           fold(it) == [s \in SUBSET (1 .. n) |->
                           IF s = {} THEN <<>> ELSE Taken(it[s \ {L!Max(s)}], rows[L!Max(s)])]
           it == CHOOSE f : f = fold(f)
           Held == [k \in 0 .. n |-> {FirstRows(q, k - Len(p))}]
<1>0. Len(p) \in Nat /\ Len(q) \in Nat /\ Len(r) \in Nat /\ n \in Nat
  BY LenProperties
<1>1. /\ rows \in Seq(HotRows) /\ Len(rows) = n
      /\ \A i \in 1 .. Len(p) : rows[i] = p[i]
      /\ \A i \in 1 .. Len(q) : rows[Len(p) + i] = q[i]
      /\ \A i \in 1 .. Len(r) : rows[Len(p) + Len(q) + i] = r[i]
  BY ConcatRows
<1>2. DOMAIN rows = 1 .. n /\ \A i \in 1 .. n : rows[i] \in HotRows
  <2> HIDE DEF rows, n
  <2> QED BY <1>1, LenProperties
<1>3. L!RowsAt(rows, t) = (CHOOSE f : f = [s \in SUBSET DOMAIN rows |->
                           IF s = {} THEN <<>> ELSE Taken(f[s \ {L!Max(s)}], rows[L!Max(s)])])[DOMAIN rows]
  <2> HIDE DEF rows
  <2> QED BY DEF L!RowsAt, L!FoldLeft, L!MapThenFoldSet
<1> HIDE DEF rows, n
<1>4. L!RowsAt(rows, t) = it[1 .. n]
  BY <1>2, <1>3
<1>5. step \in [A \X (1 .. n) -> A]
  <2>1. \A taken \in A, i \in 1 .. n : Taken(taken, rows[i]) \in A
    <3>1. \A taken \in A, row \in HotRows : Append(taken, row) \in A
      BY AppendProperties
    <3> QED BY <1>2, <3>1
  <2> HIDE DEF A, Taken
  <2> QED BY <2>1
<1>6. it = fold(it)
  <2>1. PICK f \in [SUBSET (1 .. n) -> A] : FoldOf(f, n, <<>>, step)
    <3>1. <<>> \in A
      OBVIOUS
    <3> HIDE DEF A, step
    <3> QED BY <1>0, <1>5, <3>1, FoldExists
  <2>2. ASSUME NEW s \in SUBSET (1 .. n), s # {}
        PROVE  f[s] = Taken(f[s \ {L!Max(s)}], rows[L!Max(s)])
    <3> HIDE DEF Taken, A
    <3>1. f[s] = step[<<f[s \ {L!Max(s)}], L!Max(s)>>]
      BY <2>1, <2>2 DEF FoldOf
    <3>2. L!Max(s) \in 1 .. n
      BY <1>0, <2>2, LastRow
    <3>3. f[s \ {L!Max(s)}] \in A
      OBVIOUS
    <3> QED BY <3>1, <3>2, <3>3
  <2>3. f[{}] = <<>>
    BY <2>1 DEF FoldOf
  <2>4. f = fold(f)
    <3> HIDE DEF Taken, A
    <3> QED BY <2>2, <2>3
  <2> HIDE DEF fold
  <2> QED BY <2>4
<1> HIDE DEF it
<1>7. it[{}] \in Held[0]
  <2>1. it[{}] = <<>>
    BY <1>6
  <2>2. FirstRows(q, 0 - Len(p)) = <<>>
    BY <1>0, FirstRowsAre
  <2> QED BY <1>0, <2>1, <2>2
<1>8. ASSUME NEW k \in 1 .. n, it[1 .. k - 1] \in Held[k - 1] PROVE it[1 .. k] \in Held[k]
  <2> DEFINE j == k - Len(p)
  <2>1. it[1 .. k] = Taken(it[(1 .. k) \ {L!Max(1 .. k)}], rows[L!Max(1 .. k)])
    <3>1. 1 .. k \in SUBSET (1 .. n) /\ 1 .. k # {}
      BY <1>0, LastOfFirst
    <3> HIDE DEF Taken
    <3> QED BY <1>6, <3>1
  <2>2. it[1 .. k] = Taken(it[1 .. k - 1], rows[k])
    <3> HIDE DEF Taken
    <3> QED BY <1>0, <2>1, LastOfFirst
  <2>3. it[1 .. k - 1] = FirstRows(q, j - 1) /\ Held[k] = {FirstRows(q, j)}
    <3>1. k - 1 - Len(p) = j - 1
      BY <1>0
    <3>2. Held[k - 1] = {FirstRows(q, k - 1 - Len(p))} /\ Held[k] = {FirstRows(q, k - Len(p))}
      BY <1>0
    <3> QED BY <1>8, <3>1, <3>2
  <2>4. j \in Int /\ k = Len(p) + j
    BY <1>0
  <2> HIDE DEF j, Held
  <2>5. CASE j <= 0
    <3>1. k \in 1 .. Len(p)
      BY <1>0, <2>4, <2>5
    <3>2. rows[k].time # t
      BY <1>1, <3>1
    <3>3. FirstRows(q, j - 1) = <<>> /\ FirstRows(q, j) = <<>>
      <4>1. j - 1 \in Int /\ j - 1 <= 0
        BY <2>4, <2>5
      <4> QED BY <2>4, <2>5, <4>1, FirstRowsAre
    <3> QED BY <2>2, <2>3, <3>2, <3>3
  <2>6. CASE j \in 1 .. Len(q)
    <3>1. rows[k] = q[j] /\ rows[k].time = t
      BY <1>1, <2>4, <2>6
    <3>2. FirstRows(q, j) = Append(FirstRows(q, j - 1), q[j])
      BY <2>4, <2>6, FirstRowsAre
    <3> QED BY <2>2, <2>3, <3>1, <3>2
  <2>7. CASE j > Len(q)
    <3> DEFINE i == j - Len(q)
    <3>1. i \in 1 .. Len(r) /\ k = Len(p) + Len(q) + i
      BY <1>0, <2>4, <2>7 DEF n
    <3> HIDE DEF i
    <3>2. rows[k] = r[i]
      BY <1>1, <3>1
    <3>3. rows[k].time # t
      BY <3>1, <3>2
    <3>4. FirstRows(q, j) = FirstRows(q, j - 1)
      BY <2>4, <2>7, FirstRowsAre
    <3> QED BY <2>2, <2>3, <3>3, <3>4
  <2>8. j <= 0 \/ j \in 1 .. Len(q) \/ j > Len(q)
    BY <1>0, <2>4
  <2> QED BY <2>5, <2>6, <2>7, <2>8
<1>9. it[1 .. n] \in Held[n]
  <2> HIDE DEF Held
  <2> QED BY <1>0, <1>7, <1>8, FoldReaches
<1>10. it[1 .. n] = FirstRows(q, n - Len(p))
  BY <1>0, <1>9
<1>11. FirstRows(q, n - Len(p)) = q
  <2>1. n - Len(p) \in Int /\ n - Len(p) >= Len(q)
    BY <1>0 DEF n
  <2> QED BY <2>1, FirstRowsAre
<1> QED BY <1>4, <1>10, <1>11 DEF rows

\* The rows of s differ in their stocks and in their ranks.
NoneTwice(s) ==
    s \in Seq(HotRows) /\
    \A i, j \in 1 .. Len(s) : i # j => s[i].code # s[j].code /\ s[i].rank # s[j].rank

LEMMA GrowsOn ==
    ASSUME NEW s, NoneTwice(s), NEW j \in 1 .. Len(s)
    PROVE  ~L!Repeats(FirstRows(s, j - 1), s[j])
<1>0. s \in Seq(HotRows) /\ Len(s) \in Nat
  BY LenProperties DEF NoneTwice
<1> DEFINE f == FirstRows(s, j - 1)
<1>1. CASE j = 1
  <2>1. f = <<>>
    <3>1. j - 1 \in Int /\ j - 1 <= 0
      BY <1>1
    <3> QED BY <1>0, <3>1, FirstRowsAre
  <2>2. DOMAIN f = {}
    BY <2>1
  <2> HIDE DEF f
  <2> QED BY <2>2 DEF L!Repeats, f
<1>2. CASE j # 1
  <2> DEFINE l == j - 1
  <2>1. l \in 1 .. Len(s) /\ l < j
    BY <1>0, <1>2
  <2>2. f = SubSeq(s, 1, l)
    BY <1>0, <2>1 DEF FirstRows
  <2> HIDE DEF l, f
  <2>3. f \in Seq(HotRows) /\ Len(f) = l /\ \A i \in 1 .. l : f[i] = s[i]
    BY <1>0, <2>1, <2>2, OneMore
  <2>4. DOMAIN f = 1 .. l
    BY <2>3, LenProperties
  <2>5. \A i \in 1 .. l : i \in 1 .. Len(s) /\ i # j
    BY <1>0, <2>1
  <2>6. \A i \in 1 .. l : f[i].code # s[j].code /\ f[i].rank # s[j].rank
    BY <2>3, <2>5 DEF NoneTwice
  <2>7. ~L!Repeats(f, s[j])
    BY <2>4, <2>6 DEF L!Repeats
  <2> QED BY <2>7 DEF f
<1> QED BY <1>1, <1>2

LEMMA RepeatsWhole ==
    ASSUME NEW n \in Nat, NEW s, IsSnapshot(s, n), NEW row, row.rank \in 1 .. n
    PROVE  L!Repeats(s, row)
<1>1. s \in Seq(HotRows) /\ DOMAIN s = 1 .. n
  BY LenProperties DEF IsSnapshot
<1>2. PICK j \in 1 .. n : s[j].rank = row.rank
  BY DEF IsSnapshot
<1> QED BY <1>1, <1>2 DEF L!Repeats

\* The parts after the row, which goes to the last of them unless that has its like.
Cut(parts, row) ==
    IF parts # <<>> /\ ~L!Repeats(L!Last(parts), row)
    THEN L!Front(parts) \o <<Append(L!Last(parts), row)>>
    ELSE Append(parts, <<row>>)

LEMMA CutIs ==
    /\ \A row : Cut(<<>>, row) = <<<<row>>>>
    /\ \A x, row : L!Repeats(x, row) => Cut(<<x>>, row) = <<x, <<row>>>>
    /\ \A x, row : ~L!Repeats(x, row) => Cut(<<x>>, row) = <<Append(x, row)>>
    /\ \A x, y, row : L!Repeats(y, row) => Cut(<<x, y>>, row) = <<x, y, <<row>>>>
    /\ \A x, y, row : ~L!Repeats(y, row) => Cut(<<x, y>>, row) = <<x, Append(y, row)>>
    /\ \A x, y, z, row : ~L!Repeats(z, row) => Cut(<<x, y, z>>, row) = <<x, y, Append(z, row)>>
<1>1. ASSUME NEW row PROVE Cut(<<>>, row) = <<<<row>>>>
  BY Appended DEF Cut
<1>2. ASSUME NEW x, NEW row
      PROVE  /\ L!Repeats(x, row) => Cut(<<x>>, row) = <<x, <<row>>>>
             /\ ~L!Repeats(x, row) => Cut(<<x>>, row) = <<Append(x, row)>>
  <2>1. <<x>> # <<>>
    OBVIOUS
  <2>2. L!Last(<<x>>) = x
    BY LastReplaced
  <2>3. L!Front(<<x>>) \o <<Append(x, row)>> = <<Append(x, row)>>
    BY LastReplaced
  <2>4. Append(<<x>>, <<row>>) = <<x, <<row>>>>
    BY Appended
  <2> QED BY <2>1, <2>2, <2>3, <2>4, Zenon DEF Cut
<1>3. ASSUME NEW x, NEW y, NEW row
      PROVE  /\ L!Repeats(y, row) => Cut(<<x, y>>, row) = <<x, y, <<row>>>>
             /\ ~L!Repeats(y, row) => Cut(<<x, y>>, row) = <<x, Append(y, row)>>
  <2>1. <<x, y>> # <<>>
    OBVIOUS
  <2>2. L!Last(<<x, y>>) = y
    BY LastReplaced
  <2>3. L!Front(<<x, y>>) \o <<Append(y, row)>> = <<x, Append(y, row)>>
    BY LastReplaced
  <2>4. Append(<<x, y>>, <<row>>) = <<x, y, <<row>>>>
    BY Appended
  <2> QED BY <2>1, <2>2, <2>3, <2>4, Zenon DEF Cut
<1>4. ASSUME NEW x, NEW y, NEW z, NEW row, ~L!Repeats(z, row)
      PROVE  Cut(<<x, y, z>>, row) = <<x, y, Append(z, row)>>
  <2>1. <<x, y, z>> # <<>>
    OBVIOUS
  <2>2. L!Last(<<x, y, z>>) = z
    BY LastReplaced
  <2>3. L!Front(<<x, y, z>>) \o <<Append(z, row)>> = <<x, y, Append(z, row)>>
    BY LastReplaced
  <2> QED BY <1>4, <2>1, <2>2, <2>3, Zenon DEF Cut
<1> QED BY <1>1, <1>2, <1>3, <1>4

LEMMA CutType ==
    ASSUME NEW parts \in Seq(Seq(HotRows)), NEW row \in HotRows
    PROVE  Cut(parts, row) \in Seq(Seq(HotRows))
<1> DEFINE S == Seq(HotRows)
<1>1. CASE parts # <<>> /\ ~L!Repeats(L!Last(parts), row)
  <2>1. Len(parts) \in Nat \ {0} /\ \A i \in 1 .. Len(parts) : parts[i] \in S
    <3> HIDE DEF S
    <3> QED BY <1>1, EmptySeq, LenProperties DEF S
  <2>2. L!Last(parts) \in S
    <3>1. Len(parts) \in 1 .. Len(parts)
      BY <2>1
    <3> HIDE DEF S
    <3> QED BY <2>1, <3>1 DEF L!Last
  <2>3. Append(L!Last(parts), row) \in S
    BY <2>2, AppendProperties
  <2> HIDE DEF S
  <2>4. <<Append(L!Last(parts), row)>> \in Seq(S)
    BY <2>3
  <2>5. L!Front(parts) \in Seq(S)
    <3>1. \A i \in 1 .. Len(parts) - 1 : parts[i] \in S
      BY <2>1
    <3>2. 1 \in Int /\ Len(parts) - 1 \in Int
      BY <2>1
    <3> QED BY <3>1, <3>2, SubSeqProperties DEF L!Front
  <2>6. L!Front(parts) \o <<Append(L!Last(parts), row)>> \in Seq(S)
    BY <2>4, <2>5, ConcatProperties
  <2> QED BY <1>1, <2>6 DEF Cut, S
<1>2. CASE ~(parts # <<>> /\ ~L!Repeats(L!Last(parts), row))
  <2>1. <<row>> \in S
    OBVIOUS
  <2> HIDE DEF S
  <2>2. parts \in Seq(S)
    BY DEF S
  <2>3. Append(parts, <<row>>) \in Seq(S)
    BY <2>1, <2>2, AppendProperties
  <2> QED BY <1>2, <2>3 DEF Cut, S
<1> QED BY <1>1, <1>2

\* The parts that k rows of two snapshots a and b and the beginning d of one more make.
PartsAfter(a, b, d, k) ==
    LET n == Len(a) IN
    IF k = 0 THEN <<>>
    ELSE IF k <= n THEN <<FirstRows(a, k)>>
    ELSE IF k <= n + n THEN <<a, FirstRows(b, k - n)>>
    ELSE <<a, b, FirstRows(d, k - (n + n))>>

\* What is read: two snapshots and the beginning of one more.
Made(a, b, d, n) ==
    /\ n \in Nat \ {0}
    /\ IsSnapshot(a, n) /\ IsSnapshot(b, n)
    /\ NoneTwice(d) /\ Len(d) < n /\ \A i \in 1 .. Len(d) : d[i].rank \in 1 .. n

LEMMA FirstRow ==
    ASSUME NEW s \in Seq(HotRows), 1 \in 1 .. Len(s)
    PROVE  FirstRows(s, 1) = <<s[1]>>
<1>1. FirstRows(s, 1) = Append(FirstRows(s, 1 - 1), s[1])
  BY FirstRowsAre
<1>2. FirstRows(s, 1 - 1) = <<>>
  BY FirstRowsAre
<1> QED BY <1>1, <1>2, Appended

LEMMA MadeOf ==
    ASSUME NEW a, NEW b, NEW d, NEW n, Made(a, b, d, n)
    PROVE  /\ n \in Nat /\ n # 0
           /\ a \in Seq(HotRows) /\ b \in Seq(HotRows) /\ d \in Seq(HotRows)
           /\ Len(a) = n /\ Len(b) = n /\ Len(d) \in Nat
           /\ NoneTwice(a) /\ NoneTwice(b) /\ NoneTwice(d)
           /\ \A i \in 1 .. n : b[i].rank \in 1 .. n
           /\ \A i \in 1 .. Len(d) : d[i].rank \in 1 .. n
BY LenProperties DEF Made, IsSnapshot, NoneTwice

LEMMA CutAfter ==
    ASSUME NEW a, NEW b, NEW d, NEW n, Made(a, b, d, n), NEW k \in 1 .. n + n + Len(d)
    PROVE  Cut(PartsAfter(a, b, d, k - 1), ((a \o b) \o d)[k]) = PartsAfter(a, b, d, k)
<1> DEFINE rows == (a \o b) \o d
           before_ == PartsAfter(a, b, d, k - 1)
           after == PartsAfter(a, b, d, k)
<1> SUFFICES Cut(before_, rows[k]) = after
  OBVIOUS
<1>1. /\ n \in Nat /\ n # 0
      /\ a \in Seq(HotRows) /\ b \in Seq(HotRows) /\ d \in Seq(HotRows)
      /\ Len(a) = n /\ Len(b) = n /\ Len(d) \in Nat
      /\ NoneTwice(a) /\ NoneTwice(b) /\ NoneTwice(d)
  BY MadeOf
<1>2. /\ \A i \in 1 .. n : rows[i] = a[i]
      /\ \A i \in 1 .. n : rows[n + i] = b[i]
      /\ \A i \in 1 .. Len(d) : rows[n + n + i] = d[i]
  <2>1. a \in Seq(HotRows) /\ b \in Seq(HotRows) /\ d \in Seq(HotRows)
    BY <1>1
  <2>2. /\ \A i \in 1 .. Len(a) : rows[i] = a[i]
        /\ \A i \in 1 .. Len(b) : rows[Len(a) + i] = b[i]
        /\ \A i \in 1 .. Len(d) : rows[Len(a) + Len(b) + i] = d[i]
    BY <2>1, ConcatRows
  <2> HIDE DEF rows
  <2> QED BY <1>1, <2>2
<1> HIDE DEF rows
<1>3. CASE k = 1
  <2>1. before_ = <<>>
    <3>1. k - 1 = 0
      BY <1>3
    <3> QED BY <3>1 DEF PartsAfter
  <2>2. after = <<FirstRows(a, 1)>>
    BY <1>1, <1>3 DEF PartsAfter
  <2>3. rows[k] = a[1] /\ 1 \in 1 .. Len(a)
    <3>1. 1 \in 1 .. n
      BY <1>1
    <3>2. rows[1] = a[1]
      BY <1>2, <3>1
    <3> QED BY <1>1, <1>3, <3>1, <3>2
  <2>4. FirstRows(a, 1) = <<a[1]>>
    BY <1>1, <2>3, FirstRow
  <2> HIDE DEF before_, after
  <2> QED BY <2>1, <2>2, <2>3, <2>4, CutIs
<1>4. CASE k # 1 /\ k <= n
  <2>1. before_ = <<FirstRows(a, k - 1)>>
    BY <1>1, <1>4 DEF PartsAfter
  <2>2. after = <<FirstRows(a, k)>>
    BY <1>1, <1>4 DEF PartsAfter
  <2>3. k \in 1 .. Len(a) /\ k \in 1 .. n /\ k \in Int
    BY <1>1, <1>4
  <2>4. rows[k] = a[k]
    BY <1>2, <2>3
  <2>5. ~L!Repeats(FirstRows(a, k - 1), a[k])
    BY <1>1, <2>3, GrowsOn
  <2>6. FirstRows(a, k) = Append(FirstRows(a, k - 1), a[k])
    BY <1>1, <2>3, FirstRowsAre
  <2>7. Cut(<<FirstRows(a, k - 1)>>, a[k]) = <<Append(FirstRows(a, k - 1), a[k])>>
    BY <2>5, CutIs
  <2> HIDE DEF before_, after
  <2> QED BY <2>1, <2>2, <2>4, <2>6, <2>7
<1>5. CASE k = n + 1
  <2>1. before_ = <<a>>
    <3>1. before_ = <<FirstRows(a, n)>>
      BY <1>1, <1>5 DEF PartsAfter
    <3>2. FirstRows(a, n) = a
      BY <1>1, FirstRowsAre
    <3> QED BY <3>1, <3>2
  <2>2. after = <<a, FirstRows(b, 1)>>
    <3>1. k # 0 /\ ~(k <= n) /\ k <= n + n /\ k - n = 1
      BY <1>1, <1>5
    <3> QED BY <1>1, <3>1 DEF PartsAfter
  <2>3. rows[k] = b[1] /\ 1 \in 1 .. Len(b) /\ 1 \in 1 .. n
    BY <1>1, <1>2, <1>5
  <2>4. FirstRows(b, 1) = <<b[1]>>
    BY <1>1, <2>3, FirstRow
  <2>5. L!Repeats(a, b[1])
    <3>1. IsSnapshot(a, n) /\ b[1].rank \in 1 .. n
      BY <2>3, MadeOf DEF Made
    <3> QED BY <1>1, <3>1, RepeatsWhole
  <2> HIDE DEF before_, after
  <2> QED BY <2>1, <2>2, <2>3, <2>4, <2>5, CutIs
<1>6. CASE k > n + 1 /\ k <= n + n
  <2> DEFINE j == k - n
  <2>1. j - 1 = k - 1 - n /\ j \in 1 .. n /\ j \in Int /\ k = n + j /\ ~(k - 1 <= n) /\ k - 1 <= n + n /\ k - 1 # 0
    BY <1>1, <1>6
  <2>2. before_ = <<a, FirstRows(b, j - 1)>>
    BY <1>1, <2>1 DEF PartsAfter
  <2>3. after = <<a, FirstRows(b, j)>>
    BY <1>1, <1>6 DEF PartsAfter
  <2> HIDE DEF j
  <2>4. rows[k] = b[j]
    BY <1>2, <2>1
  <2>5. ~L!Repeats(FirstRows(b, j - 1), b[j])
    BY <1>1, <2>1, GrowsOn
  <2>6. FirstRows(b, j) = Append(FirstRows(b, j - 1), b[j])
    BY <1>1, <2>1, FirstRowsAre
  <2>7. Cut(<<a, FirstRows(b, j - 1)>>, b[j]) = <<a, Append(FirstRows(b, j - 1), b[j])>>
    BY <2>5, CutIs
  <2> HIDE DEF before_, after
  <2> QED BY <2>2, <2>3, <2>4, <2>6, <2>7
<1>7. CASE k = n + n + 1
  <2>1. before_ = <<a, b>>
    <3>1. k - 1 # 0 /\ ~(k - 1 <= n) /\ k - 1 <= n + n /\ k - 1 - n = n
      BY <1>1, <1>7
    <3>2. before_ = <<a, FirstRows(b, n)>>
      BY <1>1, <3>1 DEF PartsAfter
    <3>3. FirstRows(b, n) = b
      BY <1>1, FirstRowsAre
    <3> QED BY <3>2, <3>3
  <2>2. after = <<a, b, FirstRows(d, 1)>>
    <3>1. k # 0 /\ ~(k <= n) /\ ~(k <= n + n) /\ k - (n + n) = 1
      BY <1>1, <1>7
    <3> QED BY <1>1, <3>1 DEF PartsAfter
  <2>3. rows[k] = d[1] /\ 1 \in 1 .. Len(d)
    BY <1>1, <1>2, <1>7
  <2>4. FirstRows(d, 1) = <<d[1]>>
    BY <1>1, <2>3, FirstRow
  <2>5. L!Repeats(b, d[1])
    <3>1. IsSnapshot(b, n) /\ d[1].rank \in 1 .. n
      BY <2>3, MadeOf DEF Made
    <3> QED BY <1>1, <3>1, RepeatsWhole
  <2> HIDE DEF before_, after
  <2> QED BY <2>1, <2>2, <2>3, <2>4, <2>5, CutIs
<1>8. CASE k > n + n + 1
  <2> DEFINE j == k - (n + n)
  <2>1. /\ j - 1 = k - 1 - (n + n) /\ j \in 1 .. Len(d) /\ j \in Int /\ k = n + n + j
        /\ ~(k - 1 <= n) /\ ~(k - 1 <= n + n) /\ k - 1 # 0
    BY <1>1, <1>8
  <2>2. before_ = <<a, b, FirstRows(d, j - 1)>>
    BY <1>1, <2>1 DEF PartsAfter
  <2>3. after = <<a, b, FirstRows(d, j)>>
    <3>1. k # 0 /\ ~(k <= n) /\ ~(k <= n + n)
      BY <1>1, <1>8
    <3> QED BY <1>1, <3>1 DEF PartsAfter
  <2> HIDE DEF j
  <2>4. rows[k] = d[j]
    BY <1>2, <2>1
  <2>5. ~L!Repeats(FirstRows(d, j - 1), d[j])
    BY <1>1, <2>1, GrowsOn
  <2>6. FirstRows(d, j) = Append(FirstRows(d, j - 1), d[j])
    BY <1>1, <2>1, FirstRowsAre
  <2> HIDE DEF before_, after
  <2> QED BY <2>2, <2>3, <2>4, <2>5, <2>6, CutIs
<1>9. \/ k = 1 \/ (k # 1 /\ k <= n) \/ k = n + 1 \/ (k > n + 1 /\ k <= n + n)
      \/ k = n + n + 1 \/ k > n + n + 1
  BY <1>1
<1> QED BY <1>3, <1>4, <1>5, <1>6, <1>7, <1>8, <1>9

LEMMA SplitIs ==
    ASSUME NEW a, NEW b, NEW d, NEW n, Made(a, b, d, n)
    PROVE  L!Split((a \o b) \o d) = IF Len(d) = 0 THEN <<a, b>> ELSE <<a, b, d>>
<1> DEFINE rows == (a \o b) \o d
           all_ == n + n + Len(d)
           A == Seq(Seq(HotRows))
           step == [x \in A \X (1 .. all_) |-> Cut(x[1], rows[x[2]])]
           fold(it) == [s \in SUBSET (1 .. all_) |->
                           IF s = {} THEN <<>> ELSE Cut(it[s \ {L!Max(s)}], rows[L!Max(s)])]
           it == CHOOSE f : f = fold(f)
           Held == [k \in 0 .. all_ |-> {PartsAfter(a, b, d, k)}]
<1>0. /\ n \in Nat /\ n # 0
      /\ a \in Seq(HotRows) /\ b \in Seq(HotRows) /\ d \in Seq(HotRows)
      /\ Len(a) = n /\ Len(b) = n /\ Len(d) \in Nat
  BY MadeOf
<1>00. all_ \in Nat
  BY <1>0
<1>1. rows \in Seq(HotRows) /\ Len(rows) = all_
  <2>1. a \in Seq(HotRows) /\ b \in Seq(HotRows) /\ d \in Seq(HotRows)
    BY <1>0
  <2>2. rows \in Seq(HotRows) /\ Len(rows) = Len(a) + Len(b) + Len(d)
    BY <2>1, ConcatRows
  <2> HIDE DEF rows
  <2> QED BY <1>0, <2>2
<1>2. DOMAIN rows = 1 .. all_ /\ \A i \in 1 .. all_ : rows[i] \in HotRows
  <2> HIDE DEF rows, all_
  <2> QED BY <1>1, LenProperties
<1>3. L!Split(rows) = (CHOOSE f : f = [s \in SUBSET DOMAIN rows |->
                           IF s = {} THEN <<>> ELSE Cut(f[s \ {L!Max(s)}], rows[L!Max(s)])])[DOMAIN rows]
  <2> HIDE DEF rows
  <2> QED BY DEF L!Split, L!FoldLeft, L!MapThenFoldSet, Cut
<1> HIDE DEF rows, all_
<1>4. L!Split(rows) = it[1 .. all_]
  BY <1>2, <1>3
<1>5. step \in [A \X (1 .. all_) -> A]
  <2>1. \A parts \in A, i \in 1 .. all_ : Cut(parts, rows[i]) \in A
    BY <1>2, CutType
  <2> HIDE DEF A
  <2> QED BY <2>1
<1>6. it = fold(it)
  <2>1. PICK f \in [SUBSET (1 .. all_) -> A] : FoldOf(f, all_, <<>>, step)
    <3>1. <<>> \in A
      OBVIOUS
    <3> HIDE DEF A, step
    <3> QED BY <1>00, <1>5, <3>1, FoldExists
  <2>2. ASSUME NEW s \in SUBSET (1 .. all_), s # {}
        PROVE  f[s] = Cut(f[s \ {L!Max(s)}], rows[L!Max(s)])
    <3> HIDE DEF A
    <3>1. f[s] = step[<<f[s \ {L!Max(s)}], L!Max(s)>>]
      BY <2>1, <2>2 DEF FoldOf
    <3>2. L!Max(s) \in 1 .. all_
      BY <1>00, <2>2, LastRow
    <3>3. f[s \ {L!Max(s)}] \in A
      OBVIOUS
    <3> QED BY <3>1, <3>2, <3>3
  <2>3. f[{}] = <<>>
    BY <2>1 DEF FoldOf
  <2>4. f = fold(f)
    <3> HIDE DEF A
    <3> QED BY <2>2, <2>3
  <2> HIDE DEF fold
  <2> QED BY <2>4
<1> HIDE DEF it
<1>7. it[{}] \in Held[0]
  <2>1. it[{}] = <<>>
    BY <1>6
  <2>2. PartsAfter(a, b, d, 0) = <<>>
    BY DEF PartsAfter
  <2> QED BY <1>00, <2>1, <2>2
<1>8. ASSUME NEW k \in 1 .. all_, it[1 .. k - 1] \in Held[k - 1] PROVE it[1 .. k] \in Held[k]
  <2>1. it[1 .. k] = Cut(it[(1 .. k) \ {L!Max(1 .. k)}], rows[L!Max(1 .. k)])
    <3>1. 1 .. k \in SUBSET (1 .. all_) /\ 1 .. k # {}
      BY <1>00, LastOfFirst
    <3> QED BY <1>6, <3>1
  <2>2. it[1 .. k] = Cut(it[1 .. k - 1], rows[k])
    BY <1>00, <2>1, LastOfFirst
  <2>3. it[1 .. k - 1] = PartsAfter(a, b, d, k - 1) /\ Held[k] = {PartsAfter(a, b, d, k)}
    <3>1. k - 1 \in 0 .. all_ /\ k \in 0 .. all_
      BY <1>00
    <3> QED BY <1>8, <3>1
  <2>4. Cut(PartsAfter(a, b, d, k - 1), rows[k]) = PartsAfter(a, b, d, k)
    <3>1. k \in 1 .. n + n + Len(d)
      BY DEF all_
    <3> QED BY <3>1, CutAfter DEF rows
  <2> HIDE DEF Held
  <2> QED BY <2>2, <2>3, <2>4
<1>9. it[1 .. all_] \in Held[all_]
  <2> HIDE DEF Held
  <2> QED BY <1>00, <1>7, <1>8, FoldReaches
<1>10. it[1 .. all_] = PartsAfter(a, b, d, all_)
  BY <1>00, <1>9
<1>11. PartsAfter(a, b, d, all_) = IF Len(d) = 0 THEN <<a, b>> ELSE <<a, b, d>>
  <2>1. CASE Len(d) = 0
    <3>1. all_ # 0 /\ ~(all_ <= n) /\ all_ <= n + n /\ all_ - n = n
      BY <1>0, <2>1 DEF all_
    <3>2. FirstRows(b, n) = b
      BY <1>0, FirstRowsAre
    <3> QED BY <1>0, <2>1, <3>1, <3>2 DEF PartsAfter
  <2>2. CASE Len(d) # 0
    <3>1. all_ # 0 /\ ~(all_ <= n) /\ ~(all_ <= n + n) /\ all_ - (n + n) = Len(d)
      BY <1>0, <2>2 DEF all_
    <3>2. FirstRows(d, Len(d)) = d
      BY <1>0, FirstRowsAre
    <3> QED BY <1>0, <2>2, <3>1, <3>2 DEF PartsAfter
  <2> QED BY <2>1, <2>2
<1> QED BY <1>4, <1>10, <1>11 DEF rows

\* The one that is wanted of two whole snapshots and perhaps a part that is shorter: the later.
LEMMA WantedIs ==
    ASSUME NEW a, NEW b, NEW d, NEW n \in Nat, Len(a) = n, Len(b) = n, Len(d) \in Nat, Len(d) < n,
           L!Latest(a) \in Int, L!Latest(b) \in Int,
           NEW parts, parts = <<a, b>> \/ parts = <<a, b, d>>
    PROVE  /\ L!Wanted(parts) \in {a, b}
           /\ L!Latest(a) <= L!Latest(L!Wanted(parts)) /\ L!Latest(b) <= L!Latest(L!Wanted(parts))
<1> DEFINE size == L!Max({Len(parts[i]) : i \in DOMAIN parts})
           whole == {i \in DOMAIN parts : Len(parts[i]) = size}
           latest == L!Max({L!Latest(parts[i]) : i \in whole})
           right == {i \in whole : L!Latest(parts[i]) = latest}
<1>1. L!Wanted(parts) = parts[L!Min(right)]
  BY DEF L!Wanted
<1>2. parts[1] = a /\ parts[2] = b
  OBVIOUS
<1>3. DOMAIN parts = {1, 2} \/ (DOMAIN parts = {1, 2, 3} /\ parts[3] = d)
  <2>1. CASE parts = <<a, b>>
    BY <2>1
  <2>2. CASE parts = <<a, b, d>>
    BY <2>2
  <2> QED BY <2>1, <2>2
<1>4. size = n
  <2> DEFINE lengths == {Len(parts[i]) : i \in DOMAIN parts}
  <2>1. lengths \in SUBSET Int /\ n \in lengths /\ \A y \in lengths : y <= n
    <3>1. \A i \in DOMAIN parts : Len(parts[i]) \in Int /\ Len(parts[i]) <= n
      BY <1>2, <1>3
    <3>2. 1 \in DOMAIN parts /\ Len(parts[1]) = n
      BY <1>2, <1>3
    <3> QED BY <3>1, <3>2
  <2> HIDE DEF lengths
  <2>2. L!Max(lengths) = n
    BY <2>1, GreatestIs
  <2> QED BY <2>2 DEF lengths
<1> HIDE DEF size
<1>5. whole = {1, 2}
  <2>1. Len(parts[1]) = n /\ Len(parts[2]) = n
    BY <1>2
  <2>2. 3 \in DOMAIN parts => Len(parts[3]) # n
    BY <1>3
  <2> QED BY <1>3, <1>4, <2>1, <2>2
<1> HIDE DEF whole
<1>6. latest = L!Max({L!Latest(a), L!Latest(b)})
  <2>1. {L!Latest(parts[i]) : i \in whole} = {L!Latest(a), L!Latest(b)}
    BY <1>2, <1>5
  <2> QED BY <2>1
<1>7. latest \in {L!Latest(a), L!Latest(b)} /\ L!Latest(a) <= latest /\ L!Latest(b) <= latest
  BY <1>6, GreatestOfTwo
<1> HIDE DEF latest
<1>8. right \subseteq {1, 2} /\ right # {}
  BY <1>2, <1>5, <1>7
<1> HIDE DEF right
<1>9. L!Min(right) \in right
  <2>1. \E x \in right : \A y \in right : x =< y
    <3>1. CASE 1 \in right
      <4>1. \A y \in right : 1 =< y
        BY <1>8
      <4> QED BY <3>1, <4>1
    <3>2. CASE 1 \notin right
      <4>1. 2 \in right /\ \A y \in right : y = 2
        BY <1>8, <3>2
      <4> QED BY <4>1
    <3> QED BY <3>1, <3>2
  <2> QED BY <2>1 DEF L!Min
<1>10. parts[L!Min(right)] \in {a, b} /\ L!Latest(parts[L!Min(right)]) = latest
  BY <1>2, <1>8, <1>9 DEF right
<1> QED BY <1>1, <1>7, <1>10

LEMMA SnapshotIsValid ==
    ASSUME NEW n \in Nat, NEW s, IsSnapshot(s, n)
    PROVE  L!Validated(s) = s
<1>1. DOMAIN s = 1 .. n
  BY LenProperties DEF IsSnapshot
<1>2. ~ \E i, j \in DOMAIN s : i < j /\ (s[i].code = s[j].code \/ s[i].rank = s[j].rank)
  <2> SUFFICES ASSUME NEW i \in 1 .. n, NEW j \in 1 .. n, i < j
               PROVE  s[i].code # s[j].code /\ s[i].rank # s[j].rank
    BY <1>1
  <2>1. i # j
    OBVIOUS
  <2> QED BY <2>1 DEF IsSnapshot
<1> QED BY <1>2 DEF L!Validated

LEMMA ThsFinds ==
    ASSUME NEW a, NEW b, NEW d, NEW n, Made(a, b, d, n), L!Latest(a) \in Int, L!Latest(b) \in Int
    PROVE  LET found == L!Validated(L!ThsSnapshot((a \o b) \o d)) IN
           /\ found \in {a, b}
           /\ L!Latest(a) <= L!Latest(found) /\ L!Latest(b) <= L!Latest(found)
<1> DEFINE rows == (a \o b) \o d
           parts == L!Split(rows)
<1>1. /\ n \in Nat /\ n # 0
      /\ a \in Seq(HotRows) /\ b \in Seq(HotRows) /\ d \in Seq(HotRows)
      /\ Len(a) = n /\ Len(b) = n /\ Len(d) \in Nat /\ Len(d) < n
  BY MadeOf DEF Made
<1>2. rows # <<>>
  <2>1. rows \in Seq(HotRows) /\ Len(rows) = Len(a) + Len(b) + Len(d)
    BY <1>1, ConcatRows
  <2>2. Len(rows) # 0
    <3> HIDE DEF rows
    <3> QED BY <1>1, <2>1
  <2> HIDE DEF rows
  <2> QED BY <2>2
<1>3. parts = <<a, b>> \/ parts = <<a, b, d>>
  BY SplitIs
<1> HIDE DEF parts
<1>4. /\ L!Wanted(parts) \in {a, b}
      /\ L!Latest(a) <= L!Latest(L!Wanted(parts)) /\ L!Latest(b) <= L!Latest(L!Wanted(parts))
  <2>1. n \in Nat /\ Len(a) = n /\ Len(b) = n /\ Len(d) \in Nat /\ Len(d) < n
    BY <1>1
  <2> HIDE DEF rows
  <2> QED BY <1>3, <2>1, WantedIs, Zenon
<1>5. L!ThsSnapshot(rows) = L!Wanted(parts)
  <2> HIDE DEF rows
  <2> QED BY <1>2 DEF L!ThsSnapshot, parts
<1>6. IsSnapshot(a, n) /\ IsSnapshot(b, n)
  BY DEF Made
<1>7. L!Validated(L!Wanted(parts)) = L!Wanted(parts)
  BY <1>1, <1>4, <1>6, SnapshotIsValid
<1> HIDE DEF rows
<1> QED BY <1>4, <1>5, <1>7 DEF rows

LEMMA DcFinds ==
    ASSUME NEW a, NEW b, NEW d, NEW n, Made(a, b, d, n), L!Latest(a) \in Int, L!Latest(b) \in Int,
           L!Latest(a) # L!Latest(b), NEW t \in Int, \A i \in 1 .. Len(d) : d[i].time = t,
           Len(d) # 0 => t # L!Latest(a) /\ t # L!Latest(b)
    PROVE  LET found == L!Validated(L!DcSnapshot((a \o b) \o d)) IN
           /\ found \in {a, b}
           /\ L!Latest(a) <= L!Latest(found) /\ L!Latest(b) <= L!Latest(found)
<1> DEFINE rows == (a \o b) \o d
           ta == L!Latest(a)
           tb == L!Latest(b)
           times == {rows[i].time : i \in DOMAIN rows}
           size == L!Max({Len(L!RowsAt(rows, u)) : u \in times})
           latest == L!Max({u \in times : Len(L!RowsAt(rows, u)) = size})
<1>1. /\ n \in Nat /\ n # 0
      /\ a \in Seq(HotRows) /\ b \in Seq(HotRows) /\ d \in Seq(HotRows)
      /\ Len(a) = n /\ Len(b) = n /\ Len(d) \in Nat /\ Len(d) < n
  BY MadeOf DEF Made
<1>2. IsSnapshot(a, n) /\ IsSnapshot(b, n)
  BY DEF Made
<1>3. /\ \A i \in 1 .. Len(a) : a[i].time = ta
      /\ \A i \in 1 .. Len(b) : b[i].time = tb
  BY <1>1, <1>2 DEF IsSnapshot
<1>4. L!RowsAt(rows, ta) = a
  <2> DEFINE none == <<>>
             bd == b \o d
  <2>1. none \in Seq(HotRows) /\ Len(none) = 0
    OBVIOUS
  <2>2. bd \in Seq(HotRows) /\ Len(bd) = Len(b) + Len(d)
        /\ \A i \in 1 .. Len(b) + Len(d) : bd[i] = IF i <= Len(b) THEN b[i] ELSE d[i - Len(b)]
    BY <1>1, ConcatProperties
  <2>3. \A i \in 1 .. Len(bd) : bd[i].time # ta
    <3> TAKE i \in 1 .. Len(bd)
    <3>1. CASE i <= Len(b)
      <4>1. i \in 1 .. Len(b) /\ i \in 1 .. Len(b) + Len(d)
        BY <1>1, <2>2, <3>1
      <4>2. bd[i] = b[i]
        BY <2>2, <3>1, <4>1
      <4> HIDE DEF ta, tb, bd
      <4> QED BY <1>3, <4>1, <4>2 DEF ta, tb
    <3>2. CASE ~(i <= Len(b))
      <4>1. i - Len(b) \in 1 .. Len(d) /\ Len(d) # 0 /\ i \in 1 .. Len(b) + Len(d)
        BY <1>1, <2>2, <3>2
      <4>2. bd[i] = d[i - Len(b)]
        BY <2>2, <3>2, <4>1
      <4> HIDE DEF bd
      <4> QED BY <4>1, <4>2
    <3> QED BY <3>1, <3>2
  <2>4. rows = (none \o a) \o bd
    <3>1. none \o a = a
      BY <1>1, ConcatEmptySeq
    <3>2. rows = a \o bd
      <4>1. a \in Seq(HotRows) /\ b \in Seq(HotRows) /\ d \in Seq(HotRows)
        BY <1>1
      <4>2. (a \o b) \o d = a \o (b \o d)
        <5> HIDE DEF rows, bd
        <5> QED BY <4>1, ConcatAssociative
      <4> QED BY <4>2
    <3> QED BY <3>1, <3>2
  <2>5. \A i \in 1 .. Len(none) : none[i].time # ta
    BY <2>1
  <2>6. L!RowsAt((none \o a) \o bd, ta) = a
    <3> HIDE DEF none, bd, ta
    <3>1. none \in Seq(HotRows) /\ a \in Seq(HotRows) /\ bd \in Seq(HotRows)
      BY <1>1, <2>1, <2>2
    <3>2. \A i \in 1 .. Len(a) : a[i].time = ta
      BY <1>3
    <3> QED BY <2>3, <2>5, <3>1, <3>2, RowsAtIs
  <2> QED BY <2>4, <2>6
<1>5. L!RowsAt(rows, tb) = b
  <2>1. \A i \in 1 .. Len(a) : a[i].time # tb
    BY <1>3
  <2>2. \A i \in 1 .. Len(d) : d[i].time # tb
    <3> TAKE i \in 1 .. Len(d)
    <3>1. Len(d) # 0
      BY <1>1
    <3> QED BY <3>1
  <2> HIDE DEF tb
  <2> QED BY <1>1, <1>3, <2>1, <2>2, RowsAtIs
<1>6. Len(d) # 0 => L!RowsAt(rows, t) = d
  <2> SUFFICES ASSUME Len(d) # 0 PROVE L!RowsAt(rows, t) = d
    OBVIOUS
  <2> DEFINE none == <<>>
             ab == a \o b
  <2>1. none \in Seq(HotRows) /\ Len(none) = 0 /\ \A i \in 1 .. Len(none) : none[i].time # t
    OBVIOUS
  <2>2. ab \in Seq(HotRows) /\ Len(ab) = Len(a) + Len(b)
        /\ \A i \in 1 .. Len(a) + Len(b) : ab[i] = IF i <= Len(a) THEN a[i] ELSE b[i - Len(a)]
    BY <1>1, ConcatProperties
  <2>3. \A i \in 1 .. Len(ab) : ab[i].time # t
    <3> TAKE i \in 1 .. Len(ab)
    <3>1. CASE i <= Len(a)
      <4>1. i \in 1 .. Len(a) /\ i \in 1 .. Len(a) + Len(b)
        BY <1>1, <2>2, <3>1
      <4>2. ab[i] = a[i]
        BY <2>2, <3>1, <4>1
      <4> HIDE DEF ab
      <4> QED BY <1>3, <4>1, <4>2
    <3>2. CASE ~(i <= Len(a))
      <4>1. i - Len(a) \in 1 .. Len(b) /\ i \in 1 .. Len(a) + Len(b)
        BY <1>1, <2>2, <3>2
      <4>2. ab[i] = b[i - Len(a)]
        BY <2>2, <3>2, <4>1
      <4> HIDE DEF ab
      <4> QED BY <1>3, <4>1, <4>2
    <3> QED BY <3>1, <3>2
  <2>4. rows = (ab \o d) \o none
    <3>1. ab \o d \in Seq(HotRows)
      <4> HIDE DEF ab
      <4> QED BY <1>1, <2>2, ConcatProperties
    <3> QED BY <3>1, ConcatEmptySeq
  <2>5. L!RowsAt((ab \o d) \o none, t) = d
    <3> HIDE DEF none, ab
    <3>1. ab \in Seq(HotRows) /\ d \in Seq(HotRows) /\ none \in Seq(HotRows)
      BY <1>1, <2>1, <2>2
    <3>2. \A i \in 1 .. Len(none) : none[i].time # t
      BY <2>1
    <3>3. \A i \in 1 .. Len(d) : d[i].time = t
      OBVIOUS
    <3> QED BY <2>3, <3>1, <3>2, <3>3, RowsAtIs, SMTT(60)
  <2> QED BY <2>4, <2>5
<1>7. times = IF Len(d) = 0 THEN {ta, tb} ELSE {ta, tb, t}
  <2>1. /\ rows \in Seq(HotRows) /\ Len(rows) = Len(a) + Len(b) + Len(d)
        /\ \A i \in 1 .. Len(a) : rows[i] = a[i]
        /\ \A i \in 1 .. Len(b) : rows[Len(a) + i] = b[i]
        /\ \A i \in 1 .. Len(d) : rows[Len(a) + Len(b) + i] = d[i]
    <3>1. a \in Seq(HotRows) /\ b \in Seq(HotRows) /\ d \in Seq(HotRows)
      BY <1>1
    <3> QED BY <3>1, ConcatRows
  <2> HIDE DEF rows, ta, tb
  <2>2. DOMAIN rows = 1 .. n + n + Len(d)
    BY <1>1, <2>1, LenProperties
  <2>3. \A i \in DOMAIN rows : rows[i].time \in {ta, tb} \/ (Len(d) # 0 /\ rows[i].time = t)
    <3> TAKE i \in DOMAIN rows
    <3>1. CASE i <= n
      <4>1. i \in 1 .. Len(a)
        BY <1>1, <2>2, <3>1
      <4> QED BY <1>3, <2>1, <4>1
    <3>2. CASE ~(i <= n) /\ i <= n + n
      <4> DEFINE j == i - n
      <4>1. j \in 1 .. Len(b) /\ i = Len(a) + j
        BY <1>1, <2>2, <3>2
      <4> HIDE DEF j
      <4> QED BY <1>3, <2>1, <4>1
    <3>3. CASE ~(i <= n + n)
      <4> DEFINE j == i - (n + n)
      <4>1. j \in 1 .. Len(d) /\ i = Len(a) + Len(b) + j /\ Len(d) # 0
        BY <1>1, <2>2, <3>3
      <4> HIDE DEF j
      <4> QED BY <2>1, <4>1
    <3> QED BY <3>1, <3>2, <3>3
  <2>4. 1 \in DOMAIN rows /\ rows[1].time = ta
    <3>1. 1 \in 1 .. Len(a) /\ 1 \in DOMAIN rows
      BY <1>1, <2>2
    <3> QED BY <1>3, <2>1, <3>1
  <2>5. n + 1 \in DOMAIN rows /\ rows[n + 1].time = tb
    <3>1. 1 \in 1 .. Len(b) /\ n + 1 \in DOMAIN rows /\ Len(a) + 1 = n + 1
      BY <1>1, <2>2
    <3> QED BY <1>3, <2>1, <3>1
  <2>6. Len(d) # 0 => n + n + 1 \in DOMAIN rows /\ rows[n + n + 1].time = t
    <3> SUFFICES ASSUME Len(d) # 0 PROVE n + n + 1 \in DOMAIN rows /\ rows[n + n + 1].time = t
      OBVIOUS
    <3>1. 1 \in 1 .. Len(d) /\ n + n + 1 \in DOMAIN rows /\ Len(a) + Len(b) + 1 = n + n + 1
      BY <1>1, <2>2
    <3> QED BY <2>1, <3>1
  <2> QED BY <2>3, <2>4, <2>5, <2>6
<1> HIDE DEF rows, times
<1>8. ta \in Int /\ tb \in Int /\ t \in Int /\ ta # tb
  OBVIOUS
<1>9. size = n
  <2> DEFINE lengths == {Len(L!RowsAt(rows, u)) : u \in times}
  <2>1. lengths \in SUBSET Int /\ n \in lengths /\ \A y \in lengths : y <= n
    <3>1. \A u \in times : Len(L!RowsAt(rows, u)) \in Int /\ Len(L!RowsAt(rows, u)) <= n
      <4> TAKE u \in times
      <4>1. u = ta \/ u = tb \/ (Len(d) # 0 /\ u = t)
        BY <1>7
      <4> HIDE DEF ta, tb
      <4> QED BY <1>1, <1>4, <1>5, <1>6, <4>1
    <3>2. ta \in times /\ Len(L!RowsAt(rows, ta)) = n
      BY <1>1, <1>4, <1>7
    <3> HIDE DEF ta, tb
    <3> QED BY <3>1, <3>2
  <2> HIDE DEF lengths
  <2>2. L!Max(lengths) = n
    BY <1>1, <2>1, GreatestIs
  <2> QED BY <2>2 DEF lengths
<1> HIDE DEF size
<1>10. {u \in times : Len(L!RowsAt(rows, u)) = size} = {ta, tb}
  <2>1. Len(L!RowsAt(rows, ta)) = n /\ Len(L!RowsAt(rows, tb)) = n
    BY <1>1, <1>4, <1>5
  <2>2. Len(d) # 0 => Len(L!RowsAt(rows, t)) # n
    BY <1>1, <1>6
  <2> HIDE DEF ta, tb
  <2> QED BY <1>7, <1>9, <2>1, <2>2
<1>11. latest = L!Max({ta, tb})
  BY <1>10
<1>12. latest \in {ta, tb} /\ ta <= latest /\ tb <= latest
  <2> HIDE DEF ta, tb, latest
  <2> QED BY <1>8, <1>11, GreatestOfTwo
<1>13. rows # <<>>
  <2>1. ta \in times
    BY <1>7
  <2>2. DOMAIN rows # {}
    BY <2>1 DEF times
  <2> QED BY <2>2
<1>14. L!DcSnapshot(rows) = L!RowsAt(rows, latest)
  BY <1>13 DEF L!DcSnapshot, times, size
<1> HIDE DEF latest
<1>15. L!DcSnapshot(rows) \in {a, b} /\ L!Latest(L!DcSnapshot(rows)) = latest
  <2>1. CASE latest = ta
    BY <1>4, <1>14, <2>1
  <2>2. CASE latest = tb
    BY <1>5, <1>14, <2>2
  <2> QED BY <1>12, <2>1, <2>2
<1>16. L!Validated(L!DcSnapshot(rows)) = L!DcSnapshot(rows)
  BY <1>1, <1>2, <1>15, SnapshotIsValid
<1> QED BY <1>12, <1>15, <1>16 DEF rows

LEMMA MadeOfSnapshots ==
    ASSUME NEW n \in 1 .. 2, NEW a \in L!Snapshots(n), NEW b \in L!Snapshots(n), NEW c \in L!Snapshots(n),
           NEW m \in 0 .. n - 1
    PROVE  LET d == SubSeq(c, 1, m) IN
           /\ Made(a, b, d, n) /\ Len(d) = m
           /\ L!Latest(a) \in Int /\ L!Latest(b) \in Int /\ L!Latest(c) \in Int
           /\ \A i \in 1 .. m : d[i].time = L!Latest(c)
           /\ m # 0 => L!Latest(d) = L!Latest(c)
<1> DEFINE d == SubSeq(c, 1, m)
<1>1. /\ IsSnapshot(a, n) /\ IsSnapshot(b, n) /\ IsSnapshot(c, n)
      /\ L!Latest(a) \in Int /\ L!Latest(b) \in Int /\ L!Latest(c) \in Int
  BY SnapshotIs
<1>2. /\ c \in Seq(HotRows) /\ Len(c) = n
      /\ \A i, j \in 1 .. n : i # j => c[i].code # c[j].code /\ c[i].rank # c[j].rank
      /\ \A i \in 1 .. n : c[i].rank \in 1 .. n
      /\ \A i \in 1 .. n : c[i].time = L!Latest(c)
  BY <1>1 DEF IsSnapshot
<1>3. m \in Nat /\ m < n /\ n \in Nat \ {0} /\ \A i \in 1 .. m : i \in 1 .. n
  OBVIOUS
<1>4. d \in Seq(HotRows) /\ Len(d) = m /\ \A i \in 1 .. m : d[i] = c[i]
  <2>1. CASE m = 0
    <3>1. d = <<>>
      <4>1. m \in Int /\ 1 \in Int /\ m < 1
        BY <2>1
      <4> QED BY <4>1, SubSeqEmpty
    <3> QED BY <2>1, <3>1
  <2>2. CASE m # 0
    <3>1. m \in 1 .. Len(c)
      BY <1>2, <1>3, <2>2
    <3> QED BY <1>2, <3>1, OneMore
  <2> QED BY <2>1, <2>2
<1> HIDE DEF d
<1>5. NoneTwice(d)
  BY <1>2, <1>3, <1>4 DEF NoneTwice
<1>6. Made(a, b, d, n)
  <2>1. \A i \in 1 .. Len(d) : d[i].rank \in 1 .. n
    BY <1>2, <1>3, <1>4
  <2> QED BY <1>1, <1>3, <1>4, <1>5, <2>1 DEF Made
<1>7. \A i \in 1 .. m : d[i].time = L!Latest(c)
  BY <1>2, <1>3, <1>4
<1>8. m # 0 => L!Latest(d) = L!Latest(c)
  <2>1. m # 0 => Len(d) # 0 /\ \A i \in 1 .. Len(d) : d[i].time = L!Latest(c)
    BY <1>4, <1>7
  <2> QED BY <1>1, <1>4, <2>1, LatestIs
<1> QED BY <1>1, <1>4, <1>6, <1>7, <1>8 DEF d

\* What is prepared is what the rule of the input makes of its rows.
RulesInv ==
    \/ /\ input.rule = "codes"
       /\ \E n \in 1 .. KeyRows : input.rows \in [1 .. n -> L!Coded]
       /\ output # None => output = L!Normalized(input.rows)
    \/ /\ input.rule = "top_list"
       /\ \E n \in 1 .. KeyRows : input.rows \in [1 .. n -> L!Listed]
       /\ output # None => output = L!Deduplicated(input.rows)
    \/ /\ \E n \in 1 .. 2 : \E a, b, c \in L!Snapshots(n), m \in 0 .. n - 1 :
             /\ input.rows = (a \o b) \o SubSeq(c, 1, m)
             /\ input.made = <<a, b, SubSeq(c, 1, m)>>
       /\ \/ /\ input.rule = "ths_hot"
             /\ output # None => output = L!Validated(L!ThsSnapshot(input.rows))
          \/ /\ input.rule = "dc_hot"
             /\ output # None => output = L!Validated(L!DcSnapshot(input.rows))

LEMMA RulesInitHolds == L!Init => RulesInv
<1> SUFFICES ASSUME L!Init PROVE RulesInv
  OBVIOUS
<1>1. output = None
  BY DEF L!Init
<1>2. CASE \E rows \in L!SeqsOf(L!Coded) : input = [rule |-> "codes", rows |-> rows, made |-> None]
  <2>1. PICK rows \in L!SeqsOf(L!Coded) : input = [rule |-> "codes", rows |-> rows, made |-> None]
    BY <1>2
  <2>2. input.rule = "codes" /\ input.rows = rows
    BY <2>1
  <2>3. \E n \in 1 .. KeyRows : rows \in [1 .. n -> L!Coded]
    BY DEF L!SeqsOf
  <2> QED BY <1>1, <2>2, <2>3 DEF RulesInv
<1>3. CASE \E rows \in L!SeqsOf(L!Listed) : input = [rule |-> "top_list", rows |-> rows, made |-> None]
  <2>1. PICK rows \in L!SeqsOf(L!Listed) : input = [rule |-> "top_list", rows |-> rows, made |-> None]
    BY <1>3
  <2>2. input.rule = "top_list" /\ input.rows = rows
    BY <2>1
  <2>3. \E n \in 1 .. KeyRows : rows \in [1 .. n -> L!Listed]
    BY DEF L!SeqsOf
  <2> QED BY <1>1, <2>2, <2>3 DEF RulesInv
<1>4. CASE \E n \in 1 .. 2 : \E a, b, c \in L!Snapshots(n), m \in 0 .. n - 1, rule \in {"ths_hot", "dc_hot"} :
              input = [rule |-> rule, rows |-> (a \o b) \o SubSeq(c, 1, m), made |-> <<a, b, SubSeq(c, 1, m)>>]
  <2>1. PICK n \in 1 .. 2 : \E a, b, c \in L!Snapshots(n), m \in 0 .. n - 1, rule \in {"ths_hot", "dc_hot"} :
              input = [rule |-> rule, rows |-> (a \o b) \o SubSeq(c, 1, m), made |-> <<a, b, SubSeq(c, 1, m)>>]
    BY <1>4, Zenon
  <2>2. PICK a \in L!Snapshots(n), b \in L!Snapshots(n), c \in L!Snapshots(n), m \in 0 .. n - 1,
             rule \in {"ths_hot", "dc_hot"} :
              input = [rule |-> rule, rows |-> (a \o b) \o SubSeq(c, 1, m), made |-> <<a, b, SubSeq(c, 1, m)>>]
    BY <2>1, Zenon
  <2>3. /\ input.rule \in {"ths_hot", "dc_hot"} /\ input.rows = (a \o b) \o SubSeq(c, 1, m)
        /\ input.made = <<a, b, SubSeq(c, 1, m)>>
    BY <2>2
  <2>4. \E n_ \in 1 .. 2 : \E a_, b_, c_ \in L!Snapshots(n_), m_ \in 0 .. n_ - 1 :
             /\ input.rows = (a_ \o b_) \o SubSeq(c_, 1, m_)
             /\ input.made = <<a_, b_, SubSeq(c_, 1, m_)>>
    BY <2>3, Zenon
  <2> QED BY <1>1, <2>3, <2>4 DEF RulesInv
<1> QED BY <1>2, <1>3, <1>4, Zenon DEF L!Init

LEMMA RulesStepHolds == RulesInv /\ (L!Next \/ UNCHANGED <<input, output>>) => RulesInv'
<1> SUFFICES ASSUME RulesInv, L!Next \/ UNCHANGED <<input, output>> PROVE RulesInv'
  OBVIOUS
<1>1. CASE UNCHANGED <<input, output>>
  BY <1>1 DEF RulesInv
<1>2. CASE L!Next
  <2>1. input' = input
    BY <1>2 DEF L!Next, L!Prepare
  <2>2. output' = CASE input.rule = "codes" -> L!Normalized(input.rows)
                    [] input.rule = "top_list" -> L!Deduplicated(input.rows)
                    [] input.rule = "ths_hot" -> L!Validated(L!ThsSnapshot(input.rows))
                    [] input.rule = "dc_hot" -> L!Validated(L!DcSnapshot(input.rows))
    BY <1>2 DEF L!Next, L!Prepare
  <2>3. CASE input.rule = "codes"
    <3>1. output' = L!Normalized(input.rows)
      BY <2>2, <2>3
    <3> QED BY <2>1, <2>3, <3>1 DEF RulesInv
  <2>4. CASE input.rule = "top_list"
    <3>1. output' = L!Deduplicated(input.rows)
      BY <2>2, <2>4
    <3> QED BY <2>1, <2>4, <3>1 DEF RulesInv
  <2>5. CASE input.rule = "ths_hot"
    <3>1. output' = L!Validated(L!ThsSnapshot(input.rows))
      BY <2>2, <2>5
    <3> QED BY <2>1, <2>5, <3>1 DEF RulesInv
  <2>6. CASE input.rule = "dc_hot"
    <3>1. output' = L!Validated(L!DcSnapshot(input.rows))
      BY <2>2, <2>6
    <3> QED BY <2>1, <2>6, <3>1 DEF RulesInv
  <2> QED BY <2>3, <2>4, <2>5, <2>6 DEF RulesInv
<1> QED BY <1>1, <1>2

LEMMA CodesHold ==
    ASSUME RulesInv, L!Done("codes")
    PROVE  /\ output \subseteq L!Coded
           /\ output # {} => \A i \in DOMAIN input.rows : ~input.rows[i].alias => output = {input.rows[i]}
<1>1. input.rule = "codes" /\ output # None
  BY DEF L!Done
<1>2. output = L!Normalized(input.rows)
  BY <1>1 DEF RulesInv
<1>3. PICK n \in 1 .. KeyRows : input.rows \in [1 .. n -> L!Coded]
  BY <1>1 DEF RulesInv
<1>4. n \in Nat /\ n # 0 /\ DOMAIN input.rows = 1 .. n
  BY <1>3, DataAssumption
<1> QED BY <1>2, <1>3, <1>4, CodesSettled

LEMMA ListHolds ==
    ASSUME RulesInv, L!Done("top_list")
    PROVE  output \subseteq L!Listed /\ L!NothingKnownLost /\ L!ApartOut
<1>1. input.rule = "top_list" /\ output # None
  BY DEF L!Done
<1>2. output = L!Deduplicated(input.rows)
  BY <1>1 DEF RulesInv
<1>3. PICK n \in 1 .. KeyRows : input.rows \in [1 .. n -> L!Listed]
  BY <1>1 DEF RulesInv
<1>4. n \in Nat /\ n # 0 /\ DOMAIN input.rows = 1 .. n
  BY <1>3, DataAssumption
<1>5. /\ output \subseteq L!Listed /\ \A r \in output : HasAllKnown(r, input.rows, n)
      /\ output = {} => \E a, b \in Known(input.rows, n) : ~L!Close(a, b)
  BY <1>2, <1>3, <1>4, ListedSettled
<1>6. L!KnownOf(input.rows) = Known(input.rows, n)
  BY <1>4 DEF L!KnownOf, Known
<1>7. None \notin Known(input.rows, n)
  BY DEF Known
<1>8. L!NothingKnownLost
  BY <1>4, <1>5, <1>6, <1>7 DEF L!NothingKnownLost, HasAllKnown
<1>9. L!ApartOut
  <2>1. CASE output = {}
    BY <1>5, <1>6, <2>1 DEF L!ApartOut
  <2>2. CASE output # {}
    <3>1. PICK r \in output : HasAllKnown(r, input.rows, n)
      BY <1>5, <2>2
    <3>2. Linked(L!KnownOf(input.rows))
      BY <1>6, <3>1 DEF HasAllKnown
    <3> QED BY <2>2, <3>2 DEF L!ApartOut, Linked
  <2> QED BY <2>1, <2>2
<1> QED BY <1>5, <1>8, <1>9

LEMMA HotHolds ==
    ASSUME RulesInv, L!Done("ths_hot") \/ L!Done("dc_hot")
    PROVE  (L!Done("ths_hot") => output # <<>>) /\ L!LatestWholeSnapshot
<1>1. input.rule \in {"ths_hot", "dc_hot"} /\ output # None
  BY DEF L!Done
<1>2. \E n \in 1 .. 2 : \E a, b, c \in L!Snapshots(n), m \in 0 .. n - 1 :
             /\ input.rows = (a \o b) \o SubSeq(c, 1, m)
             /\ input.made = <<a, b, SubSeq(c, 1, m)>>
  <2>1. input.rule # "codes" /\ input.rule # "top_list"
    BY <1>1
  <2> QED BY <2>1, Zenon DEF RulesInv
<1>3. PICK n \in 1 .. 2 : \E a, b, c \in L!Snapshots(n), m \in 0 .. n - 1 :
             /\ input.rows = (a \o b) \o SubSeq(c, 1, m)
             /\ input.made = <<a, b, SubSeq(c, 1, m)>>
  BY <1>2, Zenon
<1>4. PICK a \in L!Snapshots(n), b \in L!Snapshots(n), c \in L!Snapshots(n), m \in 0 .. n - 1 :
             /\ input.rows = (a \o b) \o SubSeq(c, 1, m)
             /\ input.made = <<a, b, SubSeq(c, 1, m)>>
  BY <1>3, Zenon
<1> DEFINE d == SubSeq(c, 1, m)
<1>5. /\ Made(a, b, d, n) /\ Len(d) = m
      /\ L!Latest(a) \in Int /\ L!Latest(b) \in Int /\ L!Latest(c) \in Int
      /\ \A i \in 1 .. m : d[i].time = L!Latest(c)
      /\ m # 0 => L!Latest(d) = L!Latest(c)
  BY MadeOfSnapshots
<1>6. input.rows = (a \o b) \o d /\ input.made = <<a, b, d>>
  BY <1>4
<1> HIDE DEF d
<1>7. /\ n \in Nat /\ n # 0 /\ Len(a) = n /\ Len(b) = n /\ Len(d) < n
      /\ a \in Seq(HotRows) /\ b \in Seq(HotRows) /\ d \in Seq(HotRows)
  BY <1>5, MadeOf DEF Made
<1>8. a # <<>> /\ b # <<>> /\ (m # 0 => d # <<>>)
  BY <1>5, <1>7
<1> DEFINE Found(found) ==
              /\ found \in {a, b}
              /\ L!Latest(a) <= L!Latest(found) /\ L!Latest(b) <= L!Latest(found)
<1>9. L!Done("ths_hot") => Found(output)
  <2> SUFFICES ASSUME L!Done("ths_hot") PROVE Found(output)
    OBVIOUS
  <2>1. input.rule = "ths_hot" /\ output # None
    BY DEF L!Done
  <2>2. output = L!Validated(L!ThsSnapshot((a \o b) \o d))
    BY <1>6, <2>1 DEF RulesInv
  <2> QED BY <1>5, <2>2, ThsFinds
<1> DEFINE Apart == \A i, j \in DOMAIN input.made :
                       i # j /\ input.made[i] # <<>> /\ input.made[j] # <<>>
                           => L!Latest(input.made[i]) # L!Latest(input.made[j])
<1>10. /\ DOMAIN input.made = {1, 2, 3}
       /\ input.made[1] = a /\ input.made[2] = b /\ input.made[3] = d
  BY <1>6
<1>11. L!Done("dc_hot") /\ Apart => Found(output)
  <2> SUFFICES ASSUME L!Done("dc_hot"), Apart PROVE Found(output)
    OBVIOUS
  <2>1. input.rule = "dc_hot" /\ output # None
    BY DEF L!Done
  <2>2. output = L!Validated(L!DcSnapshot((a \o b) \o d))
    BY <1>6, <2>1 DEF RulesInv
  <2>3. L!Latest(a) # L!Latest(b)
    BY <1>8, <1>10
  <2>4. m # 0 => L!Latest(c) # L!Latest(a) /\ L!Latest(c) # L!Latest(b)
    <3> SUFFICES ASSUME m # 0 PROVE L!Latest(c) # L!Latest(a) /\ L!Latest(c) # L!Latest(b)
      OBVIOUS
    <3>1. L!Latest(d) # L!Latest(a) /\ L!Latest(d) # L!Latest(b)
      BY <1>8, <1>10
    <3> QED BY <1>5, <3>1
  <2> HIDE DEF Apart
  <2> QED BY <1>5, <2>2, <2>3, <2>4, DcFinds
<1>12. Found(output) => \E i \in {1, 2} : output = input.made[i]
                           /\ \A j \in {1, 2} : L!Latest(input.made[j]) <= L!Latest(input.made[i])
  BY <1>10
<1>13. {i \in DOMAIN input.made : Len(input.made[i]) = Len(input.made[1])} = {1, 2}
  BY <1>7, <1>10
<1>14. L!LatestWholeSnapshot
  <2> HIDE DEF Found
  <2> QED BY <1>9, <1>11, <1>12, <1>13 DEF L!LatestWholeSnapshot
<1>15. L!Done("ths_hot") => output # <<>>
  BY <1>8, <1>9
<1> QED BY <1>14, <1>15

LEMMA RulesHold ==
    RulesInv => L!TypeOK /\ L!PresentCodeWins /\ L!LatestWholeSnapshot /\ L!NothingKnownLost /\ L!ApartOut
<1> SUFFICES ASSUME RulesInv
             PROVE  L!TypeOK /\ L!PresentCodeWins /\ L!LatestWholeSnapshot /\ L!NothingKnownLost /\ L!ApartOut
  OBVIOUS
<1>1. L!TypeOK
  BY CodesHold, ListHolds, HotHolds DEF L!TypeOK
<1>2. L!PresentCodeWins
  BY CodesHold DEF L!PresentCodeWins
<1>3. L!LatestWholeSnapshot
  <2>1. CASE L!Done("ths_hot") \/ L!Done("dc_hot")
    BY <2>1, HotHolds
  <2>2. CASE ~(L!Done("ths_hot") \/ L!Done("dc_hot"))
    BY <2>2 DEF L!LatestWholeSnapshot
  <2> QED BY <2>1, <2>2
<1>4. L!NothingKnownLost /\ L!ApartOut
  <2>1. CASE L!Done("top_list")
    BY <2>1, ListHolds
  <2>2. CASE ~L!Done("top_list")
    BY <2>2 DEF L!NothingKnownLost, L!ApartOut
  <2> QED BY <2>1, <2>2
<1> QED BY <1>1, <1>2, <1>3, <1>4

-----------------------------------------------------------------------------
(* The parts together.                                                     *)

LEMMA PartSteps ==
    ASSUME [DataNext]_all
    PROVE  /\ part' = part
           /\ part = "calls" => C!Next \/ UNCHANGED callVars
           /\ part = "paging" => G!Next \/ UNCHANGED pagingVars
           /\ part = "publication" => P!Next \/ UNCHANGED publicationVars
           /\ part = "dates" => N!Next \/ UNCHANGED dateVars
           /\ part = "backup" => B!Next \/ UNCHANGED backupVars
           /\ part = "queries" => Q!Next \/ UNCHANGED queryVars
           /\ part = "quality" => U!Next \/ UNCHANGED <<stocks, quality, qualityRows>>
           /\ part = "rules" => L!Next \/ UNCHANGED <<input, output>>
BY DEF DataNext, all, checkVars

SourceInv ==
    /\ part = "calls" => CallInv
    /\ part = "paging" => PagingInv

\* Whatever threads ask, fail and wait, the reservations of a budget are its distance apart,
\* and so are the requests; and however the provider's table changes between the pages, a
\* result that is sealed has every row that was there at the first page and stayed.
THEOREM SourceIsRead == DataSpec => []SourceRead
<1>1. DataInit => SourceInv
  BY CallInitHolds, PagingInitHolds DEF DataInit, SourceInv
<1>2. SourceInv /\ [DataNext]_all => SourceInv'
  BY PartSteps, CallStepHolds, PagingStepHolds DEF SourceInv
<1>3. SourceInv => SourceRead
  BY CallsHold, PagingHolds DEF SourceInv, SourceRead
<1> QED BY <1>1, <1>2, <1>3, PTL DEF DataSpec

TablesInv ==
    /\ part = "publication" => PublicationInv
    /\ part = "dates" => DateInv

\* Whatever is published beside, in whatever order tasks read, write and fail: a row finds
\* its codes in the masters, the rows of a scope are those of one write, and pruning by a
\* time that was read before keeps the latest themes. And in whatever order partitions and
\* calendars are written, a promised date has exactly one partition and years are whole.
THEOREM TablesStayConsistent == DataSpec => []TablesConsistent
<1>1. DataInit => TablesInv
  BY PublicationInitHolds, DateInitHolds DEF DataInit, TablesInv
<1>2. TablesInv /\ [DataNext]_all => TablesInv'
  BY PartSteps, PublicationStepHolds, DateStepHolds DEF TablesInv
<1>3. TablesInv => TablesConsistent
  BY PublicationHolds, DatesHold DEF TablesInv, TablesConsistent
<1> QED BY <1>1, <1>2, <1>3, PTL DEF DataSpec

CheckedInv ==
    /\ part = "quality" => QualityInv
    /\ part = "rules" => RulesInv

\* Whatever numbers of stocks of every kind a day has, and whichever of them the master
\* lacks when it is written: of the others a published day has lost few, it shows none of the
\* day before, and it is not kept back for Beijing. And whatever rows of a stock, of a hot
\* list or of a key of the top list come in whatever order: the present code stays, the
\* latest whole snapshot is found again, nothing known is lost, a key whose amounts fall
\* apart is refused and one whose amounts are all close is not.
THEOREM RowsAreChecked == DataSpec => []RowsChecked
<1>1. DataInit => CheckedInv
  BY QualityInitHolds, RulesInitHolds DEF DataInit, CheckedInv
<1>2. CheckedInv /\ [DataNext]_all => CheckedInv'
  BY PartSteps, QualityStepHolds, RulesStepHolds DEF CheckedInv
<1>3. CheckedInv => RowsChecked
  BY QualityHolds, RulesHold DEF CheckedInv, RowsChecked
<1> QED BY <1>1, <1>2, <1>3, PTL DEF DataSpec

BackupsInv == part = "backup" => BackupInv

\* Whatever is sealed, backed up, restored, broken off and rotten in between: the assets of
\* the database name whole files that are there, a backup can be restored from the earlier
\* ones it rests on, and a restore gives all of a backup or leaves all as it was.
THEOREM FilesAreKept == DataSpec => FilesKept
<1>1. DataInit => BackupsInv
  BY BackupInitHolds DEF DataInit, BackupsInv
<1>2. BackupsInv /\ [DataNext]_all => BackupsInv'
  BY PartSteps, BackupStepHolds DEF BackupsInv
<1>3. BackupsInv => (part = "backup" => B!TypeOK /\ B!AssetsThere /\ B!ChainHolds)
  BY BackupsHold DEF BackupsInv
<1>4. BackupsInv /\ [DataNext]_all => [part = "backup" => B!BeforeOrAfter]_all
  BY PartSteps, RestoreIsWhole DEF BackupsInv
<1> QED BY <1>1, <1>2, <1>3, <1>4, PTL DEF DataSpec, FilesKept

QueriesInv == part = "queries" => QueryInv

\* Whatever is published, and withdrawn, between the statements of a call: an answer is of
\* the newest day that had all the tool asks for when the day was chosen, and shows only what
\* is released for it or was withdrawn since, the limits of a history excepted, which are
\* not asked for; a topic that is taken is the only one that matches so well, and
\* constituents are those of a released month.
THEOREM AnswersAreSound == DataSpec => AnswersSound
<1>1. DataInit => QueriesInv
  BY QueryInitHolds DEF DataInit, QueriesInv
<1>2. QueriesInv /\ [DataNext]_all => QueriesInv'
  BY PartSteps, QueryStepHolds DEF QueriesInv
<1>3. QueriesInv => (part = "queries" => Q!TypeOK /\ Q!NothingUnpublished /\ Q!NewestComplete)
  BY QueriesHold DEF QueriesInv
<1>4. QueriesInv /\ [DataNext]_all => [part = "queries" => Q!OnlyMatch /\ Q!PickedWell]_all
  BY PartSteps, TopicIsTheOnly, PickIsRight DEF QueriesInv
<1> QED BY <1>1, <1>2, <1>3, <1>4, PTL DEF DataSpec, AnswersSound
=============================================================================
