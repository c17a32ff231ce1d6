-------------------------- MODULE StockDailyProofs --------------------------
(***************************************************************************)
(* Proofs about StockDaily, for any number of deliveries, threads, faults  *)
(* and commands. A core task that succeeded stays so, and everything that  *)
(* was resolved to a core task as ready leans on that: the rows, the       *)
(* successors, the releases. Of the limit tasks only those wait or run     *)
(* whose row is ready, so that no failing core task pulls one away.        *)
(***************************************************************************)
EXTENDS StockDaily, FiniteSetTheorems, WellFoundedInduction, TLAPS

Executable == {"QUEUED", "RUNNING", "RETRY_WAIT"}

\* What is released was published by its task.
ReleasesSucceeded ==
    /\ coreRelease # None => status[coreRelease] = "SUCCESS"
    /\ limitRelease # None => status[limitRelease] = "SUCCESS"

\* A row that is ready names a core task that succeeded.
RowsReady ==
    \A t \in LimitTask :
        row[t].status = "READY" => row[t].on # None /\ status[row[t].on] = "SUCCESS"

\* A limit task that may be executed has a row that is ready.
ExecutableReady ==
    \A t \in LimitTask : status[t] \in Executable => row[t].status = "READY"

\* A successor is made when its core task succeeds, and its row names that task
\* until it publishes.
SuccessorsKept ==
    \A t \in LimitTask :
        t[2] # None /\ status[t] # "ABSENT" =>
            /\ status[t[2]] = "SUCCESS"
            /\ status[t] # "SUCCESS" => row[t].on = t[2]

\* A planning transaction writes only what it inserted or locked, and what it read
\* as ready stays so.
PlannerHolds ==
    /\ planner.batch = None => planner = NotPlanning
    /\ planner.inserted \cup planner.locked \subseteq {planner.batch, Standard(planner.batch)}
    /\ \A t \in planner.inserted : status[t] = "ABSENT"
    /\ \A t \in planner.locked : status[t] \in {"WAITING_DEPENDENCY", "BLOCKED"}
    /\ planner.row.status = "READY" =>
            planner.row.on # None /\ status[planner.row.on] = "SUCCESS"

\* A task that waits has an attempt left, and only retries add to them.
AttemptsLeft ==
    \A t \in Task :
        /\ attempts[t] <= limit[t]
        /\ status[t] \in Mutable \cup {"ABSENT"} => attempts[t] < limit[t]
        /\ limit[t] + commands <= MaxAttempts + MaxCommands

IInv ==
    /\ TypeOK
    /\ ReleasesSucceeded
    /\ RowsReady
    /\ ExecutableReady
    /\ SuccessorsKept
    /\ PlannerHolds
    /\ AttemptsLeft
    /\ LimitOfShownCore
-----------------------------------------------------------------------------
(* Facts about the constants and the statuses.                             *)

\* The identities of tasks.
LEMMA Identities ==
    /\ (CoreBatch \cup LimitBatch) \cap LimitTask = {}
    /\ None \notin Task /\ None \notin CoreBatch /\ None \notin LimitBatch
    /\ CoreBatch \subseteq Task /\ LimitTask \subseteq Task
    /\ \A t \in LimitTask : t[1] \in LimitBatch /\ t[2] \in CoreBatch \cup {None}
    /\ \A b : Standard(b)[2] = None
    /\ \A b \in LimitBatch, c \in CoreBatch : <<b, c>> \in LimitTask /\ <<b, c>>[2] = c /\ <<b, c>>[1] = b
BY StockDailyAssumption DEF LimitTask, Task, Standard

\* The bounds of attempt_count and max_attempts.
LEMMA Bounds ==
    ASSUME TypeOK, NEW t \in Task
    PROVE  /\ attempts[t] \in Nat /\ limit[t] \in Nat /\ limit[t] >= 1
           /\ commands \in Nat /\ faults \in Nat /\ MaxAttempts \in Nat \ {0} /\ MaxCommands \in Nat
           /\ commands <= MaxCommands
<1>1. attempts[t] \in 0 .. MaxAttempts + MaxCommands /\ limit[t] \in 1 .. MaxAttempts + MaxCommands
  BY DEF TypeOK
<1>2. commands \in 0 .. MaxCommands /\ faults \in 0 .. MaxFaults
  BY DEF TypeOK
<1> QED BY <1>1, <1>2, StockDailyAssumption

\* What the readiness of a limit task says of its row.
LEMMA ReadinessOfRow ==
    ASSUME NEW t, NEW s
    PROVE  /\ Readiness(t, s) \in {"BLOCKED", "QUEUED", "WAITING_DEPENDENCY"}
           /\ Readiness(t, s) = "QUEUED" => s = "READY"
BY DEF Readiness

\* A ready row does not name a task that has yet to succeed.
LEMMA NotReadyOn ==
    ASSUME IInv, NEW u \in LimitTask, NEW t \in Task, row[u].on = t, status[t] # "SUCCESS"
    PROVE  status[u] \notin Executable
BY DEF IInv, RowsReady, ExecutableReady

\* The states of the first step.
LEMMA InitHolds == Init => IInv
<1> SUFFICES ASSUME Init PROVE IInv
  OBVIOUS
<1>1. TypeOK
  <2>1. MaxAttempts \in 1 .. MaxAttempts + MaxCommands /\ 0 \in 0 .. MaxAttempts + MaxCommands
        /\ MaxFaults \in 0 .. MaxFaults /\ MaxCommands \in 0 .. MaxCommands
    BY StockDailyAssumption
  <2> QED BY <2>1 DEF Init, TypeOK, Statuses, Rows, NoRow, NotPlanning
<1>2. AttemptsLeft
  BY StockDailyAssumption DEF Init, AttemptsLeft
<1>3. PlannerHolds
  BY DEF Init, PlannerHolds, NotPlanning, NoRow
<1>4. ReleasesSucceeded /\ RowsReady /\ ExecutableReady /\ SuccessorsKept /\ LimitOfShownCore
  BY Identities DEF Init, ReleasesSucceeded, RowsReady, ExecutableReady, SuccessorsKept,
                    LimitOfShownCore, NoRow, Executable
<1> QED BY <1>1, <1>2, <1>3, <1>4 DEF IInv

-----------------------------------------------------------------------------
(* Planning.                                                               *)

\* What a planning transaction reads as ready succeeded.
LEMMA PlanResolveKeeps ==
    ASSUME IInv, NEW b \in CoreBatch \cup LimitBatch, PlanResolve(b)
    PROVE  IInv'
<1>1. PlannerHolds'
  <2>1. /\ planner'.batch = b /\ planner'.row = Resolved(b)
        /\ planner'.inserted \subseteq {b, Standard(b)} /\ planner'.locked \subseteq {b, Standard(b)}
        /\ \A t \in planner'.inserted : status[t] = "ABSENT"
        /\ \A t \in planner'.locked : status[t] \in {"WAITING_DEPENDENCY", "BLOCKED"}
        /\ status' = status
    BY DEF PlanResolve, taskVars
  <2>2. Resolved(b).status = "READY" => Resolved(b).on # None /\ status[Resolved(b).on] = "SUCCESS"
    BY Identities DEF Resolved, RowStatus, IInv, ReleasesSucceeded, Terminal
  <2> QED BY <2>1, <2>2, Identities DEF PlannerHolds
<1>2. TypeOK'
  <2>1. Resolved(b) \in Rows
    BY DEF Resolved, Rows, RowStatus, IInv, TypeOK
  <2>2. planner' \in [batch : CoreBatch \cup LimitBatch \cup {None}, inserted : SUBSET Task,
                      locked : SUBSET Task, row : Rows]
    BY <2>1 DEF PlanResolve
  <2> QED BY <2>2 DEF PlanResolve, IInv, TypeOK, taskVars, releaseVars
<1>3. (ReleasesSucceeded /\ RowsReady /\ ExecutableReady /\ SuccessorsKept /\ LimitOfShownCore)'
  BY DEF PlanResolve, IInv, ReleasesSucceeded, RowsReady, ExecutableReady, SuccessorsKept,
         LimitOfShownCore, taskVars, releaseVars
<1>4. AttemptsLeft'
  BY DEF PlanResolve, IInv, AttemptsLeft, taskVars
<1> QED BY <1>1, <1>2, <1>3, <1>4 DEF IInv

\* A planned task had not been executed; the row it gets is as it was read.
LEMMA PlanCommitKeeps ==
    ASSUME IInv, NEW coreStatus \in {"WAITING_DEPENDENCY", "QUEUED"}, PlanCommit(coreStatus)
    PROVE  IInv'
<1> DEFINE resolved == planner.inserted \cup planner.locked
           waiting == {"ABSENT", "WAITING_DEPENDENCY", "BLOCKED"}
<1>1. PICK b, row0, limitStatus :
           /\ b = planner.batch /\ row0 = planner.row
           /\ limitStatus = Readiness(Standard(b), row0.status)
  OBVIOUS
<1>2. /\ status' = [t \in Task |-> IF t \notin resolved THEN status[t]
                                   ELSE IF t = b THEN coreStatus ELSE limitStatus]
      /\ row' = [t \in LimitTask |-> IF t \in resolved THEN row0 ELSE row[t]]
      /\ planner' = NotPlanning
      /\ planned' \in {planned, planned \cup {b}}
      /\ planner # NotPlanning
      /\ UNCHANGED <<attempts, limit, lease, releaseVars, worker, faults, commands>>
  BY <1>1 DEF PlanCommit
<1>3. /\ resolved \subseteq {b, Standard(b)}
      /\ \A t \in resolved : status[t] \in waiting
      /\ row0.status = "READY" => row0.on # None /\ status[row0.on] = "SUCCESS"
  BY <1>1 DEF IInv, PlannerHolds
<1>4. row0 \in Rows /\ limitStatus \in {"BLOCKED", "QUEUED", "WAITING_DEPENDENCY"}
      /\ (limitStatus = "QUEUED" => row0.status = "READY")
  BY <1>1, ReadinessOfRow DEF IInv, TypeOK
<1>5. /\ \A t \in Task : status'[t] = IF t \notin resolved THEN status[t]
                                      ELSE IF t = b THEN coreStatus ELSE limitStatus
      /\ \A t \in LimitTask : row'[t] = IF t \in resolved THEN row0 ELSE row[t]
  BY <1>2
<1>6. \A t \in Task : status[t] = "SUCCESS" => status'[t] = "SUCCESS"
  BY <1>3, <1>5
<1>7. \A t \in LimitTask : t \in resolved /\ t # b => status'[t] = limitStatus
  BY <1>5, Identities
<1>8. b \in CoreBatch \cup LimitBatch
  <2>1. b \in CoreBatch \cup LimitBatch \cup {None}
    BY <1>1 DEF IInv, TypeOK
  <2> QED BY <2>1, <1>1, <1>2 DEF IInv, PlannerHolds
<1>9. \A t \in resolved \cap LimitTask : t # b /\ t[2] = None /\ status'[t] = limitStatus /\ row'[t] = row0
  <2> SUFFICES ASSUME NEW t \in resolved \cap LimitTask
               PROVE  t # b /\ t[2] = None /\ status'[t] = limitStatus /\ row'[t] = row0
    OBVIOUS
  <2>1. t # b /\ t \in Task
    BY <1>8, Identities
  <2>2. t = Standard(b)
    BY <2>1, <1>3
  <2>3. Standard(b)[2] = None
    BY DEF Standard
  <2>4. status'[t] = limitStatus /\ row'[t] = row0
    BY <2>1, <1>5
  <2> QED BY <2>1, <2>2, <2>3, <2>4
<1>10. \A t \in Task : \/ status'[t] = status[t]
                       \/ status'[t] \in {coreStatus, limitStatus} /\ status[t] \in waiting
  BY <1>3, <1>5
<1>11. \A t \in LimitTask : t \notin resolved => status'[t] = status[t] /\ row'[t] = row[t]
  BY <1>5, Identities
<1>12. \A t \in LimitTask : row[t].status = "READY" => row[t].on # None /\ status[row[t].on] = "SUCCESS"
                                               /\ row[t].on \in Task
  <2>1. \A t \in LimitTask : row[t].on \in CoreBatch \cup {None}
    BY DEF IInv, TypeOK, Rows
  <2> QED BY <2>1, Identities DEF IInv, RowsReady
<1> HIDE DEF resolved
<1>13. TypeOK'
  <2>1. status' \in [Task -> Statuses]
    <3>1. coreStatus \in Statuses /\ limitStatus \in Statuses
      BY <1>4 DEF Statuses, Active, Mutable
    <3> QED BY <3>1, <1>2 DEF IInv, TypeOK
  <2>2. row' \in [LimitTask -> Rows]
    BY <1>2, <1>4 DEF IInv, TypeOK
  <2>3. planned' \subseteq CoreBatch \cup LimitBatch
    BY <1>2, <1>8 DEF IInv, TypeOK
  <2>4. planner' \in [batch : CoreBatch \cup LimitBatch \cup {None}, inserted : SUBSET Task,
                      locked : SUBSET Task, row : Rows]
    BY <1>2 DEF NotPlanning, NoRow, Rows
  <2> QED BY <2>1, <2>2, <2>3, <2>4, <1>2 DEF IInv, TypeOK, releaseVars
<1>14. (ReleasesSucceeded /\ LimitOfShownCore)'
  <2>1. coreRelease \in Task \cup {None} /\ limitRelease \in LimitTask \cup {None}
    BY Identities DEF IInv, TypeOK
  <2>2. ReleasesSucceeded'
    BY <1>2, <1>6, <2>1, Identities DEF IInv, ReleasesSucceeded, releaseVars
  <2>3. limitRelease # None => row'[limitRelease] = row[limitRelease]
    BY <1>3, <1>11, <2>1 DEF IInv, ReleasesSucceeded, waiting
  <2> QED BY <2>2, <2>3, <1>2 DEF IInv, LimitOfShownCore, releaseVars
<1>15. RowsReady'
  <2> SUFFICES ASSUME NEW t \in LimitTask, row'[t].status = "READY"
               PROVE  row'[t].on # None /\ status'[row'[t].on] = "SUCCESS"
    BY DEF RowsReady
  <2>1. CASE t \in resolved
    <3>1. row0.on # None /\ status[row0.on] = "SUCCESS" /\ row0.on \in Task
      BY <2>1, <1>3, <1>4, <1>9, Identities DEF Rows
    <3> QED BY <3>1, <2>1, <1>9, <1>6
  <2>2. CASE t \notin resolved
    BY <2>2, <1>11, <1>12, <1>6
  <2> QED BY <2>1, <2>2
<1>16. ExecutableReady'
  <2> SUFFICES ASSUME NEW t \in LimitTask, status'[t] \in Executable
               PROVE  row'[t].status = "READY"
    BY DEF ExecutableReady
  <2> QED BY <1>4, <1>9, <1>11 DEF IInv, ExecutableReady, Executable
<1>17. SuccessorsKept'
  <2> SUFFICES ASSUME NEW t \in LimitTask, t[2] # None, status'[t] # "ABSENT"
               PROVE  status'[t[2]] = "SUCCESS" /\ (status'[t] # "SUCCESS" => row'[t].on = t[2])
    BY DEF SuccessorsKept
  <2>1. t \notin resolved /\ t[2] \in Task
    BY <1>9, Identities
  <2> QED BY <2>1, <1>6, <1>11 DEF IInv, SuccessorsKept
<1>18. PlannerHolds'
  BY <1>2 DEF PlannerHolds, NotPlanning, NoRow
<1>19. AttemptsLeft'
  <2> SUFFICES ASSUME NEW t \in Task
               PROVE  /\ attempts[t] <= limit[t]
                      /\ status'[t] \in Mutable \cup {"ABSENT"} => attempts[t] < limit[t]
                      /\ limit[t] + commands <= MaxAttempts + MaxCommands
    BY <1>2 DEF AttemptsLeft
  <2>1. status'[t] \in Mutable \cup {"ABSENT"} => status[t] \in Mutable \cup {"ABSENT"}
    BY <1>10 DEF waiting, Mutable
  <2> QED BY <2>1 DEF IInv, AttemptsLeft
<1> QED BY <1>13, <1>14, <1>15, <1>16, <1>17, <1>18, <1>19 DEF IInv
-----------------------------------------------------------------------------
(* Steps that publish nothing: they change the status of tasks that are    *)
(* neither absent nor successful, and rows of cores that did not succeed.  *)

OnlyUnsettled ==
    \A t \in Task :
        \/ status'[t] = status[t]
        \/ {status[t], status'[t]} \cap {"ABSENT", "SUCCESS"} = {} /\ t \notin planner.locked

RowsFollow ==
    \A t \in LimitTask :
        /\ row'[t] # row[t] => /\ status[row[t].on] # "SUCCESS" /\ row[t].on # None
                               /\ row'[t] = [row[t] EXCEPT !.status = "FAILED"]
        /\ status'[t] \in Executable => row'[t].status = "READY"

\* Such a step keeps what was released, resolved and planned.
LEMMA NothingPublished ==
    ASSUME IInv, OnlyUnsettled, RowsFollow, UNCHANGED <<releaseVars, planner>>
    PROVE  (ReleasesSucceeded /\ RowsReady /\ ExecutableReady /\ SuccessorsKept /\ PlannerHolds
            /\ LimitOfShownCore)'
<1>1. \A t \in Task : status[t] = "SUCCESS" <=> status'[t] = "SUCCESS"
  BY DEF OnlyUnsettled
<1>2. \A t \in Task : status[t] = "ABSENT" <=> status'[t] = "ABSENT"
  BY DEF OnlyUnsettled
<1>3. /\ coreRelease' = coreRelease /\ limitRelease' = limitRelease /\ columns' = columns /\ planner' = planner
      /\ coreRelease \in Task \cup {None} /\ limitRelease \in LimitTask \cup {None}
      /\ \A t \in LimitTask : row[t] \in Rows /\ row[t].on \in Task \cup {None}
      /\ planner.row.on \in Task \cup {None}
      /\ planner.inserted \subseteq Task /\ planner.locked \subseteq Task
  BY Identities DEF releaseVars, IInv, TypeOK, Rows
<1>4. \A t \in LimitTask : /\ row'[t].on = row[t].on
                           /\ row'[t].status = "READY" => row'[t] = row[t]
  <2> SUFFICES ASSUME NEW t \in LimitTask, row'[t] # row[t]
               PROVE  row'[t].on = row[t].on /\ row'[t].status # "READY"
    OBVIOUS
  <2>1. row'[t] = [row[t] EXCEPT !.status = "FAILED"] /\ row[t] \in Rows
    BY <1>3 DEF RowsFollow
  <2> QED BY <2>1 DEF Rows
<1>5. ReleasesSucceeded'
  BY <1>1, <1>3, Identities DEF IInv, ReleasesSucceeded
<1>6. RowsReady'
  <2> SUFFICES ASSUME NEW t \in LimitTask, row'[t].status = "READY"
               PROVE  row'[t].on # None /\ status'[row'[t].on] = "SUCCESS"
    BY DEF RowsReady
  <2>1. row'[t] = row[t] /\ row[t].on # None /\ status[row[t].on] = "SUCCESS" /\ row[t].on \in Task
    BY <1>3, <1>4 DEF IInv, RowsReady
  <2> QED BY <2>1, <1>1
<1>7. ExecutableReady'
  BY DEF RowsFollow, ExecutableReady
<1>8. SuccessorsKept'
  <2> SUFFICES ASSUME NEW t \in LimitTask, t[2] # None, status'[t] # "ABSENT"
               PROVE  status'[t[2]] = "SUCCESS" /\ (status'[t] # "SUCCESS" => row'[t].on = t[2])
    BY DEF SuccessorsKept
  <2>1. t \in Task /\ t[2] \in Task
    BY Identities
  <2> QED BY <2>1, <1>1, <1>2, <1>4 DEF IInv, SuccessorsKept
<1>9. PlannerHolds'
  <2>1. \A t \in planner.locked : status'[t] = status[t]
    BY <1>3 DEF OnlyUnsettled
  <2>2. \A t \in planner.inserted : status'[t] = "ABSENT"
    BY <1>2, <1>3 DEF IInv, PlannerHolds
  <2> QED BY <2>1, <2>2, <1>1, <1>3 DEF IInv, PlannerHolds
<1>10. LimitOfShownCore'
  <2>1. limitRelease # None => row'[limitRelease] = row[limitRelease]
    <3> SUFFICES ASSUME limitRelease # None PROVE row'[limitRelease] = row[limitRelease]
      OBVIOUS
    <3>1. limitRelease \in LimitTask /\ row[limitRelease].on = coreRelease /\ coreRelease # None
      BY <1>3 DEF IInv, LimitOfShownCore
    <3>2. status[coreRelease] = "SUCCESS"
      BY <3>1 DEF IInv, ReleasesSucceeded
    <3> QED BY <3>1, <3>2 DEF RowsFollow
  <2> QED BY <2>1, <1>3 DEF IInv, LimitOfShownCore
<1> QED BY <1>5, <1>6, <1>7, <1>8, <1>9, <1>10

\* What a step may do to a single task without publishing.
LEMMA OneMoved ==
    ASSUME IInv, NEW t \in Task, NEW s \in Statuses \ {"ABSENT", "SUCCESS"},
           status' = [status EXCEPT ![t] = s], row' = row, UNCHANGED <<releaseVars, planner>>,
           status[t] \notin {"ABSENT", "SUCCESS"}, t \notin planner.locked,
           t \in LimitTask /\ s \in Executable => row[t].status = "READY"
    PROVE  /\ (ReleasesSucceeded /\ RowsReady /\ ExecutableReady /\ SuccessorsKept /\ PlannerHolds
               /\ LimitOfShownCore)'
           /\ status' \in [Task -> Statuses]
<1>1. status \in [Task -> Statuses]
  BY DEF IInv, TypeOK
<1>2. OnlyUnsettled
  BY <1>1 DEF OnlyUnsettled
<1>3. RowsFollow
  <2> SUFFICES ASSUME NEW u \in LimitTask, status'[u] \in Executable
               PROVE  row[u].status = "READY"
    BY DEF RowsFollow
  <2>1. u \in Task /\ (u # t => status'[u] = status[u]) /\ (u = t => status'[u] = s)
    BY <1>1, Identities
  <2> QED BY <2>1 DEF IInv, ExecutableReady
<1>4. status' \in [Task -> Statuses]
  BY <1>1
<1> QED BY <1>2, <1>3, <1>4, NothingPublished

\* The last dataset a core task waits for is published.
LEMMA CoreReadyKeeps ==
    ASSUME IInv, NEW b \in CoreBatch, CoreReady(b)
    PROVE  IInv'
<1>1. b \in Task /\ b \notin LimitTask /\ "QUEUED" \in Statuses
  BY Identities DEF Statuses, Active, Mutable
<1>2. /\ status[b] = "WAITING_DEPENDENCY" /\ b \notin planner.locked
      /\ status' = [status EXCEPT ![b] = "QUEUED"]
      /\ UNCHANGED <<attempts, limit, lease, row, releaseVars, worker, planned, planner, faults, commands>>
  BY DEF CoreReady, Free
<1>3. /\ (ReleasesSucceeded /\ RowsReady /\ ExecutableReady /\ SuccessorsKept /\ PlannerHolds
          /\ LimitOfShownCore)'
      /\ status' \in [Task -> Statuses]
  BY <1>1, <1>2, OneMoved
<1>4. TypeOK'
  BY <1>2, <1>3 DEF IInv, TypeOK, releaseVars
<1>5. AttemptsLeft'
  <2>1. \A u \in Task : status'[u] \in Mutable \cup {"ABSENT"} => status[u] \in Mutable \cup {"ABSENT"}
    BY <1>2 DEF IInv, TypeOK, Mutable
  <2> QED BY <2>1, <1>2 DEF IInv, AttemptsLeft
<1> QED BY <1>3, <1>4, <1>5 DEF IInv

\* A claimed task had an attempt left.
LEMMA ClaimKeeps ==
    ASSUME IInv, NEW w \in Worker, NEW t \in Task, Claim(w, t)
    PROVE  IInv'
<1>1. "RUNNING" \in Statuses \ {"ABSENT", "SUCCESS"}
  BY DEF Statuses, Active
<1>2. /\ status[t] \in {"QUEUED", "RETRY_WAIT"} /\ t \notin planner.locked
      /\ status' = [status EXCEPT ![t] = "RUNNING"]
      /\ attempts' = [attempts EXCEPT ![t] = @ + 1]
      /\ lease' = [lease EXCEPT ![t] = w]
      /\ worker' = [worker EXCEPT ![w] = t]
      /\ UNCHANGED <<limit, row, releaseVars, planned, planner, faults, commands>>
  BY DEF Claim, Free
<1>3. t \in LimitTask => row[t].status = "READY"
  BY <1>2 DEF IInv, ExecutableReady, Executable
<1>4. /\ (ReleasesSucceeded /\ RowsReady /\ ExecutableReady /\ SuccessorsKept /\ PlannerHolds
          /\ LimitOfShownCore)'
      /\ status' \in [Task -> Statuses]
  BY <1>1, <1>2, <1>3, OneMoved
<1>5. attempts[t] < limit[t]
  BY <1>2 DEF IInv, AttemptsLeft, Mutable
<1>6. attempts[t] + 1 \in 0 .. MaxAttempts + MaxCommands /\ attempts[t] + 1 <= limit[t]
  <2>1. limit[t] \in 1 .. MaxAttempts + MaxCommands
    BY DEF IInv, TypeOK
  <2> QED BY <2>1, <1>5, Bounds DEF IInv
<1>7. TypeOK'
  <2>1. attempts' \in [Task -> 0 .. MaxAttempts + MaxCommands]
    BY <1>2, <1>6 DEF IInv, TypeOK
  <2> QED BY <2>1, <1>2, <1>4 DEF IInv, TypeOK, releaseVars
<1>8. AttemptsLeft'
  <2> SUFFICES ASSUME NEW u \in Task
               PROVE  /\ attempts'[u] <= limit[u]
                      /\ status'[u] \in Mutable \cup {"ABSENT"} => attempts'[u] < limit[u]
                      /\ limit[u] + commands <= MaxAttempts + MaxCommands
    BY <1>2 DEF AttemptsLeft
  <2>1. CASE u = t
    <3>1. status'[t] = "RUNNING" /\ attempts'[t] = attempts[t] + 1
      BY <1>2 DEF IInv, TypeOK
    <3> QED BY <2>1, <3>1, <1>6 DEF IInv, AttemptsLeft, Mutable
  <2>2. CASE u # t
    BY <2>2, <1>2 DEF IInv, TypeOK, AttemptsLeft
  <2> QED BY <2>1, <2>2
<1> QED BY <1>4, <1>7, <1>8 DEF IInv

\* No failing task takes a limit task with it that may be executed: the row of such
\* a task names a core task that succeeded. What it blocks had an attempt left.
LEMMA FailTaskKeeps ==
    ASSUME IInv, NEW w \in Worker, NEW retryable \in BOOLEAN, Holds(w), FailTask(w, retryable),
           faults' \in 0 .. MaxFaults
    PROVE  IInv'
<1>1. PICK t : t = worker[w]
  OBVIOUS
<1>2. PICK again : again = (retryable /\ attempts[t] < limit[t])
  OBVIOUS
<1>3. PICK hit : hit = {u \in LimitTask : t \in CoreBatch /\ ~again /\ row[u].on = t}
  OBVIOUS
<1>4. /\ \A u \in hit : u \notin planner.locked
      /\ row' = [u \in LimitTask |-> IF u \in hit THEN [row[u] EXCEPT !.status = "FAILED"] ELSE row[u]]
      /\ status' = [u \in Task |->
             IF u = t THEN IF again THEN "RETRY_WAIT" ELSE "FAILED"
             ELSE IF u \in hit /\ status[u] \in Active THEN "BLOCKED"
             ELSE status[u]]
      /\ lease' = [u \in Task |-> IF u = t \/ (u \in hit /\ status[u] \in Active) THEN None ELSE lease[u]]
      /\ worker' = [worker EXCEPT ![w] = None]
      /\ UNCHANGED <<attempts, limit, releaseVars, planned, planner, commands>>
  BY <1>1, <1>2, <1>3 DEF FailTask, Free
<1>5. t \in Task /\ status[t] = "RUNNING"
  BY <1>1 DEF Holds, IInv, TypeOK
<1>6. \A u \in hit : u \in LimitTask /\ u \in Task /\ u # t /\ t # None /\ row[u].on = t
                     /\ status[u] \notin Executable
  <2> SUFFICES ASSUME NEW u \in hit
               PROVE  u \in LimitTask /\ u \in Task /\ u # t /\ t # None /\ row[u].on = t
                      /\ status[u] \notin Executable
    OBVIOUS
  <2>1. u \in LimitTask /\ row[u].on = t /\ t \in CoreBatch
    BY <1>3
  <2>2. u \in Task /\ u # t /\ t # None
    BY <2>1, Identities
  <2> QED BY <2>1, <2>2, <1>5, NotReadyOn
<1>7. t \notin planner.locked
  BY <1>5 DEF IInv, PlannerHolds
<1>8. \A u \in Task : \/ status'[u] = status[u]
                      \/ u = t /\ status'[u] \in {"RETRY_WAIT", "FAILED"} /\ (status'[u] = "RETRY_WAIT" => again)
                      \/ u \in hit /\ status[u] \in {"WAITING_DEPENDENCY", "BLOCKED"} /\ status'[u] = "BLOCKED"
  BY <1>4, <1>6 DEF Active, Mutable, Executable
<1>9. OnlyUnsettled
  BY <1>4, <1>5, <1>7, <1>8 DEF OnlyUnsettled
<1>10. \A u \in LimitTask : row'[u] = IF u \in hit THEN [row[u] EXCEPT !.status = "FAILED"] ELSE row[u]
  BY <1>4
<1>11. RowsFollow
  <2> SUFFICES ASSUME NEW u \in LimitTask
               PROVE  /\ row'[u] # row[u] => /\ status[row[u].on] # "SUCCESS" /\ row[u].on # None
                                             /\ row'[u] = [row[u] EXCEPT !.status = "FAILED"]
                      /\ status'[u] \in Executable => row'[u].status = "READY"
    BY DEF RowsFollow
  <2>1. row'[u] # row[u] => u \in hit /\ row'[u] = [row[u] EXCEPT !.status = "FAILED"]
    BY <1>10
  <2>2. status'[u] \in Executable => u \notin hit /\ status[u] \in Executable
    BY <1>5, <1>6, <1>8, Identities DEF Executable
  <2>3. status'[u] \in Executable => row'[u] = row[u] /\ row[u].status = "READY"
    BY <2>2, <1>10 DEF IInv, ExecutableReady
  <2> QED BY <2>1, <2>3, <1>5, <1>6
<1>12. (ReleasesSucceeded /\ RowsReady /\ ExecutableReady /\ SuccessorsKept /\ PlannerHolds
        /\ LimitOfShownCore)'
  BY <1>4, <1>9, <1>11, NothingPublished
<1>13. TypeOK'
  <2>1. status' \in [Task -> Statuses]
    BY <1>4 DEF IInv, TypeOK, Statuses, Active, Mutable, Terminal
  <2>2. row' \in [LimitTask -> Rows]
    BY <1>4 DEF IInv, TypeOK, Rows
  <2>3. lease' \in [Task -> Worker \cup {None}] /\ worker' \in [Worker -> Task \cup {None}]
    BY <1>4 DEF IInv, TypeOK
  <2> QED BY <2>1, <2>2, <2>3, <1>4 DEF IInv, TypeOK, releaseVars
<1>14. AttemptsLeft'
  <2> SUFFICES ASSUME NEW u \in Task
               PROVE  /\ attempts[u] <= limit[u]
                      /\ status'[u] \in Mutable \cup {"ABSENT"} => attempts[u] < limit[u]
                      /\ limit[u] + commands <= MaxAttempts + MaxCommands
    BY <1>4 DEF AttemptsLeft
  <2>1. status'[u] \in Mutable \cup {"ABSENT"} =>
            \/ status[u] \in Mutable \cup {"ABSENT"}
            \/ u = t /\ again
    BY <1>8 DEF Mutable
  <2> QED BY <2>1, <1>2 DEF IInv, AttemptsLeft
<1> QED BY <1>12, <1>13, <1>14 DEF IInv

\* The thread forgets its task.
LEMMA AbandonKeeps ==
    ASSUME IInv, NEW w \in Worker, Abandon(w)
    PROVE  IInv'
BY DEF Abandon, IInv, TypeOK, ReleasesSucceeded, RowsReady, ExecutableReady, SuccessorsKept,
       PlannerHolds, AttemptsLeft, LimitOfShownCore, taskVars, releaseVars

\* A recovery gives the attempt back.
LEMMA RecoverKeeps ==
    ASSUME IInv, NEW t \in Task, Recover(t)
    PROVE  IInv'
<1>1. "RETRY_WAIT" \in Statuses \ {"ABSENT", "SUCCESS"}
  BY DEF Statuses, Active, Mutable
<1>2. /\ status[t] = "RUNNING" /\ faults > 0 /\ faults' = faults - 1
      /\ status' = [status EXCEPT ![t] = "RETRY_WAIT"]
      /\ attempts' = [attempts EXCEPT ![t] = IF @ > 0 THEN @ - 1 ELSE 0]
      /\ lease' = [lease EXCEPT ![t] = None]
      /\ UNCHANGED <<limit, row, releaseVars, worker, planned, planner, commands>>
  BY DEF Recover
<1>3. (t \in LimitTask => row[t].status = "READY") /\ t \notin planner.locked
  BY <1>2 DEF IInv, ExecutableReady, Executable, PlannerHolds
<1>4. /\ (ReleasesSucceeded /\ RowsReady /\ ExecutableReady /\ SuccessorsKept /\ PlannerHolds
          /\ LimitOfShownCore)'
      /\ status' \in [Task -> Statuses]
  BY <1>1, <1>2, <1>3, OneMoved
<1>5. attempts[t] \in 0 .. MaxAttempts + MaxCommands /\ faults \in 0 .. MaxFaults
  BY DEF IInv, TypeOK
<1>6. PICK n : n = IF attempts[t] > 0 THEN attempts[t] - 1 ELSE 0
  OBVIOUS
<1>7. n \in 0 .. MaxAttempts + MaxCommands /\ n < limit[t] /\ faults - 1 \in 0 .. MaxFaults
  <2>1. attempts[t] <= limit[t] /\ limit[t] >= 1 /\ limit[t] \in Nat /\ MaxAttempts \in Nat /\ MaxCommands \in Nat
    BY Bounds DEF IInv, AttemptsLeft
  <2>2. MaxFaults \in Nat
    BY StockDailyAssumption
  <2> QED BY <2>1, <2>2, <1>2, <1>5, <1>6
<1>8. attempts' = [attempts EXCEPT ![t] = n]
  BY <1>2, <1>6
<1>9. TypeOK'
  <2>1. attempts' \in [Task -> 0 .. MaxAttempts + MaxCommands]
    BY <1>7, <1>8 DEF IInv, TypeOK
  <2>2. lease' \in [Task -> Worker \cup {None}]
    BY <1>2 DEF IInv, TypeOK
  <2>3. faults' \in 0 .. MaxFaults
    BY <1>2, <1>7
  <2> QED BY <2>1, <2>2, <2>3, <1>2, <1>4 DEF IInv, TypeOK, releaseVars
<1>10. AttemptsLeft'
  <2> SUFFICES ASSUME NEW u \in Task
               PROVE  /\ attempts'[u] <= limit[u]
                      /\ status'[u] \in Mutable \cup {"ABSENT"} => attempts'[u] < limit[u]
                      /\ limit[u] + commands <= MaxAttempts + MaxCommands
    BY <1>2 DEF AttemptsLeft
  <2>1. CASE u = t
    <3>1. attempts'[t] = n /\ n \in Int /\ limit[t] \in Int
      BY <1>7, <1>8, Bounds DEF IInv, TypeOK
    <3> QED BY <2>1, <3>1, <1>7 DEF IInv, AttemptsLeft
  <2>2. CASE u # t
    BY <2>2, <1>2 DEF IInv, TypeOK, AttemptsLeft
  <2> QED BY <2>1, <2>2
<1> QED BY <1>4, <1>9, <1>10 DEF IInv

\* A retry adds an attempt where none is left, and costs a command.
LEMMA RetryKeeps ==
    ASSUME IInv, NEW t \in Task, Retry(t)
    PROVE  IInv'
<1>1. "QUEUED" \in Statuses \ {"ABSENT", "SUCCESS"}
  BY DEF Statuses, Active, Mutable
<1>2. PICK n : n = IF attempts[t] + 1 > limit[t] THEN attempts[t] + 1 ELSE limit[t]
  OBVIOUS
<1>3. /\ commands > 0 /\ commands' = commands - 1
      /\ status[t] \in {"FAILED", "SKIPPED", "CANCELLED", "BLOCKED", "RETRY_WAIT"}
      /\ t \notin planner.locked
      /\ (t \in LimitTask => Readiness(t, row[t].status) = "QUEUED")
      /\ status' = [status EXCEPT ![t] = "QUEUED"]
      /\ limit' = [limit EXCEPT ![t] = n]
      /\ UNCHANGED <<attempts, lease, row, releaseVars, worker, planned, planner, faults>>
  BY <1>2 DEF Retry, Command, Free
<1>4. t \in LimitTask => row[t].status = "READY"
  BY <1>3, ReadinessOfRow
<1>5. /\ (ReleasesSucceeded /\ RowsReady /\ ExecutableReady /\ SuccessorsKept /\ PlannerHolds
          /\ LimitOfShownCore)'
      /\ status' \in [Task -> Statuses]
  BY <1>1, <1>3, <1>4, OneMoved
<1>6. /\ \A u \in Task : limit[u] \in Nat /\ attempts[u] \in Nat /\ attempts[u] <= limit[u]
                         /\ limit[u] + commands <= MaxAttempts + MaxCommands
      /\ commands \in Nat /\ MaxAttempts \in Nat /\ MaxCommands \in Nat /\ limit[t] >= 1
      /\ commands <= MaxCommands
  BY Bounds DEF IInv, AttemptsLeft
<1>7. /\ n \in 1 .. MaxAttempts + MaxCommands /\ attempts[t] < n
      /\ n + (commands - 1) <= MaxAttempts + MaxCommands
      /\ commands - 1 \in 0 .. MaxCommands
  BY <1>2, <1>3, <1>6
<1>8. TypeOK'
  <2>1. limit' \in [Task -> 1 .. MaxAttempts + MaxCommands]
    BY <1>3, <1>7 DEF IInv, TypeOK
  <2>2. commands' \in 0 .. MaxCommands
    BY <1>3, <1>7
  <2> QED BY <2>1, <2>2, <1>3, <1>5 DEF IInv, TypeOK, releaseVars
<1>9. AttemptsLeft'
  <2> SUFFICES ASSUME NEW u \in Task
               PROVE  /\ attempts[u] <= limit'[u]
                      /\ status'[u] \in Mutable \cup {"ABSENT"} => attempts[u] < limit'[u]
                      /\ limit'[u] + (commands - 1) <= MaxAttempts + MaxCommands
    BY <1>3 DEF AttemptsLeft
  <2>1. CASE u = t
    <3>1. limit'[t] = n
      BY <1>3 DEF IInv, TypeOK
    <3> QED BY <2>1, <3>1, <1>6, <1>7
  <2>2. CASE u # t
    <3>1. limit'[u] = limit[u] /\ status'[u] = status[u]
      BY <2>2, <1>3 DEF IInv, TypeOK
    <3>2. status[u] \in Mutable \cup {"ABSENT"} => attempts[u] < limit[u]
      BY DEF IInv, AttemptsLeft
    <3> QED BY <3>1, <3>2, <1>6
  <2> QED BY <2>1, <2>2
<1> QED BY <1>5, <1>8, <1>9 DEF IInv

\* No skipped or cancelled core task takes a limit task with it that may be executed.
LEMMA StopKeeps ==
    ASSUME IInv, NEW t \in Task, NEW target \in {"SKIPPED", "CANCELLED"}, Stop(t, target)
    PROVE  IInv'
<1>1. PICK hit : hit = {u \in LimitTask : row[u].on = t}
  OBVIOUS
<1>2. /\ commands > 0 /\ commands' = commands - 1
      /\ status[t] \in Mutable
      /\ \A u \in hit \cup {t} : u \notin planner.locked
      /\ row' = [u \in LimitTask |-> IF u \in hit THEN [row[u] EXCEPT !.status = "FAILED"] ELSE row[u]]
      /\ status' = [u \in Task |->
             IF u = t THEN target
             ELSE IF u \in hit /\ status[u] \in Mutable THEN "BLOCKED"
             ELSE status[u]]
      /\ UNCHANGED <<attempts, limit, lease, releaseVars, worker, planned, planner, faults>>
  BY <1>1 DEF Stop, Command, Free
<1>3. \A u \in hit : u \in LimitTask /\ u \in Task /\ t # None /\ row[u].on = t /\ status[u] \notin Executable
  <2> SUFFICES ASSUME NEW u \in hit
               PROVE  u \in LimitTask /\ u \in Task /\ t # None /\ row[u].on = t /\ status[u] \notin Executable
    OBVIOUS
  <2>1. u \in LimitTask /\ row[u].on = t
    BY <1>1
  <2> QED BY <2>1, <1>2, NotReadyOn, Identities DEF Mutable
<1>4. \A u \in Task : \/ status'[u] = status[u]
                      \/ u = t /\ status'[u] = target
                      \/ u \in hit /\ status[u] \in Mutable /\ status'[u] = "BLOCKED"
  BY <1>2
<1>5. OnlyUnsettled
  BY <1>2, <1>4 DEF OnlyUnsettled, Mutable
<1>6. \A u \in LimitTask : row'[u] = IF u \in hit THEN [row[u] EXCEPT !.status = "FAILED"] ELSE row[u]
  BY <1>2
<1>7. RowsFollow
  <2> SUFFICES ASSUME NEW u \in LimitTask
               PROVE  /\ row'[u] # row[u] => /\ status[row[u].on] # "SUCCESS" /\ row[u].on # None
                                             /\ row'[u] = [row[u] EXCEPT !.status = "FAILED"]
                      /\ status'[u] \in Executable => row'[u].status = "READY"
    BY DEF RowsFollow
  <2>1. row'[u] # row[u] => u \in hit /\ row'[u] = [row[u] EXCEPT !.status = "FAILED"]
    BY <1>6
  <2>2. status'[u] \in Executable => u \notin hit /\ status[u] \in Executable
    BY <1>3, <1>4, Identities DEF Executable
  <2>3. status'[u] \in Executable => row'[u] = row[u] /\ row[u].status = "READY"
    BY <2>2, <1>6 DEF IInv, ExecutableReady
  <2> QED BY <2>1, <2>3, <1>2, <1>3 DEF Mutable
<1>8. (ReleasesSucceeded /\ RowsReady /\ ExecutableReady /\ SuccessorsKept /\ PlannerHolds
       /\ LimitOfShownCore)'
  BY <1>2, <1>5, <1>7, NothingPublished
<1>9. TypeOK'
  <2>1. status' \in [Task -> Statuses]
    BY <1>2 DEF IInv, TypeOK, Statuses, Active, Mutable, Terminal
  <2>2. row' \in [LimitTask -> Rows]
    BY <1>2 DEF IInv, TypeOK, Rows
  <2>3. commands' \in 0 .. MaxCommands
    BY <1>2, Bounds DEF IInv
  <2> QED BY <2>1, <2>2, <2>3, <1>2 DEF IInv, TypeOK, releaseVars
<1>10. AttemptsLeft'
  <2> SUFFICES ASSUME NEW u \in Task
               PROVE  /\ attempts[u] <= limit[u]
                      /\ status'[u] \in Mutable \cup {"ABSENT"} => attempts[u] < limit[u]
                      /\ limit[u] + (commands - 1) <= MaxAttempts + MaxCommands
    BY <1>2 DEF AttemptsLeft
  <2>1. status'[u] \in Mutable \cup {"ABSENT"} => status[u] \in Mutable \cup {"ABSENT"}
    BY <1>4 DEF Mutable
  <2>2. limit[u] + commands <= MaxAttempts + MaxCommands
    BY DEF IInv, AttemptsLeft
  <2>3. limit[u] + (commands - 1) <= MaxAttempts + MaxCommands
    BY <2>2, Bounds DEF IInv
  <2> QED BY <2>1, <2>3 DEF IInv, AttemptsLeft
<1> QED BY <1>8, <1>9, <1>10 DEF IInv

-----------------------------------------------------------------------------
(* Publications.                                                           *)

\* A limit release is pointed at the core release; its task succeeds.
LEMMA PublishLimitKeeps ==
    ASSUME IInv, NEW w \in Worker, PublishLimit(w)
    PROVE  IInv'
<1>1. PICK t : t = worker[w]
  OBVIOUS
<1>2. PICK ready : ready = [status |-> "READY", on |-> coreRelease]
  OBVIOUS
<1>3. /\ status[t] = "RUNNING" /\ t \in LimitTask /\ t \in Task
      /\ coreRelease # None /\ coreRelease \in CoreBatch /\ coreRelease \in Task /\ coreRelease # t
      /\ status[coreRelease] = "SUCCESS"
      /\ ready \in Rows /\ ready.status = "READY" /\ ready.on = coreRelease
  <2>1. status[t] = "RUNNING" /\ t \in LimitTask /\ coreRelease # None
    BY <1>1 DEF PublishLimit, Holds, TooEarly
  <2>2. coreRelease \in CoreBatch \cup {None}
    BY DEF IInv, TypeOK
  <2> QED BY <2>1, <2>2, <1>2, Identities DEF IInv, ReleasesSucceeded, Rows
<1>4. /\ row' = [row EXCEPT ![t] = ready]
      /\ limitRelease' = t
      /\ columns' = t
      /\ status' = [status EXCEPT ![t] = "SUCCESS"]
      /\ lease' = [lease EXCEPT ![t] = None]
      /\ worker' = [worker EXCEPT ![w] = None]
      /\ UNCHANGED <<attempts, limit, coreRelease, planned, planner, faults, commands>>
  BY <1>1, <1>2 DEF PublishLimit
<1>5. /\ \A u \in Task : status'[u] = IF u = t THEN "SUCCESS" ELSE status[u]
      /\ \A u \in LimitTask : row'[u] = IF u = t THEN ready ELSE row[u]
      /\ \A u \in LimitTask : row[u].on \in Task \cup {None}
      /\ planner.row.on \in Task \cup {None}
      /\ planner.inserted \subseteq Task /\ planner.locked \subseteq Task
  BY <1>4, Identities DEF IInv, TypeOK, Rows
<1>6. TypeOK'
  BY <1>3, <1>4 DEF IInv, TypeOK, Statuses, Terminal
<1>7. ReleasesSucceeded'
  BY <1>3, <1>4, <1>5 DEF ReleasesSucceeded
<1>8. RowsReady'
  BY <1>3, <1>5, Identities DEF IInv, RowsReady
<1>9. ExecutableReady'
  BY <1>3, <1>5, Identities DEF IInv, ExecutableReady
<1>10. SuccessorsKept'
  <2> SUFFICES ASSUME NEW u \in LimitTask, u[2] # None, status'[u] # "ABSENT"
               PROVE  status'[u[2]] = "SUCCESS" /\ (status'[u] # "SUCCESS" => row'[u].on = u[2])
    BY DEF SuccessorsKept
  <2>1. u \in Task /\ u[2] \in Task
    BY Identities
  <2> QED BY <2>1, <1>3, <1>5 DEF IInv, SuccessorsKept
<1>11. PlannerHolds'
  BY <1>3, <1>4, <1>5 DEF IInv, PlannerHolds
<1>12. AttemptsLeft'
  BY <1>4, <1>5 DEF IInv, AttemptsLeft, Mutable
<1>13. LimitOfShownCore'
  BY <1>2, <1>3, <1>4, <1>5 DEF LimitOfShownCore
<1> QED BY <1>6, <1>7, <1>8, <1>9, <1>10, <1>11, <1>12, <1>13 DEF IInv

\* What the publication of core task c does, given the limit task it chooses.
CorePublished(c, chosen) ==
    /\ row' = [t \in LimitTask |-> IF t = chosen \/ row[t].on = c
                                   THEN [status |-> "READY", on |-> c] ELSE row[t]]
    /\ status' = [t \in Task |->
          IF t = c THEN "SUCCESS"
          ELSE IF t \in Superseded(chosen) THEN "CANCELLED"
          ELSE IF \/ t = chosen /\ status[t] = "ABSENT"
                  \/ t \in LimitTask /\ row[t].on = c /\ status[t] \in Mutable
          THEN Readiness(t, "READY")
          ELSE status[t]]

\* The chosen task is planned for c, or is its successor; there is one where there
\* is a task to choose from.
LEMMA CoreChoice ==
    ASSUME IInv, NEW w \in Worker, NEW samePrices \in BOOLEAN, PublishCore(w, samePrices)
    PROVE  \E source \in Sources(worker[w]) \cup {None} :
             LET chosen == IF source = None THEN None ELSE Chosen(worker[w], source)
             IN  /\ CorePublished(worker[w], chosen)
                 /\ source = None => Sources(worker[w]) = {}
                 /\ source # None => source \in LimitTask
<1>1. PICK c : c = worker[w]
  OBVIOUS
<1>2. \A T \in SUBSET LimitTask : Freshest(T) \subseteq LimitTask
  BY DEF Freshest
<1>3. Sources(c) \subseteq LimitTask
  BY <1>2 DEF Sources, PlannedFor, Present, IInv, TypeOK
<1>4. PICK source \in IF Sources(c) = {} THEN {None} ELSE Sources(c) :
             LET chosen == IF source = None THEN None ELSE Chosen(c, source)
             IN  CorePublished(c, chosen)
  BY <1>1 DEF PublishCore, CorePublished
<1>5. None \notin LimitTask
  BY Identities
<1> QED BY <1>1, <1>3, <1>4, <1>5

\* A new core release points the chosen task, and those planned for it, at itself.
LEMMA PublishCoreKeeps ==
    ASSUME IInv, NEW w \in Worker, NEW samePrices \in BOOLEAN, PublishCore(w, samePrices)
    PROVE  IInv'
<1>1. PICK c : c = worker[w]
  OBVIOUS
<1>2. PICK source \in Sources(c) \cup {None} :
          LET chosen == IF source = None THEN None ELSE Chosen(c, source)
          IN  /\ CorePublished(c, chosen)
              /\ source = None => Sources(c) = {}
              /\ source # None => source \in LimitTask
  BY <1>1, CoreChoice
<1>3. PICK chosen : chosen = IF source = None THEN None ELSE Chosen(c, source)
  OBVIOUS
<1>4. PICK ready : ready = [status |-> "READY", on |-> c]
  OBVIOUS
<1>5. /\ c \in CoreBatch /\ c \in Task /\ c # None /\ status[c] = "RUNNING" /\ c \notin LimitTask
      /\ \A t \in LimitTask : t \notin planner.locked
      /\ ready \in Rows /\ ready.status = "READY" /\ ready.on = c
  BY <1>1, <1>4, Identities DEF PublishCore, Holds, Free, Rows
<1>6. /\ coreRelease' = c
      /\ limitRelease' = None
      /\ columns' = KeptColumns(samePrices)
      /\ lease' = [t \in Task |-> IF t = c THEN None ELSE lease[t]]
      /\ worker' = [worker EXCEPT ![w] = None]
      /\ UNCHANGED <<attempts, limit, planned, planner, faults, commands>>
  BY <1>1 DEF PublishCore
<1>7. \/ chosen = None
      \/ chosen \in PlannedFor(c)
      \/ chosen \in LimitTask /\ chosen[2] = c
  BY <1>2, <1>3, <1>5, Identities DEF Chosen
<1>8. chosen = None \/ (chosen \in LimitTask /\ (chosen[2] = c \/ (row[chosen].on = c /\ status[chosen] # "ABSENT")))
  BY <1>7 DEF PlannedFor, Active, Mutable
<1>9. \A t : Readiness(t, "READY") \in {"BLOCKED", "QUEUED"}
  BY DEF Readiness
<1>10. /\ row' = [t \in LimitTask |-> IF t = chosen \/ row[t].on = c THEN ready ELSE row[t]]
       /\ status' = [t \in Task |->
             IF t = c THEN "SUCCESS"
             ELSE IF t \in Superseded(chosen) THEN "CANCELLED"
             ELSE IF \/ t = chosen /\ status[t] = "ABSENT"
                     \/ t \in LimitTask /\ row[t].on = c /\ status[t] \in Mutable
             THEN Readiness(t, "READY")
             ELSE status[t]]
  BY <1>2, <1>3, <1>4 DEF CorePublished
<1>11. \A t \in LimitTask : row'[t] = IF t = chosen \/ row[t].on = c THEN ready ELSE row[t]
  BY <1>10
<1>12. \A t \in Task :
          \/ t = c /\ status'[t] = "SUCCESS"
          \/ t \in LimitTask /\ status[t] \in Mutable /\ status'[t] = "CANCELLED"
          \/ t = chosen /\ status[t] = "ABSENT" /\ status'[t] \in {"BLOCKED", "QUEUED"}
          \/ t \in LimitTask /\ row[t].on = c /\ status[t] \in Mutable /\ status'[t] \in {"BLOCKED", "QUEUED"}
          \/ t # c /\ status'[t] = status[t]
  BY <1>9, <1>10 DEF Superseded, Present
<1>13. \A t \in Task : status[t] = "SUCCESS" => status'[t] = "SUCCESS"
  BY <1>5, <1>12 DEF Mutable
<1>14. status'[c] = "SUCCESS"
  BY <1>5, <1>10
<1>15. TypeOK'
  <2>1. status' \in [Task -> Statuses]
    BY <1>9, <1>10 DEF IInv, TypeOK, Statuses, Active, Mutable, Terminal
  <2>2. row' \in [LimitTask -> Rows]
    BY <1>5, <1>10 DEF IInv, TypeOK
  <2>3. lease' \in [Task -> Worker \cup {None}] /\ worker' \in [Worker -> Task \cup {None}]
    BY <1>6 DEF IInv, TypeOK
  <2>4. columns' \in LimitTask \cup {None}
    BY <1>6 DEF IInv, TypeOK, KeptColumns
  <2> QED BY <2>1, <2>2, <2>3, <2>4, <1>5, <1>6 DEF IInv, TypeOK
<1>16. ReleasesSucceeded'
  BY <1>6, <1>14 DEF ReleasesSucceeded
<1>17. LimitOfShownCore'
  BY <1>6 DEF LimitOfShownCore
<1>18. RowsReady'
  <2> SUFFICES ASSUME NEW t \in LimitTask, row'[t].status = "READY"
               PROVE  row'[t].on # None /\ status'[row'[t].on] = "SUCCESS"
    BY DEF RowsReady
  <2>1. CASE row'[t] = ready
    BY <2>1, <1>5, <1>14
  <2>2. CASE row'[t] = row[t]
    <3>1. row[t].on # None /\ row[t].on \in Task /\ status[row[t].on] = "SUCCESS"
      BY <2>2, Identities DEF IInv, RowsReady, TypeOK, Rows
    <3> QED BY <3>1, <2>2, <1>13
  <2> QED BY <2>1, <2>2, <1>11
<1>19. ExecutableReady'
  <2> SUFFICES ASSUME NEW t \in LimitTask, status'[t] \in Executable
               PROVE  row'[t].status = "READY"
    BY DEF ExecutableReady
  <2>1. t \in Task /\ t # c
    BY <1>5, Identities
  <2>2. t = chosen \/ row[t].on = c \/ status'[t] = status[t]
    BY <2>1, <1>12 DEF Executable
  <2> QED BY <2>2, <1>5, <1>11 DEF IInv, ExecutableReady
<1>20. SuccessorsKept'
  <2> SUFFICES ASSUME NEW t \in LimitTask, t[2] # None, status'[t] # "ABSENT"
               PROVE  status'[t[2]] = "SUCCESS" /\ (status'[t] # "SUCCESS" => row'[t].on = t[2])
    BY DEF SuccessorsKept
  <2>1. t \in Task /\ t[2] \in Task /\ t # c
    BY <1>5, Identities
  <2>2. CASE status[t] = "ABSENT"
    <3>1. t = chosen /\ chosen # None
      BY <2>1, <2>2, <1>12, Identities DEF Mutable
    <3>2. t[2] = c
      BY <3>1, <2>2, <1>8
    <3> QED BY <3>1, <3>2, <1>5, <1>11, <1>14
  <2>3. CASE status[t] # "ABSENT"
    <3>1. status[t[2]] = "SUCCESS" /\ (status[t] # "SUCCESS" => row[t].on = t[2])
      BY <2>3 DEF IInv, SuccessorsKept
    <3>2. t[2] # c
      BY <3>1, <1>5
    <3>3. t # chosen \/ row[t].on = c
      BY <3>2, <1>8, Identities
    <3>4. status'[t] # "SUCCESS" => status[t] # "SUCCESS"
      BY <2>1, <1>13
    <3> QED BY <3>1, <3>2, <3>3, <3>4, <2>1, <1>5, <1>11, <1>13
  <2> QED BY <2>2, <2>3
<1>21. PlannerHolds'
  <2>1. /\ planner.inserted \cup planner.locked \subseteq {planner.batch, Standard(planner.batch)}
        /\ planner.inserted \subseteq Task /\ planner.locked \subseteq Task
        /\ planner.row.on \in Task \cup {None}
    BY Identities DEF IInv, PlannerHolds, TypeOK, Rows
  <2>2. ASSUME NEW t \in planner.inserted PROVE status'[t] = "ABSENT"
    <3>1. status[t] = "ABSENT" /\ t \in Task
      BY <2>1 DEF IInv, PlannerHolds
    <3>2. t # chosen
      <4>1. CASE t = planner.batch
        <5>1. planner.batch \in CoreBatch \cup LimitBatch \cup {None}
          BY DEF IInv, TypeOK
        <5> QED BY <5>1, <4>1, <3>1, <1>8, Identities
      <4>2. CASE t = Standard(planner.batch)
        BY <4>2, <3>1, <1>5, <1>8, Identities
      <4> QED BY <4>1, <4>2, <2>1
    <3> QED BY <3>1, <3>2, <1>5, <1>12 DEF Mutable
  <2>3. ASSUME NEW t \in planner.locked PROVE status'[t] = status[t]
    <3>1. t \in Task /\ status[t] \in {"WAITING_DEPENDENCY", "BLOCKED"} /\ t \notin LimitTask
      BY <2>1, <1>5 DEF IInv, PlannerHolds
    <3> QED BY <3>1, <1>5, <1>8, <1>12
  <2> QED BY <2>1, <2>2, <2>3, <1>6, <1>13 DEF IInv, PlannerHolds
<1>22. AttemptsLeft'
  <2>1. \A t \in Task : status'[t] \in Mutable \cup {"ABSENT"} => status[t] \in Mutable \cup {"ABSENT"}
    BY <1>12 DEF Mutable
  <2> QED BY <2>1, <1>6 DEF IInv, AttemptsLeft
<1> QED BY <1>15, <1>16, <1>17, <1>18, <1>19, <1>20, <1>21, <1>22 DEF IInv

-----------------------------------------------------------------------------
(* The safety properties.                                                  *)

\* Every step keeps the invariant.
LEMMA StepHolds == IInv /\ [Next]_vars => IInv'
<1> SUFFICES ASSUME IInv, [Next]_vars PROVE IInv'
  OBVIOUS
<1>1. ASSUME NEW b \in CoreBatch \cup LimitBatch, PlanResolve(b) PROVE IInv'
  BY <1>1, PlanResolveKeeps
<1>2. ASSUME NEW coreStatus \in {"WAITING_DEPENDENCY", "QUEUED"}, PlanCommit(coreStatus) PROVE IInv'
  BY <1>2, PlanCommitKeeps
<1>3. ASSUME NEW b \in CoreBatch, CoreReady(b) PROVE IInv'
  BY <1>3, CoreReadyKeeps
<1>4. ASSUME NEW w \in Worker, NEW t \in Task, Claim(w, t) PROVE IInv'
  BY <1>4, ClaimKeeps
<1>5. ASSUME NEW w \in Worker, Execute(w) PROVE IInv'
  <2>1. ASSUME NEW samePrices \in BOOLEAN, PublishCore(w, samePrices) PROVE IInv'
    BY <2>1, PublishCoreKeeps
  <2>2. ASSUME PublishLimit(w) PROVE IInv'
    BY <2>2, PublishLimitKeeps
  <2>3. faults \in 0 .. MaxFaults /\ (faults > 0 => faults - 1 \in 0 .. MaxFaults)
    BY StockDailyAssumption DEF IInv, TypeOK
  <2>4. ASSUME RefuseLimit(w) PROVE IInv'
    <3>1. PICK retryable : retryable = TooEarly
      OBVIOUS
    <3>2. retryable \in BOOLEAN
      BY <3>1 DEF TooEarly
    <3>3. Holds(w) /\ FailTask(w, retryable) /\ faults' \in 0 .. MaxFaults
      BY <2>3, <2>4, <3>1 DEF RefuseLimit
    <3> QED BY <3>2, <3>3, FailTaskKeeps
  <2>5. ASSUME NEW retryable \in BOOLEAN, Fail(w, retryable) PROVE IInv'
    <3>1. Holds(w) /\ FailTask(w, retryable) /\ faults' \in 0 .. MaxFaults
      BY <2>3, <2>5 DEF Fail
    <3> QED BY <3>1, FailTaskKeeps
  <2>6. ASSUME Abandon(w) PROVE IInv'
    BY <2>6, AbandonKeeps
  <2> QED BY <1>5, <2>1, <2>2, <2>4, <2>5, <2>6 DEF Execute
<1>6. ASSUME NEW t \in Task, Recover(t) PROVE IInv'
  BY <1>6, RecoverKeeps
<1>7. ASSUME NEW t \in Task, Retry(t) PROVE IInv'
  BY <1>7, RetryKeeps
<1>8. ASSUME NEW t \in Task, NEW target \in {"SKIPPED", "CANCELLED"}, Stop(t, target) PROVE IInv'
  BY <1>8, StopKeeps
<1>9. ASSUME UNCHANGED vars PROVE IInv'
  BY <1>9 DEF vars, taskVars, releaseVars, IInv, TypeOK, ReleasesSucceeded, RowsReady, ExecutableReady,
              SuccessorsKept, PlannerHolds, AttemptsLeft, LimitOfShownCore
<1> QED BY <1>1, <1>2, <1>3, <1>4, <1>5, <1>6, <1>7, <1>8, <1>9 DEF Next

\* The inductive invariant holds for any number of deliveries, threads, faults and
\* commands.
THEOREM Inductive == Spec => []IInv
<1>1. Init => IInv
  BY InitHolds
<1>2. IInv /\ [Next]_vars => IInv'
  BY StepHolds
<1> QED BY <1>1, <1>2, PTL DEF Spec

\* The limit columns that are shown belong to the core rows that are shown, and no
\* successor is refused for its lineage, in whatever order the deliveries of a date
\* are planned, published, failed, retried, skipped and cancelled.
THEOREM LimitsFit == Spec => []LimitsOfCores
<1>1. IInv => LimitsOfCores
  <2> SUFFICES ASSUME IInv PROVE LimitsOfCores
    OBVIOUS
  <2>1. LineageHolds
    BY DEF IInv, SuccessorsKept, LineageHolds, StaleLineage, Active, Mutable
  <2> QED BY <2>1 DEF IInv, LimitsOfCores
<1> QED BY <1>1, Inductive, PTL

\* Among finitely many limit tasks there is one of the freshest data: the one that
\* no fresher one leaves with fewer fresher ones.
LEMMA FreshestExists ==
    ASSUME NEW T \in SUBSET LimitTask, T # {}
    PROVE  Freshest(T) # {}
<1> DEFINE Fresher(t) == {u \in T : Sealed[u[1]] > Sealed[t[1]]}
           Sets == {Fresher(t) : t \in T}
           R == StrictSubsetOrdering(LimitTask)
<1>1. Sets \subseteq FiniteSubsetsOf(LimitTask) /\ Sets # {}
  <2>1. IsFiniteSet(LimitTask)
    <3>1. IsFiniteSet(CoreBatch \cup {None})
      BY FS_AddElement, StockDailyAssumption
    <3> QED BY <3>1, FS_Product, StockDailyAssumption DEF LimitTask
  <2>2. \A t \in T : Fresher(t) \subseteq LimitTask /\ IsFiniteSet(Fresher(t))
    BY <2>1, FS_Subset
  <2> QED BY <2>2 DEF FiniteSubsetsOf
<1>2. PICK t \in T : \A u \in T : <<Fresher(u), Fresher(t)>> \notin R
  <2> HIDE DEF Sets, R, Fresher
  <2>1. IsWellFoundedOn(R, FiniteSubsetsOf(LimitTask))
    BY FS_StrictSubsetOrderingWellFounded DEF R
  <2>2. PICK A \in Sets : \A B \in Sets : <<B, A>> \notin R
    BY <1>1, <2>1, WFMin
  <2> QED BY <2>2 DEF Sets
<1>3. \A u \in T : Sealed[u[1]] \in Nat
  BY Identities, StockDailyAssumption
<1>4. ASSUME NEW u \in T PROVE Sealed[u[1]] <= Sealed[t[1]]
  <2> SUFFICES ASSUME Sealed[u[1]] > Sealed[t[1]] PROVE FALSE
    BY <1>3
  <2>1. Fresher(u) \subseteq Fresher(t) /\ u \in Fresher(t) /\ u \notin Fresher(u)
    BY <1>3
  <2>2. Fresher(u) \in SUBSET LimitTask /\ Fresher(t) \in SUBSET LimitTask
    OBVIOUS
  <2>3. <<Fresher(u), Fresher(t)>> \in R
    <3> HIDE DEF Fresher
    <3> QED BY <2>1, <2>2 DEF StrictSubsetOrdering
  <2> QED BY <2>3, <1>2
<1> QED BY <1>4 DEF Freshest

\* A core publication carries the freshest data on, whatever was planned before.
LEMMA CoreCarriesOn ==
    ASSUME IInv, NEW w \in Worker, NEW samePrices \in BOOLEAN, PublishCore(w, samePrices)
    PROVE  CarriedOn
<1> SUFFICES ASSUME limitRelease = None
             PROVE  /\ Cardinality({t \in LimitTask : status'[t] \in Mutable}) <= 1
                    /\ PlannedFor(worker[w]) = {} =>
                         \A t \in LimitTask : status[t] \in Mutable =>
                             \E u \in LimitTask : status'[u] \in Mutable /\ Sealed[u[1]] >= Sealed[t[1]]
  BY DEF CarriedOn, PublishCore
<1>1. PICK c : c = worker[w]
  OBVIOUS
<1>2. PICK source \in Sources(c) \cup {None} :
          LET chosen == IF source = None THEN None ELSE Chosen(c, source)
          IN  /\ CorePublished(c, chosen)
              /\ source = None => Sources(c) = {}
              /\ source # None => source \in LimitTask
  BY <1>1, CoreChoice
<1>3. PICK chosen : chosen = IF source = None THEN None ELSE Chosen(c, source)
  OBVIOUS
<1>4. /\ c \in CoreBatch /\ c \in Task /\ status[c] = "RUNNING"
      /\ \A t \in LimitTask : t \in Task /\ t # c
  BY <1>1, Identities DEF PublishCore, Holds
<1>5. \A t \in LimitTask :
          status'[t] = IF t \in Superseded(chosen) THEN "CANCELLED"
                       ELSE IF (t = chosen /\ status[t] = "ABSENT") \/ (row[t].on = c /\ status[t] \in Mutable)
                       THEN Readiness(t, "READY")
                       ELSE status[t]
  BY <1>2, <1>3, <1>4 DEF CorePublished
<1>6. \A t \in LimitTask : status[t] \in Mutable /\ t # chosen => t \in Superseded(chosen)
  BY DEF Superseded, Present, Mutable
<1>7. Cardinality({t \in LimitTask : status'[t] \in Mutable}) <= 1
  <2>1. {t \in LimitTask : status'[t] \in Mutable} \subseteq {chosen}
    BY <1>5, <1>6 DEF Mutable
  <2>2. IsFiniteSet({chosen}) /\ Cardinality({chosen}) = 1
    BY FS_Singleton
  <2>3. Cardinality({t \in LimitTask : status'[t] \in Mutable}) \in Nat
    BY <2>1, <2>2, FS_Subset, FS_CardinalityType
  <2> QED BY <2>1, <2>2, <2>3, FS_Subset
<1>8. ASSUME PlannedFor(c) = {}, NEW t \in LimitTask, status[t] \in Mutable
      PROVE  \E u \in LimitTask : status'[u] \in Mutable /\ Sealed[u[1]] >= Sealed[t[1]]
  <2>1. PICK Live : Live = {u \in Present : status[u] \in Active}
    OBVIOUS
  <2>2. t \in Live /\ Live \subseteq LimitTask
    BY <1>8, <2>1 DEF Present, Active, Mutable
  <2>3. Sources(c) = Freshest(Live)
    BY <1>8, <2>1, <2>2 DEF Sources
  <2>4. Freshest(Live) # {} /\ None \notin Freshest(Live)
    BY <2>2, FreshestExists, Identities DEF Freshest
  <2>5. source \in Live /\ Sealed[t[1]] <= Sealed[source[1]] /\ source # None
    BY <1>2, <2>2, <2>3, <2>4 DEF Freshest
  <2>6. chosen = <<source[1], c>>
    BY <1>3, <1>8, <2>5 DEF Chosen
  <2>7. chosen \in LimitTask /\ chosen[1] = source[1] /\ chosen[2] = c /\ c # None
    BY <2>2, <2>5, <2>6, <1>4, Identities
  <2>8. status[chosen] = "ABSENT"
    BY <2>7, <1>4 DEF IInv, SuccessorsKept
  <2>9. status'[chosen] = Readiness(chosen, "READY")
    BY <2>7, <2>8, <1>5 DEF Superseded
  <2>10. status'[chosen] \in Mutable
    BY <2>9, ReadinessOfRow DEF Mutable
  <2> QED BY <2>5, <2>7, <2>10, Identities, StockDailyAssumption
<1> QED BY <1>1, <1>7, <1>8

\* No other step changes the core release.
LEMMA OthersKeepCore ==
    ASSUME [Next]_vars, \A w \in Worker, samePrices \in BOOLEAN : ~PublishCore(w, samePrices)
    PROVE  coreRelease' = coreRelease
BY DEF Next, vars, Execute, releaseVars, PlanResolve, PlanCommit, CoreReady, Claim, PublishLimit,
       RefuseLimit, Fail, FailTask, Abandon, Recover, Retry, Stop

\* A core publication that finds no limit release leaves one limit task, made from
\* the freshest data of those it cancels.
THEOREM FreshestIsCarried == Spec => FreshestCarriesOn
<1>1. IInv /\ [Next]_vars => CarriedOn
  <2> SUFFICES ASSUME IInv, [Next]_vars PROVE CarriedOn
    OBVIOUS
  <2>1. CASE \E w \in Worker, samePrices \in BOOLEAN : PublishCore(w, samePrices)
    BY <2>1, CoreCarriesOn
  <2>2. CASE \A w \in Worker, samePrices \in BOOLEAN : ~PublishCore(w, samePrices)
    BY <2>2, OthersKeepCore DEF CarriedOn
  <2> QED BY <2>1, <2>2
<1>2. IInv /\ [Next]_vars => [CarriedOn]_vars
  BY <1>1
<1> QED BY <1>2, Inductive, PTL DEF Spec, FreshestCarriesOn
=============================================================================
