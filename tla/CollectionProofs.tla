-------------------------- MODULE CollectionProofs --------------------------
(***************************************************************************)
(* Proofs about Collection, for every set of batches, tasks, threads and    *)
(* tokens. IInv is inductive: one lemma per action says that the action     *)
(* preserves it, with one step per conjunct that the action can disturb.    *)
(* The safety properties follow.                                            *)
(***************************************************************************)
EXTENDS Collection, FiniteSetTheorems, TLAPS

\* The empty database and the idle pool satisfy the invariant.
LEMMA InitInv == Init => IInv
<1> SUFFICES ASSUME Init PROVE IInv
  OBVIOUS
<1> USE CollectionAssumption DEF Init, Idle, ReconIdle, NotCancelling
<1>1. TypeOK
  BY DEF TypeOK, BatchStatuses, TaskStatuses, Claimable, Terminal, Contents, WorkerStates,
         ReconStates
<1>2. OneOwner /\ ThreadsApart /\ FilesFollowThreads
  BY DEF OneOwner, Owns, ThreadsApart, FilesFollowThreads
<1>3. LeasesMatchStatus /\ ResultMatchesAsset /\ RetryBudget /\ FreshTasks
  BY DEF LeasesMatchStatus, ResultMatchesAsset, RetryBudget, FreshTasks
<1>4. PlansFrozen /\ EndedBatches /\ CancelLocksTasks /\ ReconSeesAssets
  BY DEF PlansFrozen, EndedBatches, CancelLocksTasks, ReconSeesAssets, TasksOf
<1> QED
  BY <1>1, <1>2, <1>3, <1>4 DEF IInv

\* What complete_task and fail_task leave in the columns of a task: values of
\* their types, whether or not the fence holds.
LEMMA CompleteTyped ==
  ASSUME TypeOK, NEW t \in Task, NEW k \in Token, Complete(t, k)
  PROVE  /\ taskStatus' \in [Task -> TaskStatuses]
         /\ lease' \in [Task -> Token \cup {NoToken}]
         /\ asset' \in [Task -> Token \cup {NoToken}]
         /\ attempts' \in [Task -> 0 .. MaxAttempts]
<1> USE DEF TypeOK
<1>1. CASE Holds(t, k)
  <2>1. (IF file[k] = "empty" THEN "EMPTY_VALID" ELSE "SUCCESS") \in TaskStatuses
    BY DEF TaskStatuses, Terminal
  <2>2. taskStatus' \in [Task -> TaskStatuses]
    BY <1>1, <2>1 DEF Complete
  <2>3. /\ lease' \in [Task -> Token \cup {NoToken}]
        /\ asset' \in [Task -> Token \cup {NoToken}]
        /\ attempts' \in [Task -> 0 .. MaxAttempts]
    BY <1>1 DEF Complete
  <2> QED
    BY <2>2, <2>3
<1>2. CASE ~Holds(t, k)
  BY <1>2 DEF Complete, taskVars
<1> QED
  BY <1>1, <1>2

LEMMA FailTyped ==
  ASSUME TypeOK, NEW t \in Task, NEW k, NEW verdict, Fail(t, k, verdict)
  PROVE  /\ taskStatus' \in [Task -> TaskStatuses]
         /\ lease' \in [Task -> Token \cup {NoToken}]
         /\ asset' \in [Task -> Token \cup {NoToken}]
         /\ attempts' \in [Task -> 0 .. MaxAttempts]
<1> USE DEF TypeOK
<1>1. CASE Holds(t, k)
  <2>1. {"SKIPPED", "RETRY_WAIT", "FAILED"} \subseteq TaskStatuses
    BY DEF TaskStatuses, Claimable, Terminal
  <2>2. taskStatus' \in [Task -> TaskStatuses]
    BY <1>1, <2>1 DEF Fail
  <2>3. /\ lease' \in [Task -> Token \cup {NoToken}]
        /\ asset' \in [Task -> Token \cup {NoToken}]
        /\ attempts' \in [Task -> 0 .. MaxAttempts]
    BY <1>1 DEF Fail
  <2> QED
    BY <2>2, <2>3
<1>2. CASE ~Holds(t, k)
  BY <1>2 DEF Fail, taskVars
<1> QED
  BY <1>1, <1>2

\* The planner creates a batch: nothing is in it yet.
LEMMA CreateBatchInv ==
  ASSUME IInv, NEW b \in Batch, CreateBatch(b)
  PROVE  IInv'
<1> USE DEF IInv, CreateBatch, batchVars, taskVars
<1>1. TypeOK'
  BY DEF TypeOK, BatchStatuses
<1>2. PlansFrozen'
  BY DEF PlansFrozen, TasksOf
<1>3. EndedBatches'
  BY DEF EndedBatches, TasksOf
<1>4. /\ OneOwner'
      /\ ThreadsApart'
      /\ FilesFollowThreads'
      /\ LeasesMatchStatus'
      /\ ResultMatchesAsset'
      /\ RetryBudget'
      /\ FreshTasks'
      /\ CancelLocksTasks'
      /\ ReconSeesAssets'
  BY DEF OneOwner, Owns, ThreadsApart, FilesFollowThreads, LeasesMatchStatus,
         ResultMatchesAsset, RetryBudget, FreshTasks, CancelLocksTasks, TasksOf,
         ReconSeesAssets
<1> QED
  BY <1>1, <1>2, <1>3, <1>4

\* The planner appends tasks: new ones are PENDING and have used no attempt;
\* a frozen plan gets none, an ended batch refuses them.
LEMMA AppendTasksInv ==
  ASSUME IInv, NEW b \in Batch, NEW submitted \in SUBSET {t \in Task : BatchOf[t] = b},
         NEW finalize \in BOOLEAN, AppendTasks(b, submitted, finalize)
  PROVE  IInv'
<1> USE DEF IInv, AppendTasks, batchVars, taskVars
<1>1. taskStatus' \in [Task -> TaskStatuses]
  BY DEF TypeOK, TaskStatuses, Claimable
<1>2. frozen' \in [Batch -> BOOLEAN]
  BY DEF TypeOK
<1>3. planned' \in [Batch -> SUBSET Task]
  BY DEF TypeOK, TasksOf
<1>4. TypeOK'
  BY <1>1, <1>2, <1>3 DEF TypeOK
<1>5. LeasesMatchStatus'
  BY DEF LeasesMatchStatus
<1>6. ResultMatchesAsset'
  BY DEF ResultMatchesAsset
<1>7. RetryBudget'
  BY DEF RetryBudget
<1>8. FreshTasks'
  BY DEF FreshTasks
<1>9. PlansFrozen'
  BY DEF PlansFrozen, TasksOf, Open, TypeOK
<1>10. EndedBatches'
  BY DEF EndedBatches, TasksOf, Open, TypeOK
<1>11. CancelLocksTasks'
  BY DEF CancelLocksTasks, TasksOf
<1>12. /\ OneOwner'
       /\ ThreadsApart'
       /\ FilesFollowThreads'
       /\ ReconSeesAssets'
  BY DEF OneOwner, Owns, ThreadsApart, FilesFollowThreads, ReconSeesAssets
<1> QED
  BY <1>4, <1>5, <1>6, <1>7, <1>8, <1>9, <1>10, <1>11, <1>12

\* The close job: the guard is the invariant of ended batches.
LEMMA CloseBatchInv ==
  ASSUME IInv, NEW b \in Batch, CloseBatch(b)
  PROVE  IInv'
<1> USE DEF IInv, CloseBatch, batchVars, taskVars
<1>1. TypeOK'
  BY CollectionAssumption DEF TypeOK, BatchStatuses, ReconStates
<1>2. PlansFrozen'
  BY DEF PlansFrozen, TasksOf
<1>3. EndedBatches'
  BY DEF EndedBatches, TasksOf
<1>4. /\ OneOwner'
      /\ ThreadsApart'
      /\ FilesFollowThreads'
      /\ LeasesMatchStatus'
      /\ ResultMatchesAsset'
      /\ RetryBudget'
      /\ FreshTasks'
      /\ CancelLocksTasks'
      /\ ReconSeesAssets'
  BY DEF OneOwner, Owns, ThreadsApart, FilesFollowThreads, LeasesMatchStatus,
         ResultMatchesAsset, RetryBudget, FreshTasks, CancelLocksTasks, TasksOf,
         ReconSeesAssets
<1> QED
  BY <1>1, <1>2, <1>3, <1>4

\* The administrator skips or cancels a waiting task.
LEMMA TransitionTaskInv ==
  ASSUME IInv, NEW t \in Task, NEW target \in {"SKIPPED", "CANCELLED"},
         TransitionTask(t, target)
  PROVE  IInv'
<1> USE DEF IInv, TransitionTask, batchVars, taskVars
<1>1. TypeOK'
  BY DEF TypeOK, TaskStatuses, Terminal
<1>2. LeasesMatchStatus'
  BY DEF LeasesMatchStatus, Claimable
<1>3. ResultMatchesAsset'
  BY DEF ResultMatchesAsset, Claimable
<1>4. RetryBudget'
  BY DEF RetryBudget
<1>5. FreshTasks'
  BY DEF FreshTasks
<1>6. PlansFrozen'
  BY DEF PlansFrozen, TasksOf, Claimable
<1>7. EndedBatches'
  BY DEF EndedBatches, TasksOf, Terminal
<1>8. CancelLocksTasks'
  BY DEF CancelLocksTasks, TasksOf
<1>9. /\ OneOwner'
      /\ ThreadsApart'
      /\ FilesFollowThreads'
      /\ ReconSeesAssets'
  BY DEF OneOwner, Owns, ThreadsApart, FilesFollowThreads, ReconSeesAssets
<1> QED
  BY <1>1, <1>2, <1>3, <1>4, <1>5, <1>6, <1>7, <1>8, <1>9

\* cancel_batch locks the tasks the batch has.
LEMMA CancelLockTasksInv ==
  ASSUME IInv, NEW b \in Batch, CancelLockTasks(b)
  PROVE  IInv'
<1> USE DEF IInv, CancelLockTasks, batchVars, taskVars
<1>1. cancelling' \in [batch : Batch \cup {NoBatch}, tasks : SUBSET Task]
  BY DEF TasksOf
<1>2. TypeOK'
  BY <1>1 DEF TypeOK
<1>3. CancelLocksTasks'
  BY CollectionAssumption DEF CancelLocksTasks, TasksOf
<1>4. /\ OneOwner'
      /\ ThreadsApart'
      /\ FilesFollowThreads'
      /\ LeasesMatchStatus'
      /\ ResultMatchesAsset'
      /\ RetryBudget'
      /\ FreshTasks'
      /\ PlansFrozen'
      /\ EndedBatches'
      /\ ReconSeesAssets'
  BY DEF OneOwner, Owns, ThreadsApart, FilesFollowThreads, LeasesMatchStatus,
         ResultMatchesAsset, RetryBudget, FreshTasks, PlansFrozen, TasksOf, EndedBatches,
         ReconSeesAssets
<1> QED
  BY <1>2, <1>3, <1>4

\* cancel_batch cancels them: the recount says that they are all it has.
LEMMA CancelCommitInv ==
  ASSUME IInv, NEW b \in Batch, CancelCommit(b)
  PROVE  IInv'
<1> USE DEF IInv, CancelCommit, batchVars, taskVars
<1>1. TypeOK'
  BY DEF TypeOK, NotCancelling, BatchStatuses, TaskStatuses, Terminal, WorkerStates
<1>2. LeasesMatchStatus'
  BY DEF LeasesMatchStatus, Claimable
<1>3. ResultMatchesAsset'
  BY DEF ResultMatchesAsset, Claimable
<1>4. RetryBudget'
  BY DEF RetryBudget
<1>5. FreshTasks'
  BY DEF FreshTasks
<1>6. PlansFrozen'
  BY DEF PlansFrozen, TasksOf, Claimable
<1>7. TasksOf(b) = cancelling.tasks
  <2>1. cancelling.tasks \subseteq TasksOf(b)
    BY DEF CancelLocksTasks
  <2>2. IsFiniteSet(TasksOf(b))
    BY CollectionAssumption, FS_Subset DEF TasksOf
  <2> QED
    BY <2>1, <2>2, FS_Subset DEF CancelAllowed
<1>8. EndedBatches'
  <2> SUFFICES ASSUME NEW c \in Batch, batchStatus'[c] \in {"CLOSED", "CANCELLED"}
               PROVE  /\ batchStatus'[c] = "CLOSED" => frozen'[c]
                      /\ \A t \in TasksOf(c)' : taskStatus'[t] \in Terminal
    BY DEF EndedBatches
  <2>1. TasksOf(c)' = TasksOf(c)
    BY DEF TasksOf, TypeOK, Claimable
  <2>2. CASE c = b
    <3>1. \A t \in cancelling.tasks : taskStatus[t] \in Claimable \cup Terminal
      <4> SUFFICES ASSUME NEW t \in cancelling.tasks
                   PROVE  taskStatus[t] \in Claimable \cup Terminal
        OBVIOUS
      <4>1. t \in Task /\ taskStatus[t] # "ABSENT"
        BY <1>7 DEF TasksOf
      <4>2. taskStatus[t] # "RUNNING"
        BY DEF CancelAllowed
      <4>3. taskStatus[t] \in TaskStatuses
        BY <4>1 DEF TypeOK
      <4> QED
        BY <4>1, <4>2, <4>3 DEF TaskStatuses
    <3>2. \A t \in cancelling.tasks : taskStatus'[t] \in Terminal
      BY <1>7, <3>1 DEF TasksOf, Claimable, Terminal
    <3>3. TasksOf(c)' = cancelling.tasks
      BY <1>7, <2>1, <2>2
    <3>4. batchStatus'[c] = "CANCELLED"
      BY <2>2 DEF TypeOK
    <3> QED
      BY <3>2, <3>3, <3>4
  <2>3. CASE c # b
    <3>1. batchStatus'[c] = batchStatus[c] /\ frozen'[c] = frozen[c]
      BY <2>3 DEF TypeOK
    <3>2. \A t \in TasksOf(c) : taskStatus'[t] = taskStatus[t]
      BY <1>7, <2>3 DEF TasksOf
    <3> QED
      BY <2>1, <3>1, <3>2 DEF EndedBatches
  <2> QED
    BY <2>2, <2>3
<1>9. CancelLocksTasks'
  BY DEF CancelLocksTasks, NotCancelling
<1>10. /\ OneOwner'
       /\ ThreadsApart'
       /\ FilesFollowThreads'
       /\ ReconSeesAssets'
  BY DEF OneOwner, Owns, ThreadsApart, FilesFollowThreads, ReconSeesAssets
<1> QED
  BY <1>1, <1>2, <1>3, <1>4, <1>5, <1>6, <1>8, <1>9, <1>10

\* cancel_batch gives up.
LEMMA CancelRejectInv ==
  ASSUME IInv, NEW b \in Batch, CancelReject(b)
  PROVE  IInv'
<1> USE DEF IInv, CancelReject, batchVars, taskVars
<1>1. TypeOK'
  BY DEF TypeOK, NotCancelling
<1>2. CancelLocksTasks'
  BY DEF CancelLocksTasks, NotCancelling
<1>3. /\ OneOwner'
      /\ ThreadsApart'
      /\ FilesFollowThreads'
      /\ LeasesMatchStatus'
      /\ ResultMatchesAsset'
      /\ RetryBudget'
      /\ FreshTasks'
      /\ PlansFrozen'
      /\ EndedBatches'
      /\ ReconSeesAssets'
  BY DEF OneOwner, Owns, ThreadsApart, FilesFollowThreads, LeasesMatchStatus,
         ResultMatchesAsset, RetryBudget, FreshTasks, PlansFrozen, TasksOf, EndedBatches,
         ReconSeesAssets
<1> QED
  BY <1>1, <1>2, <1>3

\* A thread claims a task: the token is one nothing names.
LEMMA ClaimInv ==
  ASSUME IInv, NEW w \in Worker, NEW t \in Task,
         NEW level \in {"NORMAL", "WARNING", "PROTECT"}, NEW k \in Token,
         Claim(w, t, level, k)
  PROVE  IInv'
<1> USE DEF IInv, Claim, batchVars, taskVars
<1>1. attempts[t] + 1 \in 0 .. MaxAttempts
  BY CollectionAssumption DEF Eligible, Claimable, TypeOK, RetryBudget, FreshTasks
<1>2. attempts' \in [Task -> 0 .. MaxAttempts]
  BY <1>1 DEF TypeOK
<1>3. BatchOf[t] \in Batch
  BY CollectionAssumption
<1>4. /\ taskStatus' \in [Task -> TaskStatuses]
      /\ lease' \in [Task -> Token \cup {NoToken}]
      /\ batchStatus' \in [Batch -> BatchStatuses]
  BY <1>3 DEF TypeOK, TaskStatuses, BatchStatuses
<1>5. /\ file' \in [Token -> Contents]
      /\ worker' \in [Worker -> WorkerStates]
  BY DEF TypeOK, Contents, WorkerStates
<1>6. TypeOK'
  BY <1>2, <1>4, <1>5 DEF TypeOK
<1>7. OneOwner'
  BY DEF OneOwner, Owns, Named
<1>8. ThreadsApart'
  BY DEF ThreadsApart, Open, Named
<1>9. FilesFollowThreads'
  BY DEF FilesFollowThreads, Named, TypeOK
<1>10. LeasesMatchStatus'
  BY DEF LeasesMatchStatus, Eligible, Claimable, Named, TypeOK
<1>11. ResultMatchesAsset'
  BY DEF ResultMatchesAsset, Eligible, Claimable, Named
<1>12. RetryBudget'
  BY DEF RetryBudget, TypeOK
<1>13. FreshTasks'
  BY DEF FreshTasks, Open, TypeOK
<1>14. PlansFrozen'
  BY DEF PlansFrozen, TasksOf, Eligible, Claimable
<1>15. EndedBatches'
  BY DEF EndedBatches, TasksOf, Eligible, Open
<1>16. CancelLocksTasks'
  BY DEF CancelLocksTasks, TasksOf
<1>17. ReconSeesAssets'
  BY DEF ReconSeesAssets
<1> QED
  BY <1>6, <1>7, <1>8, <1>9, <1>10, <1>11, <1>12, <1>13, <1>14, <1>15, <1>16, <1>17

\* A thread seals its file.
LEMMA SealInv ==
  ASSUME IInv, NEW w \in Worker, NEW content \in Sealed, Seal(w, content)
  PROVE  IInv'
<1> USE DEF IInv, Seal, batchVars, taskVars
<1>1. worker' \in [Worker -> WorkerStates]
  BY DEF TypeOK, WorkerStates
<1>2. file' \in [Token -> Contents]
  BY DEF TypeOK, Sealed, Contents
<1>3. TypeOK'
  BY <1>1, <1>2 DEF TypeOK
<1>4. OneOwner'
  BY DEF OneOwner, Owns
<1>5. ThreadsApart'
  BY DEF ThreadsApart
<1>6. FilesFollowThreads'
  BY DEF FilesFollowThreads, Sealed, TypeOK, ThreadsApart
<1>7. ResultMatchesAsset'
  BY DEF ResultMatchesAsset, FilesFollowThreads
<1>8. /\ LeasesMatchStatus'
      /\ RetryBudget'
      /\ FreshTasks'
      /\ PlansFrozen'
      /\ EndedBatches'
      /\ CancelLocksTasks'
      /\ ReconSeesAssets'
  BY DEF LeasesMatchStatus, RetryBudget, FreshTasks, PlansFrozen, TasksOf, EndedBatches,
         CancelLocksTasks, ReconSeesAssets
<1> QED
  BY <1>3, <1>4, <1>5, <1>6, <1>7, <1>8

\* What complete_task lets a task own, it owned before.
LEMMA CompleteOwned ==
  ASSUME TypeOK, NEW t \in Task, NEW k, Complete(t, k)
  PROVE  \A u \in Task : /\ lease'[u] \in {lease[u], NoToken}
                         /\ asset'[u] = asset[u] \/ (asset'[u] = k /\ lease[u] = k)
BY DEF Complete, Holds, TypeOK, taskVars

\* A thread registers its file, or finds that it lost its lease.
LEMMA RegisterInv ==
  ASSUME IInv, NEW w \in Worker, Register(w)
  PROVE  IInv'
<1> USE DEF IInv, Register, batchVars, taskVars
<1>1. TypeOK'
  <2>1. worker[w].task \in Task /\ worker[w].token \in Token
    BY DEF ThreadsApart
  <2>2. /\ taskStatus' \in [Task -> TaskStatuses]
        /\ lease' \in [Task -> Token \cup {NoToken}]
        /\ asset' \in [Task -> Token \cup {NoToken}]
        /\ attempts' \in [Task -> 0 .. MaxAttempts]
    BY <2>1, CompleteTyped
  <2>3. worker' \in [Worker -> WorkerStates]
    BY DEF TypeOK, Idle, WorkerStates
  <2> QED
    BY <2>2, <2>3 DEF TypeOK
<1>2. OneOwner'
  <2>1. worker[w].task \in Task
    BY DEF ThreadsApart
  <2>2. \A u \in Task : /\ lease'[u] \in {lease[u], NoToken}
                        /\ \/ asset'[u] = asset[u]
                           \/ asset'[u] = worker[w].token /\ lease[u] = worker[w].token
    BY <2>1, CompleteOwned
  <2>3. \A v \in Worker : worker'[v] = worker[v] \/ worker'[v] = Idle
    BY DEF TypeOK
  <2>4. recon' = recon
    OBVIOUS
  <2>5. ASSUME NEW u \in Task, NEW k \in Token, Owns(u, k)' PROVE Owns(u, k)
    BY <2>2, <2>3, <2>4, <2>5, CollectionAssumption DEF Owns, Idle
  <2> QED
    BY <2>5 DEF OneOwner
<1>3. ThreadsApart'
  BY CollectionAssumption DEF ThreadsApart, Idle
<1>4. FilesFollowThreads'
  BY CollectionAssumption DEF FilesFollowThreads, Complete, Holds, Idle, ResultMatchesAsset, TypeOK, Terminal
<1>5. LeasesMatchStatus'
  BY DEF LeasesMatchStatus, Complete, TypeOK
<1>6. ResultMatchesAsset'
  BY CollectionAssumption DEF ResultMatchesAsset, Complete, ThreadsApart, FilesFollowThreads, TypeOK, Owns,
                              Contents
<1>7. RetryBudget'
  BY DEF RetryBudget, Complete, TypeOK
<1>8. FreshTasks'
  BY DEF FreshTasks, Complete, TypeOK
<1>9. PlansFrozen'
  BY DEF PlansFrozen, TasksOf, Complete, Holds, TypeOK
<1>10. EndedBatches'
  BY DEF EndedBatches, TasksOf, Complete, TypeOK, Terminal
<1>11. CancelLocksTasks'
  BY DEF CancelLocksTasks, TasksOf, Complete, TypeOK
<1>12. ReconSeesAssets'
  BY DEF ReconSeesAssets, Complete, Holds, ResultMatchesAsset, TypeOK, ReconStates
<1> QED
  BY <1>1, <1>2, <1>3, <1>4, <1>5, <1>6, <1>7, <1>8, <1>9, <1>10, <1>11, <1>12

\* A thread registers its file and is told that it failed.
LEMMA RegisterUnacknowledgedInv ==
  ASSUME IInv, NEW w \in Worker, RegisterUnacknowledged(w)
  PROVE  IInv'
<1> USE DEF IInv, RegisterUnacknowledged, batchVars, taskVars
<1>1. TypeOK'
  <2>1. worker[w].task \in Task /\ worker[w].token \in Token
    BY DEF ThreadsApart
  <2>2. /\ taskStatus' \in [Task -> TaskStatuses]
        /\ lease' \in [Task -> Token \cup {NoToken}]
        /\ asset' \in [Task -> Token \cup {NoToken}]
        /\ attempts' \in [Task -> 0 .. MaxAttempts]
    BY <2>1, CompleteTyped
  <2>3. faults' \in 0 .. MaxFaults
    BY CollectionAssumption DEF TypeOK
  <2> QED
    BY <2>2, <2>3 DEF TypeOK
<1>2. OneOwner'
  BY CollectionAssumption DEF OneOwner, Owns, Complete, TypeOK
<1>3. FilesFollowThreads'
  BY CollectionAssumption DEF FilesFollowThreads, Complete, Holds, ResultMatchesAsset, TypeOK
<1>4. LeasesMatchStatus'
  BY DEF LeasesMatchStatus, Complete, TypeOK
<1>5. ResultMatchesAsset'
  BY DEF ResultMatchesAsset, Complete, Holds, FilesFollowThreads, LeasesMatchStatus, TypeOK,
         Contents
<1>6. RetryBudget'
  BY DEF RetryBudget, Complete, TypeOK
<1>7. FreshTasks'
  BY DEF FreshTasks, Complete, TypeOK
<1>8. PlansFrozen'
  BY DEF PlansFrozen, TasksOf, Complete, Holds, TypeOK
<1>9. EndedBatches'
  BY DEF EndedBatches, TasksOf, Complete, TypeOK, Terminal, Claimable
<1>10. CancelLocksTasks'
  BY DEF CancelLocksTasks, TasksOf, Complete, TypeOK
<1>11. ReconSeesAssets'
  BY DEF ReconSeesAssets, Complete, Holds, LeasesMatchStatus, TypeOK, ReconStates
<1>12. ThreadsApart'
  BY DEF ThreadsApart
<1> QED
  BY <1>1, <1>2, <1>3, <1>4, <1>5, <1>6, <1>7, <1>8, <1>9, <1>10, <1>11, <1>12

\* A thread records a failure, or finds that it lost its lease.
LEMMA RecordFailureInv ==
  ASSUME IInv, NEW w \in Worker, NEW verdict \in {"skip", "retry", "final"},
         RecordFailure(w, verdict)
  PROVE  IInv'
<1> USE DEF IInv, RecordFailure, batchVars, taskVars
<1>1. TypeOK'
  <2>1. worker[w].task \in Task
    BY DEF ThreadsApart
  <2>2. /\ taskStatus' \in [Task -> TaskStatuses]
        /\ lease' \in [Task -> Token \cup {NoToken}]
        /\ asset' \in [Task -> Token \cup {NoToken}]
        /\ attempts' \in [Task -> 0 .. MaxAttempts]
    BY <2>1, FailTyped
  <2>3. worker' \in [Worker -> WorkerStates]
    BY DEF TypeOK, Idle, WorkerStates
  <2> QED
    BY <2>2, <2>3 DEF TypeOK
<1>2. OneOwner'
  BY CollectionAssumption DEF OneOwner, Owns, Fail, Idle, TypeOK
<1>3. ThreadsApart'
  BY CollectionAssumption DEF ThreadsApart, Idle
<1>4. FilesFollowThreads'
  BY DEF FilesFollowThreads, Fail, Idle
<1>5. LeasesMatchStatus'
  BY DEF LeasesMatchStatus, Fail, TypeOK
<1>6. ResultMatchesAsset'
  BY DEF ResultMatchesAsset, Fail, Holds, TypeOK
<1>7. RetryBudget'
  BY DEF RetryBudget, Fail, TypeOK
<1>8. FreshTasks'
  BY DEF FreshTasks, Fail, TypeOK
<1>9. PlansFrozen'
  BY DEF PlansFrozen, TasksOf, Fail, Holds, TypeOK
<1>10. EndedBatches'
  BY DEF EndedBatches, TasksOf, Fail, Holds, TypeOK, Terminal
<1>11. CancelLocksTasks'
  BY DEF CancelLocksTasks, TasksOf, Fail, Holds, TypeOK
<1>12. ReconSeesAssets'
  BY DEF ReconSeesAssets, Fail
<1> QED
  BY <1>1, <1>2, <1>3, <1>4, <1>5, <1>6, <1>7, <1>8, <1>9, <1>10, <1>11, <1>12

\* A thread ends without settling its task.
LEMMA WorkerDiesInv ==
  ASSUME IInv, NEW w \in Worker, WorkerDies(w)
  PROVE  IInv'
<1> USE DEF IInv, WorkerDies, batchVars, taskVars
<1>1. TypeOK'
  BY CollectionAssumption DEF TypeOK, Idle, WorkerStates
<1>2. OneOwner'
  BY CollectionAssumption DEF OneOwner, Owns, Idle
<1>3. ThreadsApart'
  BY CollectionAssumption DEF ThreadsApart, Idle
<1>4. FilesFollowThreads'
  BY DEF FilesFollowThreads, Idle
<1>5. /\ LeasesMatchStatus'
      /\ ResultMatchesAsset'
      /\ RetryBudget'
      /\ FreshTasks'
      /\ PlansFrozen'
      /\ EndedBatches'
      /\ CancelLocksTasks'
      /\ ReconSeesAssets'
  BY DEF LeasesMatchStatus, ResultMatchesAsset, RetryBudget, FreshTasks, PlansFrozen,
         TasksOf, EndedBatches, CancelLocksTasks, ReconSeesAssets
<1> QED
  BY <1>1, <1>2, <1>3, <1>4, <1>5

\* A reconciliation reads the running tasks.
LEMMA ReconReadRunningInv ==
  ASSUME IInv, ReconReadRunning
  PROVE  IInv'
<1> USE DEF IInv, ReconReadRunning, batchVars, taskVars
<1>1. TypeOK'
  BY DEF TypeOK, ReconStates
<1>2. OneOwner'
  BY CollectionAssumption DEF OneOwner, Owns
<1>3. ReconSeesAssets'
  BY DEF ReconSeesAssets
<1>4. /\ ThreadsApart'
      /\ FilesFollowThreads'
      /\ LeasesMatchStatus'
      /\ ResultMatchesAsset'
      /\ RetryBudget'
      /\ FreshTasks'
      /\ PlansFrozen'
      /\ EndedBatches'
      /\ CancelLocksTasks'
  BY DEF ThreadsApart, FilesFollowThreads, LeasesMatchStatus, ResultMatchesAsset,
         RetryBudget, FreshTasks, PlansFrozen, TasksOf, EndedBatches, CancelLocksTasks
<1> QED
  BY <1>1, <1>2, <1>3, <1>4

\* A reconciliation audits the registered files.
LEMMA ReconAuditInv ==
  ASSUME IInv, ReconAudit
  PROVE  IInv'
<1> USE DEF IInv, ReconAudit, batchVars, taskVars
<1>1. TypeOK'
  BY CollectionAssumption DEF TypeOK, MarkAssetsMissing, BatchStatuses, TaskStatuses, Claimable, Terminal,
                              Contents, WorkerStates, ReconStates
<1>2. OneOwner'
  BY CollectionAssumption DEF OneOwner, Owns, MarkAssetsMissing
<1>3. FilesFollowThreads'
  BY DEF FilesFollowThreads, MarkAssetsMissing
<1>4. LeasesMatchStatus'
  BY DEF LeasesMatchStatus, MarkAssetsMissing
<1>5. ResultMatchesAsset'
  BY DEF ResultMatchesAsset, MarkAssetsMissing
<1>6. RetryBudget'
  BY DEF RetryBudget, MarkAssetsMissing
<1>7. FreshTasks'
  BY DEF FreshTasks, MarkAssetsMissing
<1>8. PlansFrozen'
  BY DEF PlansFrozen, TasksOf, MarkAssetsMissing, ResultMatchesAsset
<1>9. EndedBatches'
  BY DEF EndedBatches, TasksOf, MarkAssetsMissing, Terminal
<1>10. CancelLocksTasks'
  BY DEF CancelLocksTasks, TasksOf, MarkAssetsMissing
<1>11. ReconSeesAssets'
  BY DEF ReconSeesAssets, MarkAssetsMissing
<1>12. ThreadsApart'
  BY DEF ThreadsApart
<1> QED
  BY <1>1, <1>2, <1>3, <1>4, <1>5, <1>6, <1>7, <1>8, <1>9, <1>10, <1>11, <1>12

\* A reconciliation registers a file it found, under the lease it read.
LEMMA ReconRegisterInv ==
  ASSUME IInv, NEW t \in Task, ReconRegister(t)
  PROVE  IInv'
<1> USE DEF IInv, ReconRegister, batchVars, taskVars
<1>1. TypeOK'
  <2>1. recon.snapshot[t] \in Token
    BY DEF InSnapshot, TypeOK, ReconStates
  <2>2. Complete(t, recon.snapshot[t]) \/ Fail(t, recon.snapshot[t], "final")
    OBVIOUS
  <2>3. /\ taskStatus' \in [Task -> TaskStatuses]
        /\ lease' \in [Task -> Token \cup {NoToken}]
        /\ asset' \in [Task -> Token \cup {NoToken}]
        /\ attempts' \in [Task -> 0 .. MaxAttempts]
    BY <2>1, <2>2, CompleteTyped, FailTyped
  <2>4. recon' \in ReconStates
    BY DEF TypeOK, ReconTaskDone, ReconStates
  <2> QED
    BY <2>3, <2>4 DEF TypeOK
<1>2. OneOwner'
  BY CollectionAssumption DEF OneOwner, Owns, Complete, Fail, ReconTaskDone, TypeOK
<1>3. FilesFollowThreads'
  BY CollectionAssumption DEF FilesFollowThreads, Complete, Fail, Holds, ResultMatchesAsset, TypeOK
<1>4. LeasesMatchStatus'
  BY DEF LeasesMatchStatus, Complete, Fail, TypeOK
<1>5. ResultMatchesAsset'
  BY DEF ResultMatchesAsset, Complete, Fail, Holds, FoundFile, InSnapshot, Sealed,
         ReconSeesAssets, TypeOK
<1>6. RetryBudget'
  BY DEF RetryBudget, Complete, Fail, InSnapshot, TypeOK
<1>7. FreshTasks'
  BY DEF FreshTasks, Complete, Fail, TypeOK
<1>8. PlansFrozen'
  BY DEF PlansFrozen, TasksOf, Complete, Fail, Holds, TypeOK
<1>9. EndedBatches'
  BY DEF EndedBatches, TasksOf, Complete, Fail, TypeOK, Terminal
<1>10. CancelLocksTasks'
  BY DEF CancelLocksTasks, TasksOf, Complete, Fail, TypeOK
<1>11. ReconSeesAssets'
  BY DEF ReconSeesAssets, Complete, Fail, InSnapshot, ReconTaskDone, TypeOK, ReconStates
<1>12. ThreadsApart'
  BY DEF ThreadsApart
<1> QED
  BY <1>1, <1>2, <1>3, <1>4, <1>5, <1>6, <1>7, <1>8, <1>9, <1>10, <1>11, <1>12

\* A reconciliation passes a task over.
LEMMA ReconLeaveInv ==
  ASSUME IInv, NEW t \in Task, ReconLeave(t)
  PROVE  IInv'
<1> USE DEF IInv, ReconLeave, batchVars, taskVars
<1>1. TypeOK'
  BY DEF TypeOK, ReconTaskDone, ReconStates
<1>2. OneOwner'
  BY CollectionAssumption DEF OneOwner, Owns, ReconTaskDone
<1>3. ReconSeesAssets'
  BY CollectionAssumption DEF ReconSeesAssets, ReconTaskDone
<1>4. /\ ThreadsApart'
      /\ FilesFollowThreads'
      /\ LeasesMatchStatus'
      /\ ResultMatchesAsset'
      /\ RetryBudget'
      /\ FreshTasks'
      /\ PlansFrozen'
      /\ EndedBatches'
      /\ CancelLocksTasks'
  BY DEF ThreadsApart, FilesFollowThreads, LeasesMatchStatus, ResultMatchesAsset,
         RetryBudget, FreshTasks, PlansFrozen, TasksOf, EndedBatches, CancelLocksTasks
<1> QED
  BY <1>1, <1>2, <1>3, <1>4

\* A reconciliation gives a stale task back to the queue.
LEMMA ReconRecoverInv ==
  ASSUME IInv, NEW t \in Task, ReconRecover(t)
  PROVE  IInv'
<1> USE DEF IInv, ReconRecover, batchVars, taskVars
<1>1. recon' \in ReconStates
  BY DEF TypeOK, ReconStates, ReconTaskDone
<1>2. \A n \in 0 .. MaxAttempts : (IF n = 0 THEN 0 ELSE n - 1) \in 0 .. MaxAttempts
  BY CollectionAssumption
<1>3. attempts' \in [Task -> 0 .. MaxAttempts]
  BY <1>2 DEF TypeOK, RecoverInterrupted
<1>4. /\ taskStatus' \in [Task -> TaskStatuses]
      /\ lease' \in [Task -> Token \cup {NoToken}]
  BY DEF TypeOK, TaskStatuses, Claimable, RecoverInterrupted
<1>5. faults' \in 0 .. MaxFaults
  BY CollectionAssumption DEF TypeOK
<1>6. TypeOK'
  BY <1>1, <1>3, <1>4, <1>5 DEF TypeOK, RecoverInterrupted
<1>7. OneOwner'
  BY CollectionAssumption DEF OneOwner, Owns, RecoverInterrupted, ReconTaskDone, TypeOK
<1>8. FilesFollowThreads'
  BY DEF FilesFollowThreads, RecoverInterrupted, ReconTaskDone
<1>9. LeasesMatchStatus'
  BY DEF LeasesMatchStatus, RecoverInterrupted, TypeOK
<1>10. ResultMatchesAsset'
  BY DEF ResultMatchesAsset, RecoverInterrupted, Holds, TypeOK
<1>11. RetryBudget'
  BY CollectionAssumption DEF RetryBudget, RecoverInterrupted, TypeOK
<1>12. FreshTasks'
  BY DEF FreshTasks, RecoverInterrupted, TypeOK
<1>13. PlansFrozen'
  BY DEF PlansFrozen, TasksOf, RecoverInterrupted, Holds, TypeOK
<1>14. EndedBatches'
  BY DEF EndedBatches, TasksOf, RecoverInterrupted, Holds, TypeOK, Terminal
<1>15. CancelLocksTasks'
  BY DEF CancelLocksTasks, TasksOf, RecoverInterrupted, TypeOK
<1>16. ReconSeesAssets'
  BY DEF ReconSeesAssets, RecoverInterrupted, ReconTaskDone
<1>17. ThreadsApart'
  BY DEF ThreadsApart
<1> QED
  BY <1>6, <1>7, <1>8, <1>9, <1>10, <1>11, <1>12, <1>13, <1>14, <1>15, <1>16, <1>17

\* A reconciliation ends.
LEMMA ReconEndInv ==
  ASSUME IInv, ReconEnd
  PROVE  IInv'
<1> USE DEF IInv, ReconEnd, batchVars, taskVars
<1>1. TypeOK'
  BY DEF TypeOK, ReconIdle, ReconStates
<1>2. OneOwner'
  BY CollectionAssumption DEF OneOwner, Owns, ReconIdle
<1>3. ReconSeesAssets'
  BY DEF ReconSeesAssets, ReconIdle
<1>4. /\ ThreadsApart'
      /\ FilesFollowThreads'
      /\ LeasesMatchStatus'
      /\ ResultMatchesAsset'
      /\ RetryBudget'
      /\ FreshTasks'
      /\ PlansFrozen'
      /\ EndedBatches'
      /\ CancelLocksTasks'
  BY DEF ThreadsApart, FilesFollowThreads, LeasesMatchStatus, ResultMatchesAsset,
         RetryBudget, FreshTasks, PlansFrozen, TasksOf, EndedBatches, CancelLocksTasks
<1> QED
  BY <1>1, <1>2, <1>3, <1>4

\* A reconciliation fails.
LEMMA ReconAbortInv ==
  ASSUME IInv, ReconAbort
  PROVE  IInv'
<1> USE DEF IInv, ReconAbort, batchVars, taskVars
<1>1. TypeOK'
  BY CollectionAssumption DEF TypeOK, ReconIdle, ReconStates
<1>2. OneOwner'
  BY CollectionAssumption DEF OneOwner, Owns, ReconIdle
<1>3. ReconSeesAssets'
  BY DEF ReconSeesAssets, ReconIdle
<1>4. /\ ThreadsApart'
      /\ FilesFollowThreads'
      /\ LeasesMatchStatus'
      /\ ResultMatchesAsset'
      /\ RetryBudget'
      /\ FreshTasks'
      /\ PlansFrozen'
      /\ EndedBatches'
      /\ CancelLocksTasks'
  BY DEF ThreadsApart, FilesFollowThreads, LeasesMatchStatus, ResultMatchesAsset,
         RetryBudget, FreshTasks, PlansFrozen, TasksOf, EndedBatches, CancelLocksTasks
<1> QED
  BY <1>1, <1>2, <1>3, <1>4

\* The process dies.
LEMMA CrashInv ==
  ASSUME IInv, Crash
  PROVE  IInv'
<1> USE DEF IInv, Crash, batchVars, taskVars
<1>1. TypeOK'
  BY CollectionAssumption DEF TypeOK, Idle, ReconIdle, WorkerStates, ReconStates
<1>2. OneOwner'
  BY CollectionAssumption DEF OneOwner, Owns, Idle, ReconIdle
<1>3. ThreadsApart'
  BY DEF ThreadsApart, Idle
<1>4. FilesFollowThreads'
  BY DEF FilesFollowThreads, Idle
<1>5. ReconSeesAssets'
  BY DEF ReconSeesAssets, ReconIdle
<1>6. /\ LeasesMatchStatus'
      /\ ResultMatchesAsset'
      /\ RetryBudget'
      /\ FreshTasks'
      /\ PlansFrozen'
      /\ EndedBatches'
      /\ CancelLocksTasks'
  BY DEF LeasesMatchStatus, ResultMatchesAsset, RetryBudget, FreshTasks, PlansFrozen,
         TasksOf, EndedBatches, CancelLocksTasks
<1> QED
  BY <1>1, <1>2, <1>3, <1>4, <1>5, <1>6

\* The process starts again.
LEMMA RestartInv ==
  ASSUME IInv, Restart
  PROVE  IInv'
<1> USE DEF IInv, Restart, batchVars, taskVars
<1>1. TypeOK'
  BY DEF TypeOK
<1>2. /\ OneOwner'
      /\ ThreadsApart'
      /\ FilesFollowThreads'
      /\ LeasesMatchStatus'
      /\ ResultMatchesAsset'
      /\ RetryBudget'
      /\ FreshTasks'
      /\ PlansFrozen'
      /\ EndedBatches'
      /\ CancelLocksTasks'
      /\ ReconSeesAssets'
  BY DEF OneOwner, Owns, ThreadsApart, FilesFollowThreads, LeasesMatchStatus,
         ResultMatchesAsset, RetryBudget, FreshTasks, PlansFrozen, TasksOf, EndedBatches,
         CancelLocksTasks, ReconSeesAssets
<1> QED
  BY <1>1, <1>2

\* A registered file disappears.
LEMMA LoseFileInv ==
  ASSUME IInv, NEW t \in Task, LoseFile(t)
  PROVE  IInv'
<1> USE DEF IInv, LoseFile, batchVars, taskVars
<1>1. TypeOK'
  BY CollectionAssumption DEF TypeOK, Contents
<1>2. FilesFollowThreads'
  BY DEF FilesFollowThreads, ResultMatchesAsset
<1>3. ResultMatchesAsset'
  BY DEF ResultMatchesAsset
<1>4. /\ OneOwner'
      /\ ThreadsApart'
      /\ LeasesMatchStatus'
      /\ RetryBudget'
      /\ FreshTasks'
      /\ PlansFrozen'
      /\ EndedBatches'
      /\ CancelLocksTasks'
      /\ ReconSeesAssets'
  BY DEF OneOwner, Owns, ThreadsApart, LeasesMatchStatus, RetryBudget, FreshTasks,
         PlansFrozen, TasksOf, EndedBatches, CancelLocksTasks, ReconSeesAssets
<1> QED
  BY <1>1, <1>2, <1>3, <1>4

\* Every step of the system preserves the invariant.
LEMMA StepInv == IInv /\ [Next]_vars => IInv'
<1> SUFFICES ASSUME IInv, [Next]_vars PROVE IInv'
  OBVIOUS
<1>1. ASSUME NEW b \in Batch, Plan(b) \/ CloseBatch(b) PROVE IInv'
  BY <1>1, CreateBatchInv, AppendTasksInv, CloseBatchInv DEF Plan
<1>2. CASE Command
  BY <1>2, TransitionTaskInv, CancelLockTasksInv, CancelCommitInv, CancelRejectInv DEF Command
<1>3. ASSUME NEW w \in Worker, Dispatch(w) \/ Execute(w) PROVE IInv'
  BY <1>3, ClaimInv, SealInv, RegisterInv, RegisterUnacknowledgedInv, RecordFailureInv,
     WorkerDiesInv DEF Dispatch, Execute
<1>4. CASE Reconcile
  BY <1>4, ReconReadRunningInv, ReconAuditInv, ReconRegisterInv, ReconLeaveInv,
     ReconRecoverInv, ReconEndInv, ReconAbortInv DEF Reconcile
<1>5. CASE Crash \/ Restart
  BY <1>5, CrashInv, RestartInv
<1>6. ASSUME NEW t \in Task, LoseFile(t) PROVE IInv'
  BY <1>6, LoseFileInv
<1>7. CASE UNCHANGED vars
  BY <1>7 DEF vars, batchVars, taskVars, IInv, TypeOK, OneOwner, Owns, ThreadsApart,
              FilesFollowThreads, LeasesMatchStatus, ResultMatchesAsset, RetryBudget,
              FreshTasks, PlansFrozen, EndedBatches, CancelLocksTasks, ReconSeesAssets,
              TasksOf
<1> QED
  BY <1>1, <1>2, <1>3, <1>4, <1>5, <1>6, <1>7 DEF Next

\* IInv holds in every reachable state: what threads, commands, planners and
\* reconciliations rely on of each other.
THEOREM Inductive == Spec => []IInv
  BY InitInv, StepInv, PTL DEF Spec

\* Every variable keeps its type; attempt_count never exceeds max_attempts.
THEOREM TypeCorrect == Spec => []TypeOK
<1>1. IInv => TypeOK
  BY DEF IInv
<1> QED
  BY <1>1, Inductive, PTL

\* close_ready_batches closes exactly a frozen plan, all of it settled, and it
\* stays so.
THEOREM ClosedBatchesSettled == Spec => []ClosedBatchSettled
<1>1. IInv => ClosedBatchSettled
  BY DEF IInv, EndedBatches, PlansFrozen, ClosedBatchSettled
<1> QED
  BY <1>1, Inductive, PTL

\* cancel_batch leaves no task alive, although it locks the tasks it saw before
\* it locks the batch.
THEOREM CancelledBatchesDead == Spec => []CancelledBatchDead
<1>1. IInv => CancelledBatchDead
  BY DEF IInv, EndedBatches, CancelledBatchDead
<1> QED
  BY <1>1, Inductive, PTL

\* complete_task, fail_task, mark_asset_missing and the reconciliations agree on
\* what a task's status says of its registered file.
THEOREM ResultsMatchAssets == Spec => []ResultMatchesAsset
<1>1. IInv => ResultMatchesAsset
  BY DEF IInv
<1> QED
  BY <1>1, Inductive, PTL

\* claim_next takes an attempt, recover_interrupted_task gives one back, and no
\* interleaving of them overdraws the budget.
THEOREM AttemptsBudgeted == Spec => []RetryBudget
<1>1. IInv => RetryBudget
  BY DEF IInv
<1> QED
  BY <1>1, Inductive, PTL

\* One lease per running task, and no token in two hands.
THEOREM LeasesDisciplined == Spec => []LeaseDiscipline
<1>1. IInv => LeaseDiscipline
  <2> SUFFICES ASSUME IInv PROVE LeaseDiscipline
    OBVIOUS
  <2>1. \A t \in Task : taskStatus[t] = "RUNNING" <=> lease[t] # NoToken
    BY DEF IInv, LeasesMatchStatus
  <2>2. \A t, u \in Task : t # u /\ lease[t] # NoToken => lease[t] # lease[u]
    BY DEF IInv, OneOwner, Owns, TypeOK
  <2>3. \A v, w \in Worker : v # w /\ worker[v] # Idle => worker[v].token # worker[w].token
    BY DEF IInv, ThreadsApart
  <2> QED
    BY <2>1, <2>2, <2>3 DEF LeaseDiscipline
<1> QED
  BY <1>1, Inductive, PTL

-----------------------------------------------------------------------------
(* What no step ever does.                                                 *)

\* A settled task is left alone by every step but the audit of a lost file: the
\* fence compares the lease, the commands and the claim ask for a waiting task.
LEMMA OutcomeStep == IInv /\ [Next]_vars => \A t \in Task : OutcomeKept(t)
<1> SUFFICES ASSUME IInv, [Next]_vars, NEW u \in Task PROVE OutcomeKept(u)
  OBVIOUS
<1> USE DEF OutcomeKept, Terminal, batchVars, taskVars
<1> TypeOK
  BY DEF IInv
<1>1. ASSUME NEW b \in Batch, Plan(b) \/ CloseBatch(b) PROVE OutcomeKept(u)
  BY <1>1 DEF TypeOK, Plan, CreateBatch, AppendTasks, CloseBatch
<1>2. CASE Command
  BY <1>2 DEF TypeOK, Command, TransitionTask, CancelLockTasks, CancelCommit, CancelReject,
              Claimable
<1>3. ASSUME NEW w \in Worker, Dispatch(w) PROVE OutcomeKept(u)
  BY <1>3 DEF TypeOK, Dispatch, Claim, Eligible, Claimable
<1>4. ASSUME NEW w \in Worker, Execute(w) PROVE OutcomeKept(u)
  BY <1>4 DEF TypeOK, Execute, Seal, Register, RegisterUnacknowledged, RecordFailure, WorkerDies,
              Complete, Fail, Holds
<1>5. CASE ReconAudit
  BY <1>5 DEF TypeOK, ReconAudit, MarkAssetsMissing
<1>6. ASSUME NEW t \in Task, ReconRegister(t) PROVE OutcomeKept(u)
  BY <1>6 DEF TypeOK, ReconRegister, Complete, Fail, Holds
<1>7. ASSUME NEW t \in Task, ReconRecover(t) PROVE OutcomeKept(u)
  BY <1>7 DEF TypeOK, ReconRecover, RecoverInterrupted, Holds
<1>8. CASE Reconcile /\ ~ReconAudit /\ \A t \in Task : ~ReconRegister(t) /\ ~ReconRecover(t)
  BY <1>8 DEF Reconcile, ReconReadRunning, ReconLeave, ReconEnd, ReconAbort
<1>9. CASE UNCHANGED vars \/ Crash \/ Restart \/ \E t \in Task : LoseFile(t)
  BY <1>9 DEF vars, Crash, Restart, LoseFile
<1> QED
  BY <1>1, <1>2, <1>3, <1>4, <1>5, <1>6, <1>7, <1>8, <1>9 DEF Next

\* complete_task is the only writer of asset rows: called by a thread with its
\* own token, or by a reconciliation with the token it read and the file it
\* found under that token.
LEMMA RegistrationStep == IInv /\ [Next]_vars => \A t \in Task : RegisteredUnderLease(t)
<1> SUFFICES ASSUME IInv, [Next]_vars, NEW u \in Task PROVE RegisteredUnderLease(u)
  OBVIOUS
<1> USE DEF RegisteredUnderLease, batchVars, taskVars
<1> TypeOK /\ ResultMatchesAsset
  BY DEF IInv
<1>1. ASSUME NEW b \in Batch, Plan(b) \/ CloseBatch(b) PROVE RegisteredUnderLease(u)
  BY <1>1 DEF Plan, CreateBatch, AppendTasks, CloseBatch
<1>2. CASE Command
  BY <1>2 DEF Command, TransitionTask, CancelLockTasks, CancelCommit, CancelReject
<1>3. ASSUME NEW w \in Worker, Dispatch(w) PROVE RegisteredUnderLease(u)
  BY <1>3 DEF Dispatch, Claim
<1>4. ASSUME NEW w \in Worker, Execute(w) PROVE RegisteredUnderLease(u)
  BY <1>4 DEF TypeOK, ResultMatchesAsset, Execute, Seal, Register, RegisterUnacknowledged,
              RecordFailure, WorkerDies, Complete, Fail, Holds
<1>5. ASSUME NEW t \in Task, ReconRegister(t) PROVE RegisteredUnderLease(u)
  BY <1>5 DEF TypeOK, ResultMatchesAsset, ReconRegister, Complete, Fail, Holds
<1>6. CASE Reconcile /\ \A t \in Task : ~ReconRegister(t)
  BY <1>6 DEF Reconcile, ReconReadRunning, ReconAudit, MarkAssetsMissing, ReconLeave,
              ReconRecover, ReconEnd, ReconAbort, RecoverInterrupted
<1>7. CASE UNCHANGED vars \/ Crash \/ Restart \/ \E t \in Task : LoseFile(t)
  BY <1>7 DEF vars, Crash, Restart, LoseFile
<1> QED
  BY <1>1, <1>2, <1>3, <1>4, <1>5, <1>6, <1>7 DEF Next

\* Nothing reopens a batch, adds a task to a frozen plan or changes the plan.
LEMMA BatchStep == IInv /\ [Next]_vars => \A b \in Batch : BatchKept(b)
<1> SUFFICES ASSUME IInv, [Next]_vars, NEW c \in Batch PROVE BatchKept(c)
  OBVIOUS
<1> USE DEF BatchKept, TasksOf, batchVars, taskVars
<1> TypeOK /\ EndedBatches /\ PlansFrozen /\ LeasesMatchStatus
  BY DEF IInv
<1>1. ASSUME NEW b \in Batch, CreateBatch(b) \/ CloseBatch(b) PROVE BatchKept(c)
  BY <1>1 DEF TypeOK, PlansFrozen, CreateBatch, CloseBatch, Open
<1>2. ASSUME NEW b \in Batch, NEW submitted \in SUBSET {t \in Task : BatchOf[t] = b},
             NEW finalize \in BOOLEAN, AppendTasks(b, submitted, finalize)
      PROVE  BatchKept(c)
  BY <1>2 DEF TypeOK, AppendTasks, Open
<1>3. CASE Command
  <2>1. ASSUME NEW t \in Task, NEW target \in {"SKIPPED", "CANCELLED"}, TransitionTask(t, target)
        PROVE  BatchKept(c)
    BY <2>1 DEF TypeOK, TransitionTask, Claimable
  <2>2. ASSUME NEW b \in Batch, CancelCommit(b) PROVE BatchKept(c)
    <3>1. \A t \in Task : taskStatus'[t] = "ABSENT" <=> taskStatus[t] = "ABSENT"
      BY <2>2 DEF CancelCommit, Claimable
    <3>2. batchStatus[c] \in {"CLOSED", "CANCELLED"} => batchStatus'[c] = batchStatus[c]
      BY <2>2 DEF TypeOK, CancelCommit, CancelAllowed, Open
    <3> QED
      BY <2>2, <3>1, <3>2 DEF CancelCommit
  <2>3. ASSUME NEW b \in Batch, CancelLockTasks(b) \/ CancelReject(b) PROVE BatchKept(c)
    BY <2>3 DEF CancelLockTasks, CancelReject
  <2> QED
    BY <1>3, <2>1, <2>2, <2>3 DEF Command
<1>4. ASSUME NEW w \in Worker, Dispatch(w) PROVE BatchKept(c)
  BY <1>4, CollectionAssumption DEF TypeOK, Dispatch, Claim, Eligible, Open, Claimable
<1>5. ASSUME NEW w \in Worker, Execute(w) PROVE BatchKept(c)
  BY <1>5 DEF TypeOK, Execute, Seal, Register, RegisterUnacknowledged, RecordFailure, WorkerDies,
              Complete, Fail, Holds
<1>6. CASE Reconcile /\ ~ReconAudit
  BY <1>6 DEF TypeOK, Reconcile, ReconReadRunning, ReconRegister, ReconLeave, ReconRecover,
              ReconEnd, ReconAbort, Complete, Fail, RecoverInterrupted, Holds
<1>7. CASE ReconAudit
  BY <1>7 DEF TypeOK, ResultMatchesAsset, IInv, ReconAudit, MarkAssetsMissing
<1>8. CASE UNCHANGED vars \/ Crash \/ Restart \/ \E t \in Task : LoseFile(t)
  BY <1>8 DEF vars, Crash, Restart, LoseFile
<1> QED
  BY <1>1, <1>2, <1>3, <1>4, <1>5, <1>6, <1>7, <1>8 DEF Next, Plan

\* No late thread, stale reconciliation or command changes a settled task.
THEOREM OutcomesFinal == Spec => OutcomeFinality
  BY Inductive, OutcomeStep, PTL DEF Spec, OutcomeFinality

\* Only the holder of the lease registers an asset, and registers it once.
THEOREM RegistrationsLeased == Spec => RegisteredByLeaseHolder
  BY Inductive, RegistrationStep, PTL DEF Spec, RegisteredByLeaseHolder

\* Closed and cancelled batches, and frozen plans, are final.
THEOREM BatchesFinal == Spec => BatchFinality
  BY Inductive, BatchStep, PTL DEF Spec, BatchFinality

-----------------------------------------------------------------------------
(* Collection implements TaskLedger: the empty database maps to the empty   *)
(* ledger, and every step maps to a step of the ledger or to none.          *)

\* Nothing the ledger shows changes.
Invisible == UNCHANGED <<[b \in Batch |-> LedgerStatus(batchStatus[b])], frozen,
                         [t \in Task |-> Outcome(taskStatus[t])]>>

\* A step that changes nothing the ledger shows is a stutter of the ledger.
LEMMA InvisibleSteps == Invisible => UNCHANGED Abstract!ledgerVars
BY DEF Invisible, Abstract!ledgerVars

\* create_or_get_batch opens a batch of the ledger.
LEMMA CreateMaps ==
  ASSUME IInv, NEW b \in Batch, CreateBatch(b)
  PROVE  Abstract!Open(b)
BY DEF IInv, TypeOK, CreateBatch, taskVars, Abstract!Open, LedgerStatus

\* append_tasks accepts tasks, or replays a plan that is final.
LEMMA AppendMaps ==
  ASSUME IInv, NEW b \in Batch, NEW submitted \in SUBSET {t \in Task : BatchOf[t] = b},
         NEW finalize \in BOOLEAN, AppendTasks(b, submitted, finalize)
  PROVE  Abstract!Accept(b) \/ Invisible
<1> DEFINE new == {t \in submitted : taskStatus[t] = "ABSENT"}
<1>1. CASE frozen[b]
  <2>1. \A t \in Task : taskStatus'[t] = taskStatus[t]
    BY <1>1 DEF AppendTasks, TasksOf
  <2>2. frozen' = frozen
    BY <1>1 DEF AppendTasks
  <2> QED
    BY <2>1, <2>2 DEF AppendTasks, Invisible
<1>2. CASE ~frozen[b]
  <2>1. LedgerStatus(batchStatus[b]) = "open"
    BY DEF AppendTasks, Open, LedgerStatus
  <2>2. new \in SUBSET {t \in Task : BatchOf[t] = b /\ Outcome(taskStatus[t]) = "absent"}
    BY DEF Outcome
  <2>3. \A t \in Task : Outcome(taskStatus'[t]) =
                           IF t \in new THEN "due" ELSE Outcome(taskStatus[t])
    BY DEF AppendTasks, Outcome
  <2>4. frozen' = [frozen EXCEPT ![b] = finalize]
    BY <1>2 DEF IInv, TypeOK, AppendTasks
  <2>5. batchStatus' = batchStatus
    BY DEF AppendTasks
  <2> QED
    BY <1>2, <2>1, <2>2, <2>3, <2>4, <2>5 DEF Abstract!Accept
<1> QED
  BY <1>1, <1>2

\* close_ready_batches closes a batch of the ledger: no task of it is due.
LEMMA CloseMaps ==
  ASSUME IInv, NEW b \in Batch, CloseBatch(b)
  PROVE  Abstract!Close(b)
<1>1. \A t \in Task : BatchOf[t] = b => Outcome(taskStatus[t]) # "due"
  BY DEF CloseBatch, TasksOf, Terminal, Outcome
<1> QED
  BY <1>1 DEF IInv, TypeOK, CloseBatch, Open, taskVars, Abstract!Close, LedgerStatus

\* cancel_batch cancels a batch and drops all that is due in it.
LEMMA CancelMaps ==
  ASSUME IInv, IInv', NEW b \in Batch, CancelCommit(b)
  PROVE  Abstract!Cancel(b)
<1>1. \A t \in Task : BatchOf[t] # b => taskStatus'[t] = taskStatus[t]
  BY DEF IInv, TypeOK, CancelLocksTasks, CancelCommit, TasksOf
<1>2. ASSUME NEW t \in Task, BatchOf[t] = b
      PROVE  Outcome(taskStatus'[t]) = IF Outcome(taskStatus[t]) = "due" THEN "dropped"
                                       ELSE Outcome(taskStatus[t])
  <2>1. taskStatus'[t] \in Terminal \cup {"ABSENT"}
    <3>1. batchStatus'[b] = "CANCELLED"
      BY DEF CancelCommit, IInv, TypeOK
    <3> QED
      BY <1>2, <3>1 DEF IInv, EndedBatches, TasksOf
  <2>2. \/ taskStatus'[t] = taskStatus[t]
        \/ taskStatus[t] \in Claimable /\ taskStatus'[t] = "CANCELLED"
    BY <1>2 DEF CancelCommit
  <2> QED
    BY <2>1, <2>2 DEF Outcome, Claimable, Terminal
<1> QED
  BY <1>1, <1>2 DEF IInv, TypeOK, CancelCommit, CancelAllowed, Open, Abstract!Cancel, LedgerStatus

\* A task gets an outcome at most once while its batch is open: whatever settles
\* it (a thread, a reconciliation, a command) leaves the other tasks alone.
LEMMA SettleMaps ==
  ASSUME IInv, NEW t \in Task, batchStatus' = batchStatus, frozen' = frozen,
         taskStatus[t] \in Claimable \cup {"RUNNING"},
         NEW s \in {"RUNNING", "RETRY_WAIT"} \cup Terminal,
         taskStatus' = [taskStatus EXCEPT ![t] = s]
  PROVE  Abstract!Settle(t) \/ Invisible
<1>1. \A u \in Task : Outcome(taskStatus'[u]) =
                         IF u = t THEN Outcome(s) ELSE Outcome(taskStatus[u])
  BY DEF IInv, TypeOK
<1>2. Outcome(taskStatus[t]) = "due"
  BY DEF Outcome, Claimable
<1>3. CASE s \in {"RUNNING", "RETRY_WAIT"}
  BY <1>1, <1>2, <1>3 DEF Outcome, Invisible
<1>4. CASE s \in Terminal
  <2>1. Outcome(s) \in {"data", "no_data", "dropped"}
    BY <1>4 DEF Outcome, Terminal
  <2>2. LedgerStatus(batchStatus[BatchOf[t]]) = "open"
    <3>1. t \in TasksOf(BatchOf[t]) /\ BatchOf[t] \in Batch /\ taskStatus[t] \notin Terminal
      BY CollectionAssumption DEF TasksOf, Claimable, Terminal
    <3>2. batchStatus[BatchOf[t]] \notin {"ABSENT", "CLOSED", "CANCELLED"}
      BY <3>1 DEF IInv, PlansFrozen, EndedBatches
    <3> QED
      BY <3>2 DEF LedgerStatus
  <2>3. [u \in Task |-> Outcome(taskStatus'[u])]
          = [[u \in Task |-> Outcome(taskStatus[u])] EXCEPT ![t] = Outcome(s)]
    BY <1>1
  <2> QED
    BY <1>2, <2>1, <2>2, <2>3, CollectionAssumption DEF Abstract!Settle
<1> QED
  BY <1>3, <1>4

\* mark_asset_missing drops data that was registered.
LEMMA AuditMaps ==
  ASSUME IInv, ReconAudit
  PROVE  Abstract!Lose \/ Invisible
<1>1. PICK missing \in SUBSET {t \in Task : asset[t] # NoToken} :
        taskStatus' = [t \in Task |-> IF t \in missing THEN "FAILED" ELSE taskStatus[t]]
  BY DEF ReconAudit, MarkAssetsMissing
<1> DEFINE lost == {t \in missing : Outcome(taskStatus[t]) \in {"data", "no_data"}}
<1>2. \A t \in missing : Outcome(taskStatus[t]) \in {"data", "no_data", "dropped"}
  BY <1>1 DEF IInv, ResultMatchesAsset, Outcome
<1>3. \A t \in Task : Outcome(taskStatus'[t]) =
                         IF t \in lost THEN "dropped" ELSE Outcome(taskStatus[t])
  <2>1. Outcome("FAILED") = "dropped"
    BY DEF Outcome
  <2> QED
    BY <1>1, <1>2, <2>1
<1>4. lost \in SUBSET {t \in Task : Outcome(taskStatus[t]) \in {"data", "no_data"}}
  BY <1>1
<1>5. UNCHANGED <<batchStatus, frozen>>
  BY DEF ReconAudit, batchVars
<1> QED
  BY <1>3, <1>4, <1>5 DEF Abstract!Lose

\* Every step of Collection is a step of the ledger or invisible in it.
LEMMA StepMaps ==
  ASSUME IInv, IInv', [Next]_vars
  PROVE  [Abstract!Next]_(Abstract!ledgerVars)
<1> SUFFICES Abstract!Next \/ Invisible
  BY InvisibleSteps
<1> USE DEF batchVars, taskVars
<1> TypeOK
  BY DEF IInv
<1>1. ASSUME NEW b \in Batch, Plan(b) \/ CloseBatch(b)
      PROVE  Abstract!Next \/ Invisible
  BY <1>1, CreateMaps, AppendMaps, CloseMaps DEF Plan, Abstract!Next
<1>2. CASE Command
  <2>1. ASSUME NEW t \in Task, NEW target \in {"SKIPPED", "CANCELLED"}, TransitionTask(t, target)
        PROVE  Abstract!Next \/ Invisible
    BY <2>1, SettleMaps DEF TransitionTask, Terminal, Abstract!Next
  <2>2. ASSUME NEW b \in Batch, CancelCommit(b) PROVE Abstract!Next \/ Invisible
    BY <2>2, CancelMaps DEF Abstract!Next
  <2>3. ASSUME NEW b \in Batch, CancelLockTasks(b) \/ CancelReject(b) PROVE Invisible
    BY <2>3 DEF CancelLockTasks, CancelReject, Invisible
  <2> QED
    BY <1>2, <2>1, <2>2, <2>3 DEF Command
<1>3. ASSUME NEW w \in Worker, Dispatch(w) PROVE Invisible
  <2>1. PICK t \in Task, level \in {"NORMAL", "WARNING", "PROTECT"}, k \in Token :
          Claim(w, t, level, k)
    BY <1>3 DEF Dispatch
  <2>2. \A u \in Task : Outcome(taskStatus'[u]) = Outcome(taskStatus[u])
    BY <2>1 DEF TypeOK, Claim, Eligible, Claimable, Outcome
  <2>3. \A b \in Batch : LedgerStatus(batchStatus'[b]) = LedgerStatus(batchStatus[b])
    BY <2>1 DEF TypeOK, Claim, Eligible, Open, LedgerStatus
  <2> QED
    BY <2>1, <2>2, <2>3 DEF Claim, Invisible
<1>4. ASSUME NEW t \in Task, NEW k, Complete(t, k), batchStatus' = batchStatus, frozen' = frozen
      PROVE  Abstract!Next \/ Invisible
  BY <1>4, SettleMaps DEF Complete, Holds, Terminal, Invisible, Abstract!Next
<1>5. ASSUME NEW t \in Task, NEW k, NEW verdict, Fail(t, k, verdict), batchStatus' = batchStatus,
             frozen' = frozen
      PROVE  Abstract!Next \/ Invisible
  BY <1>5, SettleMaps DEF Fail, Holds, Terminal, Invisible, Abstract!Next
<1>6. ASSUME NEW w \in Worker, Execute(w)
      PROVE  Abstract!Next \/ Invisible
  <2>1. worker[w].phase # "idle" => worker[w].task \in Task
    BY DEF IInv, ThreadsApart
  <2>2. CASE Register(w) \/ RegisterUnacknowledged(w)
    BY <2>1, <2>2, <1>4 DEF Register, RegisterUnacknowledged
  <2>3. ASSUME NEW verdict \in {"skip", "retry", "final"}, RecordFailure(w, verdict)
        PROVE  Abstract!Next \/ Invisible
    BY <2>1, <2>3, <1>5 DEF RecordFailure
  <2>4. CASE WorkerDies(w) \/ \E content \in Sealed : Seal(w, content)
    BY <2>4 DEF WorkerDies, Seal, Invisible
  <2> QED
    BY <1>6, <2>2, <2>3, <2>4 DEF Execute
<1>7. CASE Reconcile
  <2>1. ASSUME NEW t \in Task, ReconRegister(t) PROVE Abstract!Next \/ Invisible
    BY <2>1, <1>4, <1>5 DEF ReconRegister
  <2>2. ASSUME NEW t \in Task, ReconRecover(t) PROVE Abstract!Next \/ Invisible
    BY <2>2, SettleMaps DEF ReconRecover, RecoverInterrupted, Holds, Invisible, Abstract!Next
  <2>3. CASE ReconAudit
    BY <2>3, AuditMaps DEF Abstract!Next
  <2>4. CASE ReconReadRunning \/ ReconEnd \/ ReconAbort \/ \E t \in Task : ReconLeave(t)
    BY <2>4 DEF ReconReadRunning, ReconEnd, ReconAbort, ReconLeave, Invisible
  <2> QED
    BY <1>7, <2>1, <2>2, <2>3, <2>4 DEF Reconcile
<1>8. CASE UNCHANGED vars \/ Crash \/ Restart \/ \E t \in Task : LoseFile(t)
  BY <1>8 DEF vars, Crash, Restart, LoseFile, Invisible
<1> QED
  BY <1>1, <1>2, <1>3, <1>6, <1>7, <1>8 DEF Next

\* The collection side keeps the promise of the ledger, whatever threads,
\* crashes and recoveries do behind it.
THEOREM Implements == Spec => ImplementsLedger
<1>1. Init => Abstract!Init
  BY DEF Init, Abstract!Init, LedgerStatus, Outcome
<1> QED
  BY <1>1, Inductive, StepMaps, PTL DEF Spec, ImplementsLedger, Abstract!Ledger
=============================================================================
