------------------------- MODULE RepairCommandsProofs -------------------------
(***************************************************************************)
(* Proofs about RepairCommands, for any number of requests, keys, scopes,  *)
(* business dates, plans and tasks. A command decides under a lock, but    *)
(* with the time at which it arrived; what it decides on was scheduled and *)
(* finished at other times, in any order.                                  *)
(***************************************************************************)
EXTENDS RepairCommands, SequenceTheorems, FiniteSetTheorems, WellFoundedInduction, TLAPS

Batches == [scheduled : Nat, date : Days, key : Keys \cup {None}]

\* A command: of one task, of the failures of a batch, of all failures.
KindSet == {<<"all">>} \cup ({"task"} \X Nat) \cup ({"batch"} \X Batches)
Records == [kind : KindSet \cup {None}, accepted : BOOLEAN, batches : SUBSET Batches]

\* What is assumed of the constants: None is a value of its own.
Bounded ==
    /\ MaxRequests \in Nat /\ MaxKeys \in Nat /\ MaxTasks \in Nat
    /\ MaxFaults \in Nat /\ Audits \in Nat /\ MaxPlans \in Nat
    /\ IsFiniteSet(Scopes) /\ Slots \subseteq Nat
    /\ None \notin Nat /\ None \notin Records /\ None \notin KindSet

-----------------------------------------------------------------------------
(* The inductive invariant.                                                *)

Statuses == {"PENDING", "SUCCESS", "FAILED"}
Tasks == [scope : Scopes, batch : Batches, status : Statuses, finished : Nat, lost : BOOLEAN]
Phases == {"idle", "inserting", "locking", "selecting", "creating", "done"}
RequestStates ==
    [phase : Phases, key : Nat, kind : KindSet \cup {None}, now : Nat, chosen : SUBSET Nat,
     answer : (SUBSET Batches) \cup {None}]

\* The transaction is open; it has its record; it has the lock.
Open(r) == requests[r].phase \in {"inserting", "locking", "selecting", "creating"}
Holding(r) == requests[r].phase \in {"locking", "selecting", "creating"}
Deciding(r) == requests[r].phase \in {"selecting", "creating"}

Types ==
    /\ clock \in Nat
    /\ tasks \in Seq(Tasks)
    /\ requests \in [Requests -> RequestStates]
    /\ records \in [Keys -> Records \cup {None}]
    /\ lock \in Requests \cup {None}
    /\ faults \in 0 .. MaxFaults
    /\ audits \in Nat
    /\ plans \in Nat
    /\ \A i \in DOMAIN tasks :
         /\ tasks[i].finished <= clock
         /\ tasks[i].lost => tasks[i].status # "PENDING"
    /\ \A r \in Requests : Open(r) => requests[r].key \in Keys /\ requests[r].kind \in KindSet

\* Every task ends at a time of its own.
FinishedApart ==
    \A i, j \in DOMAIN tasks :
        /\ tasks[i].status # "PENDING" /\ tasks[j].status # "PENDING"
        /\ tasks[i].finished = tasks[j].finished
        => i = j

\* A scope has one task in a batch.
TasksApart ==
    \A i, j \in DOMAIN tasks : SameScope(i, j) /\ tasks[i].batch = tasks[j].batch => i = j

\* What a key has made, it made at once, and one task for a scope.
KeysApart ==
    \A i, j \in DOMAIN tasks :
        tasks[i].batch.key # None /\ tasks[i].batch.key = tasks[j].batch.key =>
            Scheduled(i) = Scheduled(j) /\ (SameScope(i, j) => i = j)

TasksFit == FinishedApart /\ TasksApart /\ KeysApart /\ OneRepairUnlessOvertaken

\* Who decides has the lock.
LockHeld == \A r \in Requests : Deciding(r) => lock = r

\* What a command has chosen has failed, is of different scopes, and a repair of it that is
\* under way was scheduled no later.
ChosenFit ==
    \A r \in Requests : requests[r].phase = "creating" =>
        \A i \in requests[r].chosen :
            /\ i \in DOMAIN tasks
            /\ tasks[i].status = "FAILED"
            /\ \A j \in requests[r].chosen : SameScope(i, j) => i = j
            /\ \A j \in DOMAIN tasks : SameScope(i, j) /\ UnderRepair(j) => Scheduled(j) <= Scheduled(i)

Accepted(key) == records[key] # None /\ records[key].accepted

\* A record that is not accepted has one request that will accept or remove it, and nothing
\* is made under its key; one that is accepted names the batches of its key.
KeysHeld ==
    /\ \A r \in Requests : Holding(r) =>
         /\ records[requests[r].key] # None
         /\ ~Accepted(requests[r].key)
         /\ \A q \in Requests : Holding(q) /\ requests[q].key = requests[r].key => q = r
    /\ \A i \in DOMAIN tasks : tasks[i].batch.key # None => Accepted(tasks[i].batch.key)
    /\ \A key \in Keys : Accepted(key) => records[key].batches = BatchesOf(key)

AnswersTold ==
    \A r \in Requests : requests[r].answer \notin {None, Refused} =>
        /\ requests[r].phase = "done"
        /\ requests[r].key \in Keys
        /\ Accepted(requests[r].key)
        /\ requests[r].answer = BatchesOf(requests[r].key)

IInv ==
    /\ Types
    /\ TasksFit
    /\ LockHeld
    /\ ChosenFit
    /\ KeysHeld
    /\ AnswersTold

-----------------------------------------------------------------------------
(* Facts about the state.                                                  *)

LEMMA Typed ==
  ASSUME Types
  PROVE  /\ \A i \in DOMAIN tasks : /\ i \in Nat /\ tasks[i] \in Tasks /\ tasks[i].batch \in Batches
                                    /\ Scheduled(i) \in Nat
         /\ \A r \in Requests : requests[r] \in RequestStates
<1>1. \A i \in DOMAIN tasks : i \in Nat /\ tasks[i] \in Tasks
  BY DEF Types
<1>2. \A r \in Requests : requests[r] \in RequestStates
  BY DEF Types
<1>3. \A i \in DOMAIN tasks : tasks[i].batch \in Batches /\ tasks[i].batch.scheduled \in Nat
  BY <1>1 DEF Tasks, Batches
<1> QED
  BY <1>1, <1>2, <1>3 DEF Scheduled

LEMMA NoneApart ==
  ASSUME Bounded
  PROVE  None \notin Keys /\ None \notin Requests
BY DEF Bounded, Keys, Requests

\* More elements after a sequence.
LEMMA Appended ==
  ASSUME NEW S, NEW a \in Seq(S), NEW f \in Seq(S)
  PROVE  /\ a \o f \in Seq(S)
         /\ DOMAIN (a \o f) = 1 .. Len(a) + Len(f)
         /\ \A i \in 1 .. Len(a) : (a \o f)[i] = a[i]
         /\ \A i \in Len(a) + 1 .. Len(a) + Len(f) :
               i - Len(a) \in 1 .. Len(f) /\ (a \o f)[i] = f[i - Len(a)]
<1> DEFINE g == a \o f
<1>1. /\ g \in Seq(S) /\ Len(g) = Len(a) + Len(f)
      /\ \A i \in 1 .. Len(a) + Len(f) : g[i] = IF i <= Len(a) THEN a[i] ELSE f[i - Len(a)]
  BY ConcatProperties
<1>2. Len(a) \in Nat /\ Len(f) \in Nat
  OBVIOUS
<1> HIDE DEF g
<1>3. DOMAIN g = 1 .. Len(a) + Len(f)
  BY <1>1
<1>4. \A i \in 1 .. Len(a) : g[i] = a[i]
  BY <1>1, <1>2
<1>5. \A i \in Len(a) + 1 .. Len(a) + Len(f) : i - Len(a) \in 1 .. Len(f) /\ g[i] = f[i - Len(a)]
  BY <1>1, <1>2
<1> QED
  BY <1>1, <1>3, <1>4, <1>5 DEF g

\* The tasks after some more were made.
LEMMA Grown ==
  ASSUME Types, NEW size \in Nat, NEW made \in [1 .. size -> Tasks], tasks' = tasks \o made
  PROVE  /\ tasks' \in Seq(Tasks)
         /\ DOMAIN tasks \subseteq DOMAIN tasks'
         /\ \A i \in DOMAIN tasks : tasks'[i] = tasks[i]
         /\ \A i \in DOMAIN tasks' \ DOMAIN tasks :
               i \in Nat /\ i - Len(tasks) \in 1 .. size /\ tasks'[i] = made[i - Len(tasks)]
         /\ \A i \in DOMAIN tasks, j \in DOMAIN tasks' \ DOMAIN tasks : i < j
         /\ \A n \in 1 .. size : Len(tasks) + n \in DOMAIN tasks' \ DOMAIN tasks
                                 /\ tasks'[Len(tasks) + n] = made[n]
<1>1. tasks \in Seq(Tasks) /\ Len(tasks) \in Nat /\ DOMAIN tasks = 1 .. Len(tasks)
  BY DEF Types
<1>2. made \in Seq(Tasks) /\ Len(made) = size
  OBVIOUS
<1>3. /\ tasks' \in Seq(Tasks)
      /\ DOMAIN tasks' = 1 .. Len(tasks) + size
      /\ \A i \in 1 .. Len(tasks) : tasks'[i] = tasks[i]
      /\ \A i \in Len(tasks) + 1 .. Len(tasks) + size :
            i - Len(tasks) \in 1 .. size /\ tasks'[i] = made[i - Len(tasks)]
  BY <1>1, <1>2, Appended
<1>4. DOMAIN tasks' \ DOMAIN tasks = Len(tasks) + 1 .. Len(tasks) + size
  BY <1>1, <1>3
<1>5. ASSUME NEW n \in 1 .. size
      PROVE  Len(tasks) + n \in DOMAIN tasks' \ DOMAIN tasks /\ tasks'[Len(tasks) + n] = made[n]
  <2>1. Len(tasks) + n \in Len(tasks) + 1 .. Len(tasks) + size /\ (Len(tasks) + n) - Len(tasks) = n
    BY <1>1
  <2> QED
    BY <1>3, <1>4, <2>1
<1>6. DOMAIN tasks \subseteq DOMAIN tasks' /\ \A i \in DOMAIN tasks, j \in DOMAIN tasks' \ DOMAIN tasks : i < j
  BY <1>1, <1>3, <1>4
<1> QED
  BY <1>1, <1>3, <1>4, <1>5, <1>6

\* The members of a finite set in some order, in which each comes once.
LEMMA Listing ==
  ASSUME NEW S, IsFiniteSet(S), NEW order, order = Listed(S)
  PROVE  /\ Cardinality(S) \in Nat
         /\ order \in [1 .. Cardinality(S) -> S]
         /\ \A m, n \in 1 .. Cardinality(S) : order[m] = order[n] => m = n
         /\ \A x \in S : \E n \in 1 .. Cardinality(S) : order[n] = x
<1> DEFINE size == Cardinality(S)
<1>1. size \in Nat
  BY FS_CardinalityType
<1>2. IsFiniteSet(1 .. size) /\ Cardinality(1 .. size) = size
  BY <1>1, FS_Interval
<1>3. PICK f \in [1 .. size -> S] : \A x \in S : \E n \in 1 .. size : f[n] = x
  <2>1. ExistsBijection(1 .. size, S)
    BY <1>1, <1>2, FS_SameCardinalityBij
  <2> QED
    BY <2>1 DEF ExistsBijection, Bijection, Surjection
<1>4. \E f2 \in [1 .. size -> S] : \A x \in S : \E n \in DOMAIN f2 : f2[n] = x
  BY <1>3
<1>5. order \in [1 .. size -> S] /\ \A x \in S : \E n \in DOMAIN order : order[n] = x
  BY <1>4 DEF Listed
<1>6. order \in Surjection(1 .. size, S)
  BY <1>5 DEF Surjection
<1>7. order \in Injection(1 .. size, S)
  BY <1>1, <1>2, <1>6, FS_SurjSameCardinalityImpliesInj
<1>8. \A m, n \in 1 .. size : order[m] = order[n] => m = n
  BY <1>7 DEF Injection, IsInjective
<1> QED
  BY <1>1, <1>5, <1>8

-----------------------------------------------------------------------------
(* The initial states, the planner, the executor and the audit.            *)

LEMMA InitInv ==
  ASSUME Bounded, Init
  PROVE  IInv
<1>1. /\ clock = 0 /\ tasks = <<>> /\ records = [k \in Keys |-> None] /\ lock = None
      /\ faults = MaxFaults /\ audits = Audits /\ plans = MaxPlans
      /\ requests = [r \in Requests |-> NoRequest]
  BY DEF Init
<1>2. NoRequest \in RequestStates /\ NoRequest.phase = "idle" /\ NoRequest.answer = None
  BY DEF NoRequest, RequestStates, Phases
<1>3. \A r \in Requests : /\ ~Open(r) /\ ~Holding(r) /\ ~Deciding(r)
                          /\ requests[r].phase # "creating" /\ requests[r].answer = None
  BY <1>1, <1>2 DEF Open, Holding, Deciding
<1>4. tasks \in Seq(Tasks) /\ DOMAIN tasks = {}
  BY <1>1
<1>5. Types
  BY <1>1, <1>2, <1>3, <1>4 DEF Types, Bounded
<1>6. TasksFit /\ LockHeld /\ ChosenFit /\ AnswersTold
  BY <1>3, <1>4 DEF TasksFit, FinishedApart, TasksApart, KeysApart, OneRepairUnlessOvertaken, LockHeld,
                    ChosenFit, AnswersTold
<1>7. KeysHeld
  BY <1>1, <1>3, <1>4 DEF KeysHeld, Accepted
<1> QED
  BY <1>5, <1>6, <1>7 DEF IInv

\* What was there stays where it was.
LEMMA OldTasks ==
  ASSUME Types, DOMAIN tasks \subseteq DOMAIN tasks', \A i \in DOMAIN tasks : tasks'[i] = tasks[i]
  PROVE  /\ \A i \in DOMAIN tasks : Scheduled(i)' = Scheduled(i) /\ (UnderRepair(i)' <=> UnderRepair(i))
         /\ \A i, j \in DOMAIN tasks : SameScope(i, j)' <=> SameScope(i, j)
BY DEF Scheduled, UnderRepair, SameScope

\* A key has the batches that it had if what is made is made under no key, or under another one.
LEMMA BatchesKept ==
  ASSUME NEW key, DOMAIN tasks \subseteq DOMAIN tasks',
         \A i \in DOMAIN tasks : tasks'[i].batch = tasks[i].batch,
         \A i \in DOMAIN tasks' \ DOMAIN tasks : tasks'[i].batch.key # key
  PROVE  BatchesOf(key)' = BatchesOf(key)
<1>1. {j \in DOMAIN tasks' : tasks'[j].batch.key = key} = {j \in DOMAIN tasks : tasks[j].batch.key = key}
  OBVIOUS
<1>2. {tasks'[i].batch : i \in {j \in DOMAIN tasks : tasks[j].batch.key = key}}
        = {tasks[i].batch : i \in {j \in DOMAIN tasks : tasks[j].batch.key = key}}
  OBVIOUS
<1> QED
  BY <1>1, <1>2 DEF BatchesOf

\* Who holds what, while tasks are made that no command made.
LEMMA PlanInv ==
  ASSUME Bounded, IInv, NEW scopes \in SUBSET Scopes, NEW day \in Days, NEW time \in Slots,
         Plan(scopes, day, time)
  PROVE  IInv'
<1> DEFINE batch == Planned(time, day)
           size == Cardinality(scopes)
           order == Listed(scopes)
           made == [n \in 1 .. size |-> Task(order[n], batch)]
           fresh == DOMAIN tasks' \ DOMAIN tasks
<1>1. /\ Types /\ FinishedApart /\ TasksApart /\ KeysApart /\ OneRepairUnlessOvertaken
      /\ LockHeld /\ ChosenFit /\ KeysHeld /\ AnswersTold
  BY DEF IInv, TasksFit
<1>2. /\ plans > 0 /\ plans' = plans - 1 /\ clock' = clock + 1
      /\ tasks' = tasks \o made
      /\ \A i \in DOMAIN tasks : tasks[i].batch = batch => tasks[i].scope \notin scopes
      /\ UNCHANGED <<requests, records, lock, faults, audits>>
  BY DEF Plan
<1>3. /\ size \in Nat /\ order \in [1 .. size -> scopes]
      /\ \A m, n \in 1 .. size : order[m] = order[n] => m = n
  <2>1. IsFiniteSet(scopes)
    BY FS_Subset DEF Bounded
  <2> QED
    BY <2>1, Listing
<1>4. batch \in Batches /\ batch.key = None
  BY DEF Planned, Batches, Bounded
<1> HIDE DEF batch, order, size
<1>5. made \in [1 .. size -> Tasks]
      /\ \A n \in 1 .. size : /\ made[n].scope = order[n] /\ made[n].batch = batch
                              /\ made[n].status = "PENDING" /\ made[n].finished = 0 /\ ~made[n].lost
  <2>1. \A n \in 1 .. size : Task(order[n], batch) \in Tasks
    BY <1>3, <1>4 DEF Task, Tasks, Statuses
  <2> QED
    BY <2>1 DEF Task
<1> HIDE DEF made
<1>6. /\ tasks' \in Seq(Tasks)
      /\ DOMAIN tasks \subseteq DOMAIN tasks'
      /\ \A i \in DOMAIN tasks : tasks'[i] = tasks[i]
      /\ \A i \in fresh : i \in Nat /\ i - Len(tasks) \in 1 .. size /\ tasks'[i] = made[i - Len(tasks)]
  BY <1>1, <1>2, <1>3, <1>5, Grown
<1>7. \A i \in fresh : /\ tasks'[i].scope \in scopes /\ tasks'[i].batch = batch
                       /\ tasks'[i].status = "PENDING" /\ tasks'[i].finished = 0 /\ ~tasks'[i].lost
                       /\ ~UnderRepair(i)'
  BY <1>3, <1>4, <1>5, <1>6 DEF UnderRepair
<1>8. ASSUME NEW i \in fresh, NEW j \in fresh, tasks'[i].scope = tasks'[j].scope
      PROVE  i = j
  <2>1. order[i - Len(tasks)] = order[j - Len(tasks)]
    BY <1>5, <1>6, <1>8
  <2>2. i - Len(tasks) = j - Len(tasks)
    BY <1>3, <1>6, <2>1
  <2>3. i \in Nat /\ j \in Nat /\ Len(tasks) \in Nat
    BY <1>1, <1>6 DEF Types
  <2> QED
    BY <2>2, <2>3
<1>9. /\ \A i \in DOMAIN tasks : Scheduled(i)' = Scheduled(i) /\ (UnderRepair(i)' <=> UnderRepair(i))
      /\ \A i, j \in DOMAIN tasks : SameScope(i, j)' <=> SameScope(i, j)
  BY <1>1, <1>6, OldTasks
<1> HIDE DEF fresh
<1>10. DOMAIN tasks' = DOMAIN tasks \cup fresh /\ \A i \in fresh : i \notin DOMAIN tasks
  BY <1>6 DEF fresh
<1>11. Types'
  <2>1. clock \in Nat /\ clock' \in Nat /\ clock' >= clock /\ plans' \in Nat
    BY <1>1, <1>2 DEF Types
  <2>2. \A i \in DOMAIN tasks : tasks[i].finished \in Nat /\ tasks[i].finished <= clock
    BY <1>1, Typed DEF Types, Tasks
  <2>3. \A i \in DOMAIN tasks' : /\ tasks'[i].finished <= clock'
                                 /\ tasks'[i].lost => tasks'[i].status # "PENDING"
    BY <1>1, <1>6, <1>7, <1>10, <2>1, <2>2 DEF Types
  <2> QED
    BY <1>1, <1>2, <1>6, <2>1, <2>3 DEF Types, Open
<1>12. FinishedApart'
  BY <1>1, <1>6, <1>7, <1>10 DEF FinishedApart
<1>13. TasksApart'
  <2> SUFFICES ASSUME NEW i \in DOMAIN tasks', NEW j \in DOMAIN tasks', SameScope(i, j)',
                      tasks'[i].batch = tasks'[j].batch
               PROVE  i = j
    BY DEF TasksApart
  <2>1. CASE i \in DOMAIN tasks /\ j \in DOMAIN tasks
    BY <1>1, <1>6, <1>9, <2>1 DEF TasksApart
  <2>2. CASE i \in fresh /\ j \in fresh
    BY <1>8, <2>2 DEF SameScope
  <2>3. CASE i \in DOMAIN tasks /\ j \in fresh
    BY <1>2, <1>6, <1>7, <2>3 DEF SameScope
  <2>4. CASE i \in fresh /\ j \in DOMAIN tasks
    BY <1>2, <1>6, <1>7, <2>4 DEF SameScope
  <2> QED
    BY <1>10, <2>1, <2>2, <2>3, <2>4
<1>14. KeysApart'
  BY <1>1, <1>4, <1>6, <1>7, <1>9, <1>10 DEF KeysApart
<1>15. OneRepairUnlessOvertaken'
  <2> SUFFICES ASSUME NEW i \in DOMAIN tasks', NEW j \in DOMAIN tasks', i < j, SameScope(i, j)',
                      UnderRepair(i)', UnderRepair(j)'
               PROVE  \E k \in DOMAIN tasks' :
                        SameScope(k, i)' /\ tasks'[k].status = "FAILED" /\ Scheduled(k)' >= Scheduled(i)'
    BY DEF OneRepairUnlessOvertaken
  <2>1. i \in DOMAIN tasks /\ j \in DOMAIN tasks
    BY <1>7, <1>10
  <2>2. PICK k \in DOMAIN tasks : SameScope(k, i) /\ tasks[k].status = "FAILED" /\ Scheduled(k) >= Scheduled(i)
    BY <1>1, <1>9, <2>1 DEF OneRepairUnlessOvertaken
  <2> QED
    BY <1>6, <1>9, <2>1, <2>2
<1>16. LockHeld'
  BY <1>1, <1>2 DEF LockHeld, Deciding
<1>17. ChosenFit'
  <2> SUFFICES ASSUME NEW r \in Requests, requests'[r].phase = "creating", NEW i \in requests'[r].chosen
               PROVE  /\ i \in DOMAIN tasks'
                      /\ tasks'[i].status = "FAILED"
                      /\ \A j \in requests'[r].chosen : SameScope(i, j)' => i = j
                      /\ \A j \in DOMAIN tasks' :
                           SameScope(i, j)' /\ UnderRepair(j)' => Scheduled(j)' <= Scheduled(i)'
    BY DEF ChosenFit
  <2>1. /\ i \in DOMAIN tasks /\ tasks[i].status = "FAILED"
        /\ \A j \in requests[r].chosen : j \in DOMAIN tasks /\ (SameScope(i, j) => i = j)
        /\ \A j \in DOMAIN tasks : SameScope(i, j) /\ UnderRepair(j) => Scheduled(j) <= Scheduled(i)
    BY <1>1, <1>2 DEF ChosenFit
  <2>2. \A j \in DOMAIN tasks' : UnderRepair(j)' => j \in DOMAIN tasks
    BY <1>7, <1>10
  <2> QED
    BY <1>2, <1>6, <1>9, <2>1, <2>2
<1>18. \A key \in Keys : BatchesOf(key)' = BatchesOf(key)
  <2>1. ASSUME NEW key \in Keys PROVE BatchesOf(key)' = BatchesOf(key)
    <3>1. \A i \in DOMAIN tasks : tasks'[i].batch = tasks[i].batch
      BY <1>6
    <3>2. \A i \in DOMAIN tasks' \ DOMAIN tasks : tasks'[i].batch.key # key
      BY <1>4, <1>7, <1>10, NoneApart
    <3> QED
      BY <1>6, <3>1, <3>2, BatchesKept
  <2> QED
    BY <2>1
<1>19. KeysHeld'
  <2>1. \A i \in DOMAIN tasks' : tasks'[i].batch.key # None => Accepted(tasks'[i].batch.key)
    BY <1>1, <1>4, <1>6, <1>7, <1>10 DEF KeysHeld
  <2>2. \A key \in Keys : Accepted(key) => records[key].batches = BatchesOf(key)'
    BY <1>1, <1>18 DEF KeysHeld
  <2> QED
    BY <1>1, <1>2, <2>1, <2>2 DEF KeysHeld, Holding, Accepted
<1>20. AnswersTold'
  BY <1>1, <1>2, <1>18 DEF AnswersTold, Accepted
<1> QED
  BY <1>11, <1>12, <1>13, <1>14, <1>15, <1>16, <1>17, <1>19, <1>20 DEF IInv, TasksFit

\* A task ends, loses its file or is audited; its scope and its batch stay.
LEMMA TaskChanges ==
  ASSUME Bounded, IInv, NEW i \in DOMAIN tasks, NEW t \in Tasks,
         tasks' = [tasks EXCEPT ![i] = t],
         t.scope = tasks[i].scope, t.batch = tasks[i].batch, t.status # "PENDING",
         tasks[i].status = "FAILED" => t.status = "FAILED",
         t.finished > clock \/ (t.finished = tasks[i].finished /\ tasks[i].status # "PENDING"),
         clock' \in Nat, clock' >= clock, t.finished <= clock',
         faults' \in 0 .. MaxFaults, audits' \in Nat,
         UNCHANGED <<requests, records, lock, plans>>
  PROVE  IInv'
<1>1. Types
  BY DEF IInv
<1>2. /\ tasks' \in Seq(Tasks) /\ DOMAIN tasks' = DOMAIN tasks
      /\ \A j \in DOMAIN tasks : tasks'[j] = IF j = i THEN t ELSE tasks[j]
  BY <1>1 DEF Types
<1>3. \A j \in DOMAIN tasks : /\ tasks'[j].scope = tasks[j].scope /\ tasks'[j].batch = tasks[j].batch
                              /\ Scheduled(j)' = Scheduled(j)
                              /\ UnderRepair(j)' => UnderRepair(j)
                              /\ tasks[j].status = "FAILED" => tasks'[j].status = "FAILED"
  BY <1>1, <1>2 DEF Scheduled, UnderRepair
<1>4. \A j, k \in DOMAIN tasks : SameScope(j, k)' <=> SameScope(j, k)
  BY <1>3 DEF SameScope
<1>5. /\ clock \in Nat
      /\ \A j \in DOMAIN tasks : tasks[j].finished <= clock /\ tasks[j].finished \in Nat
  BY <1>1, Typed DEF Types, Tasks
<1>6. Types'
  <2>1. \A j \in DOMAIN tasks : tasks'[j].finished <= clock'
    BY <1>2, <1>5
  <2> QED
    BY <1>1, <1>2, <2>1 DEF Types, Open
<1>7. FinishedApart'
  <2> SUFFICES ASSUME NEW j \in DOMAIN tasks, NEW k \in DOMAIN tasks,
                      tasks'[j].status # "PENDING", tasks'[k].status # "PENDING",
                      tasks'[j].finished = tasks'[k].finished, j # k
               PROVE  FALSE
    BY <1>2 DEF FinishedApart
  <2>1. ASSUME NEW l \in DOMAIN tasks, l # i, tasks[l].status # "PENDING", t.finished = tasks[l].finished
        PROVE  FALSE
    <3>1. CASE t.finished > clock
      <4>1. tasks[l].finished > clock
        BY <2>1, <3>1
      <4> QED
        BY <1>5, <4>1
    <3>2. CASE t.finished = tasks[i].finished /\ tasks[i].status # "PENDING"
      BY <2>1, <3>2 DEF IInv, TasksFit, FinishedApart
    <3> QED
      BY <3>1, <3>2
  <2>2. CASE j = i
    BY <1>2, <2>1, <2>2
  <2>3. CASE k = i
    BY <1>2, <2>1, <2>3
  <2>4. CASE j # i /\ k # i
    BY <1>2, <2>4 DEF IInv, TasksFit, FinishedApart
  <2> QED
    BY <2>2, <2>3, <2>4
<1>8. TasksApart' /\ KeysApart'
  <2>1. TasksApart'
    BY <1>2, <1>3, <1>4 DEF IInv, TasksFit, TasksApart
  <2>2. KeysApart'
    BY <1>2, <1>3, <1>4 DEF IInv, TasksFit, KeysApart
  <2> QED
    BY <2>1, <2>2
<1>9. OneRepairUnlessOvertaken'
  <2> SUFFICES ASSUME NEW j \in DOMAIN tasks, NEW k \in DOMAIN tasks, j < k, SameScope(j, k)',
                      UnderRepair(j)', UnderRepair(k)'
               PROVE  \E l \in DOMAIN tasks' :
                        SameScope(l, j)' /\ tasks'[l].status = "FAILED" /\ Scheduled(l)' >= Scheduled(j)'
    BY <1>2 DEF OneRepairUnlessOvertaken
  <2>1. SameScope(j, k) /\ UnderRepair(j) /\ UnderRepair(k)
    BY <1>3, <1>4
  <2>2. PICK l \in DOMAIN tasks : SameScope(l, j) /\ tasks[l].status = "FAILED" /\ Scheduled(l) >= Scheduled(j)
    BY <2>1 DEF IInv, TasksFit, OneRepairUnlessOvertaken
  <2> QED
    BY <1>2, <1>3, <1>4, <2>2
<1>10. \A key : BatchesOf(key)' = BatchesOf(key)
  <2>1. DOMAIN tasks \subseteq DOMAIN tasks' /\ DOMAIN tasks' \ DOMAIN tasks = {}
    BY <1>2
  <2>2. \A j \in DOMAIN tasks : tasks'[j].batch = tasks[j].batch
    BY <1>3
  <2> QED
    BY <2>1, <2>2, BatchesKept
<1>11. LockHeld' /\ AnswersTold'
  <2>1. LockHeld'
    BY DEF IInv, LockHeld, Deciding
  <2>2. AnswersTold'
    BY <1>10 DEF IInv, AnswersTold, Accepted
  <2> QED
    BY <2>1, <2>2
<1>12. KeysHeld'
  <2>1. KeysHeld
    BY DEF IInv
  <2> QED
    BY <1>2, <1>3, <1>10, <2>1 DEF KeysHeld, Holding, Accepted
<1>13. ChosenFit'
  BY <1>2, <1>3, <1>4 DEF IInv, ChosenFit
<1> QED
  BY <1>6, <1>7, <1>8, <1>9, <1>11, <1>12, <1>13 DEF IInv, TasksFit


LEMMA ExecutorInv ==
  ASSUME Bounded, IInv, NEW i \in DOMAIN tasks,
         Finish(i, "SUCCESS") \/ Finish(i, "FAILED") \/ LoseFile(i) \/ Audit(i)
  PROVE  IInv'
<1>1. Types
  BY DEF IInv
<1>2. /\ tasks[i] \in Tasks /\ clock \in Nat /\ tasks[i].finished \in Nat /\ tasks[i].finished <= clock
      /\ clock + 1 \in Nat /\ clock + 1 >= clock /\ clock + 1 > clock
      /\ faults \in 0 .. MaxFaults /\ audits \in Nat
  BY <1>1, Typed DEF Types, Tasks
<1>3. ASSUME NEW status \in {"SUCCESS", "FAILED"}, Finish(i, status)
      PROVE  IInv'
  <2> DEFINE t == [tasks[i] EXCEPT !.status = status, !.finished = clock + 1]
  <2>1. /\ t \in Tasks /\ t.scope = tasks[i].scope /\ t.batch = tasks[i].batch
        /\ t.status = status /\ t.finished = clock + 1
    BY <1>2 DEF Tasks, Statuses
  <2>2. tasks' = [tasks EXCEPT ![i] = t]
    BY <1>3 DEF Finish
  <2>3. tasks[i].status = "PENDING" /\ clock' = clock + 1
        /\ UNCHANGED <<requests, records, lock, faults, audits, plans>>
    BY <1>3 DEF Finish
  <2> HIDE DEF t
  <2>4. /\ t.status # "PENDING"
        /\ tasks[i].status = "FAILED" => t.status = "FAILED"
        /\ t.finished > clock \/ (t.finished = tasks[i].finished /\ tasks[i].status # "PENDING")
        /\ clock' \in Nat /\ clock' >= clock /\ t.finished <= clock'
        /\ faults' \in 0 .. MaxFaults /\ audits' \in Nat
        /\ UNCHANGED <<requests, records, lock, plans>>
    BY <1>2, <2>1, <2>3
  <2> QED
    BY <2>1, <2>2, <2>4, TaskChanges
<1>4. ASSUME LoseFile(i)
      PROVE  IInv'
  <2> DEFINE t == [tasks[i] EXCEPT !.lost = TRUE]
  <2>1. /\ t \in Tasks /\ t.scope = tasks[i].scope /\ t.batch = tasks[i].batch
        /\ t.status = tasks[i].status /\ t.finished = tasks[i].finished
    BY <1>2 DEF Tasks
  <2>2. tasks' = [tasks EXCEPT ![i] = t]
    BY <1>4 DEF LoseFile
  <2>3. /\ tasks[i].status = "SUCCESS" /\ UNCHANGED <<clock, requests, records, lock, audits, plans>>
        /\ faults' \in 0 .. MaxFaults
    BY <1>2, <1>4 DEF LoseFile, Bounded
  <2> HIDE DEF t
  <2>4. /\ t.status # "PENDING"
        /\ tasks[i].status = "FAILED" => t.status = "FAILED"
        /\ t.finished > clock \/ (t.finished = tasks[i].finished /\ tasks[i].status # "PENDING")
        /\ clock' \in Nat /\ clock' >= clock /\ t.finished <= clock'
        /\ faults' \in 0 .. MaxFaults /\ audits' \in Nat
        /\ UNCHANGED <<requests, records, lock, plans>>
    BY <1>2, <2>1, <2>3
  <2> QED
    BY <2>1, <2>2, <2>4, TaskChanges
<1>5. ASSUME Audit(i)
      PROVE  IInv'
  <2> DEFINE t == [tasks[i] EXCEPT !.status = "FAILED", !.finished = clock + 1]
  <2>1. /\ t \in Tasks /\ t.scope = tasks[i].scope /\ t.batch = tasks[i].batch
        /\ t.status = "FAILED" /\ t.finished = clock + 1
    BY <1>2 DEF Tasks, Statuses
  <2>2. tasks' = [tasks EXCEPT ![i] = t]
    BY <1>5 DEF Audit
  <2>3. /\ clock' = clock + 1 /\ UNCHANGED <<requests, records, lock, faults, plans>>
        /\ audits' \in Nat
    BY <1>2, <1>5 DEF Audit
  <2> HIDE DEF t
  <2>4. /\ t.status # "PENDING"
        /\ tasks[i].status = "FAILED" => t.status = "FAILED"
        /\ t.finished > clock \/ (t.finished = tasks[i].finished /\ tasks[i].status # "PENDING")
        /\ clock' \in Nat /\ clock' >= clock /\ t.finished <= clock'
        /\ faults' \in 0 .. MaxFaults /\ audits' \in Nat
        /\ UNCHANGED <<requests, records, lock, plans>>
    BY <1>2, <2>1, <2>3
  <2> QED
    BY <2>1, <2>2, <2>4, TaskChanges
<1> QED
  BY <1>3, <1>4, <1>5

-----------------------------------------------------------------------------
(* The commands.                                                           *)

\* One request moves on, the tasks stay.
LEMMA Moved ==
  ASSUME IInv, NEW r \in Requests, NEW new \in RequestStates,
         requests' = [requests EXCEPT ![r] = new],
         clock' \in Nat, clock' >= clock, UNCHANGED <<tasks, plans>>,
         new.phase \in {"inserting", "locking", "selecting", "creating"} =>
            new.key \in Keys /\ new.kind \in KindSet,
         records' \in [Keys -> Records \cup {None}], lock' \in Requests \cup {None},
         faults' \in 0 .. MaxFaults, audits' \in Nat
  PROVE  /\ Types' /\ TasksFit'
         /\ requests'[r] = new
         /\ \A q \in Requests \ {r} : requests'[q] = requests[q]
         /\ \A q \in Requests \ {r} : /\ Open(q)' <=> Open(q)
                                      /\ Holding(q)' <=> Holding(q)
                                      /\ Deciding(q)' <=> Deciding(q)
         /\ \A i, j \in DOMAIN tasks : SameScope(i, j)' <=> SameScope(i, j)
         /\ \A i \in DOMAIN tasks : Scheduled(i)' = Scheduled(i) /\ (UnderRepair(i)' <=> UnderRepair(i))
         /\ \A key : BatchesOf(key)' = BatchesOf(key)
<1>1. Types
  BY DEF IInv
<1>2. /\ requests' \in [Requests -> RequestStates] /\ requests'[r] = new
      /\ \A q \in Requests \ {r} : requests'[q] = requests[q]
  BY <1>1 DEF Types
<1>3. \A q \in Requests \ {r} : /\ Open(q)' <=> Open(q)
                                /\ Holding(q)' <=> Holding(q)
                                /\ Deciding(q)' <=> Deciding(q)
  BY <1>2 DEF Open, Holding, Deciding
<1>4. Open(r)' => new.key \in Keys /\ new.kind \in KindSet
  BY <1>2 DEF Open
<1>5. Types'
  <2>1. \A i \in DOMAIN tasks : tasks[i].finished \in Nat /\ tasks[i].finished <= clock
    BY <1>1, Typed DEF Types, Tasks
  <2>2. clock \in Nat
    BY <1>1 DEF Types
  <2>3. \A i \in DOMAIN tasks : tasks[i].finished <= clock'
    BY <2>1, <2>2
  <2> QED
    BY <1>1, <1>2, <1>3, <1>4, <2>3 DEF Types
<1>6. /\ \A i, j \in DOMAIN tasks : SameScope(i, j)' <=> SameScope(i, j)
      /\ \A i \in DOMAIN tasks : Scheduled(i)' = Scheduled(i) /\ (UnderRepair(i)' <=> UnderRepair(i))
      /\ \A key : BatchesOf(key)' = BatchesOf(key)
  BY DEF SameScope, Scheduled, UnderRepair, BatchesOf
<1>7. TasksFit'
  <2>1. FinishedApart' /\ TasksApart' /\ KeysApart'
    BY DEF IInv, TasksFit, FinishedApart, TasksApart, KeysApart, SameScope, Scheduled
  <2>2. OneRepairUnlessOvertaken'
    BY DEF IInv, TasksFit, OneRepairUnlessOvertaken, SameScope, Scheduled, UnderRepair
  <2> QED
    BY <2>1, <2>2 DEF TasksFit
<1> QED
  BY <1>2, <1>3, <1>5, <1>6, <1>7

LEMMA BeginInv ==
  ASSUME Bounded, IInv, NEW r \in Requests, Begin(r)
  PROVE  IInv'
<1>1. Types
  BY DEF IInv
<1>2. PICK key \in Keys, kind \in Kinds :
        requests' = [requests EXCEPT ![r] = [NoRequest EXCEPT !.phase = "inserting", !.key = key,
                                                              !.kind = kind, !.now = clock + 1]]
  BY DEF Begin
<1>3. /\ clock \in Nat /\ clock' = clock + 1 /\ clock' \in Nat /\ clock' >= clock
      /\ requests[r].phase = "idle"
      /\ UNCHANGED <<tasks, records, lock, faults, audits, plans>>
  BY <1>1 DEF Begin, Types
<1>4. kind \in KindSet
  <2>1. \A i \in Failed : i \in Nat /\ tasks[i].batch \in Batches
    BY <1>1, Typed DEF Failed
  <2> QED
    BY <1>2, <2>1 DEF Kinds, KindSet
<1> DEFINE new == [NoRequest EXCEPT !.phase = "inserting", !.key = key, !.kind = kind, !.now = clock + 1]
<1>5. /\ new \in RequestStates /\ new.phase = "inserting" /\ new.key = key /\ new.kind = kind
      /\ new.answer = None
  <2>1. NoRequest \in RequestStates /\ NoRequest.answer = None
    BY DEF NoRequest, RequestStates, Phases
  <2>2. key \in Nat /\ clock + 1 \in Nat
    BY <1>2, <1>3 DEF Keys
  <2> QED
    BY <1>4, <2>1, <2>2 DEF RequestStates, Phases
<1>6. requests' = [requests EXCEPT ![r] = new]
  BY <1>2
<1> HIDE DEF new
<1>7. records' \in [Keys -> Records \cup {None}] /\ lock' \in Requests \cup {None}
      /\ faults' \in 0 .. MaxFaults /\ audits' \in Nat
  BY <1>1, <1>3 DEF Types
<1>8. /\ Types' /\ TasksFit'
      /\ requests'[r] = new
      /\ \A q \in Requests \ {r} : requests'[q] = requests[q]
      /\ \A q \in Requests \ {r} : /\ Open(q)' <=> Open(q)
                                   /\ Holding(q)' <=> Holding(q)
                                   /\ Deciding(q)' <=> Deciding(q)
      /\ \A i, j \in DOMAIN tasks : SameScope(i, j)' <=> SameScope(i, j)
      /\ \A i \in DOMAIN tasks : Scheduled(i)' = Scheduled(i) /\ (UnderRepair(i)' <=> UnderRepair(i))
      /\ \A k : BatchesOf(k)' = BatchesOf(k)
  BY <1>3, <1>4, <1>5, <1>6, <1>7, Moved
<1>9. ~Holding(r)' /\ ~Deciding(r)'
  BY <1>5, <1>8 DEF Holding, Deciding
<1>10. LockHeld'
  BY <1>3, <1>8, <1>9 DEF IInv, LockHeld
<1>11. KeysHeld'
  BY <1>3, <1>8, <1>9 DEF IInv, KeysHeld, Accepted
<1>12. ChosenFit'
  BY <1>3, <1>5, <1>8 DEF IInv, ChosenFit
<1>13. AnswersTold'
  BY <1>3, <1>5, <1>8 DEF IInv, AnswersTold, Accepted
<1> QED
  BY <1>8, <1>10, <1>11, <1>12, <1>13 DEF IInv

LEMMA InsertInv ==
  ASSUME Bounded, IInv, NEW r \in Requests, Insert(r)
  PROVE  IInv'
<1> DEFINE record == records[requests[r].key]
<1>1. Types /\ KeysHeld /\ AnswersTold
  BY DEF IInv
<1>2. /\ requests[r].phase = "inserting" /\ Open(r) /\ requests[r].key \in Keys
      /\ requests[r].kind \in KindSet /\ requests[r] \in RequestStates
      /\ UNCHANGED <<clock, tasks, lock, faults, audits, plans>>
      /\ clock' \in Nat /\ clock' >= clock
      /\ lock' \in Requests \cup {None} /\ faults' \in 0 .. MaxFaults /\ audits' \in Nat
  BY <1>1, Typed DEF Insert, Open, Types
<1>3. CASE record = None
  <2> DEFINE new == [requests[r] EXCEPT !.phase = "locking"]
             entry == [kind |-> requests[r].kind, accepted |-> FALSE, batches |-> Refused]
  <2>1. /\ new \in RequestStates /\ new.phase = "locking"
        /\ new.key = requests[r].key /\ new.kind = requests[r].kind /\ new.answer = requests[r].answer
    BY <1>2 DEF RequestStates, Phases
  <2>2. entry \in Records /\ entry # None /\ ~entry.accepted
    <3>1. entry \in Records /\ entry.accepted = FALSE
      BY <1>2 DEF Records, Refused
    <3>2. None \notin Records
      BY DEF Bounded
    <3> QED
      BY <3>1, <3>2
  <2>3. requests' = [requests EXCEPT ![r] = new]
        /\ records' = [records EXCEPT ![requests[r].key] = entry]
    BY <1>3 DEF Insert
  <2> HIDE DEF new, entry
  <2>4. /\ records' \in [Keys -> Records \cup {None}]
        /\ records'[requests[r].key] = entry
        /\ \A k \in Keys : k # requests[r].key => records'[k] = records[k]
    BY <1>1, <1>2, <2>2, <2>3 DEF Types
  <2>5. /\ Types' /\ TasksFit'
        /\ requests'[r] = new
        /\ \A q \in Requests \ {r} : requests'[q] = requests[q]
        /\ \A q \in Requests \ {r} : /\ Open(q)' <=> Open(q)
                                     /\ Holding(q)' <=> Holding(q)
                                     /\ Deciding(q)' <=> Deciding(q)
        /\ \A i, j \in DOMAIN tasks : SameScope(i, j)' <=> SameScope(i, j)
        /\ \A i \in DOMAIN tasks : Scheduled(i)' = Scheduled(i) /\ (UnderRepair(i)' <=> UnderRepair(i))
        /\ \A k : BatchesOf(k)' = BatchesOf(k)
    BY <1>2, <2>1, <2>3, <2>4, Moved
  <2>6. \A k \in Keys : (Accepted(k)' => Accepted(k) /\ records'[k] = records[k])
                        /\ (Accepted(k) => Accepted(k)' /\ k # requests[r].key)
    BY <1>3, <2>2, <2>4 DEF Accepted
  <2>7. LockHeld' /\ ChosenFit'
    BY <1>2, <2>1, <2>5 DEF IInv, LockHeld, ChosenFit, Deciding
  <2>8. AnswersTold'
    <3> SUFFICES ASSUME NEW q \in Requests, requests'[q].answer \notin {None, Refused}
                 PROVE  /\ requests'[q].phase = "done"
                        /\ requests'[q].key \in Keys
                        /\ Accepted(requests[q].key)'
                        /\ requests'[q].answer = BatchesOf(requests[q].key)'
      BY DEF AnswersTold, Refused
    <3>1. q # r
      BY <1>1, <1>2, <2>1, <2>5 DEF AnswersTold
    <3>2. /\ requests[q].phase = "done" /\ requests[q].key \in Keys /\ Accepted(requests[q].key)
          /\ requests[q].answer = BatchesOf(requests[q].key)
      BY <1>1, <2>5, <3>1 DEF AnswersTold
    <3>3. records'[requests[q].key] = records[requests[q].key]
      BY <2>4, <2>6, <3>2
    <3> QED
      BY <2>5, <3>1, <3>2, <3>3 DEF Accepted
  <2>9. KeysHeld'
    <3>1. \A q \in Requests : Holding(q) => requests[q].key # requests[r].key /\ requests[q].key \in Keys
      BY <1>1, <1>3 DEF KeysHeld, Types, Holding, Open
    <3>2. ASSUME NEW q \in Requests, Holding(q)'
          PROVE  /\ records'[requests'[q].key] # None /\ ~Accepted(requests[q].key)'
                 /\ \A v \in Requests : Holding(v)' /\ requests'[v].key = requests'[q].key => v = q
      <4>1. CASE q = r
        BY <2>1, <2>2, <2>4, <2>5, <3>1, <4>1 DEF Accepted
      <4>2. CASE q # r
        BY <1>1, <2>1, <2>4, <2>5, <3>1, <3>2, <4>2 DEF KeysHeld, Accepted
      <4> QED
        BY <4>1, <4>2
    <3>3. ASSUME NEW i \in DOMAIN tasks', tasks'[i].batch.key # None
          PROVE  Accepted(tasks[i].batch.key)'
      <4>1. i \in DOMAIN tasks /\ tasks'[i] = tasks[i] /\ tasks[i].batch.key \in Keys
            /\ Accepted(tasks[i].batch.key)
        BY <1>1, <1>2, <3>3, Typed DEF KeysHeld, Batches
      <4>2. records'[tasks[i].batch.key] = records[tasks[i].batch.key]
        BY <2>4, <2>6, <4>1
      <4> QED
        BY <4>1, <4>2 DEF Accepted
    <3>4. \A k \in Keys : Accepted(k)' => records'[k].batches = BatchesOf(k)'
      BY <1>1, <2>5, <2>6 DEF KeysHeld
    <3> QED
      BY <3>2, <3>3, <3>4 DEF KeysHeld
  <2> QED
    BY <2>5, <2>7, <2>8, <2>9 DEF IInv
<1>4. CASE record # None /\ record.accepted
  <2> DEFINE answer == IF record.kind = requests[r].kind THEN record.batches ELSE Refused
             new == [NoRequest EXCEPT !.phase = "done", !.key = requests[r].key, !.answer = answer]
  <2>1. record \in Records /\ record.batches \in SUBSET Batches
    BY <1>1, <1>2, <1>4 DEF Types, Records
  <2>2. answer \in (SUBSET Batches) \cup {None}
    BY <2>1 DEF Refused
  <2>3. /\ new \in RequestStates /\ new.phase = "done" /\ new.key = requests[r].key /\ new.answer = answer
    BY <1>2, <2>2 DEF NoRequest, RequestStates, Phases
  <2>4. requests' = [requests EXCEPT ![r] = new] /\ records' = records
    BY <1>4 DEF Insert, Answer
  <2>5. /\ Accepted(requests[r].key)
        /\ answer \notin {None, Refused} => answer = BatchesOf(requests[r].key)
    BY <1>1, <1>2, <1>4 DEF KeysHeld, Accepted
  <2> HIDE DEF new, answer
  <2>6. records' \in [Keys -> Records \cup {None}]
    BY <1>1, <2>4 DEF Types
  <2>7. /\ Types' /\ TasksFit'
        /\ requests'[r] = new
        /\ \A q \in Requests \ {r} : requests'[q] = requests[q]
        /\ \A q \in Requests \ {r} : /\ Open(q)' <=> Open(q)
                                     /\ Holding(q)' <=> Holding(q)
                                     /\ Deciding(q)' <=> Deciding(q)
        /\ \A i, j \in DOMAIN tasks : SameScope(i, j)' <=> SameScope(i, j)
        /\ \A i \in DOMAIN tasks : Scheduled(i)' = Scheduled(i) /\ (UnderRepair(i)' <=> UnderRepair(i))
        /\ \A k : BatchesOf(k)' = BatchesOf(k)
    BY <1>2, <2>3, <2>4, <2>6, Moved
  <2>8. ~Deciding(r)' /\ ~Holding(r)'
    BY <2>3, <2>7 DEF Deciding, Holding
  <2>9. LockHeld' /\ ChosenFit'
    BY <1>2, <2>3, <2>4, <2>7, <2>8 DEF IInv, LockHeld, ChosenFit
  <2>10. KeysHeld'
    BY <1>2, <2>4, <2>7, <2>8 DEF IInv, KeysHeld, Accepted
  <2>11. AnswersTold'
    BY <1>2, <2>3, <2>4, <2>5, <2>7 DEF IInv, AnswersTold, Accepted
  <2> QED
    BY <2>7, <2>9, <2>10, <2>11 DEF IInv
<1> QED
  BY <1>3, <1>4 DEF Insert

LEMMA LockInv ==
  ASSUME Bounded, IInv, NEW r \in Requests, Lock(r)
  PROVE  IInv'
<1>1. Types /\ KeysHeld
  BY DEF IInv
<1>2. /\ requests[r].phase = "locking" /\ Open(r) /\ Holding(r) /\ requests[r] \in RequestStates
      /\ requests[r].key \in Keys /\ requests[r].kind \in KindSet
      /\ lock = None /\ lock' = r
      /\ UNCHANGED <<clock, tasks, records, faults, audits, plans>>
      /\ clock' \in Nat /\ clock' >= clock
      /\ records' \in [Keys -> Records \cup {None}] /\ faults' \in 0 .. MaxFaults /\ audits' \in Nat
  BY <1>1, Typed DEF Lock, Open, Holding, Types
<1> DEFINE new == [requests[r] EXCEPT !.phase = "selecting"]
<1>3. /\ new \in RequestStates /\ new.phase = "selecting"
      /\ new.key = requests[r].key /\ new.kind = requests[r].kind /\ new.answer = requests[r].answer
  BY <1>2 DEF RequestStates, Phases
<1>4. requests' = [requests EXCEPT ![r] = new]
  BY DEF Lock
<1> HIDE DEF new
<1>5. /\ Types' /\ TasksFit'
      /\ requests'[r] = new
      /\ \A q \in Requests \ {r} : requests'[q] = requests[q]
      /\ \A q \in Requests \ {r} : /\ Open(q)' <=> Open(q)
                                   /\ Holding(q)' <=> Holding(q)
                                   /\ Deciding(q)' <=> Deciding(q)
      /\ \A i, j \in DOMAIN tasks : SameScope(i, j)' <=> SameScope(i, j)
      /\ \A i \in DOMAIN tasks : Scheduled(i)' = Scheduled(i) /\ (UnderRepair(i)' <=> UnderRepair(i))
      /\ \A k : BatchesOf(k)' = BatchesOf(k)
  BY <1>2, <1>3, <1>4, Moved
<1>6. LockHeld'
  BY <1>2, <1>5, NoneApart DEF IInv, LockHeld
<1>7. ChosenFit'
  BY <1>2, <1>3, <1>5 DEF IInv, ChosenFit
<1>8. KeysHeld'
  <2>1. \A q \in Requests : Holding(q)' => Holding(q) /\ requests'[q].key = requests[q].key
    BY <1>2, <1>3, <1>5
  <2> QED
    BY <1>1, <1>2, <1>5, <2>1 DEF KeysHeld, Accepted
<1>9. AnswersTold'
  BY <1>2, <1>3, <1>5 DEF IInv, AnswersTold, Accepted
<1> QED
  BY <1>5, <1>6, <1>7, <1>8, <1>9 DEF IInv

\* A request is over without an effect, and what its transaction wrote is gone.
LEMMA OverInv ==
  ASSUME Bounded, IInv, NEW r \in Requests, NEW new \in RequestStates,
         new.phase \in {"idle", "done"}, new.answer \in {None, Refused},
         requests' = [requests EXCEPT ![r] = new], UNCHANGED <<clock, tasks, plans>>,
         faults' \in 0 .. MaxFaults, audits' \in Nat,
         (Open(r) /\ Rollback(r)) \/ (~Open(r) /\ UNCHANGED <<records, lock>>)
  PROVE  IInv'
<1>1. Types /\ KeysHeld
  BY DEF IInv
<1>2. Holding(r) => requests[r].key \in Keys
  BY <1>1 DEF Types, Open, Holding
<1>3. /\ records' = IF Holding(r) THEN [records EXCEPT ![requests[r].key] = None] ELSE records
      /\ lock' = IF Open(r) /\ lock = r THEN None ELSE lock
  BY DEF Open, Holding, Rollback, Release
<1>4. records \in [Keys -> Records \cup {None}] /\ lock \in Requests \cup {None}
      /\ clock' \in Nat /\ clock' >= clock
  BY <1>1 DEF Types
<1>5. records' \in [Keys -> Records \cup {None}] /\ lock' \in Requests \cup {None}
  BY <1>2, <1>3, <1>4
<1>6. /\ Types' /\ TasksFit'
      /\ requests'[r] = new
      /\ \A q \in Requests \ {r} : requests'[q] = requests[q]
      /\ \A q \in Requests \ {r} : /\ Open(q)' <=> Open(q)
                                   /\ Holding(q)' <=> Holding(q)
                                   /\ Deciding(q)' <=> Deciding(q)
      /\ \A i, j \in DOMAIN tasks : SameScope(i, j)' <=> SameScope(i, j)
      /\ \A i \in DOMAIN tasks : Scheduled(i)' = Scheduled(i) /\ (UnderRepair(i)' <=> UnderRepair(i))
      /\ \A k : BatchesOf(k)' = BatchesOf(k)
  BY <1>4, <1>5, Moved
<1>7. ~Deciding(r)' /\ ~Holding(r)'
  BY <1>6 DEF Deciding, Holding
<1>8. LockHeld'
  BY <1>3, <1>6, <1>7 DEF IInv, LockHeld
<1>9. ChosenFit'
  BY <1>6 DEF IInv, ChosenFit
<1>10. \A k \in Keys : Accepted(k)' <=> Accepted(k)
  <2>1. CASE Holding(r)
    <3>1. ~Accepted(requests[r].key) /\ records' = [records EXCEPT ![requests[r].key] = None]
      BY <1>1, <1>3, <2>1 DEF KeysHeld
    <3> QED
      BY <1>2, <1>4, <2>1, <3>1 DEF Accepted
  <2>2. CASE ~Holding(r)
    BY <1>3, <2>2 DEF Accepted
  <2> QED
    BY <2>1, <2>2
<1>11. \A k \in Keys : Accepted(k) => records'[k] = records[k]
  <2>1. Holding(r) => ~Accepted(requests[r].key)
    BY <1>1 DEF KeysHeld
  <2> QED
    BY <1>2, <1>3, <1>4, <2>1
<1>12. AnswersTold'
  <2> SUFFICES ASSUME NEW q \in Requests, requests'[q].answer \notin {None, Refused}
               PROVE  /\ requests'[q].phase = "done"
                      /\ requests'[q].key \in Keys
                      /\ Accepted(requests[q].key)'
                      /\ requests'[q].answer = BatchesOf(requests[q].key)'
    BY DEF AnswersTold, Refused
  <2>1. q # r /\ requests'[q] = requests[q]
    BY <1>6
  <2>2. /\ requests[q].phase = "done" /\ requests[q].key \in Keys /\ Accepted(requests[q].key)
        /\ requests[q].answer = BatchesOf(requests[q].key)
    BY <2>1 DEF IInv, AnswersTold
  <2>3. records'[requests[q].key] = records[requests[q].key]
    BY <1>11, <2>2
  <2> QED
    BY <1>6, <2>1, <2>2, <2>3 DEF Accepted
<1>13. KeysHeld'
  <2>1. ASSUME NEW q \in Requests, Holding(q)'
        PROVE  /\ records'[requests'[q].key] # None /\ ~Accepted(requests[q].key)'
               /\ \A v \in Requests : Holding(v)' /\ requests'[v].key = requests'[q].key => v = q
    <3>1. q # r /\ Holding(q) /\ requests'[q] = requests[q] /\ requests[q].key \in Keys
      BY <1>1, <1>6, <1>7, <2>1 DEF Types, Open, Holding
    <3>2. Holding(r) => requests[q].key # requests[r].key
      BY <1>1, <3>1 DEF KeysHeld
    <3>3. records'[requests[q].key] = records[requests[q].key]
      BY <1>2, <1>3, <1>4, <3>1, <3>2
    <3> QED
      BY <1>1, <1>6, <1>7, <3>1, <3>3 DEF KeysHeld, Accepted
  <2>2. ASSUME NEW i \in DOMAIN tasks', tasks'[i].batch.key # None
        PROVE  Accepted(tasks[i].batch.key)'
    <3>1. i \in DOMAIN tasks /\ tasks'[i] = tasks[i] /\ tasks[i].batch.key \in Keys
          /\ Accepted(tasks[i].batch.key)
      BY <1>1, <2>2, Typed DEF KeysHeld, Batches
    <3>2. records'[tasks[i].batch.key] = records[tasks[i].batch.key]
      BY <1>11, <3>1
    <3> QED
      BY <3>1, <3>2 DEF Accepted
  <2>3. \A k \in Keys : Accepted(k)' => records'[k].batches = BatchesOf(k)'
    BY <1>1, <1>6, <1>10, <1>11 DEF KeysHeld
  <2> QED
    BY <2>1, <2>2, <2>3 DEF KeysHeld
<1> QED
  BY <1>6, <1>8, <1>9, <1>12, <1>13 DEF IInv

LEMMA BreakInv ==
  ASSUME Bounded, IInv, NEW r \in Requests, Break(r)
  PROVE  IInv'
<1>1. NoRequest \in RequestStates /\ NoRequest.phase = "idle" /\ NoRequest.answer = None
  BY DEF NoRequest, RequestStates, Phases
<1>2. Types
  BY DEF IInv
<1>3. faults' \in 0 .. MaxFaults /\ audits' \in Nat
  BY <1>2 DEF Break, Types, Bounded
<1>4. requests[r].phase \in Phases
  BY <1>2, Typed DEF RequestStates
<1>5. (Open(r) /\ Rollback(r)) \/ (~Open(r) /\ UNCHANGED <<records, lock>>)
  BY <1>4 DEF Break, Open, Phases
<1>6. requests' = [requests EXCEPT ![r] = NoRequest] /\ UNCHANGED <<clock, tasks, plans>>
  BY DEF Break
<1> QED
  BY <1>1, <1>3, <1>5, <1>6, OverInv

\* Whatever a command takes has failed, each scope once, and no repair of it that is under way
\* was scheduled later.
LEMMA SelectionFits ==
  ASSUME IInv, NEW kind \in KindSet, NEW i \in Selection(kind)
  PROVE  /\ i \in DOMAIN tasks
         /\ tasks[i].status = "FAILED"
         /\ \A j \in Selection(kind) : SameScope(i, j) => i = j
         /\ \A j \in DOMAIN tasks : SameScope(i, j) /\ UnderRepair(j) => Scheduled(j) <= Scheduled(i)
<1>1. Types /\ FinishedApart /\ TasksApart
  BY DEF IInv, TasksFit
<1>2. kind[1] \in {"task", "batch", "all"}
  BY DEF KindSet
<1>3. \A j \in Selection(kind) :
        /\ j \in DOMAIN tasks /\ Repairable(j)
        /\ kind[1] = "task" => j = kind[2]
        /\ kind[1] = "batch" => tasks[j].batch = kind[2]
        /\ kind[1] = "all" => ~\E k \in DOMAIN tasks : Repairable(k) /\ SameScope(j, k) /\ Before(k, j)
  BY <1>2 DEF Selection
<1>4. i \in DOMAIN tasks /\ tasks[i].status = "FAILED" /\ ~Active(i)
  BY <1>3 DEF Repairable
<1>5. ASSUME NEW j \in Selection(kind), SameScope(i, j)
      PROVE  i = j
  <2>1. j \in DOMAIN tasks /\ SameScope(j, i) /\ tasks[j].status = "FAILED"
    BY <1>3, <1>5 DEF SameScope, Repairable
  <2>2. CASE kind[1] = "task"
    BY <1>3, <2>2
  <2>3. CASE kind[1] = "batch"
    BY <1>1, <1>3, <1>4, <1>5, <2>1, <2>3 DEF TasksApart
  <2>4. CASE kind[1] = "all"
    <3>1. ~Before(i, j) /\ ~Before(j, i)
      BY <1>3, <1>5, <2>1, <2>4
    <3>2. /\ Scheduled(i) \in Nat /\ Scheduled(j) \in Nat
          /\ tasks[i].finished \in Nat /\ tasks[j].finished \in Nat
      BY <1>1, <1>4, <2>1, Typed DEF Tasks
    <3>3. tasks[i].finished = tasks[j].finished
      BY <3>1, <3>2 DEF Before
    <3> QED
      BY <1>1, <1>4, <2>1, <3>3 DEF FinishedApart
  <2> QED
    BY <1>2, <2>2, <2>3, <2>4
<1>6. ASSUME NEW j \in DOMAIN tasks, SameScope(i, j), UnderRepair(j)
      PROVE  Scheduled(j) <= Scheduled(i)
  <2>1. Scheduled(i) \in Nat /\ Scheduled(j) \in Nat
    BY <1>1, <1>4, Typed
  <2>2. ~(Scheduled(j) > Scheduled(i))
    BY <1>4, <1>6 DEF Active, UnderRepair
  <2> QED
    BY <2>1, <2>2
<1> QED
  BY <1>4, <1>5, <1>6

LEMMA SelectInv ==
  ASSUME Bounded, IInv, NEW r \in Requests, Select(r)
  PROVE  IInv'
<1>1. Types
  BY DEF IInv
<1>2. /\ requests[r].phase = "selecting" /\ Open(r) /\ Holding(r) /\ Deciding(r)
      /\ requests[r] \in RequestStates /\ requests[r].kind \in KindSet /\ requests[r].key \in Keys
      /\ UNCHANGED <<clock, tasks, faults, audits, plans>>
      /\ clock' \in Nat /\ clock' >= clock
      /\ faults' \in 0 .. MaxFaults /\ audits' \in Nat
  BY <1>1, Typed DEF Select, Open, Holding, Deciding, Types
<1> DEFINE taken == Selection(requests[r].kind)
<1>3. CASE taken = {}
  <2> DEFINE new == [NoRequest EXCEPT !.phase = "done", !.key = requests[r].key, !.answer = Refused]
  <2>1. NoRequest \in RequestStates
    BY DEF NoRequest, RequestStates, Phases
  <2>2. new \in RequestStates /\ new.phase = "done" /\ new.answer = Refused
    BY <1>2, <2>1 DEF RequestStates, Phases, Refused
  <2>3. Rollback(r) /\ requests' = [requests EXCEPT ![r] = new]
    BY <1>3 DEF Select, Answer
  <2> HIDE DEF new
  <2> QED
    BY <1>2, <2>2, <2>3, OverInv
<1>4. CASE taken # {}
  <2> DEFINE new == [requests[r] EXCEPT !.phase = "creating", !.chosen = taken]
  <2>1. \A i \in taken : /\ i \in DOMAIN tasks
                         /\ tasks[i].status = "FAILED"
                         /\ \A j \in taken : SameScope(i, j) => i = j
                         /\ \A j \in DOMAIN tasks : SameScope(i, j) /\ UnderRepair(j) => Scheduled(j) <= Scheduled(i)
    BY <1>2, SelectionFits
  <2>2. taken \in SUBSET Nat
    BY <1>1, <2>1, Typed
  <2>3. UNCHANGED <<records, lock>>
    BY <1>4 DEF Select
  <2>4. requests' = [requests EXCEPT ![r] = new]
    BY <1>4 DEF Select
  <2> HIDE DEF taken
  <2>5. /\ new \in RequestStates /\ new.phase = "creating" /\ new.chosen = taken
        /\ new.key = requests[r].key
        /\ new.kind = requests[r].kind /\ new.answer = requests[r].answer
    BY <1>2, <2>2 DEF RequestStates, Phases
  <2>6. records' \in [Keys -> Records \cup {None}] /\ lock' \in Requests \cup {None}
    BY <1>1, <2>3 DEF Types
  <2> HIDE DEF new
  <2>7. /\ Types' /\ TasksFit'
        /\ requests'[r] = new
        /\ \A q \in Requests \ {r} : requests'[q] = requests[q]
        /\ \A q \in Requests \ {r} : /\ Open(q)' <=> Open(q)
                                     /\ Holding(q)' <=> Holding(q)
                                     /\ Deciding(q)' <=> Deciding(q)
        /\ \A i, j \in DOMAIN tasks : SameScope(i, j)' <=> SameScope(i, j)
        /\ \A i \in DOMAIN tasks : Scheduled(i)' = Scheduled(i) /\ (UnderRepair(i)' <=> UnderRepair(i))
        /\ \A k : BatchesOf(k)' = BatchesOf(k)
    BY <1>2, <2>4, <2>5, <2>6, Moved
  <2>8. LockHeld' /\ KeysHeld'
    <3>1. \A q \in Requests : /\ Holding(q)' => Holding(q) /\ requests'[q].key = requests[q].key
                              /\ Deciding(q)' => Deciding(q)
      BY <1>2, <2>5, <2>7
    <3>2. LockHeld'
      BY <2>3, <3>1 DEF IInv, LockHeld
    <3>3. KeysHeld
      BY DEF IInv
    <3>4. KeysHeld'
      BY <1>2, <2>3, <2>7, <3>1, <3>3 DEF KeysHeld, Accepted
    <3> QED
      BY <3>2, <3>4
  <2>9. ChosenFit'
    BY <1>2, <2>1, <2>5, <2>7 DEF IInv, ChosenFit
  <2>10. AnswersTold'
    BY <1>2, <2>3, <2>5, <2>7 DEF IInv, AnswersTold, Accepted
  <2> QED
    BY <2>7, <2>8, <2>9, <2>10 DEF IInv
<1> QED
  BY <1>3, <1>4

-----------------------------------------------------------------------------
(* The creation of a repair.                                               *)

\* A batch for each business date, with a task for each of some failures of different scopes.
\* What it may overlap with is a repair that was scheduled no later than one of these failures.
LEMMA CreateInv ==
  ASSUME Bounded, IInv, NEW r \in Requests, Create(r)
  PROVE  IInv'
<1>0. PICK key \in Keys : key = requests[r].key
  <2>1. Open(r)
    BY DEF Create, Open
  <2> QED
    BY <2>1 DEF IInv, Types
<1> DEFINE chosen == requests[r].chosen
           size == Cardinality(chosen)
           order == Listed(chosen)
           batchFor(i) == [scheduled |-> requests[r].now, date |-> tasks[i].batch.date, key |-> key]
           batches == {batchFor(i) : i \in chosen}
           made == [n \in 1 .. size |-> Task(tasks[order[n]].scope, batchFor(order[n]))]
           record == [kind |-> requests[r].kind, accepted |-> TRUE, batches |-> batches]
           new == [NoRequest EXCEPT !.phase = "done", !.key = key, !.answer = batches]
           fresh == DOMAIN tasks' \ DOMAIN tasks
           from(i) == order[i - Len(tasks)]
<1>1. /\ Types /\ FinishedApart /\ TasksApart /\ KeysApart /\ OneRepairUnlessOvertaken
      /\ LockHeld /\ ChosenFit /\ KeysHeld /\ AnswersTold
  BY DEF IInv, TasksFit
<1>2. /\ requests[r].phase = "creating" /\ Open(r) /\ Holding(r) /\ Deciding(r)
      /\ requests[r] \in RequestStates /\ requests[r].kind \in KindSet /\ key \in Keys /\ key # None /\ requests[r].key = key
      /\ requests[r].now \in Nat /\ lock = r
      /\ UNCHANGED <<clock, faults, audits, plans>>
  <2>1. requests[r].phase = "creating" /\ UNCHANGED <<clock, faults, audits, plans>>
    BY DEF Create
  <2>2. Open(r) /\ Holding(r) /\ Deciding(r) /\ requests[r] \in RequestStates
    BY <1>1, <2>1, Typed DEF Open, Holding, Deciding
  <2>3. requests[r].kind \in KindSet /\ lock = r
    BY <1>1, <2>2 DEF Types, LockHeld
  <2> QED
    BY <1>0, <2>1, <2>2, <2>3, NoneApart DEF RequestStates
<1>3. /\ tasks' = tasks \o made
      /\ records' = [records EXCEPT ![key] = record]
      /\ requests' = [requests EXCEPT ![r] = new]
      /\ lock' = None
  BY <1>0, <1>2 DEF Create, Answer, Release
<1>4. \A i \in chosen : /\ i \in DOMAIN tasks
                        /\ tasks[i].status = "FAILED"
                        /\ \A j \in chosen : SameScope(i, j) => i = j
                        /\ \A j \in DOMAIN tasks : SameScope(i, j) /\ UnderRepair(j) => Scheduled(j) <= Scheduled(i)
  BY <1>1, <1>2 DEF ChosenFit
<1>5. /\ size \in Nat
      /\ order \in [1 .. size -> chosen]
      /\ \A m, n \in 1 .. size : order[m] = order[n] => m = n
      /\ \A i \in chosen : \E n \in 1 .. size : order[n] = i
  <2>1. chosen \subseteq 1 .. Len(tasks) /\ 1 \in Int /\ Len(tasks) \in Int
    BY <1>1, <1>4 DEF Types
  <2>2. IsFiniteSet(1 .. Len(tasks))
    BY <2>1, FS_Interval
  <2>3. IsFiniteSet(chosen)
    BY <2>1, <2>2, FS_Subset
  <2> HIDE DEF chosen, order
  <2>4. order = Listed(chosen)
    BY DEF order
  <2> QED
    BY <2>3, <2>4, Listing
<1> HIDE DEF order, size
<1>6. \A i \in chosen : /\ batchFor(i) \in Batches /\ batchFor(i).key = key
                        /\ batchFor(i).scheduled = requests[r].now
  BY <1>1, <1>2, <1>4, Typed DEF Batches
<1> HIDE DEF batchFor
<1>7. made \in [1 .. size -> Tasks]
      /\ \A n \in 1 .. size : /\ made[n].scope = tasks[order[n]].scope /\ made[n].batch = batchFor(order[n])
                              /\ made[n].status = "PENDING" /\ made[n].finished = 0 /\ ~made[n].lost
  <2>1. \A n \in 1 .. size : order[n] \in chosen /\ tasks[order[n]].scope \in Scopes
    BY <1>1, <1>4, <1>5, Typed DEF Tasks
  <2>2. \A n \in 1 .. size : Task(tasks[order[n]].scope, batchFor(order[n])) \in Tasks
    BY <1>6, <2>1 DEF Task, Tasks, Statuses
  <2> QED
    BY <2>2 DEF Task
<1> HIDE DEF made
<1>8. /\ tasks' \in Seq(Tasks)
      /\ DOMAIN tasks \subseteq DOMAIN tasks'
      /\ \A i \in DOMAIN tasks : tasks'[i] = tasks[i]
      /\ \A i \in fresh : i \in Nat /\ i - Len(tasks) \in 1 .. size /\ tasks'[i] = made[i - Len(tasks)]
      /\ \A i \in DOMAIN tasks, j \in fresh : i < j
      /\ \A n \in 1 .. size : Len(tasks) + n \in fresh /\ tasks'[Len(tasks) + n] = made[n]
  BY <1>1, <1>3, <1>5, <1>7, Grown
<1>9. /\ DOMAIN tasks' = DOMAIN tasks \cup fresh
      /\ \A i \in fresh : i \notin DOMAIN tasks
      /\ \A i \in DOMAIN tasks' : i \in Nat
      /\ Len(tasks) \in Nat
  <2>1. DOMAIN tasks' = DOMAIN tasks \cup fresh /\ \A i \in fresh : i \notin DOMAIN tasks
    BY <1>8
  <2>2. (\A i \in DOMAIN tasks : i \in Nat) /\ Len(tasks) \in Nat
    BY <1>1 DEF Types
  <2>3. \A i \in fresh : i \in Nat
    BY <1>8
  <2> HIDE DEF fresh
  <2> QED
    BY <2>1, <2>2, <2>3
<1>10. \A i \in fresh : /\ from(i) \in chosen
                        /\ tasks'[i].scope = tasks[from(i)].scope
                        /\ tasks'[i].batch = batchFor(from(i)) /\ tasks'[i].batch.key = key
                        /\ tasks'[i].status = "PENDING" /\ tasks'[i].finished = 0 /\ ~tasks'[i].lost
                        /\ UnderRepair(i)' /\ Scheduled(i)' = requests[r].now
  <2>1. \A i \in fresh : /\ from(i) \in chosen
                         /\ tasks'[i].scope = tasks[from(i)].scope
                         /\ tasks'[i].batch = batchFor(from(i))
                         /\ tasks'[i].status = "PENDING" /\ tasks'[i].finished = 0 /\ ~tasks'[i].lost
    <3> SUFFICES ASSUME NEW i \in fresh
                 PROVE  /\ from(i) \in chosen
                        /\ tasks'[i].scope = tasks[from(i)].scope
                        /\ tasks'[i].batch = batchFor(from(i))
                        /\ tasks'[i].status = "PENDING" /\ tasks'[i].finished = 0 /\ ~tasks'[i].lost
      OBVIOUS
    <3>1. i - Len(tasks) \in 1 .. size /\ tasks'[i] = made[i - Len(tasks)]
      BY <1>8
    <3>2. from(i) \in chosen
      BY <1>5, <3>1
    <3> QED
      BY <1>7, <3>1, <3>2
  <2>2. \A i \in fresh : tasks'[i].batch.key = key /\ tasks'[i].batch.scheduled = requests[r].now
    BY <1>6, <2>1
  <2> QED
    BY <1>2, <2>1, <2>2 DEF UnderRepair, Scheduled
<1>11. ASSUME NEW i \in fresh, NEW j \in fresh, tasks'[i].scope = tasks'[j].scope
       PROVE  i = j
  <2>1. SameScope(from(i), from(j))
    BY <1>10, <1>11 DEF SameScope
  <2>2. from(i) = from(j)
    BY <1>4, <1>10, <2>1
  <2>3. i - Len(tasks) = j - Len(tasks)
    BY <1>5, <1>8, <2>2
  <2> QED
    BY <1>8, <1>9, <2>3
<1>12. /\ \A i \in DOMAIN tasks : Scheduled(i)' = Scheduled(i) /\ (UnderRepair(i)' <=> UnderRepair(i))
       /\ \A i, j \in DOMAIN tasks : SameScope(i, j)' <=> SameScope(i, j)
  BY <1>1, <1>8, OldTasks
<1> HIDE DEF fresh, from
<1>13. \A i \in DOMAIN tasks : tasks[i].batch.key # key
  BY <1>1, <1>2 DEF KeysHeld
<1>14. /\ record \in Records /\ record # None /\ record.accepted /\ record.batches = batches
       /\ new \in RequestStates /\ new.phase = "done" /\ new.answer = batches /\ new.key = key
  <2>1. NoRequest \in RequestStates
    BY DEF NoRequest, RequestStates, Phases
  <2>2. batches \in SUBSET Batches
    BY <1>6
  <2> HIDE DEF batches
  <2>3. new \in RequestStates /\ new.phase = "done" /\ new.answer = batches /\ new.key = key
    BY <1>2, <2>1, <2>2 DEF RequestStates, Phases
  <2>4. record \in Records /\ record.accepted /\ record.batches = batches
    BY <1>2, <2>2 DEF Records
  <2>5. record # None
    BY <2>4 DEF Bounded
  <2> QED
    BY <2>3, <2>4, <2>5
<1>15. BatchesOf(key)' = batches
  <2>1. ASSUME NEW b \in BatchesOf(key)'
        PROVE  b \in batches
    <3>1. PICK i \in DOMAIN tasks' : tasks'[i].batch.key = key /\ b = tasks'[i].batch
      BY <2>1 DEF BatchesOf
    <3>2. i \in fresh
      BY <1>8, <1>9, <1>13, <3>1
    <3> QED
      BY <1>10, <3>1, <3>2
  <2>2. ASSUME NEW i \in chosen
        PROVE  batchFor(i) \in BatchesOf(key)'
    <3>1. PICK n \in 1 .. size : order[n] = i
      BY <1>5
    <3>2. Len(tasks) + n \in fresh /\ tasks'[Len(tasks) + n].batch = batchFor(i)
      BY <1>7, <1>8, <3>1
    <3> QED
      BY <1>9, <1>10, <3>2 DEF BatchesOf
  <2> QED
    BY <2>1, <2>2
<1>16. \A k \in Keys : k # key => BatchesOf(k)' = BatchesOf(k)
  <2>1. ASSUME NEW k \in Keys, k # key PROVE BatchesOf(k)' = BatchesOf(k)
    <3>1. \A i \in DOMAIN tasks : tasks'[i].batch = tasks[i].batch
      BY <1>8
    <3>2. \A i \in DOMAIN tasks' \ DOMAIN tasks : tasks'[i].batch.key # k
      BY <1>9, <1>10, <2>1
    <3> QED
      BY <1>8, <3>1, <3>2, BatchesKept
  <2> QED
    BY <2>1
<1> HIDE DEF new, record, batches
<1>17. /\ requests'[r] = new
       /\ \A q \in Requests \ {r} : requests'[q] = requests[q]
       /\ \A q \in Requests : Open(q)' => q # r /\ Open(q) /\ requests'[q] = requests[q]
       /\ \A q \in Requests : Holding(q)' => q # r /\ Holding(q) /\ requests'[q] = requests[q]
       /\ \A q \in Requests : ~Deciding(q)' /\ requests'[q].phase # "creating"
  <2>1. requests'[r] = new /\ \A q \in Requests \ {r} : requests'[q] = requests[q]
    BY <1>1, <1>3 DEF Types
  <2>2. ~Open(r)' /\ ~Holding(r)' /\ ~Deciding(r)'
    BY <1>14, <2>1 DEF Open, Holding, Deciding
  <2>3. \A q \in Requests \ {r} : /\ Open(q)' <=> Open(q)
                                  /\ Holding(q)' <=> Holding(q)
                                  /\ Deciding(q)' <=> Deciding(q)
    BY <2>1 DEF Open, Holding, Deciding
  <2>4. \A q \in Requests \ {r} : ~Deciding(q)
    BY <1>1, <1>2 DEF LockHeld
  <2>5. \A q \in Requests : ~Deciding(q)'
    BY <2>2, <2>3, <2>4
  <2> QED
    BY <2>1, <2>2, <2>3, <2>5 DEF Deciding
<1>18. /\ records'[key] = record
       /\ \A k \in Keys : k # key => records'[k] = records[k]
       /\ records' \in [Keys -> Records \cup {None}]
  BY <1>1, <1>2, <1>3, <1>14 DEF Types
<1>19. Types'
  <2>1. /\ clock' \in Nat /\ requests' \in [Requests -> RequestStates]
        /\ lock' \in Requests \cup {None} /\ faults' \in 0 .. MaxFaults /\ audits' \in Nat /\ plans' \in Nat
    BY <1>1, <1>2, <1>3, <1>14 DEF Types
  <2>2. ASSUME NEW i \in DOMAIN tasks'
        PROVE  /\ tasks'[i].finished <= clock'
               /\ tasks'[i].lost => tasks'[i].status # "PENDING"
    <3>1. CASE i \in DOMAIN tasks
      BY <1>1, <1>2, <1>8, <3>1 DEF Types
    <3>2. CASE i \in fresh
      BY <1>1, <1>2, <1>10, <3>2 DEF Types
    <3> QED
      BY <1>9, <2>2, <3>1, <3>2
  <2>3. \A q \in Requests : Open(q)' => requests'[q].key \in Keys /\ requests'[q].kind \in KindSet
    BY <1>1, <1>17 DEF Types
  <2> QED
    BY <1>8, <1>18, <2>1, <2>2, <2>3 DEF Types
<1>20. FinishedApart'
  BY <1>1, <1>8, <1>9, <1>10 DEF FinishedApart
<1>21. TasksApart'
  <2> SUFFICES ASSUME NEW i \in DOMAIN tasks', NEW j \in DOMAIN tasks', SameScope(i, j)',
                      tasks'[i].batch = tasks'[j].batch
               PROVE  i = j
    BY DEF TasksApart
  <2>1. CASE i \in DOMAIN tasks /\ j \in DOMAIN tasks
    BY <1>1, <1>8, <1>12, <2>1 DEF TasksApart
  <2>2. CASE i \in fresh /\ j \in fresh
    BY <1>11, <2>2 DEF SameScope
  <2>3. CASE i \in DOMAIN tasks /\ j \in fresh
    <3>1. tasks'[i].batch.key # key /\ tasks'[j].batch.key = key
      BY <1>8, <1>10, <1>13, <2>3
    <3> QED
      BY <3>1
  <2>4. CASE i \in fresh /\ j \in DOMAIN tasks
    <3>1. tasks'[i].batch.key = key /\ tasks'[j].batch.key # key
      BY <1>8, <1>10, <1>13, <2>4
    <3> QED
      BY <3>1
  <2> QED
    BY <1>9, <2>1, <2>2, <2>3, <2>4
<1>22. KeysApart'
  <2> SUFFICES ASSUME NEW i \in DOMAIN tasks', NEW j \in DOMAIN tasks',
                      tasks'[i].batch.key # None, tasks'[i].batch.key = tasks'[j].batch.key
               PROVE  Scheduled(i)' = Scheduled(j)' /\ (SameScope(i, j)' => i = j)
    BY DEF KeysApart
  <2>1. CASE i \in DOMAIN tasks /\ j \in DOMAIN tasks
    BY <1>1, <1>8, <1>12, <2>1 DEF KeysApart
  <2>2. CASE i \in fresh /\ j \in fresh
    BY <1>10, <1>11, <2>2 DEF SameScope
  <2>3. CASE i \in DOMAIN tasks /\ j \in fresh
    <3>1. tasks'[i].batch.key # key /\ tasks'[j].batch.key = key
      BY <1>8, <1>10, <1>13, <2>3
    <3> QED
      BY <3>1
  <2>4. CASE i \in fresh /\ j \in DOMAIN tasks
    <3>1. tasks'[i].batch.key = key /\ tasks'[j].batch.key # key
      BY <1>8, <1>10, <1>13, <2>4
    <3> QED
      BY <3>1
  <2> QED
    BY <1>9, <2>1, <2>2, <2>3, <2>4
<1>23. OneRepairUnlessOvertaken'
  <2> SUFFICES ASSUME NEW i \in DOMAIN tasks', NEW j \in DOMAIN tasks', i < j, SameScope(i, j)',
                      UnderRepair(i)', UnderRepair(j)'
               PROVE  \E k \in DOMAIN tasks' :
                        SameScope(k, i)' /\ tasks'[k].status = "FAILED" /\ Scheduled(k)' >= Scheduled(i)'
    BY DEF OneRepairUnlessOvertaken
  <2>1. CASE i \in DOMAIN tasks /\ j \in DOMAIN tasks
    <3>1. PICK k \in DOMAIN tasks : SameScope(k, i) /\ tasks[k].status = "FAILED" /\ Scheduled(k) >= Scheduled(i)
      BY <1>1, <1>12, <2>1 DEF OneRepairUnlessOvertaken
    <3> QED
      BY <1>8, <1>12, <2>1, <3>1
  <2>2. CASE i \in DOMAIN tasks /\ j \in fresh
    <3>1. PICK k \in chosen : k = from(j)
      BY <1>10, <2>2
    <3>2. k \in DOMAIN tasks /\ tasks[k].status = "FAILED" /\ SameScope(k, i)
      BY <1>4, <1>8, <1>10, <2>2, <3>1 DEF SameScope
    <3>3. Scheduled(i) <= Scheduled(k) /\ Scheduled(i) \in Nat /\ Scheduled(k) \in Nat
      BY <1>1, <1>4, <1>12, <2>2, <3>2, Typed
    <3>4. SameScope(k, i)' /\ tasks'[k].status = "FAILED" /\ Scheduled(k)' >= Scheduled(i)'
      BY <1>8, <1>12, <2>2, <3>2, <3>3
    <3> QED
      BY <1>8, <3>2, <3>4
  <2>3. CASE i \in fresh /\ j \in DOMAIN tasks
    BY <1>8, <1>9, <2>3
  <2>4. CASE i \in fresh /\ j \in fresh
    <3>1. i = j
      BY <1>11, <2>4 DEF SameScope
    <3> QED
      BY <1>9, <3>1
  <2> QED
    BY <1>9, <2>1, <2>2, <2>3, <2>4
<1>24. LockHeld' /\ ChosenFit'
  BY <1>17 DEF LockHeld, ChosenFit
<1>25. KeysHeld'
  <2>1. ASSUME NEW q \in Requests, Holding(q)'
        PROVE  /\ records'[requests'[q].key] # None
               /\ ~Accepted(requests[q].key)'
               /\ \A p \in Requests : Holding(p)' /\ requests'[p].key = requests'[q].key => p = q
    <3>1. q # r /\ Holding(q) /\ requests'[q] = requests[q]
      BY <1>17, <2>1
    <3>2. requests[q].key # key /\ requests[q].key \in Keys
      BY <1>1, <1>2, <3>1 DEF KeysHeld, Types, Open, Holding
    <3>3. records'[requests[q].key] = records[requests[q].key]
      BY <1>18, <3>2
    <3> QED
      BY <1>1, <1>17, <3>1, <3>3 DEF KeysHeld, Accepted
  <2>2. ASSUME NEW i \in DOMAIN tasks', tasks'[i].batch.key # None
        PROVE  Accepted(tasks[i].batch.key)'
    <3>1. CASE i \in fresh
      BY <1>10, <1>14, <1>18, <3>1 DEF Accepted
    <3>2. CASE i \in DOMAIN tasks
      <4>1. tasks'[i] = tasks[i] /\ tasks[i].batch.key \in Keys /\ Accepted(tasks[i].batch.key)
        BY <1>1, <1>8, <2>2, <3>2, Typed DEF KeysHeld, Batches
      <4>2. records'[tasks[i].batch.key] = records[tasks[i].batch.key]
        BY <1>13, <1>18, <3>2, <4>1
      <4> QED
        BY <4>1, <4>2 DEF Accepted
    <3> QED
      BY <1>9, <2>2, <3>1, <3>2
  <2>3. ASSUME NEW k \in Keys, Accepted(k)'
        PROVE  records'[k].batches = BatchesOf(k)'
    <3>1. CASE k = key
      BY <1>14, <1>15, <1>18, <3>1
    <3>2. CASE k # key
      BY <1>1, <1>16, <1>18, <2>3, <3>2 DEF KeysHeld, Accepted
    <3> QED
      BY <3>1, <3>2
  <2> QED
    BY <2>1, <2>2, <2>3 DEF KeysHeld
<1>26. AnswersTold'
  <2> SUFFICES ASSUME NEW q \in Requests, requests'[q].answer \notin {None, Refused}
               PROVE  /\ requests'[q].phase = "done"
                      /\ requests'[q].key \in Keys
                      /\ Accepted(requests[q].key)'
                      /\ requests'[q].answer = BatchesOf(requests[q].key)'
    BY DEF AnswersTold, Refused
  <2>1. CASE q = r
    <3>1. requests'[q].phase = "done" /\ requests'[q].key = key /\ requests'[q].answer = batches
      BY <1>14, <1>17, <2>1
    <3> QED
      BY <1>2, <1>14, <1>15, <1>18, <3>1 DEF Accepted
  <2>2. CASE q # r
    <3>1. requests'[q] = requests[q]
      BY <1>17, <2>2
    <3>2. /\ requests[q].phase = "done" /\ requests[q].key \in Keys /\ Accepted(requests[q].key)
          /\ requests[q].answer = BatchesOf(requests[q].key)
      BY <1>1, <3>1 DEF AnswersTold
    <3>3. ~Accepted(key)
      BY <1>1, <1>2 DEF KeysHeld
    <3>4. requests[q].key # key
      BY <3>2, <3>3
    <3> QED
      BY <1>16, <1>18, <3>1, <3>2, <3>4 DEF Accepted
  <2> QED
    BY <2>1, <2>2
<1> QED
  BY <1>19, <1>20, <1>21, <1>22, <1>23, <1>24, <1>25, <1>26 DEF IInv, TasksFit

-----------------------------------------------------------------------------
(* The theorems.                                                           *)

LEMMA StepInv ==
  ASSUME Bounded, IInv, [Next]_vars
  PROVE  IInv'
<1>1. CASE UNCHANGED vars
  <2>1. Types' /\ LockHeld'
    BY <1>1 DEF vars, IInv, Types, LockHeld, Open, Deciding
  <2>2. TasksFit'
    BY <1>1 DEF vars, IInv, TasksFit, FinishedApart, TasksApart, KeysApart, OneRepairUnlessOvertaken,
                SameScope, Scheduled, UnderRepair
  <2>3. ChosenFit'
    BY <1>1 DEF vars, IInv, ChosenFit, SameScope, Scheduled, UnderRepair
  <2>4. KeysHeld' /\ AnswersTold'
    BY <1>1 DEF vars, IInv, KeysHeld, AnswersTold, Accepted, Holding, BatchesOf
  <2> QED
    BY <2>1, <2>2, <2>3, <2>4 DEF IInv
<1>2. ASSUME NEW scopes \in SUBSET Scopes \ {{}}, NEW day \in Days, NEW time \in Slots,
             Plan(scopes, day, time)
      PROVE  IInv'
  BY <1>2, PlanInv
<1>3. CASE \E i \in DOMAIN tasks :
             Finish(i, "SUCCESS") \/ Finish(i, "FAILED") \/ LoseFile(i) \/ Audit(i)
  BY <1>3, ExecutorInv
<1>4. ASSUME NEW r \in Requests, Begin(r) \/ Insert(r) \/ Lock(r) \/ Select(r) \/ Create(r) \/ Break(r)
      PROVE  IInv'
  BY <1>4, BeginInv, InsertInv, LockInv, SelectInv, CreateInv, BreakInv
<1> QED
  BY <1>1, <1>2, <1>3, <1>4 DEF Next

\* The invariant on which all that follows rests: who decides has the lock and has chosen
\* failures of different scopes, none with a later repair under way; every task ends at a time
\* of its own; and what is made under a key is what its record names.
THEOREM Inductive ==
  ASSUME Bounded
  PROVE  Spec => []IInv
<1>1. Init => IInv
  BY InitInv
<1>2. IInv /\ [Next]_vars => IInv'
  BY StepInv
<1> QED
  BY <1>1, <1>2, PTL DEF Spec

\* Whatever is planned and however the commands of RetryCommandService overlap, with one
\* another and with the executor: while a repair of a logical task is under way, another one
\* is made only of a failure that was scheduled no earlier.
THEOREM RepairsOverlapOnlyIfOvertaken ==
  ASSUME Bounded
  PROVE  Spec => []OneRepairUnlessOvertaken
<1>1. IInv => OneRepairUnlessOvertaken
  BY DEF IInv, TasksFit
<1> QED
  BY <1>1, Inductive, PTL

\* An idempotency key takes effect once, for each scope at most one task and all at one time,
\* whoever sends it and however often the connection breaks, and every answer that names
\* batches names all those of its key and no other.
THEOREM KeysTakeEffectOnce ==
  ASSUME Bounded
  PROVE  Spec => []OneEffectPerKey
<1>1. IInv => OneEffectPerKey
  BY DEF IInv, TasksFit, KeysApart, AnswersTold, OneEffectPerKey
<1> QED
  BY <1>1, Inductive, PTL

\* Of some tasks there is one that no other comes before.
LEMMA FirstOf ==
  ASSUME IInv, NEW some \in SUBSET DOMAIN tasks, some # {}
  PROVE  \E m \in some : \A j \in some : ~Before(j, m)
<1> DEFINE before(j) == {k \in some : Before(k, j)}
           befores == {before(j) : j \in some}
           R == StrictSubsetOrdering(Nat)
<1>1. \A j \in some : Scheduled(j) \in Nat /\ tasks[j].finished \in Nat
  BY Typed DEF IInv, Tasks
<1>2. befores \subseteq FiniteSubsetsOf(Nat) /\ befores # {}
  <2>1. some \subseteq 1 .. Len(tasks) /\ 1 \in Int /\ Len(tasks) \in Int
    BY DEF IInv, Types
  <2>2. IsFiniteSet(1 .. Len(tasks))
    BY <2>1, FS_Interval
  <2>3. \A j \in some : before(j) \subseteq Nat /\ IsFiniteSet(before(j))
    BY <2>1, <2>2, FS_Subset
  <2> QED
    BY <2>3 DEF FiniteSubsetsOf
<1>3. PICK m \in some : \A j \in some : <<before(j), before(m)>> \notin R
  <2> HIDE DEF befores, R, before
  <2>1. IsWellFoundedOn(R, FiniteSubsetsOf(Nat))
    BY FS_StrictSubsetOrderingWellFounded DEF R
  <2>2. PICK A \in befores : \A B \in befores : <<B, A>> \notin R
    BY <1>2, <2>1, WFMin
  <2> QED
    BY <2>2 DEF befores
<1>4. ASSUME NEW j \in some, Before(j, m)
      PROVE  FALSE
  <2>1. \A k \in some : Before(k, j) => Before(k, m)
    BY <1>1, <1>4 DEF Before
  <2>2. ~Before(j, j)
    BY <1>1 DEF Before
  <2>3. before(j) \subseteq before(m) /\ j \in before(m) /\ j \notin before(j)
    BY <1>4, <2>1, <2>2
  <2>4. before(m) \subseteq Nat
    BY DEF IInv, Types
  <2>5. <<before(j), before(m)>> \in R
    BY <2>3, <2>4 DEF StrictSubsetOrdering
  <2> QED
    BY <1>3, <2>5
<1> QED
  BY <1>4

\* A command for everything takes a task of each scope that has a repairable one.
LEMMA AllScopes ==
  ASSUME IInv, NEW i \in DOMAIN tasks, Repairable(i)
  PROVE  \E j \in Selection(<<"all">>) : SameScope(i, j)
<1> DEFINE some == {j \in DOMAIN tasks : Repairable(j) /\ SameScope(i, j)}
<1>1. i \in some /\ some \in SUBSET DOMAIN tasks
  BY DEF SameScope
<1>2. PICK m \in some : \A j \in some : ~Before(j, m)
  <2> HIDE DEF some
  <2> QED
    BY <1>1, FirstOf
<1>3. ASSUME NEW j \in DOMAIN tasks, Repairable(j), SameScope(m, j), Before(j, m)
      PROVE  FALSE
  <2>1. j \in some
    BY <1>3 DEF SameScope
  <2> QED
    BY <1>2, <1>3, <2>1
<1>4. m \in Selection(<<"all">>)
  <2>1. m \in {j \in DOMAIN tasks : Repairable(j)}
    OBVIOUS
  <2>2. Selection(<<"all">>) = {j \in {k \in DOMAIN tasks : Repairable(k)} :
                                  ~\E k \in {l \in DOMAIN tasks : Repairable(l)} : SameScope(j, k) /\ Before(k, j)}
    BY DEF Selection
  <2> QED
    BY <1>3, <2>1, <2>2
<1> QED
  BY <1>4

\* Selecting leaves no scope out.
LEMMA SelectNoneLeftOut ==
  ASSUME Bounded, IInv, NEW r \in Requests, Select(r), requests[r].kind = <<"all">>,
         NEW i \in DOMAIN tasks, tasks[i].status = "FAILED",
         \A j \in DOMAIN tasks :
            SameScope(i, j) => tasks[j].status # "PENDING" /\ tasks[j].finished <= tasks[i].finished
  PROVE  \E j \in requests'[r].chosen : SameScope(i, j)
<1>1. Types
  BY DEF IInv
<1>2. Repairable(i)
  BY <1>1, Typed DEF Repairable, Recovered, Active, Tasks
<1>3. PICK j \in Selection(<<"all">>) : SameScope(i, j)
  BY <1>2, AllScopes
<1>4. Selection(requests[r].kind) # {}
  BY <1>3
<1>5. requests' = [requests EXCEPT ![r].phase = "creating", ![r].chosen = Selection(requests[r].kind)]
  BY <1>4 DEF Select
<1>6. requests[r] \in RequestStates /\ requests \in [Requests -> RequestStates]
  BY <1>1, Typed DEF Types
<1>7. requests'[r].chosen = Selection(requests[r].kind)
  BY <1>5, <1>6 DEF RequestStates
<1> QED
  BY <1>3, <1>7

LEMMA StepNoneLeftOut ==
  ASSUME Bounded, IInv, [Next]_vars
  PROVE  NoneLeftOut \/ UNCHANGED vars
<1> SUFFICES ASSUME NEW r \in Requests, requests[r].kind = <<"all">>, requests[r].phase = "selecting",
                    requests'[r].phase \in {"creating", "done"}, Next,
                    NEW i \in DOMAIN tasks, tasks[i].status = "FAILED",
                    \A j \in DOMAIN tasks :
                       SameScope(i, j) => tasks[j].status # "PENDING"
                                          /\ tasks[j].finished <= tasks[i].finished
             PROVE  \E j \in requests'[r].chosen : SameScope(i, j)
  BY DEF NoneLeftOut
<1>1. requests \in [Requests -> RequestStates]
  BY DEF IInv, Types
<1>2. Select(r)
  <2>1. requests' # requests
    OBVIOUS
  <2>2. PICK q \in Requests : Begin(q) \/ Insert(q) \/ Lock(q) \/ Select(q) \/ Create(q) \/ Break(q)
    BY <2>1 DEF Next, Plan, Finish, LoseFile, Audit
  <2>3. q = r
    BY <1>1, <2>2 DEF Begin, Insert, Lock, Select, Create, Break, Answer
  <2>4. ~Break(r)
    BY <1>1 DEF Break, NoRequest
  <2> QED
    BY <2>2, <2>3, <2>4 DEF Begin, Insert, Lock, Create
<1> QED
  BY <1>2, SelectNoneLeftOut

\* A command for everything leaves no logical task out whose latest result is a failure and
\* that nothing else is collecting: of the rows of a scope it takes the newest, and there is
\* one.
THEOREM NothingIsLeftOut ==
  ASSUME Bounded
  PROVE  Spec => [][NoneLeftOut]_vars
<1>1. IInv /\ [Next]_vars => [NoneLeftOut]_vars
  BY StepNoneLeftOut
<1> QED
  BY <1>1, Inductive, PTL DEF Spec
=============================================================================
