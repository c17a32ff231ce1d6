-------------------------- MODULE ProcessingProofs --------------------------
(***************************************************************************)
(* Proofs about Processing, for every set of batches, datasets, threads and *)
(* dependencies and any succession of code releases. IInv is inductive: one *)
(* lemma per action, with one step per conjunct that the action can disturb. *)
(* What it rests on is that an input once delivered stays delivered: rows   *)
(* marked READY are never marked FAILED again, so that neither a failure    *)
(* nor a skip blocks a task that is queued or runs.                         *)
(***************************************************************************)
EXTENDS Processing, FiniteSetTheorems, WellFoundedInduction, TLAPS

-----------------------------------------------------------------------------
(* The inductive invariant.                                                *)

\* The revision of a task is the one its dataset had in some code release so far.
Known(p) == \E c \in 1 .. code : p.rev = Revision[c][p.dataset]

\* A newer processor has taken over; with forward upgrades it stays so.
Old(p) == p.rev < Revision[code][p.dataset]

\* The tasks that have published; at most a planner that read one without a lock has
\* cancelled it since.
Delivered ==
    {p \in Process : status[p] = "SUCCESS" \/ (status[p] = "CANCELLED" /\ Old(p))}

\* A dependency row of task p for dataset d.
RowFits(p, d, row) ==
    /\ d \notin Needs[p.dataset] => row = NoRow
    /\ d \in Needs[p.dataset] => row.status # "NONE"
    /\ row.status = "READY" => row.on \in Delivered
    /\ row.on # None => Key(row.on) = <<d, Scope[p.batch][d]>>

TasksKnown == \A p \in Process : status[p] # "ABSENT" =>
    Known(p) /\ p.dataset \in Affected[p.batch]

AbsentBlank == \A p \in Process : status[p] = "ABSENT" =>
    /\ attempts[p] = 0 /\ limit[p] = MaxAttempts
    /\ \A d \in Dataset : dep[p][d] = NoRow

\* What may still be claimed has an attempt left; every retry of the administrator adds
\* one at most.
AttemptsFit == \A p \in Process :
    /\ attempts[p] <= limit[p]
    /\ limit[p] + retries <= MaxAttempts + MaxRetries
    /\ status[p] \in Mutable => attempts[p] < limit[p]

RowsFit == \A p \in Process : status[p] # "ABSENT" =>
    raw[p] # "NONE" /\ \A d \in Dataset : RowFits(p, d, dep[p][d])

InputsReady == \A p \in Process : status[p] \in {"QUEUED", "RUNNING", "RETRY_WAIT", "SUCCESS"} =>
    raw[p] = "READY" /\ \A d \in Needs[p.dataset] : dep[p][d].status = "READY"

\* The status of a waiting task is the one its rows give.
RowsDecide == \A p \in Process : status[p] \in Replannable =>
    status[p] = Readiness(raw[p], dep[p])

ReleasesDelivered == \A k \in Keys : release[k] # None =>
    Key(release[k]) = k /\ release[k] \in Delivered

DownIsIdle == ~up => planner = NotPlanning /\ \A w \in Worker : worker[w] = None

\* What the planner has read, and what it has locked or inserted by now.
PlannerReads ==
    /\ planner.phase # "idle" => planner.batch \in Batch
    /\ planner.phase # "resolved" => planner.created = {} /\ planner.locked = {} /\ planner.cancelled = {}
    /\ \A p \in Process : planner.phase = "read" =>
          /\ planner.seen[p] # "ABSENT" => status[p] # "ABSENT" /\ p.batch = planner.batch
          /\ planner.seen[p] = "SUCCESS" => status[p] = "SUCCESS"

Planned(p) == p = Current(planner.batch, p.dataset) /\ p.dataset \in Affected[planner.batch]

PlannerHolds == planner.phase = "resolved" =>
    /\ \A p \in planner.created : Planned(p) /\ status[p] = "ABSENT"
    /\ \A p \in planner.locked : Planned(p) /\ status[p] \in Replannable
    /\ \A p \in planner.created \cup planner.locked, d \in Dataset : RowFits(p, d, planner.rows[p][d])
    /\ \A p \in planner.cancelled : Old(p) /\ status[p] # "ABSENT"

ScopesApart == IsFiniteSet(Running) /\ ConcurrencyLimits

IInv ==
    /\ TypeOK
    /\ TasksKnown
    /\ AbsentBlank
    /\ AttemptsFit
    /\ RowsFit
    /\ InputsReady
    /\ RowsDecide
    /\ ReleasesDelivered
    /\ DownIsIdle
    /\ PlannerReads
    /\ PlannerHolds
    /\ ScopesApart
-----------------------------------------------------------------------------
(* Facts about the operators.                                              *)

\* Every set of numbers has a least one: the sets 0 .. n are ordered as the numbers are,
\* and finite sets are well-founded under inclusion.
LEMMA LeastNumber ==
  ASSUME NEW T \in SUBSET Nat, T # {}
  PROVE  \E m \in T : \A n \in T : m <= n
<1> DEFINE Initial == {0 .. n : n \in T}
           R == StrictSubsetOrdering(Nat)
<1>1. Initial \subseteq FiniteSubsetsOf(Nat) /\ Initial # {}
  <2>1. \A n \in T : 0 .. n \subseteq Nat /\ IsFiniteSet(0 .. n)
    BY FS_Interval
  <2> QED
    BY <2>1 DEF FiniteSubsetsOf
<1>2. \E A \in Initial : \A B \in Initial : <<B, A>> \notin R
  <2> HIDE DEF Initial, R
  <2>1. IsWellFoundedOn(R, FiniteSubsetsOf(Nat))
    BY FS_StrictSubsetOrderingWellFounded DEF R
  <2> QED
    BY <1>1, <2>1, WFMin, Zenon
<1>3. PICK m \in T : \A n \in T : <<0 .. n, 0 .. m>> \notin R
  BY <1>2
<1>4. ASSUME NEW n \in T, n < m PROVE FALSE
  <2>1. 0 .. n \subseteq 0 .. m /\ m \in 0 .. m /\ m \notin 0 .. n
    BY <1>4
  <2>2. <<0 .. n, 0 .. m>> \in R
    BY <2>1 DEF StrictSubsetOrdering
  <2> QED
    BY <1>3, <2>2
<1> QED
  BY <1>4

\* Among known tasks of one dataset there is a newest.
LEMMA NewestIsThere ==
  ASSUME TypeOK, NEW S \in SUBSET Process, S # {}, NEW e \in Dataset,
         \A p \in S : p.dataset = e /\ Known(p)
  PROVE  Newest(S) \in S
<1> USE ProcessingAssumption
<1> DEFINE Age == {n \in Nat : n < code /\ \E p \in S : p.rev = Revision[code - n][e]}
<1>1. code \in 1 .. LastCode
  BY DEF TypeOK
<1>2. \A p \in S : \E n \in Age : p.rev = Revision[code - n][e]
  <2> SUFFICES ASSUME NEW p \in S PROVE \E n \in Age : p.rev = Revision[code - n][e]
    OBVIOUS
  <2>1. PICK c \in 1 .. code : p.rev = Revision[c][e]
    BY DEF Known
  <2>2. /\ code - c \in Nat /\ code - c < code
        /\ code - (code - c) = c
    BY <1>1
  <2> QED
    BY <2>1, <2>2
<1>3. PICK n \in Age : \A m \in Age : n <= m
  <2>1. Age # {}
    BY <1>2
  <2> HIDE DEF Age
  <2>2. Age \in SUBSET Nat
    BY DEF Age
  <2> QED
    BY <2>1, <2>2, LeastNumber
<1>4. PICK p \in S : p.rev = Revision[code - n][e]
  BY <1>3
<1>5. \A q \in S : q.rev <= p.rev
  <2> SUFFICES ASSUME NEW q \in S PROVE q.rev <= p.rev
    OBVIOUS
  <2>1. PICK m \in Age : q.rev = Revision[code - m][e]
    BY <1>2
  <2>2. n <= m /\ m < code /\ m \in Nat /\ n \in Nat /\ n < code
    BY <1>3, <2>1
  <2>3. /\ code - m \in 1 .. LastCode /\ code - n \in 1 .. LastCode
        /\ code - m <= code - n
    BY <1>1, <2>2
  <2> QED
    BY <1>4, <2>1, <2>3
<1> QED
  BY <1>4, <1>5 DEF Newest

\* The three answers of _refresh_task_readiness.
LEMMA ReadinessValues ==
  ASSUME NEW r, NEW rows
  PROVE  Readiness(r, rows) \in {"QUEUED", "BLOCKED", "WAITING_DEPENDENCY"}
  BY DEF Readiness

\* A task is queued on rows that are all READY.
LEMMA QueuedIsReady ==
  ASSUME NEW r, NEW rows, Readiness(r, rows) = "QUEUED"
  PROVE  r \in {"NONE", "READY"} /\ \A d \in Dataset : rows[d].status \in {"NONE", "READY"}
<1> DEFINE found == ({r} \cup {rows[d].status : d \in Dataset}) \ {"NONE"}
<1>1. found = {"READY"}
  <2> HIDE DEF found
  <2>1. Readiness(r, rows) = IF found = {"READY"} THEN "QUEUED"
                             ELSE IF found \cap {"MISSING", "FAILED"} # {} THEN "BLOCKED"
                             ELSE "WAITING_DEPENDENCY"
    BY DEF Readiness, found
  <2> QED
    BY <2>1
<1>2. \A x \in {r} \cup {rows[d].status : d \in Dataset} : x \in {"NONE", "READY"}
  BY <1>1
<1> QED
  BY <1>2

\* A row that failed blocks.
LEMMA FailedRowBlocks ==
  ASSUME NEW r, NEW rows, NEW d \in Dataset, rows[d].status = "FAILED"
  PROVE  Readiness(r, rows) = "BLOCKED"
<1> DEFINE found == ({r} \cup {rows[e].status : e \in Dataset}) \ {"NONE"}
<1>1. "FAILED" \in found
  OBVIOUS
<1>2. Readiness(r, rows) = IF found = {"READY"} THEN "QUEUED"
                           ELSE IF found \cap {"MISSING", "FAILED"} # {} THEN "BLOCKED"
                           ELSE "WAITING_DEPENDENCY"
  BY DEF Readiness
<1> HIDE DEF found
<1> QED
  BY <1>1, <1>2

LEMMA CurrentIsProcess ==
  ASSUME TypeOK, NEW b \in Batch, NEW d \in Dataset
  PROVE  Current(b, d) \in Process
  BY ProcessingAssumption DEF TypeOK, Current, Process

LEMMA KeyIsKey ==
  ASSUME NEW p \in Process
  PROVE  Key(p) \in Keys
  BY DEF Process, Key, Keys

\* An input that was delivered stays so, whatever code is released next.
LEMMA DeliveredStays ==
  ASSUME TypeOK, code' \in code .. LastCode,
         \A p \in Process : p \in Delivered =>
            status'[p] = status[p] \/ (status'[p] = "CANCELLED" /\ Old(p))
  PROVE  Delivered \subseteq Delivered'
<1> SUFFICES ASSUME NEW p \in Delivered PROVE p \in Delivered'
  OBVIOUS
<1>1. p \in Process /\ p.dataset \in Dataset /\ p.rev \in Nat
  BY ProcessingAssumption DEF Delivered, Process
<1>2. Old(p) => Old(p)'
  <2>1. /\ code \in 1 .. LastCode /\ code' \in 1 .. LastCode /\ code <= code'
        /\ LastCode \in Nat
    BY ProcessingAssumption DEF TypeOK
  <2>2. Revision[code][p.dataset] <= Revision[code'][p.dataset]
    BY <1>1, <2>1, ProcessingAssumption
  <2>3. Revision[code][p.dataset] \in Nat /\ Revision[code'][p.dataset] \in Nat
    BY <1>1, <2>1, ProcessingAssumption
  <2> QED
    BY <1>1, <2>2, <2>3 DEF Old
<1> QED
  BY <1>1, <1>2 DEF Delivered

\* What the planner has read and locked stays as it was while others leave its rows alone.
LEMMA PlannerKept ==
  ASSUME TypeOK, PlannerReads, PlannerHolds, UNCHANGED <<planner, code>>,
         \A p \in Process : status[p] # "ABSENT" => status'[p] # "ABSENT",
         \A p \in Process : status[p] = "SUCCESS" => status'[p] = "SUCCESS",
         \A p \in planner.created \cup planner.locked : status'[p] = status[p],
         Delivered \subseteq Delivered'
  PROVE  PlannerReads' /\ PlannerHolds'
<1>1. planner.created \subseteq Process /\ planner.locked \subseteq Process /\ planner.cancelled \subseteq Process
  BY DEF TypeOK
<1>2. PlannerReads'
  BY DEF PlannerReads
<1>3. PlannerHolds'
  BY <1>1 DEF PlannerHolds, Planned, Current, RowFits, Old
<1> QED
  BY <1>2, <1>3

\* Steps that touch no task and no release.
LEMMA TasksUntouched ==
  ASSUME IInv, UNCHANGED <<taskVars, release, code, retries>>
  PROVE  /\ Delivered' = Delivered
         /\ TasksKnown' /\ AbsentBlank' /\ AttemptsFit' /\ RowsFit' /\ InputsReady'
         /\ RowsDecide' /\ ReleasesDelivered' /\ ScopesApart'
<1> USE DEF IInv, taskVars
<1>1. Delivered' = Delivered
  BY DEF Delivered, Old
<1>2. TasksKnown' /\ AbsentBlank' /\ AttemptsFit'
  BY DEF TasksKnown, Known, AbsentBlank, AttemptsFit
<1>3. RowsFit' /\ InputsReady' /\ RowsDecide'
  BY <1>1 DEF RowsFit, RowFits, InputsReady, RowsDecide
<1>4. ReleasesDelivered'
  BY <1>1 DEF ReleasesDelivered
<1>5. ScopesApart'
  BY DEF ScopesApart, ConcurrencyLimits, Running
<1> QED
  BY <1>1, <1>2, <1>3, <1>4, <1>5

\* What the planner holds waits or is not there yet.
LEMMA HeldWaits ==
  ASSUME IInv, NEW p \in planner.created \cup planner.locked
  PROVE  p \in Process /\ status[p] \in Replannable \cup {"ABSENT"} /\ p = Current(p.batch, p.dataset)
<1>1. planner.created \subseteq Process /\ planner.locked \subseteq Process
  BY DEF IInv, TypeOK
<1>2. planner.phase = "resolved"
  BY DEF IInv, PlannerReads
<1> QED
  BY <1>1, <1>2 DEF IInv, PlannerHolds, Planned, Current

LEMMA CountersAreNumbers ==
  ASSUME TypeOK, NEW p \in Process
  PROVE  /\ attempts[p] \in Nat /\ limit[p] \in Nat \ {0} /\ retries \in Nat
         /\ MaxAttempts + MaxRetries \in Nat
<1>1. MaxAttempts \in Nat /\ MaxRetries \in Nat
  BY ProcessingAssumption
<1>2. /\ attempts[p] \in 0 .. MaxAttempts + MaxRetries
      /\ limit[p] \in 1 .. MaxAttempts + MaxRetries
      /\ retries \in 0 .. MaxRetries
  BY DEF TypeOK
<1> QED
  BY <1>1, <1>2

\* A planner at rest holds nothing.
LEMMA RestHoldsNothing ==
  ASSUME planner' = NotPlanning
  PROVE  /\ planner' \in [phase : {"idle", "read", "resolved"}, batch : Batch \cup {None},
                          seen : [Process -> Statuses], created : SUBSET Process,
                          locked : SUBSET Process, cancelled : SUBSET Process,
                          rows : [Process -> [Dataset -> Rows]], complete : BOOLEAN]
         /\ PlannerReads' /\ PlannerHolds'
<1>1. NoRow \in Rows
  BY DEF NoRow, Rows, RowStatuses
<1>2. NotPlanning \in [phase : {"idle", "read", "resolved"}, batch : Batch \cup {None},
                       seen : [Process -> Statuses], created : SUBSET Process,
                       locked : SUBSET Process, cancelled : SUBSET Process,
                       rows : [Process -> [Dataset -> Rows]], complete : BOOLEAN]
  BY <1>1 DEF NotPlanning, Statuses
<1>3. PlannerReads' /\ PlannerHolds'
  BY DEF NotPlanning, PlannerReads, PlannerHolds
<1> QED
  BY <1>2, <1>3

\* Fewer tasks that run.
LEMMA FewerRun ==
  ASSUME ScopesApart, Running' \subseteq Running
  PROVE  ScopesApart'
<1>1. IsFiniteSet(Running') /\ Cardinality(Running') <= Cardinality(Running)
  BY FS_Subset DEF ScopesApart
<1>2. Cardinality(Running') \in Nat /\ Cardinality(Running) \in Nat /\ MaxRunning \in Nat
  BY <1>1, FS_CardinalityType, ProcessingAssumption DEF ScopesApart
<1>3. Cardinality(Running') <= MaxRunning
  BY <1>1, <1>2 DEF ScopesApart, ConcurrencyLimits
<1> QED
  BY <1>1, <1>3 DEF ScopesApart, ConcurrencyLimits, Key

\* Marking changes the status of the rows that resolve to p, and nothing else.
LEMMA MarkedFits ==
  ASSUME TypeOK, NEW p \in Process, NEW s \in RowStatuses
  PROVE  /\ Marked(p, s) \in [Process -> [Dataset -> Rows]]
         /\ \A q \in Process, d \in Dataset :
              /\ Marked(p, s)[q][d].on = dep[q][d].on
              /\ dep[q][d].on = p => Marked(p, s)[q][d].status = s
              /\ dep[q][d].on # p => Marked(p, s)[q][d] = dep[q][d]
         /\ \A q \in Process : q \notin Dependents(p) => Marked(p, s)[q] = dep[q]
<1> DEFINE mark(row) == [row EXCEPT !.status = s]
<1>0. \A row \in Rows : mark(row) \in Rows /\ mark(row).status = s /\ mark(row).on = row.on
  BY DEF Rows
<1>1. /\ dep \in [Process -> [Dataset -> Rows]]
      /\ Marked(p, s) = [q \in Process |-> [d \in Dataset |->
                           IF dep[q][d].on = p THEN mark(dep[q][d]) ELSE dep[q][d]]]
  BY DEF Marked, TypeOK
<1> HIDE DEF mark
<1>2. Marked(p, s) \in [Process -> [Dataset -> Rows]]
  BY <1>0, <1>1
<1>3. ASSUME NEW q \in Process, q \notin Dependents(p)
      PROVE  Marked(p, s)[q] = dep[q]
  <2>1. \A d \in Dataset : dep[q][d].on # p
    BY <1>3 DEF Dependents
  <2>2. Marked(p, s)[q] = [d \in Dataset |-> dep[q][d]]
    BY <1>1, <2>1
  <2>3. dep[q] = [d \in Dataset |-> dep[q][d]]
    BY <1>1
  <2> QED
    BY <2>2, <2>3
<1>4. \A q \in Process, d \in Dataset :
        Marked(p, s)[q][d] = IF dep[q][d].on = p THEN mark(dep[q][d]) ELSE dep[q][d]
  BY <1>1
<1>5. \A q \in Process, d \in Dataset : dep[q][d] \in Rows
  BY <1>1
<1> QED
  BY <1>0, <1>2, <1>3, <1>4, <1>5

\* Nothing that is queued, runs or has published depends on a task that did not publish.
LEMMA ReadyDependOnDelivered ==
  ASSUME IInv, NEW p \in Process, p \notin Delivered,
         NEW q \in Dependents(p)
  PROVE  q \in Process /\ status[q] \in Replannable \cup {"FAILED", "SKIPPED", "CANCELLED"}
<1>1. PICK d \in Dataset : q \in Process /\ dep[q][d].on = p
  BY DEF Dependents
<1>2. p # None
  BY ProcessingAssumption
<1>3. status[q] # "ABSENT"
  BY <1>1, <1>2 DEF IInv, AbsentBlank, NoRow
<1>4. RowFits(q, d, dep[q][d])
  BY <1>1, <1>3 DEF IInv, RowsFit
<1>5. d \in Needs[q.dataset] /\ dep[q][d].status # "READY"
  BY <1>1, <1>2, <1>4 DEF RowFits, NoRow
<1>6. status[q] \notin {"QUEUED", "RUNNING", "RETRY_WAIT", "SUCCESS"}
  BY <1>1, <1>5 DEF IInv, InputsReady
<1>7. status[q] \in Statuses
  BY <1>1 DEF IInv, TypeOK
<1> QED
  BY <1>1, <1>3, <1>6, <1>7 DEF Statuses, Terminal, Mutable, Replannable

-----------------------------------------------------------------------------
(* The actions.                                                            *)

\* Nothing is planned at first.
LEMMA InitInv == Init => IInv
<1> SUFFICES ASSUME Init PROVE IInv
  OBVIOUS
<1> USE ProcessingAssumption DEF Init
<1>1. NoRow \in Rows
  BY DEF NoRow, Rows, RowStatuses
<1>2. NotPlanning \in [phase : {"idle", "read", "resolved"}, batch : Batch \cup {None},
                       seen : [Process -> Statuses], created : SUBSET Process,
                       locked : SUBSET Process, cancelled : SUBSET Process,
                       rows : [Process -> [Dataset -> Rows]], complete : BOOLEAN]
  BY <1>1 DEF NotPlanning, Statuses
<1>3. TypeOK
  BY <1>1, <1>2 DEF TypeOK, Statuses
<1>4. TasksKnown /\ AbsentBlank /\ AttemptsFit
  BY DEF TasksKnown, AbsentBlank, AttemptsFit, Mutable
<1>5. RowsFit /\ InputsReady /\ RowsDecide /\ ReleasesDelivered
  BY DEF RowsFit, InputsReady, RowsDecide, ReleasesDelivered, Replannable
<1>6. DownIsIdle /\ PlannerReads /\ PlannerHolds
  BY DEF DownIsIdle, PlannerReads, PlannerHolds, NotPlanning
<1>7. ScopesApart
  <2>1. Running = {}
    BY DEF Running
  <2>2. IsFiniteSet(Running) /\ Cardinality(Running) = 0
    BY <2>1, FS_EmptySet
  <2> QED
    BY <2>1, <2>2 DEF ScopesApart, ConcurrencyLimits
<1> QED
  BY <1>3, <1>4, <1>5, <1>6, <1>7 DEF IInv

\* A batch is closed: its raw assets are known.
LEMMA CloseBatchInv ==
  ASSUME IInv, NEW b \in Batch, NEW datasets \in SUBSET Affected[b], CloseBatch(b, datasets)
  PROVE  IInv'
<1> USE DEF IInv, CloseBatch, bounds
<1>1. TypeOK'
  BY ProcessingAssumption DEF TypeOK, taskVars
<1>2. DownIsIdle'
  BY DEF DownIsIdle
<1>3. PlannerReads' /\ PlannerHolds'
  BY PlannerKept, TasksUntouched DEF taskVars
<1> QED
  BY <1>1, <1>2, <1>3, TasksUntouched

\* The planner reads the tasks of a batch.
LEMMA PlanBeginInv ==
  ASSUME IInv, NEW b \in Batch, PlanBegin(b)
  PROVE  IInv'
<1> USE DEF IInv, PlanBegin, bounds
<1>1. /\ planner'.phase = "read" /\ planner'.batch = b
      /\ planner'.seen = [p \in Process |-> IF p.batch = b THEN status[p] ELSE "ABSENT"]
      /\ planner'.created = {} /\ planner'.locked = {} /\ planner'.cancelled = {}
  BY DEF NotPlanning
<1>2. TypeOK'
  <2>1. NoRow \in Rows
    BY DEF NoRow, Rows, RowStatuses
  <2>2. [p \in Process |-> IF p.batch = b THEN status[p] ELSE "ABSENT"] \in [Process -> Statuses]
    BY DEF TypeOK, Statuses
  <2>3. planner' \in [phase : {"idle", "read", "resolved"}, batch : Batch \cup {None},
                     seen : [Process -> Statuses], created : SUBSET Process,
                     locked : SUBSET Process, cancelled : SUBSET Process,
                     rows : [Process -> [Dataset -> Rows]], complete : BOOLEAN]
    BY <2>1, <2>2 DEF NotPlanning
  <2> QED
    BY <2>3 DEF TypeOK, taskVars
<1>3. DownIsIdle'
  BY DEF DownIsIdle
<1>4. PlannerReads' /\ PlannerHolds'
  BY <1>1 DEF PlannerReads, PlannerHolds, taskVars
<1> QED
  BY <1>2, <1>3, <1>4, TasksUntouched

\* The task the planner keeps for a dataset is the current one, or one that has published.
LEMMA KeptFits ==
  ASSUME IInv, planner.phase = "read", NEW d \in Dataset
  PROVE  LET b == planner.batch
             p == Kept(b, d)
         IN  /\ p \in Process /\ p.batch = b /\ p.dataset = d
             /\ p # Current(b, d) => status[p] = "SUCCESS"
<1> DEFINE b == planner.batch
           p == Kept(b, d)
           old == planner.seen[Current(b, d)] = "ABSENT" /\ Prior(b, d) # {}
                  /\ planner.seen[Newest(Prior(b, d))] = "SUCCESS"
<1>1. b \in Batch /\ TypeOK
  BY DEF IInv, PlannerReads
<1>2. Current(b, d) \in Process
  BY <1>1, CurrentIsProcess
<1>3. ASSUME Prior(b, d) # {}
      PROVE  Newest(Prior(b, d)) \in Prior(b, d)
  <2>1. \A q \in Prior(b, d) : q \in Process /\ q.dataset = d /\ Known(q)
    BY DEF IInv, PlannerReads, Prior, TasksKnown
  <2>2. Prior(b, d) \in SUBSET Process
    BY DEF Prior
  <2> HIDE DEF b
  <2> QED
    BY <1>1, <1>3, <2>1, <2>2, NewestIsThere
<1>4. CASE old
  <2>1. p = Newest(Prior(b, d))
    BY <1>4 DEF Kept
  <2>2. p \in Process /\ p.batch = b /\ p.dataset = d
    BY <1>3, <1>4, <2>1 DEF Prior
  <2>3. status[p] = "SUCCESS"
    BY <1>4, <2>1, <2>2 DEF IInv, PlannerReads
  <2> QED
    BY <2>2, <2>3
<1>5. CASE ~old
  <2>1. p = Current(b, d)
    BY <1>5 DEF Kept
  <2> QED
    BY <1>2, <2>1 DEF Current
<1> QED
  BY <1>4, <1>5

\* A row the planner resolves names a task of the dataset in the right scope, and is READY
\* only if that one has published.
LEMMA ResolveFits ==
  ASSUME IInv, planner.phase = "read", NEW d \in Dataset, NEW inserted \in SUBSET Process,
         \A p \in inserted : p = Current(planner.batch, p.dataset)
  PROVE  LET row == Resolve(planner.batch, d, inserted)
         IN  /\ row \in Rows
             /\ row.status # "NONE"
             /\ row.status = "READY" => row.on \in Delivered
             /\ row.on # None => Key(row.on) = <<d, Scope[planner.batch][d]>>
<1> DEFINE b == planner.batch
           u == Upstream(b, d, inserted)
           there == {p \in Process : /\ p.batch = b /\ p.dataset = d
                                     /\ status[p] # "ABSENT" \/ p \in inserted}
           r == release[<<d, Scope[b][d]>>]
<1>1. b \in Batch /\ TypeOK
  BY DEF IInv, PlannerReads
<1>2. u # None => u \in Process /\ u.batch = b /\ u.dataset = d
  <2>1. CASE Current(b, d) \in there
    BY <2>1 DEF Upstream
  <2>2. CASE Current(b, d) \notin there /\ there # {}
    <3>1. \A p \in there : p \in Process /\ p.dataset = d /\ Known(p)
      BY <2>2 DEF IInv, TasksKnown
    <3>2. u = Newest(there)
      BY <2>2 DEF Upstream
    <3>3. there \in SUBSET Process
      OBVIOUS
    <3>4. Newest(there) \in there
      <4> HIDE DEF there
      <4> QED
        BY <1>1, <2>2, <3>1, <3>3, NewestIsThere
    <3> QED
      BY <3>2, <3>4
  <2>3. CASE there = {}
    BY <2>3 DEF Upstream
  <2> QED
    BY <2>1, <2>2, <2>3
<1>3. CASE u # None
  <2>1. Resolve(b, d, inserted) = [status |-> RowStatus(status[u]), on |-> u]
    BY <1>3 DEF Resolve
  <2>2. u \in Process /\ Key(u) = <<d, Scope[b][d]>>
    BY <1>2, <1>3 DEF Key
  <2>3. /\ RowStatus(status[u]) \in {"READY", "FAILED", "WAITING"}
        /\ RowStatus(status[u]) = "READY" => u \in Delivered
    BY <2>2 DEF RowStatus, Delivered
  <2> QED
    BY <2>1, <2>2, <2>3 DEF Rows, RowStatuses
<1>4. CASE u = None
  <2>1. Resolve(b, d, inserted) = [status |-> IF r # None THEN "READY" ELSE "MISSING", on |-> r]
    BY <1>4 DEF Resolve
  <2>2. <<d, Scope[b][d]>> \in Keys
    BY <1>1 DEF Keys
  <2>3. /\ r \in Process \cup {None}
        /\ r # None => r \in Delivered /\ Key(r) = <<d, Scope[b][d]>>
    BY <2>2 DEF IInv, TypeOK, ReleasesDelivered
  <2> QED
    BY <2>1, <2>3 DEF Rows, RowStatuses
<1> QED
  BY <1>3, <1>4

\* The planner inserts, locks and resolves; nobody sees it before the commit.
LEMMA PlanResolveInv ==
  ASSUME IInv, NEW skipped \in SUBSET Process, PlanResolve(skipped)
  PROVE  IInv'
<1> DEFINE b == planner.batch
           kept == {Kept(b, d) : d \in Affected[b]}
           inserted == {p \in kept : status[p] = "ABSENT"}
           locked == {p \in kept : status[p] \in Replannable} \ skipped
           rows == [p \in Process |->
                      [d \in Dataset |->
                         IF p \in inserted \cup locked /\ d \in Needs[p.dataset]
                         THEN Resolve(b, d, inserted) ELSE NoRow]]
<1>1. /\ b \in Batch /\ TypeOK /\ planner.phase = "read"
      /\ Affected[b] \subseteq Dataset
  BY ProcessingAssumption DEF IInv, PlannerReads, PlanResolve
<1>2. /\ planner'.phase = "resolved" /\ planner'.batch = b /\ planner'.seen = planner.seen
      /\ planner'.created = inserted /\ planner'.locked = locked
      /\ planner'.cancelled = UNION {Replaced(b, d) : d \in Affected[b]}
      /\ planner'.rows = rows
      /\ planner'.complete = Complete(skipped, inserted \cup locked, rows)
  BY DEF PlanResolve, IInv, TypeOK
<1>3. \A p \in inserted \cup locked :
        p \in Process /\ p = Current(b, p.dataset) /\ p.batch = b /\ p.dataset \in Affected[b]
  <2> SUFFICES ASSUME NEW p \in inserted \cup locked
               PROVE  p \in Process /\ p = Current(b, p.dataset) /\ p.batch = b /\ p.dataset \in Affected[b]
    OBVIOUS
  <2>1. PICK d \in Affected[b] : p = Kept(b, d)
    OBVIOUS
  <2>2. status[p] # "SUCCESS"
    BY DEF Replannable
  <2> QED
    BY <1>1, <2>1, <2>2, KeptFits
<1>4. inserted \in SUBSET Process /\ locked \in SUBSET Process
  BY <1>3
<1>5. \A d \in Dataset :
        LET row == Resolve(b, d, inserted)
        IN  /\ row \in Rows
            /\ row.status # "NONE"
            /\ row.status = "READY" => row.on \in Delivered
            /\ row.on # None => Key(row.on) = <<d, Scope[b][d]>>
  <2>1. \A p \in inserted : p = Current(b, p.dataset)
    BY <1>3
  <2> HIDE DEF inserted
  <2> QED
    BY <1>1, <1>4, <2>1, ResolveFits
<1>6. NoRow \in Rows
  BY DEF NoRow, Rows, RowStatuses
<1>7. rows \in [Process -> [Dataset -> Rows]]
  <2> HIDE DEF inserted, locked, b
  <2> QED
    BY <1>5, <1>6
<1>8. \A p \in inserted \cup locked, d \in Dataset : RowFits(p, d, rows[p][d])
  <2> SUFFICES ASSUME NEW p \in inserted \cup locked, NEW d \in Dataset
               PROVE  RowFits(p, d, rows[p][d])
    OBVIOUS
  <2>1. p \in Process /\ p.batch = b
    BY <1>3
  <2>2. rows[p][d] = IF d \in Needs[p.dataset] THEN Resolve(b, d, inserted) ELSE NoRow
    BY <2>1
  <2> HIDE DEF rows, inserted, locked, b
  <2>3. CASE d \in Needs[p.dataset]
    BY <1>5, <2>1, <2>2, <2>3 DEF RowFits
  <2>4. CASE d \notin Needs[p.dataset]
    BY <2>2, <2>4 DEF RowFits, NoRow
  <2> QED
    BY <2>3, <2>4
<1>9. \A p \in planner'.cancelled : p \in Process /\ Old(p) /\ status[p] # "ABSENT"
  <2> SUFFICES ASSUME NEW d \in Affected[b], NEW p \in Replaced(b, d)
               PROVE  p \in Process /\ Old(p) /\ status[p] # "ABSENT"
    BY <1>2
  <2>1. /\ p \in Process /\ p.batch = b /\ p.dataset = d /\ p # Current(b, d)
        /\ planner.seen[p] # "ABSENT"
    BY DEF Replaced, Prior
  <2>2. status[p] # "ABSENT"
    BY <1>1, <2>1 DEF IInv, PlannerReads
  <2>3. Known(p)
    BY <2>1, <2>2 DEF IInv, TasksKnown
  <2>4. p.rev # Revision[code][d]
    BY <2>1 DEF Process, Current
  <2>5. Old(p)
    <3>1. PICK c \in 1 .. code : p.rev = Revision[c][d]
      BY <2>1, <2>3 DEF Known
    <3>2. code \in 1 .. LastCode /\ c \in 1 .. LastCode /\ c <= code /\ d \in Dataset
      BY <1>1, ProcessingAssumption DEF TypeOK
    <3>3. Revision[c][d] <= Revision[code][d] /\ Revision[c][d] \in Nat /\ Revision[code][d] \in Nat
      BY <3>2, ProcessingAssumption
    <3> QED
      BY <2>1, <2>4, <3>1, <3>3 DEF Old
  <2> QED
    BY <2>1, <2>2, <2>5
<1>10. TypeOK'
  <2>1. planner'.cancelled \in SUBSET Process
    BY <1>9
  <2>2. planner'.complete \in BOOLEAN
    BY <1>2 DEF Complete
  <2>3. planner' \in [phase : {"idle", "read", "resolved"}, batch : Batch \cup {None},
                     seen : [Process -> Statuses], created : SUBSET Process,
                     locked : SUBSET Process, cancelled : SUBSET Process,
                     rows : [Process -> [Dataset -> Rows]], complete : BOOLEAN]
    <3> HIDE DEF rows, inserted, locked
    <3>1. planner' = [planner EXCEPT
                !.phase = "resolved", !.created = inserted, !.locked = locked,
                !.cancelled = UNION {Replaced(b, d) : d \in Affected[b]},
                !.rows = rows,
                !.complete = Complete(skipped, inserted \cup locked, rows)]
      BY DEF PlanResolve, rows, inserted, locked
    <3> QED
      BY <1>1, <1>2, <1>4, <1>7, <2>1, <2>2, <3>1 DEF TypeOK
  <2> QED
    BY <1>1, <2>3 DEF TypeOK, PlanResolve, taskVars, bounds
<1>11. DownIsIdle'
  BY <1>1 DEF DownIsIdle, PlanResolve, IInv, NotPlanning
<1>12. PlannerReads'
  BY <1>1, <1>2 DEF PlannerReads
<1>13. PlannerHolds'
  <2>1. UNCHANGED <<status, code>> /\ Delivered' = Delivered
    BY TasksUntouched DEF PlanResolve, taskVars, bounds
  <2> HIDE DEF rows, inserted, locked, b
  <2>2. \A p \in inserted : status[p] = "ABSENT"
    BY DEF inserted
  <2>3. \A p \in locked : status[p] \in Replannable
    BY DEF locked
  <2> QED
    BY <1>2, <1>3, <1>8, <1>9, <2>1, <2>2, <2>3 DEF PlannerHolds, Planned, Current, RowFits, Old, b
<1> QED
  BY <1>10, <1>11, <1>12, <1>13, TasksUntouched DEF IInv, PlanResolve, bounds

\* The planner commits: the cancelled tasks are old, the others wait or are new.
LEMMA PlanCommitInv ==
  ASSUME IInv, PlanCommit
  PROVE  IInv'
<1> DEFINE resolved == planner.created \cup planner.locked
           new(p) == Readiness(RawStatus(p), planner.rows[p])
<1>1. /\ planner.phase = "resolved" /\ planner.batch \in Batch /\ TypeOK
      /\ planner.cancelled \subseteq Process /\ resolved \subseteq Process
  BY DEF PlanCommit, IInv, TypeOK, PlannerReads
<1>2. \A p \in Process : /\ status'[p] = CASE p \in planner.cancelled -> "CANCELLED"
                                           [] p \in resolved -> new(p)
                                           [] OTHER -> status[p]
                         /\ raw'[p] = IF p \in resolved THEN RawStatus(p) ELSE raw[p]
                         /\ dep'[p] = IF p \in resolved THEN planner.rows[p] ELSE dep[p]
  BY DEF PlanCommit
<1>3. \A p \in planner.cancelled : Old(p) /\ status[p] # "ABSENT"
  BY <1>1 DEF IInv, PlannerHolds
<1>4. \A p \in resolved : /\ p = Current(planner.batch, p.dataset)
                          /\ p.dataset \in Affected[planner.batch]
                          /\ p.dataset \in Dataset
                          /\ status[p] \in Replannable \cup {"ABSENT"}
  BY <1>1 DEF IInv, PlannerHolds, Planned, Process
<1>5. \A p \in resolved : p \notin planner.cancelled
  <2> SUFFICES ASSUME NEW p \in resolved PROVE ~Old(p)
    BY <1>3
  <2>1. p.rev = Revision[code][p.dataset] /\ p.rev \in Nat
    BY <1>1, <1>4, ProcessingAssumption DEF Current, Process, TypeOK
  <2> QED
    BY <2>1 DEF Old
<1>6. \A p \in resolved : new(p) \in {"QUEUED", "BLOCKED", "WAITING_DEPENDENCY"}
                          /\ RawStatus(p) \in {"READY", "FAILED"}
  BY ReadinessValues DEF RawStatus
<1>7. \A p \in Process :
        /\ p \in planner.cancelled => status'[p] = "CANCELLED"
        /\ p \in resolved => status'[p] = new(p) /\ raw'[p] = RawStatus(p) /\ dep'[p] = planner.rows[p]
        /\ p \notin resolved => raw'[p] = raw[p] /\ dep'[p] = dep[p]
        /\ p \notin resolved \cup planner.cancelled => status'[p] = status[p]
  <2> HIDE DEF resolved, new
  <2> QED
    BY <1>2, <1>5
<1> HIDE DEF new
<1>8. Delivered \subseteq Delivered'
  <2>1. \A p \in Delivered : p \notin resolved
    BY <1>4 DEF Delivered, Replannable
  <2>2. code' \in code .. LastCode
    BY <1>1, ProcessingAssumption DEF PlanCommit, TypeOK
  <2> QED
    BY <1>1, <1>3, <1>7, <2>1, <2>2, DeliveredStays
<1>9. TypeOK'
  <2>1. status' \in [Process -> Statuses]
    <3>1. \A p \in Process : status'[p] \in Statuses
      BY <1>1, <1>6, <1>7 DEF TypeOK, Statuses, Terminal, Mutable
    <3>2. status' = [p \in Process |-> status'[p]]
      BY DEF PlanCommit
    <3> QED
      BY <3>1, <3>2
  <2>2. raw' \in [Process -> {"NONE", "READY", "FAILED"}]
    BY <1>1, <1>6 DEF PlanCommit, TypeOK
  <2>3. dep' \in [Process -> [Dataset -> Rows]]
    BY <1>1 DEF PlanCommit, TypeOK
  <2>4. planned' \in [Batch -> 0 .. LastCode]
    BY <1>1, ProcessingAssumption DEF PlanCommit, TypeOK
  <2>5. planner' = NotPlanning
    BY DEF PlanCommit
  <2> QED
    BY <1>1, <2>1, <2>2, <2>3, <2>4, <2>5, RestHoldsNothing DEF PlanCommit, TypeOK, bounds
<1>10. TasksKnown'
  <2> SUFFICES ASSUME NEW p \in Process, status'[p] # "ABSENT"
               PROVE  Known(p)' /\ p.dataset \in Affected[p.batch]
    BY DEF TasksKnown
  <2>1. CASE p \in resolved
    <3>1. p.rev = Revision[code][p.dataset] /\ p.batch = planner.batch
      BY <1>4, <2>1 DEF Current
    <3>2. code \in 1 .. code
      BY <1>1, ProcessingAssumption DEF TypeOK
    <3> QED
      BY <1>4, <2>1, <3>1, <3>2 DEF Known, PlanCommit
  <2>2. CASE p \notin resolved
    <3>1. status[p] # "ABSENT"
      BY <1>3, <1>7, <2>2
    <3> QED
      BY <3>1 DEF IInv, TasksKnown, Known, PlanCommit
  <2> QED
    BY <2>1, <2>2
<1>11. AbsentBlank'
  <2> SUFFICES ASSUME NEW p \in Process, status'[p] = "ABSENT"
               PROVE  status[p] = "ABSENT" /\ dep'[p] = dep[p]
    BY DEF AbsentBlank, IInv, PlanCommit
  <2> QED
    BY <1>6, <1>7
<1>12. AttemptsFit'
  <2> SUFFICES ASSUME NEW p \in Process, status'[p] \in Mutable
               PROVE  attempts[p] < limit[p]
    BY DEF AttemptsFit, IInv, PlanCommit, bounds
  <2>1. CASE p \in resolved /\ status[p] = "ABSENT"
    BY <1>1, <2>1, ProcessingAssumption DEF IInv, AbsentBlank
  <2>2. CASE p \in resolved /\ status[p] \in Replannable
    BY <1>1, <2>2 DEF IInv, AttemptsFit, Replannable, Mutable
  <2>3. CASE p \notin resolved
    BY <1>7, <2>3 DEF IInv, AttemptsFit, Mutable
  <2> QED
    BY <1>4, <2>1, <2>2, <2>3
<1>13. \A p \in resolved, d \in Dataset : RowFits(p, d, planner.rows[p][d])
  BY <1>1 DEF IInv, PlannerHolds
<1>14. RowsFit'
  <2> SUFFICES ASSUME NEW p \in Process, status'[p] # "ABSENT"
               PROVE  raw'[p] # "NONE" /\ \A d \in Dataset : RowFits(p, d, dep[p][d])'
    BY DEF RowsFit
  <2>1. CASE p \in resolved
    BY <1>6, <1>7, <1>8, <1>13, <2>1 DEF RowFits
  <2>2. CASE p \notin resolved
    <3>1. status[p] # "ABSENT" /\ raw'[p] = raw[p] /\ dep'[p] = dep[p]
      BY <1>3, <1>7, <2>2
    <3> QED
      BY <1>8, <3>1 DEF IInv, RowsFit, RowFits
  <2> QED
    BY <2>1, <2>2
<1>15. InputsReady'
  <2> SUFFICES ASSUME NEW p \in Process, status'[p] \in {"QUEUED", "RUNNING", "RETRY_WAIT", "SUCCESS"}
               PROVE  raw'[p] = "READY" /\ \A d \in Needs[p.dataset] : dep'[p][d].status = "READY"
    BY DEF InputsReady
  <2>1. CASE p \in resolved
    <3>1. Readiness(RawStatus(p), planner.rows[p]) = "QUEUED"
      BY <1>6, <1>7, <2>1 DEF new
    <3>2. \A d \in Dataset : planner.rows[p][d].status \in {"NONE", "READY"}
      BY <3>1, QueuedIsReady
    <3>3. RawStatus(p) = "READY"
      BY <1>6, <2>1, <3>1, QueuedIsReady
    <3>4. Needs[p.dataset] \subseteq Dataset
      BY <1>4, <2>1, ProcessingAssumption
    <3> QED
      BY <1>7, <1>13, <2>1, <3>2, <3>3, <3>4 DEF RowFits
  <2>2. CASE p \notin resolved
    <3>1. status'[p] = status[p] /\ raw'[p] = raw[p] /\ dep'[p] = dep[p]
      BY <1>7, <2>2
    <3> QED
      BY <3>1 DEF IInv, InputsReady
  <2> QED
    BY <2>1, <2>2
<1>16. RowsDecide'
  <2> SUFFICES ASSUME NEW p \in Process, status'[p] \in Replannable
               PROVE  status'[p] = Readiness(raw'[p], dep'[p])
    BY DEF RowsDecide, Readiness
  <2>1. CASE p \in resolved
    BY <1>7, <2>1 DEF new
  <2>2. CASE p \notin resolved
    <3>1. status'[p] = status[p] /\ raw'[p] = raw[p] /\ dep'[p] = dep[p]
      BY <1>7, <2>2 DEF Replannable
    <3> QED
      BY <3>1 DEF IInv, RowsDecide
  <2> QED
    BY <2>1, <2>2
<1>17. ReleasesDelivered'
  BY <1>8 DEF IInv, ReleasesDelivered, PlanCommit, Key
<1>18. DownIsIdle'
  BY DEF IInv, DownIsIdle, PlanCommit
<1>19. PlannerReads' /\ PlannerHolds'
  BY RestHoldsNothing DEF PlanCommit
<1>20. ScopesApart'
  <2>1. Running' \subseteq Running
    BY <1>6, <1>7 DEF Running
  <2> QED
    BY <2>1, FewerRun DEF IInv
<1> QED
  BY <1>9, <1>10, <1>11, <1>12, <1>14, <1>15, <1>16, <1>17, <1>18, <1>19, <1>20 DEF IInv

\* A thread claims a task: it has an attempt left, and its scope is free.
LEMMA ClaimInv ==
  ASSUME IInv, NEW w \in Worker, NEW p \in Process, Claim(w, p)
  PROVE  IInv'
<1>1. /\ TypeOK /\ status[p] \in {"QUEUED", "RETRY_WAIT"} /\ up
      /\ status' = [status EXCEPT ![p] = "RUNNING"]
      /\ attempts' = [attempts EXCEPT ![p] = @ + 1]
      /\ UNCHANGED <<available, planned, limit, raw, dep, release, planner, code, up, bounds>>
  BY DEF Claim, IInv, Claimable
<1>2. \A q \in Process : /\ status'[q] = IF q = p THEN "RUNNING" ELSE status[q]
                         /\ attempts'[q] = IF q = p THEN attempts[p] + 1 ELSE attempts[q]
  BY <1>1 DEF TypeOK
<1>3. attempts[p] < limit[p]
  BY <1>1 DEF IInv, AttemptsFit, Mutable
<1>4. Delivered \subseteq Delivered'
  <2>1. code' \in code .. LastCode
    BY <1>1, ProcessingAssumption DEF TypeOK
  <2> QED
    BY <1>1, <1>2, <2>1, DeliveredStays DEF Delivered
<1>5. TypeOK'
  <2>1. attempts' \in [Process -> 0 .. MaxAttempts + MaxRetries]
    BY <1>1, <1>3, ProcessingAssumption DEF TypeOK
  <2>2. status' \in [Process -> Statuses]
    BY <1>1 DEF TypeOK, Statuses
  <2>3. lease' \in [Process -> Worker \cup {None}] /\ worker' \in [Worker -> Process \cup {None}]
    BY <1>1 DEF Claim, TypeOK
  <2> QED
    BY <1>1, <2>1, <2>2, <2>3 DEF TypeOK, bounds
<1>6. TasksKnown' /\ AbsentBlank'
  BY <1>1, <1>2 DEF IInv, TasksKnown, Known, AbsentBlank
<1>7. AttemptsFit'
  BY <1>1, <1>2, <1>3 DEF IInv, AttemptsFit, Mutable, TypeOK, bounds
<1>8. RowsFit'
  BY <1>1, <1>2, <1>4 DEF IInv, RowsFit, RowFits
<1>9. InputsReady' /\ RowsDecide'
  BY <1>1, <1>2 DEF IInv, InputsReady, RowsDecide, Replannable
<1>10. ReleasesDelivered' /\ DownIsIdle'
  BY <1>1, <1>4 DEF IInv, ReleasesDelivered, DownIsIdle
<1>11. PlannerReads' /\ PlannerHolds'
  <2>1. \A q \in planner.created \cup planner.locked : status'[q] = status[q]
    BY <1>1, <1>2, HeldWaits DEF Replannable
  <2> QED
    BY <1>1, <1>2, <1>4, <2>1, PlannerKept DEF IInv
<1>12. ScopesApart'
  <2>1. Running' = Running \cup {p} /\ p \notin Running
    BY <1>1, <1>2 DEF Running
  <2>2. /\ IsFiniteSet(Running) /\ Cardinality(Running) < MaxRunning
        /\ \A q \in Running : Key(q) # Key(p)
        /\ \A q, r \in Running : q # r => Key(q) # Key(r)
    BY DEF Claim, Room, IInv, ScopesApart, ConcurrencyLimits
  <2>3. IsFiniteSet(Running') /\ Cardinality(Running') = Cardinality(Running) + 1
    BY <2>1, <2>2, FS_AddElement
  <2>4. Cardinality(Running') <= MaxRunning
    BY <2>2, <2>3, FS_CardinalityType, ProcessingAssumption
  <2>5. \A q, r \in Running' : q # r => Key(q) # Key(r)
    BY <2>1, <2>2
  <2> QED
    BY <2>3, <2>4, <2>5 DEF ScopesApart, ConcurrencyLimits, Key
<1> QED
  BY <1>5, <1>6, <1>7, <1>8, <1>9, <1>10, <1>11, <1>12 DEF IInv

\* Task p ends without a success, and what waits for it is blocked.
LEMMA BlockInv ==
  ASSUME IInv, NEW p \in Process, NEW target \in {"FAILED", "SKIPPED", "CANCELLED"},
         status[p] \in {"RUNNING"} \cup Mutable,
         \A q \in Dependents(p) : Free(q),
         p \notin planner.created \cup planner.locked,
         dep' = Marked(p, "FAILED"),
         \A q \in Process : status'[q] =
            IF q = p THEN target
            ELSE IF q \in Dependents(p) /\ status[q] \in Replannable THEN "BLOCKED" ELSE status[q],
         UNCHANGED <<attempts, limit, raw, release, planner, code, retries>>
  PROVE  /\ TasksKnown' /\ AbsentBlank' /\ AttemptsFit' /\ RowsFit' /\ InputsReady' /\ RowsDecide'
         /\ ReleasesDelivered' /\ PlannerReads' /\ PlannerHolds' /\ ScopesApart'
<1>1. TypeOK /\ p \notin Delivered
  BY DEF IInv, Delivered, Mutable
<1>2. \A q \in Dependents(p) : q \in Process /\ status[q] \in Replannable \cup {"FAILED", "SKIPPED", "CANCELLED"}
  BY <1>1, ReadyDependOnDelivered
<1>3. Delivered \subseteq Delivered'
  <2>1. code' \in code .. LastCode
    BY <1>1, ProcessingAssumption DEF TypeOK
  <2>2. \A q \in Delivered : q # p /\ status[q] \notin Replannable
    BY <1>1 DEF Delivered, Replannable
  <2> QED
    BY <1>1, <2>1, <2>2, DeliveredStays DEF Delivered
<1>4. /\ Marked(p, "FAILED") \in [Process -> [Dataset -> Rows]]
      /\ \A q \in Process, d \in Dataset :
           /\ dep'[q][d].on = dep[q][d].on
           /\ dep[q][d].on = p => dep'[q][d].status = "FAILED"
           /\ dep[q][d].on # p => dep'[q][d] = dep[q][d]
      /\ \A q \in Process : q \notin Dependents(p) => dep'[q] = dep[q]
  BY <1>1, MarkedFits DEF RowStatuses
<1>5. \A q \in Process : /\ status'[q] = "ABSENT" <=> status[q] = "ABSENT"
                         /\ status[q] = "SUCCESS" => status'[q] = "SUCCESS"
  BY <1>2 DEF Mutable, Replannable
<1>6. TasksKnown'
  BY <1>5 DEF IInv, TasksKnown, Known
<1>7. AbsentBlank'
  <2> SUFFICES ASSUME NEW q \in Process, status[q] = "ABSENT" PROVE dep'[q] = dep[q]
    BY <1>5 DEF AbsentBlank, IInv
  <2>1. q \notin Dependents(p)
    BY <1>2 DEF Replannable
  <2> QED
    BY <1>4, <2>1
<1>8. AttemptsFit'
  BY DEF IInv, AttemptsFit, Mutable, Replannable
<1>9. RowsFit'
  <2> SUFFICES ASSUME NEW q \in Process, status[q] # "ABSENT", NEW d \in Dataset
               PROVE  RowFits(q, d, dep[q][d])'
    BY <1>5 DEF RowsFit, IInv
  <2>1. RowFits(q, d, dep[q][d])
    BY DEF IInv, RowsFit
  <2>2. CASE dep[q][d].on = p
    <3>1. d \in Needs[q.dataset]
      BY <2>1, <2>2, ProcessingAssumption DEF RowFits, NoRow
    <3>2. dep'[q][d].status = "FAILED" /\ dep'[q][d].on = p
      BY <1>4, <2>2
    <3> QED
      BY <2>1, <2>2, <3>1, <3>2 DEF RowFits, Key
  <2>3. CASE dep[q][d].on # p
    <3>1. dep'[q][d] = dep[q][d]
      BY <1>4, <2>3
    <3> QED
      BY <1>3, <2>1, <3>1 DEF RowFits, Key
  <2> QED
    BY <2>2, <2>3
<1>10. InputsReady'
  <2> SUFFICES ASSUME NEW q \in Process, status'[q] \in {"QUEUED", "RUNNING", "RETRY_WAIT", "SUCCESS"}
               PROVE  status[q] = status'[q] /\ dep'[q] = dep[q]
    BY DEF InputsReady, IInv
  <2>1. q # p /\ status[q] = status'[q]
    OBVIOUS
  <2>2. q \notin Dependents(p)
    BY <1>2, <2>1 DEF Replannable
  <2> QED
    BY <1>4, <2>1, <2>2
<1>11. RowsDecide'
  <2> SUFFICES ASSUME NEW q \in Process, status'[q] \in Replannable
               PROVE  status'[q] = Readiness(raw[q], dep'[q])
    BY DEF RowsDecide, Readiness
  <2>1. q # p
    BY DEF Replannable
  <2>2. CASE q \in Dependents(p)
    <3>1. PICK d \in Dataset : dep[q][d].on = p
      BY <2>2 DEF Dependents
    <3>2. dep'[q][d].status = "FAILED"
      BY <1>4, <3>1
    <3>3. Readiness(raw[q], dep'[q]) = "BLOCKED"
      BY <3>2, FailedRowBlocks
    <3>4. status[q] \in Replannable
      BY <1>2, <2>1, <2>2 DEF Replannable
    <3> QED
      BY <2>1, <2>2, <3>3, <3>4
  <2>3. CASE q \notin Dependents(p)
    <3>1. status'[q] = status[q] /\ dep'[q] = dep[q]
      BY <1>4, <2>1, <2>3
    <3> QED
      BY <3>1 DEF IInv, RowsDecide
  <2> QED
    BY <2>2, <2>3
<1>12. ReleasesDelivered'
  BY <1>3 DEF IInv, ReleasesDelivered, Key
<1>13. PlannerReads' /\ PlannerHolds'
  <2>1. \A q \in planner.created \cup planner.locked : status'[q] = status[q]
    BY HeldWaits DEF Free
  <2> QED
    BY <1>1, <1>3, <1>5, <2>1, PlannerKept DEF IInv
<1>14. ScopesApart'
  <2>1. Running' \subseteq Running
    BY DEF Running
  <2> QED
    BY <2>1, FewerRun DEF IInv
<1> QED
  BY <1>6, <1>7, <1>8, <1>9, <1>10, <1>11, <1>12, <1>13, <1>14

\* A thread publishes, or finds its task taken from it.
LEMMA PublishInv ==
  ASSUME IInv, NEW w \in Worker, Publish(w)
  PROVE  IInv'
<1> DEFINE p == worker[w]
<1>1. /\ TypeOK /\ p \in Process /\ up
      /\ worker' = [worker EXCEPT ![w] = None]
      /\ UNCHANGED <<available, planned, attempts, limit, raw, planner, code, up, bounds>>
  BY DEF Publish, IInv, TypeOK, DownIsIdle
<1>2. worker' \in [Worker -> Process \cup {None}]
  BY <1>1 DEF TypeOK
<1>3. CASE ~Holds(w, p)
  <2>1. UNCHANGED <<taskVars, release, code, retries, planner>>
    BY <1>1, <1>3 DEF Publish, taskVars, bounds
  <2>2. TypeOK' /\ DownIsIdle'
    BY <1>1, <1>2, <2>1 DEF TypeOK, taskVars, bounds, DownIsIdle
  <2>3. PlannerReads' /\ PlannerHolds'
    BY <1>1, <2>1, TasksUntouched, PlannerKept DEF taskVars, IInv
  <2> QED
    BY <2>1, <2>2, <2>3, TasksUntouched DEF IInv
<1>4. CASE Holds(w, p)
  <2>1. /\ status[p] = "RUNNING"
        /\ \A q \in Dependents(p) : Free(q)
        /\ release' = [release EXCEPT ![Key(p)] = p]
        /\ dep' = Marked(p, "READY")
        /\ status' = [q \in Process |->
             IF q = p THEN "SUCCESS"
             ELSE IF q \in Dependents(p) /\ status[q] \in Mutable
             THEN Readiness(raw[q], dep'[q])
             ELSE status[q]]
        /\ lease' = [lease EXCEPT ![p] = None]
    BY <1>4 DEF Publish, Holds
  <2>2. \A q \in Process :
           /\ q = p => status'[q] = "SUCCESS"
           /\ q # p /\ q \in Dependents(p) /\ status[q] \in Mutable =>
                status'[q] = Readiness(raw[q], dep'[q])
                /\ status'[q] \in {"QUEUED", "BLOCKED", "WAITING_DEPENDENCY"}
           /\ q # p /\ ~(q \in Dependents(p) /\ status[q] \in Mutable) => status'[q] = status[q]
    BY <2>1, ReadinessValues
  <2>3. /\ dep' \in [Process -> [Dataset -> Rows]]
        /\ \A q \in Process, d \in Dataset :
             /\ dep'[q][d].on = dep[q][d].on
             /\ dep[q][d].on = p => dep'[q][d].status = "READY"
             /\ dep[q][d].on # p => dep'[q][d] = dep[q][d]
        /\ \A q \in Process : q \notin Dependents(p) => dep'[q] = dep[q]
    BY <1>1, <2>1, MarkedFits DEF RowStatuses
  <2>4. \A q \in Process : /\ status'[q] = "ABSENT" <=> status[q] = "ABSENT"
                           /\ status[q] = "SUCCESS" => status'[q] = "SUCCESS"
    BY <2>1, <2>2 DEF Mutable
  <2>5. Delivered \subseteq Delivered' /\ p \in Delivered'
    <3>1. code' \in code .. LastCode
      BY <1>1, ProcessingAssumption DEF TypeOK
    <3>2. \A q \in Process : q \in Delivered => status'[q] = status[q]
      BY <2>1, <2>2 DEF Delivered, Mutable
    <3> QED
      BY <1>1, <2>2, <3>1, <3>2, DeliveredStays DEF Delivered
  <2>6. TypeOK'
    <3>1. \A q \in Process : status'[q] \in Statuses
      BY <1>1, <2>2 DEF TypeOK, Statuses, Terminal, Mutable
    <3>2. status' \in [Process -> Statuses]
      BY <2>1, <3>1
    <3>3. release' \in [Keys -> Process \cup {None}]
      BY <1>1, <2>1, KeyIsKey DEF TypeOK
    <3>4. lease' \in [Process -> Worker \cup {None}]
      BY <1>1, <2>1 DEF TypeOK
    <3> QED
      BY <1>1, <1>2, <2>3, <3>2, <3>3, <3>4 DEF TypeOK, bounds
  <2>7. TasksKnown'
    BY <1>1, <2>4 DEF IInv, TasksKnown, Known
  <2>8. AbsentBlank'
    <3> SUFFICES ASSUME NEW q \in Process, status[q] = "ABSENT"
                 PROVE  \A d \in Dataset : dep'[q][d] = NoRow
      BY <1>1, <2>4 DEF AbsentBlank, IInv
    <3>1. \A d \in Dataset : dep[q][d] = NoRow /\ dep[q][d].on # p
      BY <1>1, ProcessingAssumption DEF AbsentBlank, IInv, NoRow
    <3> QED
      BY <2>3, <3>1
  <2>9. AttemptsFit'
    <3>1. \A q \in Process : status'[q] \in Mutable => status[q] \in Mutable
      BY <2>2 DEF Mutable
    <3> QED
      BY <1>1, <3>1 DEF IInv, AttemptsFit, bounds
  <2>10. RowsFit'
    <3> SUFFICES ASSUME NEW q \in Process, status[q] # "ABSENT", NEW d \in Dataset
                 PROVE  RowFits(q, d, dep[q][d])'
      BY <1>1, <2>4 DEF RowsFit, IInv
    <3>1. RowFits(q, d, dep[q][d])
      BY DEF IInv, RowsFit
    <3>2. CASE dep[q][d].on = p
      <4>1. d \in Needs[q.dataset]
        BY <1>1, <3>1, <3>2, ProcessingAssumption DEF RowFits, NoRow
      <4>2. dep'[q][d].status = "READY" /\ dep'[q][d].on = p
        BY <2>3, <3>2
      <4> QED
        BY <2>5, <3>1, <3>2, <4>1, <4>2 DEF RowFits, Key
    <3>3. CASE dep[q][d].on # p
      <4>1. dep'[q][d] = dep[q][d]
        BY <2>3, <3>3
      <4> QED
        BY <2>5, <3>1, <4>1 DEF RowFits, Key
    <3> QED
      BY <3>2, <3>3
  <2>11. InputsReady'
    <3> SUFFICES ASSUME NEW q \in Process, status'[q] \in {"QUEUED", "RUNNING", "RETRY_WAIT", "SUCCESS"}
                 PROVE  raw[q] = "READY" /\ \A d \in Needs[q.dataset] : dep'[q][d].status = "READY"
      BY <1>1 DEF InputsReady
    <3>0. Needs[q.dataset] \subseteq Dataset
      BY ProcessingAssumption DEF Process
    <3>1. CASE q # p /\ q \in Dependents(p) /\ status[q] \in Mutable
      <4>1. Readiness(raw[q], dep'[q]) = "QUEUED"
        BY <2>2, <3>1
      <4>2. status[q] # "ABSENT" /\ status'[q] # "ABSENT"
        BY <3>1 DEF Mutable
      <4>3. raw[q] = "READY"
        BY <4>1, <4>2, QueuedIsReady DEF IInv, RowsFit
      <4>4. \A d \in Needs[q.dataset] : RowFits(q, d, dep[q][d])'
        BY <2>10, <3>0, <4>2 DEF RowsFit
      <4>5. \A d \in Needs[q.dataset] : dep'[q][d].status # "NONE"
        BY <4>4 DEF RowFits
      <4>6. \A d \in Dataset : dep'[q][d].status \in {"NONE", "READY"}
        BY <4>1, QueuedIsReady
      <4> QED
        BY <3>0, <4>3, <4>5, <4>6
    <3>2. CASE ~(q # p /\ q \in Dependents(p) /\ status[q] \in Mutable)
      <4>1. status[q] \in {"QUEUED", "RUNNING", "RETRY_WAIT", "SUCCESS"}
        BY <2>1, <2>2, <3>2
      <4>2. raw[q] = "READY" /\ \A d \in Needs[q.dataset] : dep[q][d].status = "READY"
        BY <4>1 DEF IInv, InputsReady
      <4> QED
        BY <2>3, <3>0, <4>2
    <3> QED
      BY <3>1, <3>2
  <2>12. RowsDecide'
    <3> SUFFICES ASSUME NEW q \in Process, status'[q] \in Replannable
                 PROVE  status'[q] = Readiness(raw[q], dep'[q])
      BY <1>1 DEF RowsDecide, Readiness
    <3>1. q # p
      BY <2>2 DEF Replannable
    <3>2. CASE q \in Dependents(p) /\ status[q] \in Mutable
      BY <2>2, <3>1, <3>2
    <3>3. CASE ~(q \in Dependents(p) /\ status[q] \in Mutable)
      <4>1. status'[q] = status[q]
        BY <2>2, <3>1, <3>3
      <4>2. dep'[q] = dep[q]
        BY <2>3, <3>3, <4>1 DEF Replannable, Mutable
      <4> QED
        BY <4>1, <4>2 DEF IInv, RowsDecide
    <3> QED
      BY <3>2, <3>3
  <2>13. ReleasesDelivered'
    <3> SUFFICES ASSUME NEW k \in Keys, release'[k] # None
                 PROVE  Key(release'[k]) = k /\ release'[k] \in Delivered'
      BY DEF ReleasesDelivered, Key
    <3>1. release'[k] = IF k = Key(p) THEN p ELSE release[k]
      BY <1>1, <2>1 DEF TypeOK
    <3> QED
      BY <2>5, <3>1 DEF IInv, ReleasesDelivered
  <2>14. DownIsIdle'
    BY <1>1 DEF DownIsIdle
  <2>15. PlannerReads' /\ PlannerHolds'
    <3>1. \A q \in planner.created \cup planner.locked : status'[q] = status[q]
      BY <2>1, <2>2, HeldWaits DEF Free, Replannable
    <3> QED
      BY <1>1, <2>4, <2>5, <3>1, PlannerKept DEF IInv
  <2>16. ScopesApart'
    <3>1. Running' \subseteq Running
      BY <2>2 DEF Running
    <3> QED
      BY <3>1, FewerRun DEF IInv
  <2> QED
    BY <2>6, <2>7, <2>8, <2>9, <2>10, <2>11, <2>12, <2>13, <2>14, <2>15, <2>16 DEF IInv
<1> QED
  BY <1>3, <1>4

\* A thread fails: its task waits for a retry, or fails and blocks what waits for it.
LEMMA FailInv ==
  ASSUME IInv, NEW w \in Worker, NEW retryable \in BOOLEAN, Fail(w, retryable)
  PROVE  IInv'
<1> DEFINE p == worker[w]
<1>1. /\ TypeOK /\ p \in Process /\ up
      /\ worker' = [worker EXCEPT ![w] = None]
      /\ UNCHANGED <<available, planned, attempts, limit, raw, release, planner, code, up, bounds>>
  BY DEF Fail, IInv, TypeOK, DownIsIdle
<1>2. worker' \in [Worker -> Process \cup {None}]
  BY <1>1 DEF TypeOK
<1>3. DownIsIdle'
  BY <1>1 DEF DownIsIdle
<1>4. CASE ~Holds(w, p)
  <2>1. UNCHANGED <<taskVars, release, code, retries, planner>>
    BY <1>1, <1>4 DEF Fail, taskVars, bounds
  <2>2. TypeOK'
    BY <1>1, <1>2, <2>1 DEF TypeOK, taskVars, bounds
  <2>3. PlannerReads' /\ PlannerHolds'
    BY <1>1, <2>1, TasksUntouched, PlannerKept DEF taskVars, IInv
  <2> QED
    BY <1>3, <2>1, <2>2, <2>3, TasksUntouched DEF IInv
<1>5. CASE Holds(w, p) /\ Again(p, retryable)
  <2>1. /\ status[p] = "RUNNING" /\ attempts[p] < limit[p]
        /\ status' = [status EXCEPT ![p] = "RETRY_WAIT"]
        /\ lease' = [lease EXCEPT ![p] = None]
        /\ UNCHANGED dep
    BY <1>5 DEF Fail, Holds, Again
  <2>2. \A q \in Process : status'[q] = IF q = p THEN "RETRY_WAIT" ELSE status[q]
    BY <1>1, <2>1 DEF TypeOK
  <2>3. Delivered \subseteq Delivered'
    <3>1. code' \in code .. LastCode
      BY <1>1, ProcessingAssumption DEF TypeOK
    <3> QED
      BY <1>1, <2>1, <2>2, <3>1, DeliveredStays DEF Delivered
  <2>4. TypeOK'
    <3>1. status' \in [Process -> Statuses]
      BY <1>1, <2>1 DEF TypeOK, Statuses, Mutable
    <3>2. lease' \in [Process -> Worker \cup {None}]
      BY <1>1, <2>1 DEF TypeOK
    <3> QED
      BY <1>1, <1>2, <2>1, <3>1, <3>2 DEF TypeOK, bounds
  <2>5. TasksKnown' /\ AbsentBlank'
    BY <1>1, <2>1, <2>2 DEF IInv, TasksKnown, Known, AbsentBlank
  <2>6. AttemptsFit'
    BY <1>1, <2>1, <2>2 DEF IInv, AttemptsFit, bounds
  <2>7. RowsFit'
    BY <1>1, <2>1, <2>2, <2>3 DEF IInv, RowsFit, RowFits
  <2>8. InputsReady' /\ RowsDecide'
    BY <1>1, <2>1, <2>2 DEF IInv, InputsReady, RowsDecide, Replannable
  <2>9. ReleasesDelivered'
    BY <1>1, <2>3 DEF IInv, ReleasesDelivered
  <2>10. PlannerReads' /\ PlannerHolds'
    <3>1. \A q \in planner.created \cup planner.locked : status'[q] = status[q]
      BY <2>1, <2>2, HeldWaits DEF Replannable
    <3> QED
      BY <1>1, <2>1, <2>2, <2>3, <3>1, PlannerKept DEF IInv
  <2>11. ScopesApart'
    <3>1. Running' \subseteq Running
      BY <2>2 DEF Running
    <3> QED
      BY <3>1, FewerRun DEF IInv
  <2> QED
    BY <1>3, <2>4, <2>5, <2>6, <2>7, <2>8, <2>9, <2>10, <2>11 DEF IInv
<1>6. CASE Holds(w, p) /\ ~Again(p, retryable)
  <2>1. /\ status[p] = "RUNNING"
        /\ \A q \in Dependents(p) : Free(q)
        /\ dep' = Marked(p, "FAILED")
        /\ status' = [q \in Process |->
             IF q = p THEN "FAILED"
             ELSE IF q \in Dependents(p) /\ status[q] \notin Terminal THEN "BLOCKED"
             ELSE status[q]]
        /\ lease' = [q \in Process |->
             IF q = p \/ (q \in Dependents(p) /\ status[q] \notin Terminal)
             THEN None ELSE lease[q]]
    BY <1>6 DEF Fail, Holds
  <2>2. \A q \in Dependents(p) : status[q] \in Replannable \cup {"FAILED", "SKIPPED", "CANCELLED"}
    BY <1>1, <2>1, ReadyDependOnDelivered DEF Delivered
  <2>3. \A q \in Process : status'[q] =
            IF q = p THEN "FAILED"
            ELSE IF q \in Dependents(p) /\ status[q] \in Replannable THEN "BLOCKED" ELSE status[q]
    BY <2>1, <2>2 DEF Terminal, Replannable
  <2>4. p \notin planner.created \cup planner.locked
    BY <2>1, HeldWaits DEF Replannable
  <2>5. TypeOK'
    <3>1. status' \in [Process -> Statuses]
      BY <1>1, <2>1 DEF TypeOK, Statuses, Mutable, Terminal
    <3>2. lease' \in [Process -> Worker \cup {None}]
      BY <1>1, <2>1 DEF TypeOK
    <3>3. dep' \in [Process -> [Dataset -> Rows]]
      BY <1>1, <2>1, MarkedFits DEF RowStatuses
    <3> QED
      BY <1>1, <1>2, <3>1, <3>2, <3>3 DEF TypeOK, bounds
  <2>6. UNCHANGED <<attempts, limit, raw, release, planner, code, retries>>
    BY <1>1 DEF bounds
  <2> HIDE DEF p
  <2>7. /\ TasksKnown' /\ AbsentBlank' /\ AttemptsFit' /\ RowsFit' /\ InputsReady' /\ RowsDecide'
        /\ ReleasesDelivered' /\ PlannerReads' /\ PlannerHolds' /\ ScopesApart'
    BY <1>1, <2>1, <2>3, <2>4, <2>6, BlockInv
  <2> QED
    BY <1>3, <2>5, <2>7 DEF IInv
<1> QED
  BY <1>4, <1>5, <1>6

\* The attempts of tasks that were interrupted are given back.
LEMMA RecoverInv ==
  ASSUME IInv, NEW tasks \in SUBSET Running, Recover(tasks), code' \in code .. LastCode,
         UNCHANGED <<limit, raw, dep, release, retries>>
  PROVE  /\ status' \in [Process -> Statuses]
         /\ attempts' \in [Process -> 0 .. MaxAttempts + MaxRetries]
         /\ lease' \in [Process -> Worker \cup {None}]
         /\ Delivered \subseteq Delivered'
         /\ TasksKnown' /\ AbsentBlank' /\ AttemptsFit' /\ RowsFit' /\ InputsReady' /\ RowsDecide'
         /\ ReleasesDelivered' /\ ScopesApart'
<1>1. TypeOK /\ \A p \in tasks : p \in Process /\ status[p] = "RUNNING"
  BY DEF IInv, Running
<1>2. \A p \in Process : /\ status'[p] = IF p \in tasks THEN "RETRY_WAIT" ELSE status[p]
                         /\ attempts'[p] = IF p \in tasks /\ attempts[p] > 0
                                           THEN attempts[p] - 1 ELSE attempts[p]
  BY DEF Recover
<1>3. status' \in [Process -> Statuses] /\ lease' \in [Process -> Worker \cup {None}]
  BY <1>1 DEF Recover, TypeOK, Statuses, Mutable
<1>4. attempts' \in [Process -> 0 .. MaxAttempts + MaxRetries]
  BY <1>1, ProcessingAssumption DEF Recover, TypeOK
<1>5. Delivered \subseteq Delivered'
  BY <1>1, <1>2, DeliveredStays DEF Delivered
<1>6. TasksKnown'
  <2>1. code \in Nat /\ code' \in Nat /\ code <= code'
    BY <1>1, ProcessingAssumption DEF TypeOK
  <2>2. 1 .. code \subseteq 1 .. code'
    BY <2>1
  <2> QED
    BY <1>1, <1>2, <2>2 DEF IInv, TasksKnown, Known
<1>7. AbsentBlank'
  BY <1>1, <1>2 DEF IInv, AbsentBlank
<1>8. AttemptsFit'
  <2> SUFFICES ASSUME NEW p \in Process
               PROVE  attempts'[p] <= limit[p] /\ (status'[p] \in Mutable => attempts'[p] < limit[p])
    BY DEF IInv, AttemptsFit
  <2>1. attempts[p] \in Nat /\ limit[p] \in Nat \ {0}
    BY <1>1, ProcessingAssumption DEF TypeOK
  <2> QED
    BY <1>1, <1>2, <2>1 DEF IInv, AttemptsFit
<1>9. RowsFit'
  BY <1>1, <1>2, <1>5 DEF IInv, RowsFit, RowFits
<1>10. InputsReady' /\ RowsDecide'
  BY <1>1, <1>2 DEF IInv, InputsReady, RowsDecide, Replannable
<1>11. ReleasesDelivered'
  BY <1>5 DEF IInv, ReleasesDelivered, Key
<1>12. ScopesApart'
  <2>1. Running' \subseteq Running
    BY <1>2 DEF Running
  <2> QED
    BY <2>1, FewerRun DEF IInv
<1> QED
  BY <1>3, <1>4, <1>5, <1>6, <1>7, <1>8, <1>9, <1>10, <1>11, <1>12

\* The periodic recovery takes a task from a thread, or from nobody.
LEMMA RecoverStaleInv ==
  ASSUME IInv, NEW p \in Process, RecoverStale(p)
  PROVE  IInv'
<1>1. /\ TypeOK /\ {p} \in SUBSET Running /\ Recover({p}) /\ status[p] = "RUNNING"
      /\ UNCHANGED <<available, planned, limit, raw, dep, release, worker, planner, code, up, retries, stops>>
  BY DEF RecoverStale, IInv, Running
<1>2. code' \in code .. LastCode
  BY <1>1, ProcessingAssumption DEF TypeOK
<1>3. /\ status' \in [Process -> Statuses]
      /\ attempts' \in [Process -> 0 .. MaxAttempts + MaxRetries]
      /\ lease' \in [Process -> Worker \cup {None}]
      /\ Delivered \subseteq Delivered'
      /\ TasksKnown' /\ AbsentBlank' /\ AttemptsFit' /\ RowsFit' /\ InputsReady' /\ RowsDecide'
      /\ ReleasesDelivered' /\ ScopesApart'
  BY <1>1, <1>2, RecoverInv
<1>4. TypeOK'
  <2>1. faults' \in 0 .. MaxFaults
    BY <1>1, ProcessingAssumption DEF RecoverStale, TypeOK
  <2> QED
    BY <1>1, <1>3, <2>1 DEF TypeOK
<1>5. DownIsIdle'
  BY <1>1 DEF IInv, DownIsIdle
<1>6. PlannerReads' /\ PlannerHolds'
  <2>1. \A q \in Process : status'[q] = IF q = p THEN "RETRY_WAIT" ELSE status[q]
    BY <1>1 DEF Recover
  <2>2. \A q \in planner.created \cup planner.locked : status'[q] = status[q]
    BY <1>1, <2>1, HeldWaits DEF Replannable
  <2> QED
    BY <1>1, <1>3, <2>1, <2>2, PlannerKept DEF IInv
<1> QED
  BY <1>3, <1>4, <1>5, <1>6 DEF IInv

\* A thread dies and leaves its task running.
LEMMA WorkerDiesInv ==
  ASSUME IInv, NEW w \in Worker, WorkerDies(w)
  PROVE  IInv'
<1> USE DEF IInv, WorkerDies
<1>1. TypeOK'
  <2>1. faults' \in 0 .. MaxFaults
    BY ProcessingAssumption DEF TypeOK
  <2>2. worker' \in [Worker -> Process \cup {None}]
    BY DEF TypeOK
  <2> QED
    BY <2>1, <2>2 DEF TypeOK, taskVars
<1>2. DownIsIdle'
  BY DEF DownIsIdle, TypeOK
<1>3. PlannerReads' /\ PlannerHolds'
  BY PlannerKept, TasksUntouched DEF taskVars
<1> QED
  BY <1>1, <1>2, <1>3, TasksUntouched

\* A crash ends the threads and the planning transaction.
LEMMA CrashInv ==
  ASSUME IInv, Crash
  PROVE  IInv'
<1> USE DEF IInv, Crash
<1>1. PlannerReads' /\ PlannerHolds'
  BY RestHoldsNothing
<1>2. TypeOK'
  <2>1. faults' \in 0 .. MaxFaults
    BY ProcessingAssumption DEF TypeOK
  <2>2. worker' \in [Worker -> Process \cup {None}]
    OBVIOUS
  <2> QED
    BY <2>1, <2>2, RestHoldsNothing DEF TypeOK, taskVars
<1>3. DownIsIdle'
  BY DEF DownIsIdle
<1> QED
  BY <1>1, <1>2, <1>3, TasksUntouched

\* The process starts and recovers every running task.
LEMMA RestartInv ==
  ASSUME IInv, NEW newCode \in 1 .. LastCode, Restart(newCode)
  PROVE  IInv'
<1>1. /\ TypeOK /\ ~up /\ up' = TRUE /\ code' = newCode /\ Recover(Running) /\ newCode >= code
      /\ UNCHANGED <<available, planned, limit, raw, dep, release, worker, planner, bounds>>
  BY DEF Restart, IInv
<1>2. code' \in code .. LastCode
  BY <1>1, ProcessingAssumption DEF TypeOK
<1>3. /\ status' \in [Process -> Statuses]
      /\ attempts' \in [Process -> 0 .. MaxAttempts + MaxRetries]
      /\ lease' \in [Process -> Worker \cup {None}]
      /\ TasksKnown' /\ AbsentBlank' /\ AttemptsFit' /\ RowsFit' /\ InputsReady' /\ RowsDecide'
      /\ ReleasesDelivered' /\ ScopesApart'
  BY <1>1, <1>2, RecoverInv DEF bounds
<1>4. planner' = NotPlanning
  BY <1>1 DEF IInv, DownIsIdle
<1>5. TypeOK'
  BY <1>1, <1>3 DEF TypeOK, bounds
<1>6. DownIsIdle' /\ PlannerReads' /\ PlannerHolds'
  BY <1>1, <1>4, RestHoldsNothing DEF DownIsIdle
<1> QED
  BY <1>3, <1>5, <1>6 DEF IInv

\* The retry of a task of the current revision.
LEMMA RetryTaskInv ==
  ASSUME IInv, NEW p \in Process, RetryTask(p)
  PROVE  IInv'
<1>1. /\ TypeOK /\ status[p] \in Retryable /\ Free(p)
      /\ p = Current(p.batch, p.dataset)
      /\ Readiness(raw[p], dep[p]) = "QUEUED"
      /\ retries > 0 /\ retries' = retries - 1
      /\ status' = [status EXCEPT ![p] = "QUEUED"]
      /\ limit' = [limit EXCEPT ![p] = IF attempts[p] + 1 > @ THEN attempts[p] + 1 ELSE @]
      /\ UNCHANGED <<available, planned, attempts, lease, raw, dep, release, worker, planner, code, up, faults, stops>>
  BY DEF RetryTask, Retry, AllReady, IInv
<1>2. \A q \in Process :
        /\ status'[q] = IF q = p THEN "QUEUED" ELSE status[q]
        /\ limit'[q] = IF q = p /\ attempts[p] + 1 > limit[p] THEN attempts[p] + 1 ELSE limit[q]
  BY <1>1 DEF TypeOK
<1>3. p \notin Delivered /\ status[p] \notin {"ABSENT", "SUCCESS", "RUNNING"}
  <2>1. p.rev = Revision[code][p.dataset] /\ p.rev \in Nat
    BY <1>1, ProcessingAssumption DEF Current, Process, TypeOK
  <2> QED
    BY <1>1, <2>1 DEF Delivered, Old, Retryable
<1>4. Delivered \subseteq Delivered'
  <2>1. code' \in code .. LastCode
    BY <1>1, ProcessingAssumption DEF TypeOK
  <2> QED
    BY <1>1, <1>2, <1>3, <2>1, DeliveredStays
<1>5. /\ attempts[p] \in Nat /\ limit[p] \in Nat \ {0} /\ retries \in Nat
      /\ attempts[p] <= limit[p] /\ limit[p] + retries <= MaxAttempts + MaxRetries
      /\ MaxAttempts + MaxRetries \in Nat
  BY <1>1, CountersAreNumbers DEF IInv, AttemptsFit
<1>6. /\ limit'[p] + retries' <= MaxAttempts + MaxRetries
      /\ limit'[p] \in 1 .. MaxAttempts + MaxRetries
      /\ attempts[p] < limit'[p]
  BY <1>1, <1>2, <1>5
<1>7. TypeOK'
  <2>1. status' \in [Process -> Statuses]
    BY <1>1 DEF TypeOK, Statuses, Mutable
  <2>2. limit' \in [Process -> 1 .. MaxAttempts + MaxRetries]
    BY <1>1, <1>2, <1>6 DEF TypeOK
  <2>3. retries' \in 0 .. MaxRetries
    BY <1>1, ProcessingAssumption DEF TypeOK
  <2> QED
    BY <1>1, <2>1, <2>2, <2>3 DEF TypeOK
<1>8. TasksKnown' /\ AbsentBlank'
  BY <1>1, <1>2, <1>3 DEF IInv, TasksKnown, Known, AbsentBlank
<1>9. AttemptsFit'
  <2> SUFFICES ASSUME NEW q \in Process, q # p
               PROVE  /\ attempts[q] <= limit[q]
                      /\ limit[q] + retries' <= MaxAttempts + MaxRetries
                      /\ status'[q] \in Mutable => attempts[q] < limit[q]
    BY <1>1, <1>2, <1>5, <1>6 DEF AttemptsFit
  <2>1. limit[q] \in Nat /\ limit[q] + retries <= MaxAttempts + MaxRetries /\ retries \in Nat
    BY <1>1, ProcessingAssumption DEF IInv, AttemptsFit, TypeOK
  <2>2. limit[q] + retries' <= MaxAttempts + MaxRetries
    BY <1>1, <1>5, <2>1
  <2> QED
    BY <1>2, <2>2 DEF IInv, AttemptsFit
<1>10. RowsFit'
  BY <1>1, <1>2, <1>3, <1>4 DEF IInv, RowsFit, RowFits
<1>11. InputsReady'
  <2>1. raw[p] = "READY"
    BY <1>1, <1>3, QueuedIsReady DEF IInv, RowsFit
  <2>2. \A d \in Needs[p.dataset] : d \in Dataset /\ RowFits(p, d, dep[p][d])
    <3>1. Needs[p.dataset] \subseteq Dataset
      BY ProcessingAssumption DEF Process
    <3> QED
      BY <1>3, <3>1 DEF IInv, RowsFit
  <2>3. \A d \in Dataset : dep[p][d].status \in {"NONE", "READY"}
    BY <1>1, QueuedIsReady
  <2>4. \A d \in Needs[p.dataset] : dep[p][d].status = "READY"
    BY <2>2, <2>3 DEF RowFits
  <2> QED
    BY <1>1, <1>2, <2>1, <2>4 DEF IInv, InputsReady
<1>12. RowsDecide'
  BY <1>1, <1>2 DEF IInv, RowsDecide, Replannable
<1>13. ReleasesDelivered' /\ DownIsIdle'
  BY <1>1, <1>4 DEF IInv, ReleasesDelivered, DownIsIdle, Key
<1>14. PlannerReads' /\ PlannerHolds'
  <2>1. \A q \in planner.created \cup planner.locked : status'[q] = status[q]
    BY <1>1, <1>2, HeldWaits DEF Free
  <2> QED
    BY <1>1, <1>2, <1>3, <1>4, <2>1, PlannerKept DEF IInv
<1>15. ScopesApart'
  <2>1. Running' \subseteq Running
    BY <1>2 DEF Running
  <2> QED
    BY <2>1, FewerRun DEF IInv
<1> QED
  BY <1>7, <1>8, <1>9, <1>10, <1>11, <1>12, <1>13, <1>14, <1>15 DEF IInv

\* The retry of an older task queues the current one, on the older one's rows if it is new.
LEMMA RetryReplacedInv ==
  ASSUME IInv, NEW p \in Process, RetryReplaced(p)
  PROVE  IInv'
<1> DEFINE r == Current(p.batch, p.dataset)
           absent == status[r] = "ABSENT"
           rows == IF absent THEN dep[p] ELSE dep[r]
           rawStatus == IF absent THEN raw[p] ELSE raw[r]
           base == IF absent /\ limit[p] > MaxAttempts THEN limit[p] ELSE limit[r]
           bound == IF attempts[r] + 1 > base THEN attempts[r] + 1 ELSE base
<1>1. /\ TypeOK /\ status[p] \in Retryable /\ Free(r)
      /\ status[r] \notin {"SUCCESS", "RUNNING"}
      /\ Readiness(rawStatus, rows) = "QUEUED"
      /\ retries > 0 /\ retries' = retries - 1
      /\ UNCHANGED <<available, planned, attempts, lease, release, worker, planner, code, up, faults, stops>>
  BY DEF RetryReplaced, Retry, AllReady, IInv
<1>2. /\ r \in Process /\ r.batch = p.batch /\ r.dataset = p.dataset /\ p.dataset \in Dataset
      /\ r.rev = Revision[code][p.dataset] /\ r.rev \in Nat
  <2>1. p.batch \in Batch /\ p.dataset \in Dataset
    BY DEF Process
  <2>2. r \in Process
    BY <1>1, <2>1, CurrentIsProcess
  <2> QED
    BY <1>1, <2>1, <2>2, ProcessingAssumption DEF Current, TypeOK
<1>3. /\ status' = [status EXCEPT ![r] = "QUEUED"]
      /\ dep' = [dep EXCEPT ![r] = rows]
      /\ raw' = [raw EXCEPT ![r] = rawStatus]
      /\ limit' = [limit EXCEPT ![r] = bound]
  BY <1>1, <1>2 DEF RetryReplaced, TypeOK
<1> HIDE DEF r, rows, rawStatus, bound
<1>4. \A q \in Process :
        /\ status'[q] = IF q = r THEN "QUEUED" ELSE status[q]
        /\ dep'[q] = IF q = r THEN rows ELSE dep[q]
        /\ raw'[q] = IF q = r THEN rawStatus ELSE raw[q]
        /\ limit'[q] = IF q = r THEN bound ELSE limit[q]
  BY <1>1, <1>2, <1>3 DEF TypeOK
<1>5. r \notin Delivered /\ status[p] # "ABSENT"
  BY <1>1, <1>2 DEF Delivered, Old, Retryable
<1>6. Delivered \subseteq Delivered'
  <2>1. code' \in code .. LastCode
    BY <1>1, ProcessingAssumption DEF TypeOK
  <2> QED
    BY <1>1, <1>4, <1>5, <2>1, DeliveredStays
<1>7. /\ bound + retries' <= MaxAttempts + MaxRetries
      /\ bound \in 1 .. MaxAttempts + MaxRetries
      /\ attempts[r] < bound
  <2>1. /\ attempts[r] \in Nat /\ retries \in Nat /\ MaxAttempts + MaxRetries \in Nat
        /\ limit[p] \in Nat \ {0} /\ limit[r] \in Nat \ {0}
    BY <1>1, <1>2, CountersAreNumbers
  <2>2. /\ attempts[r] <= limit[r]
        /\ limit[r] + retries <= MaxAttempts + MaxRetries
        /\ limit[p] + retries <= MaxAttempts + MaxRetries
    BY <1>2 DEF IInv, AttemptsFit
  <2>3. absent => attempts[r] = 0
    BY <1>2 DEF IInv, AbsentBlank
  <2>4. base \in Nat \ {0} /\ base + retries <= MaxAttempts + MaxRetries /\ attempts[r] <= base
    BY <2>1, <2>2, <2>3
  <2> HIDE DEF base
  <2> QED
    BY <1>1, <2>1, <2>4 DEF bound
<1>8. TypeOK'
  <2>1. status' \in [Process -> Statuses]
    BY <1>1, <1>3 DEF TypeOK, Statuses, Mutable
  <2>2. rows \in [Dataset -> Rows] /\ rawStatus \in {"NONE", "READY", "FAILED"}
    BY <1>1, <1>2 DEF TypeOK, rows, rawStatus
  <2>3. dep' \in [Process -> [Dataset -> Rows]]
    BY <1>1, <1>3, <2>2 DEF TypeOK
  <2>4. raw' \in [Process -> {"NONE", "READY", "FAILED"}]
    BY <1>1, <1>3, <2>2 DEF TypeOK
  <2>5. limit' \in [Process -> 1 .. MaxAttempts + MaxRetries]
    BY <1>1, <1>3, <1>7 DEF TypeOK
  <2>6. retries' \in 0 .. MaxRetries
    BY <1>1, ProcessingAssumption DEF TypeOK
  <2> QED
    BY <1>1, <2>1, <2>3, <2>4, <2>5, <2>6 DEF TypeOK
<1>9. TasksKnown'
  <2> SUFFICES ASSUME NEW q \in Process, status'[q] # "ABSENT"
               PROVE  Known(q)' /\ q.dataset \in Affected[q.batch]
    BY DEF TasksKnown
  <2>1. CASE q = r
    <3>1. p.dataset \in Affected[p.batch]
      BY <1>5 DEF IInv, TasksKnown
    <3>2. code \in 1 .. code
      BY <1>1, ProcessingAssumption DEF TypeOK
    <3> QED
      BY <1>1, <1>2, <2>1, <3>1, <3>2 DEF Known
  <2>2. CASE q # r
    BY <1>1, <1>4, <2>2 DEF IInv, TasksKnown, Known
  <2> QED
    BY <2>1, <2>2
<1>10. AbsentBlank'
  BY <1>1, <1>4 DEF IInv, AbsentBlank
<1>11. AttemptsFit'
  <2> SUFFICES ASSUME NEW q \in Process, q # r
               PROVE  /\ attempts[q] <= limit[q]
                      /\ limit[q] + retries' <= MaxAttempts + MaxRetries
                      /\ status'[q] \in Mutable => attempts[q] < limit[q]
    <3>1. attempts[r] \in Nat /\ bound \in Nat
      BY <1>1, <1>2, <1>7, ProcessingAssumption DEF TypeOK
    <3>2. attempts[r] <= bound
      BY <1>7, <3>1
    <3> QED
      BY <1>1, <1>4, <1>7, <3>2 DEF AttemptsFit
  <2>1. limit[q] \in Nat /\ limit[q] + retries <= MaxAttempts + MaxRetries /\ retries \in Nat
        /\ MaxAttempts + MaxRetries \in Nat
    BY <1>1, CountersAreNumbers DEF IInv, AttemptsFit
  <2>2. limit[q] + retries' <= MaxAttempts + MaxRetries
    BY <1>1, <2>1
  <2> QED
    BY <1>4, <2>2 DEF IInv, AttemptsFit
<1>12. rawStatus # "NONE" /\ \A d \in Dataset : RowFits(r, d, rows[d])
  <2>1. /\ raw[p] # "NONE" /\ \A d \in Dataset : RowFits(p, d, dep[p][d])
        /\ ~absent => raw[r] # "NONE" /\ \A d \in Dataset : RowFits(r, d, dep[r][d])
    BY <1>2, <1>5 DEF IInv, RowsFit
  <2>2. CASE absent
    <3>1. rows = dep[p] /\ rawStatus = raw[p]
      BY <2>2 DEF rows, rawStatus
    <3>2. \A d \in Dataset : RowFits(r, d, dep[p][d])
      BY <1>2, <2>1 DEF RowFits
    <3> QED
      BY <2>1, <3>1, <3>2
  <2>3. CASE ~absent
    <3>1. rows = dep[r] /\ rawStatus = raw[r]
      BY <2>3 DEF rows, rawStatus
    <3> QED
      BY <2>1, <2>3, <3>1
  <2> QED
    BY <2>2, <2>3
<1>13. RowsFit'
  <2> SUFFICES ASSUME NEW q \in Process, status'[q] # "ABSENT"
               PROVE  raw'[q] # "NONE" /\ \A d \in Dataset : RowFits(q, d, dep[q][d])'
    BY DEF RowsFit
  <2>1. CASE q = r
    BY <1>4, <1>6, <1>12, <2>1 DEF RowFits, Key
  <2>2. CASE q # r
    <3>1. status[q] # "ABSENT" /\ raw'[q] = raw[q] /\ dep'[q] = dep[q]
      BY <1>4, <2>2
    <3>2. raw[q] # "NONE" /\ \A d \in Dataset : RowFits(q, d, dep[q][d])
      BY <3>1 DEF IInv, RowsFit
    <3> QED
      BY <1>6, <3>1, <3>2 DEF RowFits, Key
  <2> QED
    BY <2>1, <2>2
<1>14. InputsReady'
  <2>1. rawStatus = "READY"
    BY <1>1, <1>12, QueuedIsReady
  <2>2. Needs[r.dataset] \subseteq Dataset
    BY <1>2, ProcessingAssumption
  <2>3. \A d \in Dataset : rows[d].status \in {"NONE", "READY"}
    BY <1>1, QueuedIsReady
  <2>4. \A d \in Needs[r.dataset] : rows[d].status = "READY"
    BY <1>12, <2>2, <2>3 DEF RowFits
  <2> QED
    BY <1>4, <2>1, <2>4 DEF IInv, InputsReady
<1>15. RowsDecide'
  BY <1>4 DEF IInv, RowsDecide, Replannable
<1>16. ReleasesDelivered' /\ DownIsIdle'
  BY <1>1, <1>6 DEF IInv, ReleasesDelivered, DownIsIdle, Key
<1>17. PlannerReads' /\ PlannerHolds'
  <2>1. planner.created \cup planner.locked \subseteq Process
    BY <1>1 DEF TypeOK
  <2>2. \A q \in planner.created \cup planner.locked : status'[q] = status[q]
    BY <1>1, <1>4, <2>1 DEF Free
  <2> QED
    BY <1>1, <1>4, <1>6, <2>2, PlannerKept DEF IInv
<1>18. ScopesApart'
  <2>1. Running' \subseteq Running
    BY <1>4 DEF Running
  <2> QED
    BY <2>1, FewerRun DEF IInv
<1> QED
  BY <1>8, <1>9, <1>10, <1>11, <1>13, <1>14, <1>15, <1>16, <1>17, <1>18 DEF IInv

\* A task is skipped or cancelled.
LEMMA TransitionTaskInv ==
  ASSUME IInv, NEW p \in Process, NEW target \in {"SKIPPED", "CANCELLED"}, TransitionTask(p, target)
  PROVE  IInv'
<1>1. /\ TypeOK /\ status[p] \in Mutable /\ Free(p)
      /\ \A q \in Dependents(p) : Free(q)
      /\ dep' = Marked(p, "FAILED")
      /\ status' = [q \in Process |->
           IF q = p THEN target
           ELSE IF q \in Dependents(p) /\ status[q] \in Mutable THEN "BLOCKED"
           ELSE status[q]]
      /\ UNCHANGED <<available, planned, attempts, limit, lease, raw, release, worker, planner, code, up, faults, retries>>
  BY DEF TransitionTask, IInv
<1>2. \A q \in Dependents(p) : status[q] \in Replannable \cup {"FAILED", "SKIPPED", "CANCELLED"}
  BY <1>1, ReadyDependOnDelivered DEF Delivered, Mutable
<1>3. \A q \in Process : status'[q] =
          IF q = p THEN target
          ELSE IF q \in Dependents(p) /\ status[q] \in Replannable THEN "BLOCKED" ELSE status[q]
  BY <1>1, <1>2 DEF Mutable, Replannable
<1>4. TypeOK'
  <2>1. status' \in [Process -> Statuses]
    BY <1>1 DEF TypeOK, Statuses, Mutable, Terminal
  <2>2. dep' \in [Process -> [Dataset -> Rows]]
    BY <1>1, MarkedFits DEF RowStatuses
  <2>3. stops' \in 0 .. MaxStops
    BY <1>1, ProcessingAssumption DEF TransitionTask, Stop, TypeOK
  <2> QED
    BY <1>1, <2>1, <2>2, <2>3 DEF TypeOK
<1>5. DownIsIdle'
  BY <1>1 DEF IInv, DownIsIdle
<1>6. /\ TasksKnown' /\ AbsentBlank' /\ AttemptsFit' /\ RowsFit' /\ InputsReady' /\ RowsDecide'
      /\ ReleasesDelivered' /\ PlannerReads' /\ PlannerHolds' /\ ScopesApart'
  BY <1>1, <1>3, BlockInv DEF Free
<1> QED
  BY <1>4, <1>5, <1>6 DEF IInv

-----------------------------------------------------------------------------
(* The theorems.                                                           *)

\* Every step keeps the invariant.
LEMMA StepInv == IInv /\ [Next]_vars => IInv'
<1> SUFFICES ASSUME IInv, [Next]_vars PROVE IInv'
  OBVIOUS
<1>1. ASSUME NEW b \in Batch, NEW datasets \in SUBSET Affected[b], CloseBatch(b, datasets) PROVE IInv'
  BY <1>1, CloseBatchInv
<1>2. ASSUME Plan PROVE IInv'
  <2>1. ASSUME NEW b \in Batch, PlanBegin(b) PROVE IInv'
    BY <2>1, PlanBeginInv
  <2>2. ASSUME NEW skipped \in SUBSET {p \in Process : status[p] \in Replannable}, PlanResolve(skipped)
        PROVE  IInv'
    <3>1. skipped \in SUBSET Process
      OBVIOUS
    <3> QED
      BY <2>2, <3>1, PlanResolveInv
  <2> QED
    BY <1>2, <2>1, <2>2, PlanCommitInv DEF Plan
<1>3. ASSUME NEW w \in Worker, NEW p \in Process, Claim(w, p) PROVE IInv'
  BY <1>3, ClaimInv
<1>4. ASSUME NEW w \in Worker, Execute(w) PROVE IInv'
  BY <1>4, PublishInv, FailInv, WorkerDiesInv DEF Execute
<1>5. ASSUME NEW p \in Process, RecoverStale(p) PROVE IInv'
  BY <1>5, RecoverStaleInv
<1>6. ASSUME NEW newCode \in 1 .. LastCode, Restart(newCode) PROVE IInv'
  BY <1>6, RestartInv
<1>7. ASSUME Admin PROVE IInv'
  BY <1>7, RetryTaskInv, RetryReplacedInv, TransitionTaskInv DEF Admin
<1>8. CASE UNCHANGED vars
  <2>1. UNCHANGED <<taskVars, release, code, retries, planner, available, planned, worker, up, faults, stops>>
    BY <1>8 DEF vars, bounds
  <2>2. TypeOK' /\ DownIsIdle'
    BY <2>1 DEF IInv, TypeOK, DownIsIdle, taskVars
  <2>3. PlannerReads' /\ PlannerHolds'
    BY <2>1, TasksUntouched, PlannerKept DEF taskVars, IInv
  <2> QED
    BY <2>1, <2>2, <2>3, TasksUntouched DEF IInv
<1> QED
  BY <1>1, <1>2, <1>3, <1>4, <1>5, <1>6, <1>7, <1>8, CrashInv DEF Next

\* The invariant holds in every reachable state.
THEOREM Inductive == Spec => []IInv
BY InitInv, StepInv, PTL DEF Spec

\* Every variable keeps its type: statuses, attempt counts, dependency rows and
\* releases of Processing are what the code writes.
THEOREM TypeCorrect == Spec => []TypeOK
<1>1. IInv => TypeOK
  BY DEF IInv
<1> QED
  BY <1>1, Inductive, PTL

\* claim_next keeps to PROCESSING_MAX_WORKERS and to one running task for a release
\* scope, through recoveries, retries and replanning.
THEOREM LimitsHold == Spec => []ConcurrencyLimits
<1>1. IInv => ConcurrencyLimits
  BY DEF IInv, ScopesApart
<1> QED
  BY <1>1, Inductive, PTL

\* A task that is queued, runs, waits for a retry or has published has its raw assets,
\* and every row it needs was resolved to a task of that dataset and scope which has
\* published; at most an upgrade that read that task without a lock has cancelled it since.
InputsDelivered ==
    \A p \in Process : status[p] \in {"QUEUED", "RUNNING", "RETRY_WAIT", "SUCCESS"} =>
        /\ raw[p] = "READY"
        /\ \A d \in Needs[p.dataset] :
              /\ dep[p][d].on \in Delivered
              /\ Key(dep[p][d].on) = <<d, Scope[p.batch][d]>>

LEMMA InvDelivers == IInv => InputsDelivered
<1> SUFFICES ASSUME IInv, NEW p \in Process,
                    status[p] \in {"QUEUED", "RUNNING", "RETRY_WAIT", "SUCCESS"}
             PROVE  /\ raw[p] = "READY"
                    /\ \A d \in Needs[p.dataset] :
                          /\ dep[p][d].status = "READY" /\ dep[p][d].on \in Delivered
                          /\ Key(dep[p][d].on) = <<d, Scope[p.batch][d]>>
  BY DEF InputsDelivered
<1>1. Needs[p.dataset] \subseteq Dataset
  BY ProcessingAssumption DEF Process
<1>2. \A d \in Needs[p.dataset] : RowFits(p, d, dep[p][d])
  BY <1>1 DEF IInv, RowsFit
<1>3. raw[p] = "READY" /\ \A d \in Needs[p.dataset] : dep[p][d].status = "READY"
  BY DEF IInv, InputsReady
<1>4. \A q \in Delivered : q # None
  BY ProcessingAssumption DEF Delivered
<1> QED
  BY <1>2, <1>3, <1>4 DEF RowFits

\* No task runs or publishes on inputs nobody has published, whatever is upgraded,
\* recovered, retried, skipped or planned from stale reads.
THEOREM InputsAreDelivered == Spec => []InputsDelivered
BY Inductive, InvDelivers, PTL

\* No code release changes a processor: nothing is ever old.
SameRevisions == \A c, e \in 1 .. LastCode, d \in Dataset : Revision[c][d] = Revision[e][d]

LEMMA NothingIsOld ==
  ASSUME IInv, SameRevisions
  PROVE  /\ \A p \in Process : status[p] # "ABSENT" => ~Old(p) /\ p = Current(p.batch, p.dataset)
         /\ Delivered = {p \in Process : status[p] = "SUCCESS"}
<1>1. ASSUME NEW p \in Process, status[p] # "ABSENT"
      PROVE  ~Old(p) /\ p = Current(p.batch, p.dataset)
  <2>1. PICK c \in 1 .. code : p.rev = Revision[c][p.dataset]
    BY <1>1 DEF IInv, TasksKnown, Known
  <2>2. code \in 1 .. LastCode /\ c \in 1 .. LastCode /\ p.dataset \in Dataset
    BY ProcessingAssumption DEF IInv, TypeOK, Process
  <2>3. p.rev = Revision[code][p.dataset] /\ p.rev \in Nat
    BY <2>1, <2>2, ProcessingAssumption DEF SameRevisions
  <2> QED
    BY <2>3 DEF Old, Current, Process
<1> QED
  BY <1>1 DEF Delivered

\* While no code release changes a processor, no task is queued, runs or waits for a
\* retry unless every task it was resolved to has published.
THEOREM NeverDegraded ==
  ASSUME SameRevisions
  PROVE  Spec => []NoDegradedExecution
<1>1. IInv => NoDegradedExecution
  <2> SUFFICES ASSUME IInv, NEW p \in Process,
                      status[p] \in {"QUEUED", "RUNNING", "RETRY_WAIT", "SUCCESS"}
               PROVE  /\ raw[p] = "READY"
                      /\ \A d \in Needs[p.dataset] :
                            dep[p][d].status = "READY" /\ status[dep[p][d].on] = "SUCCESS"
    BY DEF NoDegradedExecution
  <2> QED
    BY InvDelivers, NothingIsOld DEF InputsDelivered, IInv, InputsReady
<1> QED
  BY <1>1, Inductive, PTL

\* What a step does to releases and successes: a thread that holds its lease publishes,
\* or nothing is published.
LEMMA OnlyHoldersPublish ==
  ASSUME IInv, [Next]_vars
  PROVE  \/ \E w \in Worker : Publish(w) /\ worker[w] \in Process /\ Holds(w, worker[w])
         \/ /\ UNCHANGED release
            /\ \A p \in Process : status'[p] = "SUCCESS" => status[p] = "SUCCESS"
            /\ \A p \in Process : status[p] = "SUCCESS" =>
                  status'[p] = "SUCCESS" \/ (planner.phase = "resolved" /\ p \in planner.cancelled)
<1> DEFINE Silent ==
              /\ UNCHANGED release
              /\ \A p \in Process : status'[p] = "SUCCESS" => status[p] = "SUCCESS"
              /\ \A p \in Process : status[p] = "SUCCESS" =>
                    status'[p] = "SUCCESS" \/ (planner.phase = "resolved" /\ p \in planner.cancelled)
<1>1. ASSUME UNCHANGED <<release, status>> PROVE Silent
  BY <1>1
<1>2. TypeOK
  BY DEF IInv
<1>3. ASSUME PlanCommit PROVE Silent
  <2>1. \A p \in Process : status'[p] = CASE p \in planner.cancelled -> "CANCELLED"
          [] p \in planner.created \cup planner.locked -> Readiness(RawStatus(p), planner.rows[p])
          [] OTHER -> status[p]
    BY <1>3 DEF PlanCommit
  <2>2. \A p \in planner.created \cup planner.locked : status[p] # "SUCCESS"
    BY HeldWaits DEF Replannable
  <2>3. \A p \in Process : Readiness(RawStatus(p), planner.rows[p]) # "SUCCESS"
    BY ReadinessValues
  <2> QED
    BY <1>3, <2>1, <2>2, <2>3 DEF PlanCommit
<1>4. ASSUME Plan PROVE Silent
  <2>1. CASE \E b \in Batch : PlanBegin(b)
    BY <1>1, <2>1 DEF PlanBegin, taskVars
  <2>2. CASE \E skipped \in SUBSET {p \in Process : status[p] \in Replannable} : PlanResolve(skipped)
    BY <1>1, <2>2 DEF PlanResolve, taskVars
  <2> QED
    BY <1>3, <1>4, <2>1, <2>2 DEF Plan
<1>5. ASSUME NEW w \in Worker, NEW p \in Process, Claim(w, p) PROVE Silent
  BY <1>2, <1>5 DEF Claim, Claimable, TypeOK
<1>6. ASSUME NEW w \in Worker, Publish(w)
      PROVE  Silent \/ (worker[w] \in Process /\ Holds(w, worker[w]))
  BY <1>1, <1>2, <1>6 DEF Publish, TypeOK
<1>7. ASSUME NEW w \in Worker, NEW retryable \in BOOLEAN, Fail(w, retryable) PROVE Silent
  <2>1. worker[w] \in Process
    BY <1>2, <1>7 DEF Fail, TypeOK
  <2>2. CASE ~Holds(w, worker[w])
    BY <1>1, <1>7, <2>2 DEF Fail
  <2>3. CASE Holds(w, worker[w]) /\ Again(worker[w], retryable)
    BY <1>2, <1>7, <2>1, <2>3 DEF Fail, Holds, TypeOK
  <2>4. CASE Holds(w, worker[w]) /\ ~Again(worker[w], retryable)
    <3>1. \A q \in Process : status'[q] = IF q = worker[w] THEN "FAILED"
            ELSE IF q \in Dependents(worker[w]) /\ status[q] \notin Terminal THEN "BLOCKED"
            ELSE status[q]
      BY <1>7, <2>4 DEF Fail
    <3> QED
      BY <1>7, <2>4, <3>1 DEF Fail, Holds, Terminal
  <2> QED
    BY <2>2, <2>3, <2>4
<1>8. ASSUME NEW w \in Worker, Execute(w)
      PROVE  Silent \/ (Publish(w) /\ worker[w] \in Process /\ Holds(w, worker[w]))
  BY <1>1, <1>6, <1>7, <1>8 DEF Execute, WorkerDies, taskVars
<1>9. ASSUME NEW tasks \in SUBSET Running, Recover(tasks), UNCHANGED release PROVE Silent
  BY <1>9 DEF Recover, Running
<1>10. ASSUME NEW p \in Process, RecoverStale(p) PROVE Silent
  BY <1>9, <1>10 DEF RecoverStale, Running
<1>11. ASSUME NEW newCode \in 1 .. LastCode, Restart(newCode) PROVE Silent
  BY <1>9, <1>11 DEF Restart
<1>12. ASSUME NEW p \in Process, RetryTask(p) PROVE Silent
  BY <1>2, <1>12 DEF RetryTask, Retryable, TypeOK
<1>13. ASSUME NEW p \in Process, RetryReplaced(p) PROVE Silent
  <2>1. Current(p.batch, p.dataset) \in Process
    BY <1>2, CurrentIsProcess DEF Process
  <2> QED
    BY <1>2, <1>13, <2>1 DEF RetryReplaced, TypeOK
<1>14. ASSUME NEW p \in Process, NEW target \in {"SKIPPED", "CANCELLED"}, TransitionTask(p, target)
       PROVE  Silent
  <2>1. \A q \in Process : status'[q] = IF q = p THEN target
          ELSE IF q \in Dependents(p) /\ status[q] \in Mutable THEN "BLOCKED"
          ELSE status[q]
    BY <1>14 DEF TransitionTask
  <2> QED
    BY <1>14, <2>1 DEF TransitionTask, Mutable
<1>15. ASSUME Admin PROVE Silent
  <2> HIDE DEF Silent
  <2> QED
    BY <1>12, <1>13, <1>14, <1>15, Zenon DEF Admin
<1>16. ASSUME UNCHANGED vars PROVE Silent
  BY <1>1, <1>16 DEF vars, taskVars
<1>17. ASSUME Crash PROVE Silent
  BY <1>1, <1>17 DEF Crash, taskVars
<1>18. ASSUME NEW b \in Batch, NEW datasets \in SUBSET Affected[b], CloseBatch(b, datasets) PROVE Silent
  BY <1>1, <1>18 DEF CloseBatch, taskVars
<1> HIDE DEF Silent
<1>19. Silent \/ \E w \in Worker : Publish(w) /\ worker[w] \in Process /\ Holds(w, worker[w])
  BY <1>4, <1>5, <1>8, <1>10, <1>11, <1>15, <1>16, <1>17, <1>18 DEF Next
<1> QED
  BY <1>19 DEF Silent

\* publish_success: only the execution whose lease token is still current publishes, in
\* the step in which the release becomes the task's and the thread is done.
THEOREM HoldersPublish == Spec => PublishedByLeaseHolder
<1>1. IInv /\ [Next]_vars =>
        [\A p \in Process : status'[p] = "SUCCESS" /\ status[p] # "SUCCESS" =>
           /\ release'[Key(p)] = p
           /\ \E w \in Worker : worker[w] = p /\ lease[p] = w /\ worker'[w] = None]_vars
  <2> SUFFICES ASSUME IInv, [Next]_vars, NEW p \in Process,
                      status'[p] = "SUCCESS", status[p] # "SUCCESS"
               PROVE  /\ release'[Key(p)] = p
                      /\ \E w \in Worker : worker[w] = p /\ lease[p] = w /\ worker'[w] = None
    OBVIOUS
  <2>1. PICK w \in Worker : Publish(w) /\ worker[w] \in Process /\ Holds(w, worker[w])
    BY OnlyHoldersPublish
  <2>2. p = worker[w]
    <3>1. status'[p] = IF p = worker[w] THEN "SUCCESS"
                       ELSE IF p \in Dependents(worker[w]) /\ status[p] \in Mutable
                       THEN Readiness(raw[p], dep'[p])
                       ELSE status[p]
      BY <2>1 DEF Publish
    <3> QED
      BY <3>1, ReadinessValues
  <2> QED
    BY <2>1, <2>2, KeyIsKey DEF Publish, Holds, IInv, TypeOK
<1> QED
  BY <1>1, Inductive, PTL DEF Spec, PublishedByLeaseHolder

\* While no code release changes a processor, Processing implements ReleaseLedger: the
\* fence, the dependency rows and the release row together publish each task once, for
\* good, and after everything it needs.
THEOREM ReleasesRefined ==
  ASSUME SameRevisions
  PROVE  Spec => ImplementsReleases
<1> DEFINE done == {p \in Process : status[p] = "SUCCESS"}
<1>1. Init => Abstract!Init
  BY DEF Init, Abstract!Init, Keys
<1>2. IInv /\ [Next]_vars => [Abstract!Next]_(Abstract!ledgerVars)
  <2> SUFFICES ASSUME IInv, [Next]_vars
               PROVE  Abstract!Next \/ UNCHANGED <<done, release>>
    BY DEF Abstract!ledgerVars
  <2>1. planner.phase = "resolved" => planner.cancelled = {}
    BY NothingIsOld DEF IInv, PlannerHolds, TypeOK
  <2>2. ASSUME NEW w \in Worker, NEW p \in Process, p = worker[w], Publish(w), Holds(w, p)
        PROVE  Abstract!Publish(p)
    <3>1. status[p] = "RUNNING" /\ release' = [release EXCEPT ![Key(p)] = p]
      BY <2>2 DEF Publish, Holds
    <3>2. \A q \in Process : (status'[q] = "SUCCESS") <=> (q = p \/ status[q] = "SUCCESS")
      <4>1. \A q \in Process : status'[q] = IF q = p THEN "SUCCESS"
              ELSE IF q \in Dependents(p) /\ status[q] \in Mutable
              THEN Readiness(raw[q], dep'[q])
              ELSE status[q]
        BY <2>2 DEF Publish
      <4> QED
        BY <4>1, ReadinessValues DEF Mutable
    <3>3. \A d \in Needs[p.dataset] :
            dep[p][d].on \in done /\ Key(dep[p][d].on) = <<d, Scope[p.batch][d]>>
      BY <2>2, <3>1, InvDelivers, NothingIsOld DEF InputsDelivered
    <3>4. p \notin done /\ done' = done \cup {p}
      BY <3>1, <3>2
    <3>5. \A q \in Process : Abstract!Key(q) = Key(q)
      BY DEF Abstract!Key, Key
    <3>6. \A d \in Needs[p.dataset] : \E q \in done : Abstract!Key(q) = <<d, Scope[p.batch][d]>>
      BY <3>3, <3>5
    <3>7. release' = [release EXCEPT ![Abstract!Key(p)] = p]
      BY <3>1, <3>5
    <3> HIDE DEF done
    <3> QED
      BY <3>4, <3>6, <3>7 DEF Abstract!Publish, done
  <2>3. ASSUME UNCHANGED release,
               \A p \in Process : status'[p] = "SUCCESS" => status[p] = "SUCCESS",
               \A p \in Process : status[p] = "SUCCESS" => status'[p] = "SUCCESS"
        PROVE  UNCHANGED <<done, release>>
    BY <2>3
  <2>4. CASE \E w \in Worker : Publish(w) /\ worker[w] \in Process /\ Holds(w, worker[w])
    <3>1. PICK w \in Worker : Publish(w) /\ worker[w] \in Process /\ Holds(w, worker[w])
      BY <2>4
    <3>2. PICK p \in Process : p = worker[w]
      BY <3>1
    <3>3. Abstract!Publish(p)
      BY <2>2, <3>1, <3>2
    <3> QED
      BY <3>3 DEF Abstract!Next
  <2>5. CASE ~\E w \in Worker : Publish(w) /\ worker[w] \in Process /\ Holds(w, worker[w])
    <3>1. /\ UNCHANGED release
          /\ \A p \in Process : status'[p] = "SUCCESS" => status[p] = "SUCCESS"
          /\ \A p \in Process : status[p] = "SUCCESS" =>
                status'[p] = "SUCCESS" \/ (planner.phase = "resolved" /\ p \in planner.cancelled)
      BY <2>5, OnlyHoldersPublish
    <3>2. UNCHANGED <<done, release>>
      BY <2>1, <2>3, <3>1
    <3> QED
      BY <3>2
  <2> QED
    BY <2>4, <2>5
<1> QED
  BY <1>1, <1>2, Inductive, PTL DEF Spec, ImplementsReleases, Abstract!Releases

-----------------------------------------------------------------------------
(* The planner: what a plan that is recorded leaves behind. The planner     *)
(* reads tasks it does not lock, so that threads, recoveries and the        *)
(* administrator change what it has read; each argument says what they      *)
(* cannot change between its reads and its commit. First: what the others   *)
(* do meanwhile.                                                            *)

\* The statuses an upgrade may not leave behind.
Pending == {"WAITING_DEPENDENCY", "QUEUED", "BLOCKED"}

\* Without the planner, no task begins to wait, and none but the current one is queued.
Unplanned ==
    /\ UNCHANGED planned
    /\ UNCHANGED <<planner, code>> \/ planner' = NotPlanning
    /\ code' \in code .. LastCode
    /\ \A p \in Process :
          /\ status'[p] \in Replannable =>
                /\ status[p] \in Replannable
                /\ \A d \in Dataset : /\ dep'[p][d].on = dep[p][d].on
                                      /\ dep'[p][d].status = "WAITING" => dep[p][d].status = "WAITING"
          /\ status'[p] \in Pending =>
                status[p] \in Pending \/ (UNCHANGED code /\ p = Current(p.batch, p.dataset))
          /\ status[p] # "ABSENT" => status'[p] # "ABSENT"
          /\ status[p] = "ABSENT" /\ status'[p] # "ABSENT" =>
                /\ p = Current(p.batch, p.dataset)
                /\ \E q \in Process : RetryReplaced(q) /\ p = Current(q.batch, q.dataset)

\* Steps that leave the tasks, or give attempts back.
LEMMA LeftAlone ==
  ASSUME IInv, UNCHANGED <<planned, dep>>, NEW tasks \in SUBSET Running,
         UNCHANGED status \/ Recover(tasks),
         UNCHANGED <<planner, code>> \/ planner' = NotPlanning, code' \in code .. LastCode
  PROVE  Unplanned
<1>1. \A p \in Process : status'[p] = status[p] \/ (status[p] = "RUNNING" /\ status'[p] = "RETRY_WAIT")
  BY DEF Recover, Running
<1> QED
  BY <1>1 DEF Unplanned, Replannable, Pending

\* Marking rows never makes one wait.
LEMMA MarksAlone ==
  ASSUME IInv, UNCHANGED <<planned, planner, code>>, NEW p \in Process,
         NEW s \in {"READY", "FAILED"}, dep' = Marked(p, s), p \notin Delivered,
         status[p] \in {"RUNNING"} \cup Mutable, status'[p] \in Terminal,
         \A q \in Process : q # p => status'[q] = status[q]
            \/ (q \in Dependents(p) /\ status[q] \in Replannable /\ status'[q] \in Pending)
  PROVE  Unplanned
<1>1. TypeOK
  BY DEF IInv
<1>2. code' \in code .. LastCode
  BY <1>1, ProcessingAssumption DEF TypeOK
<1>3. \A q \in Process, d \in Dataset :
        /\ dep'[q][d].on = dep[q][d].on
        /\ dep[q][d].on = p => dep'[q][d].status = s
        /\ dep[q][d].on # p => dep'[q][d] = dep[q][d]
  BY <1>1, MarkedFits DEF RowStatuses
<1>4. \A q \in Process, d \in Dataset :
        dep'[q][d].status = "WAITING" => dep[q][d].status = "WAITING"
  BY <1>3
<1>5. \A q \in Process : /\ status'[q] \in Replannable => status[q] \in Replannable
                         /\ status'[q] \in Pending => status[q] \in Pending
                         /\ status[q] # "ABSENT" => status'[q] # "ABSENT"
                         /\ status[q] = "ABSENT" => status'[q] = "ABSENT"
  BY DEF Replannable, Pending, Terminal, Mutable
<1> QED
  BY <1>2, <1>3, <1>4, <1>5 DEF Unplanned

LEMMA OthersDoNotPlan ==
  ASSUME IInv, [Next]_vars, ~Plan
  PROVE  Unplanned
<1>1. TypeOK
  BY DEF IInv
<1>2. code \in code .. LastCode
  BY <1>1, ProcessingAssumption DEF TypeOK
<1>3. {} \in SUBSET Running
  OBVIOUS
<1>4. ASSUME NEW b \in Batch, NEW datasets \in SUBSET Affected[b], CloseBatch(b, datasets) PROVE Unplanned
  BY <1>2, <1>3, <1>4, LeftAlone DEF CloseBatch, taskVars
<1>5. ASSUME NEW w \in Worker, NEW p \in Process, Claim(w, p) PROVE Unplanned
  <2>1. \A q \in Process : status'[q] = IF q = p THEN "RUNNING" ELSE status[q]
    BY <1>1, <1>5 DEF Claim, TypeOK
  <2> QED
    BY <1>2, <1>5, <2>1 DEF Claim, Claimable, Unplanned, Replannable, Pending
<1>6. ASSUME NEW w \in Worker, Publish(w) PROVE Unplanned
  <2>1. worker[w] \in Process
    BY <1>1, <1>6 DEF Publish, TypeOK
  <2>2. CASE ~Holds(w, worker[w])
    BY <1>2, <1>3, <1>6, <2>2, LeftAlone DEF Publish
  <2>3. CASE Holds(w, worker[w])
    <3> DEFINE p == worker[w]
    <3>1. /\ status[p] = "RUNNING" /\ p \notin Delivered
          /\ dep' = Marked(p, "READY")
          /\ UNCHANGED <<planned, planner, code>>
          /\ status' = [q \in Process |->
               IF q = p THEN "SUCCESS"
               ELSE IF q \in Dependents(p) /\ status[q] \in Mutable
               THEN Readiness(raw[q], dep'[q])
               ELSE status[q]]
      BY <1>6, <2>3 DEF Publish, Holds, Delivered
    <3>2. \A q \in Process : q # p => status'[q] = status[q]
            \/ (q \in Dependents(p) /\ status[q] \in Replannable /\ status'[q] \in Pending)
      <4> SUFFICES ASSUME NEW q \in Dependents(p), q \in Process, q # p, status[q] \in Mutable
                   PROVE  status[q] \in Replannable /\ status'[q] \in Pending
        BY <3>1
      <4>1. status[q] \in Replannable
        BY <2>1, <3>1, ReadyDependOnDelivered DEF Mutable
      <4>2. status'[q] = Readiness(raw[q], dep'[q])
        BY <3>1
      <4> QED
        BY <4>1, <4>2, ReadinessValues DEF Pending
    <3>3. status'[p] = "SUCCESS"
      BY <2>1, <3>1
    <3> HIDE DEF p
    <3> QED
      BY <2>1, <3>1, <3>2, <3>3, MarksAlone DEF Terminal, p
  <2> QED
    BY <2>2, <2>3
<1>7. ASSUME NEW w \in Worker, NEW retryable \in BOOLEAN, Fail(w, retryable) PROVE Unplanned
  <2>1. worker[w] \in Process
    BY <1>1, <1>7 DEF Fail, TypeOK
  <2>2. CASE ~Holds(w, worker[w])
    BY <1>2, <1>3, <1>7, <2>2, LeftAlone DEF Fail
  <2>3. CASE Holds(w, worker[w]) /\ Again(worker[w], retryable)
    <3>1. \A q \in Process : status'[q] = IF q = worker[w] THEN "RETRY_WAIT" ELSE status[q]
      BY <1>1, <1>7, <2>1, <2>3 DEF Fail, TypeOK
    <3> QED
      BY <1>2, <1>7, <2>1, <2>3, <3>1 DEF Fail, Holds, Unplanned, Replannable, Pending
  <2>4. CASE Holds(w, worker[w]) /\ ~Again(worker[w], retryable)
    <3> DEFINE p == worker[w]
    <3>1. /\ status[p] = "RUNNING" /\ p \notin Delivered
          /\ dep' = Marked(p, "FAILED")
          /\ UNCHANGED <<planned, planner, code>>
          /\ status' = [q \in Process |->
               IF q = p THEN "FAILED"
               ELSE IF q \in Dependents(p) /\ status[q] \notin Terminal THEN "BLOCKED"
               ELSE status[q]]
      BY <1>7, <2>4 DEF Fail, Holds, Delivered
    <3>2. \A q \in Process : q # p => status'[q] = status[q]
            \/ (q \in Dependents(p) /\ status[q] \in Replannable /\ status'[q] \in Pending)
      <4> SUFFICES ASSUME NEW q \in Dependents(p), q \in Process, q # p, status[q] \notin Terminal
                   PROVE  status[q] \in Replannable /\ status'[q] \in Pending
        BY <3>1
      <4>1. status[q] \in Replannable
        BY <2>1, <3>1, ReadyDependOnDelivered DEF Terminal
      <4> QED
        BY <3>1, <4>1 DEF Pending
    <3>3. status'[p] = "FAILED"
      BY <2>1, <3>1
    <3> HIDE DEF p
    <3> QED
      BY <2>1, <3>1, <3>2, <3>3, MarksAlone DEF Terminal, p
  <2> QED
    BY <2>2, <2>3, <2>4
<1>8. ASSUME NEW w \in Worker, Execute(w) PROVE Unplanned
  <2>1. CASE WorkerDies(w)
    BY <1>2, <1>3, <2>1, LeftAlone DEF WorkerDies, taskVars
  <2> QED
    BY <1>6, <1>7, <1>8, <2>1 DEF Execute
<1>9. ASSUME NEW p \in Process, RecoverStale(p) PROVE Unplanned
  <2>1. {p} \in SUBSET Running
    BY <1>9 DEF RecoverStale, Running
  <2> QED
    BY <1>2, <1>9, <2>1, LeftAlone DEF RecoverStale
<1>10. ASSUME Crash PROVE Unplanned
  BY <1>2, <1>3, <1>10, LeftAlone DEF Crash, taskVars
<1>11. ASSUME NEW newCode \in 1 .. LastCode, Restart(newCode) PROVE Unplanned
  <2>1. planner' = NotPlanning
    BY <1>11 DEF Restart, IInv, DownIsIdle
  <2>2. code' \in code .. LastCode
    BY <1>1, <1>11, ProcessingAssumption DEF Restart, TypeOK
  <2> QED
    BY <1>11, <2>1, <2>2, LeftAlone DEF Restart
<1>12. ASSUME NEW p \in Process, RetryTask(p) PROVE Unplanned
  <2>1. \A q \in Process : status'[q] = IF q = p THEN "QUEUED" ELSE status[q]
    BY <1>1, <1>12 DEF RetryTask, TypeOK
  <2> QED
    BY <1>2, <1>12, <2>1 DEF RetryTask, Retryable, Unplanned, Replannable, Pending
<1>13. ASSUME NEW p \in Process, RetryReplaced(p) PROVE Unplanned
  <2> DEFINE r == Current(p.batch, p.dataset)
  <2>1. r \in Process /\ r = Current(r.batch, r.dataset)
    BY <1>1, CurrentIsProcess DEF Process, Current
  <2>2. /\ UNCHANGED <<planned, planner, code>>
        /\ status' = [status EXCEPT ![r] = "QUEUED"]
    BY <1>13 DEF RetryReplaced
  <2>3. \A q \in Process : q # r => dep'[q] = dep[q]
    BY <1>1, <1>13, <2>1 DEF RetryReplaced, TypeOK
  <2> HIDE DEF r
  <2>4. \A q \in Process : status'[q] = IF q = r THEN "QUEUED" ELSE status[q]
    BY <1>1, <2>1, <2>2 DEF TypeOK
  <2>5. \E q \in Process : RetryReplaced(q) /\ r = Current(q.batch, q.dataset)
    BY <1>13 DEF r
  <2> QED
    BY <1>2, <2>1, <2>2, <2>3, <2>4, <2>5 DEF Unplanned, Replannable, Pending
<1>14. ASSUME NEW p \in Process, NEW target \in {"SKIPPED", "CANCELLED"}, TransitionTask(p, target)
       PROVE  Unplanned
  <2>1. /\ status[p] \in Mutable /\ p \notin Delivered
        /\ dep' = Marked(p, "FAILED")
        /\ UNCHANGED <<planned, planner, code>>
        /\ status' = [q \in Process |->
             IF q = p THEN target
             ELSE IF q \in Dependents(p) /\ status[q] \in Mutable THEN "BLOCKED"
             ELSE status[q]]
    BY <1>14 DEF TransitionTask, Delivered, Mutable
  <2>2. \A q \in Process : q # p => status'[q] = status[q]
          \/ (q \in Dependents(p) /\ status[q] \in Replannable /\ status'[q] \in Pending)
    <3> SUFFICES ASSUME NEW q \in Dependents(p), q \in Process, q # p, status[q] \in Mutable
                 PROVE  status[q] \in Replannable /\ status'[q] \in Pending
      BY <2>1
    <3>1. status[q] \in Replannable
      BY <2>1, ReadyDependOnDelivered DEF Mutable
    <3> QED
      BY <2>1, <3>1 DEF Pending
  <2> QED
    BY <2>1, <2>2, MarksAlone DEF Terminal
<1>15. ASSUME Admin PROVE Unplanned
  BY <1>12, <1>13, <1>14, <1>15, Zenon DEF Admin
<1>16. ASSUME UNCHANGED vars PROVE Unplanned
  BY <1>2, <1>3, <1>16, LeftAlone DEF vars, taskVars
<1> HIDE DEF Unplanned
<1> QED
  BY <1>4, <1>5, <1>8, <1>9, <1>10, <1>11, <1>15, <1>16 DEF Next

-----------------------------------------------------------------------------
(* A plan that is recorded leaves nothing waiting.                         *)

\* A plan under way is not recorded yet; what has appeared since its reads does not wait.
PlanOpen == planner.phase # "idle" =>
    /\ planned[planner.batch] # code
    /\ \A p \in Process :
          p.batch = planner.batch /\ planner.seen[p] = "ABSENT" => status[p] \notin Replannable

\* A plan that is going to be recorded has resolved everything that waits.
PlanComplete == planner.phase = "resolved" /\ planner.complete =>
    /\ \A p \in planner.created \cup planner.locked, d \in Dataset :
          planner.rows[p][d].status # "WAITING"
    /\ \A p \in Process :
          p = Current(planner.batch, p.dataset) /\ status[p] \in Replannable => p \in planner.locked

\* Once it is recorded, no row of a task that waits is WAITING.
PlannedRows == \A p \in Process :
    planned[p.batch] = code /\ p = Current(p.batch, p.dataset) /\ status[p] \in Replannable =>
        \A d \in Dataset : dep[p][d].status # "WAITING"

PlansKnown == \A b \in Batch : planned[b] <= code

PlansInv == PlanOpen /\ PlanComplete /\ PlannedRows /\ PlansKnown

LEMMA PlansInit == Init => PlansInv
<1> SUFFICES ASSUME Init PROVE PlansInv
  OBVIOUS
<1> QED
  BY DEF Init, NotPlanning, PlansInv, PlanOpen, PlanComplete, PlannedRows, PlansKnown, Replannable

LEMMA PlansUnplanned ==
  ASSUME IInv, PlansInv, Unplanned
  PROVE  PlansInv'
<1> USE DEF PlansInv
<1>1. /\ planned' = planned /\ code' \in code .. LastCode /\ TypeOK
      /\ code \in 1 .. LastCode /\ LastCode \in Nat
  BY ProcessingAssumption DEF Unplanned, IInv, TypeOK
<1>2. \A p \in Process : status'[p] \in Replannable => status[p] \in Replannable
  BY DEF Unplanned
<1>3. PlanOpen' /\ PlanComplete'
  <2>1. CASE planner' = NotPlanning
    BY <2>1 DEF PlanOpen, PlanComplete, NotPlanning
  <2>2. CASE UNCHANGED <<planner, code>>
    BY <1>1, <1>2, <2>2 DEF PlanOpen, PlanComplete, Current
  <2> QED
    BY <2>1, <2>2 DEF Unplanned
<1>4. PlansKnown'
  <2>1. \A b \in Batch : planned[b] \in Nat
    BY <1>1 DEF TypeOK
  <2> QED
    BY <1>1, <2>1 DEF PlansKnown
<1>5. PlannedRows'
  <2> SUFFICES ASSUME NEW p \in Process, planned[p.batch] = code', p = Current(p.batch, p.dataset)',
                      status'[p] \in Replannable, NEW d \in Dataset
               PROVE  dep'[p][d].status # "WAITING"
    BY <1>1 DEF PlannedRows, Current
  <2>1. code' = code
    <3>1. p.batch \in Batch
      BY DEF Process
    <3>2. planned[p.batch] <= code /\ planned[p.batch] \in Nat
      BY <1>1, <3>1 DEF PlansKnown, TypeOK
    <3> QED
      BY <1>1, <3>2
  <2>2. dep[p][d].status # "WAITING"
    BY <1>2, <2>1 DEF PlannedRows, Current
  <2> QED
    BY <2>2 DEF Unplanned
<1> QED
  BY <1>3, <1>4, <1>5

LEMMA PlansBegin ==
  ASSUME IInv, PlansInv, NEW b \in Batch, PlanBegin(b)
  PROVE  PlansInv'
<1> USE DEF PlansInv, PlanBegin, taskVars
<1>1. /\ planner'.phase = "read" /\ planner'.batch = b
      /\ planner'.seen = [p \in Process |-> IF p.batch = b THEN status[p] ELSE "ABSENT"]
  BY DEF NotPlanning
<1>2. PlanOpen' /\ PlanComplete'
  BY <1>1 DEF PlanOpen, PlanComplete, Replannable
<1>3. PlannedRows' /\ PlansKnown'
  BY DEF PlannedRows, PlansKnown, Current
<1> QED
  BY <1>2, <1>3

\* The current task of a dataset that waits is the one the planner keeps: it was there
\* when the planner read.
LEMMA KeepsWhatWaits ==
  ASSUME IInv, PlanOpen, planner.phase = "read", NEW p \in Process,
         p = Current(planner.batch, p.dataset), status[p] \in Replannable
  PROVE  p = Kept(planner.batch, p.dataset) /\ p.dataset \in Affected[planner.batch]
<1>1. p.batch = planner.batch
  BY DEF Current
<1>2. planner.seen[p] # "ABSENT"
  BY <1>1 DEF PlanOpen
<1>3. p.dataset \in Affected[p.batch]
  BY DEF IInv, TasksKnown, Replannable
<1> QED
  BY <1>1, <1>2, <1>3 DEF Kept

LEMMA PlansResolve ==
  ASSUME IInv, PlansInv, NEW skipped \in SUBSET Process, PlanResolve(skipped)
  PROVE  PlansInv'
<1> USE DEF PlansInv
<1> DEFINE b == planner.batch
           kept == {Kept(b, d) : d \in Affected[b]}
           inserted == {p \in kept : status[p] = "ABSENT"}
           candidates == {p \in kept : status[p] \in Replannable}
           locked == candidates \ skipped
           rows == [p \in Process |->
                      [d \in Dataset |->
                         IF p \in inserted \cup locked /\ d \in Needs[p.dataset]
                         THEN Resolve(b, d, inserted) ELSE NoRow]]
<1>1. /\ planner.phase = "read" /\ TypeOK
      /\ UNCHANGED <<planned, status, dep, code>>
      /\ skipped \subseteq candidates
  BY DEF PlanResolve, taskVars, IInv
<1>2. /\ planner'.phase = "resolved" /\ planner'.batch = b /\ planner'.seen = planner.seen
      /\ planner'.created = inserted /\ planner'.locked = locked /\ planner'.rows = rows
      /\ planner'.complete = Complete(skipped, inserted \cup locked, rows)
  BY <1>1 DEF PlanResolve, TypeOK
<1>3. PlanOpen'
  BY <1>1, <1>2 DEF PlanOpen
<1>4. PlannedRows' /\ PlansKnown'
  BY <1>1 DEF PlannedRows, PlansKnown, Current
<1>5. \A p \in Process : p = Current(b, p.dataset) /\ status[p] \in Replannable => p \in candidates
  <2> SUFFICES ASSUME NEW p \in Process, p = Current(b, p.dataset), status[p] \in Replannable
               PROVE  p \in kept
    OBVIOUS
  <2> QED
    BY <1>1, KeepsWhatWaits
<1> HIDE DEF kept, inserted, candidates, rows
<1>6. PlanComplete'
  <2> SUFFICES ASSUME Complete(skipped, inserted \cup locked, rows)
               PROVE  /\ \A p \in inserted \cup locked, d \in Dataset : rows[p][d].status # "WAITING"
                      /\ \A p \in Process :
                            p = Current(b, p.dataset) /\ status[p] \in Replannable => p \in locked
    BY <1>1, <1>2 DEF PlanComplete, Current
  <2> QED
    BY <1>5 DEF Complete
<1> QED
  BY <1>3, <1>4, <1>6

\* What the commit does to a task: cancel it, give it new rows, or nothing.
LEMMA CommitEffect ==
  ASSUME IInv, PlanCommit, NEW p \in Process
  PROVE  /\ p \in planner.cancelled => status'[p] = "CANCELLED" /\ Old(p)
         /\ p \in planner.created \cup planner.locked =>
               /\ status'[p] = Readiness(RawStatus(p), planner.rows[p])
               /\ dep'[p] = planner.rows[p] /\ raw'[p] = RawStatus(p)
               /\ p = Current(planner.batch, p.dataset) /\ p.batch = planner.batch
               /\ p.dataset \in Affected[planner.batch]
         /\ p \notin planner.created \cup planner.locked => dep'[p] = dep[p] /\ raw'[p] = raw[p]
         /\ p \notin planner.created \cup planner.locked \cup planner.cancelled => status'[p] = status[p]
         /\ planned'[planner.batch] = IF planner.complete THEN code ELSE planned[planner.batch]
         /\ \A b \in Batch : b # planner.batch => planned'[b] = planned[b]
<1> DEFINE resolved == planner.created \cup planner.locked
           new == Readiness(RawStatus(p), planner.rows[p])
<1>1. planner.phase = "resolved" /\ planner.batch \in Batch /\ TypeOK
  BY DEF PlanCommit, IInv, PlannerReads
<1>2. /\ status'[p] = CASE p \in planner.cancelled -> "CANCELLED"
                        [] p \in resolved -> new
                        [] OTHER -> status[p]
      /\ raw'[p] = IF p \in resolved THEN RawStatus(p) ELSE raw[p]
      /\ dep'[p] = IF p \in resolved THEN planner.rows[p] ELSE dep[p]
  BY DEF PlanCommit
<1>3. p \in planner.cancelled => Old(p)
  BY <1>1 DEF IInv, PlannerHolds
<1>4. p \in resolved => /\ p = Current(planner.batch, p.dataset) /\ p.batch = planner.batch
                        /\ p.dataset \in Affected[planner.batch]
  BY <1>1 DEF IInv, PlannerHolds, Planned, Current
<1>5. p \in resolved => p \notin planner.cancelled
  <2> SUFFICES ASSUME p \in resolved PROVE ~Old(p)
    BY <1>3
  <2>1. p.rev = Revision[code][p.dataset] /\ p.rev \in Nat
    BY <1>1, <1>4, ProcessingAssumption DEF Current, Process, TypeOK
  <2> QED
    BY <2>1 DEF Old
<1> HIDE DEF resolved, new
<1>6. /\ p \in planner.cancelled => status'[p] = "CANCELLED"
      /\ p \in resolved => status'[p] = new /\ raw'[p] = RawStatus(p) /\ dep'[p] = planner.rows[p]
      /\ p \notin resolved => raw'[p] = raw[p] /\ dep'[p] = dep[p]
      /\ p \notin resolved /\ p \notin planner.cancelled => status'[p] = status[p]
  BY <1>2, <1>5
<1>7. /\ planned'[planner.batch] = IF planner.complete THEN code ELSE planned[planner.batch]
      /\ \A b \in Batch : b # planner.batch => planned'[b] = planned[b]
  BY <1>1 DEF PlanCommit, TypeOK
<1> QED
  BY <1>3, <1>4, <1>6, <1>7 DEF resolved, new

LEMMA PlansCommit ==
  ASSUME IInv, PlansInv, PlanCommit
  PROVE  PlansInv'
<1> USE DEF PlansInv
<1>1. /\ planner.phase = "resolved" /\ planner.batch \in Batch /\ TypeOK
      /\ planner' = NotPlanning /\ code' = code
  BY DEF PlanCommit, IInv, PlannerReads
<1>2. PlanOpen' /\ PlanComplete'
  BY <1>1 DEF PlanOpen, PlanComplete, NotPlanning
<1>3. PlansKnown'
  <2>1. code \in Nat
    BY <1>1, ProcessingAssumption DEF TypeOK
  <2> QED
    BY <1>1, <2>1 DEF PlansKnown, PlanCommit, TypeOK
<1>4. PlannedRows'
  <2> SUFFICES ASSUME NEW p \in Process, planned'[p.batch] = code, p = Current(p.batch, p.dataset),
                      status'[p] \in Replannable, NEW d \in Dataset
               PROVE  dep'[p][d].status # "WAITING"
    BY <1>1 DEF PlannedRows, Current
  <2>0. p.batch \in Batch
    BY DEF Process
  <2>1. p \notin planner.cancelled
    BY CommitEffect DEF Replannable
  <2>2. CASE p \in planner.created \cup planner.locked
    <3>1. planner.complete
      BY <1>1, <2>2, CommitEffect DEF PlanOpen
    <3>2. dep'[p] = planner.rows[p]
      BY <2>2, CommitEffect
    <3> QED
      BY <1>1, <2>2, <3>1, <3>2 DEF PlanComplete
  <2>3. CASE p \notin planner.created \cup planner.locked
    <3>1. status'[p] = status[p] /\ dep'[p] = dep[p]
      BY <2>1, <2>3, CommitEffect
    <3>2. p.batch # planner.batch
      <4> SUFFICES ASSUME p.batch = planner.batch PROVE FALSE
        OBVIOUS
      <4>1. planner.complete
        BY <1>1, CommitEffect DEF PlanOpen
      <4>2. p = Current(planner.batch, p.dataset)
        OBVIOUS
      <4> QED
        BY <1>1, <2>3, <3>1, <4>1, <4>2 DEF PlanComplete
    <3>3. planned'[p.batch] = planned[p.batch]
      BY <2>0, <3>2, CommitEffect
    <3> QED
      BY <3>1, <3>3 DEF PlannedRows
  <2> QED
    BY <2>2, <2>3
<1> QED
  BY <1>2, <1>3, <1>4

LEMMA PlansStep == IInv /\ PlansInv /\ [Next]_vars => PlansInv'
<1> SUFFICES ASSUME IInv, PlansInv, [Next]_vars PROVE PlansInv'
  OBVIOUS
<1>1. CASE Plan
  <2>1. ASSUME NEW b \in Batch, PlanBegin(b) PROVE PlansInv'
    BY <2>1, PlansBegin
  <2>2. ASSUME NEW skipped \in SUBSET {p \in Process : status[p] \in Replannable}, PlanResolve(skipped)
        PROVE  PlansInv'
    <3>1. skipped \in SUBSET Process
      OBVIOUS
    <3> QED
      BY <2>2, <3>1, PlansResolve
  <2> QED
    BY <1>1, <2>1, <2>2, PlansCommit DEF Plan
<1> QED
  BY <1>1, OthersDoNotPlan, PlansUnplanned

\* A task that waits on rows none of which failed has one that waits.
LEMMA WaitingRow ==
  ASSUME NEW r \in {"READY", "FAILED"}, NEW rows \in [Dataset -> Rows],
         Readiness(r, rows) = "WAITING_DEPENDENCY"
  PROVE  \E d \in Dataset : rows[d].status = "WAITING"
<1> DEFINE found == ({r} \cup {rows[d].status : d \in Dataset}) \ {"NONE"}
<1>1. Readiness(r, rows) = IF found = {"READY"} THEN "QUEUED"
                           ELSE IF found \cap {"MISSING", "FAILED"} # {} THEN "BLOCKED"
                           ELSE "WAITING_DEPENDENCY"
  BY DEF Readiness
<1>2. r \in found /\ found \subseteq {"READY", "FAILED", "WAITING", "MISSING"}
  BY DEF Rows, RowStatuses
<1>3. \A s \in found : s = r \/ \E d \in Dataset : rows[d].status = s
  OBVIOUS
<1> HIDE DEF found
<1>4. "WAITING" \in found
  <2>1. found # {"READY"} /\ "MISSING" \notin found /\ "FAILED" \notin found
    BY <1>1
  <2> QED
    BY <1>2, <2>1
<1> QED
  BY <1>3, <1>4

\* A task left waiting by a planner that read a stale upstream status is planned again:
\* its batch is not recorded as planned, through any succession of code releases.
THEOREM WaitingPlannedAgain == Spec => []WaitingIsReplanned
<1>1. IInv /\ PlansInv => WaitingIsReplanned
  <2> SUFFICES ASSUME IInv, PlansInv, NEW p \in Process, status[p] = "WAITING_DEPENDENCY",
                      p = Current(p.batch, p.dataset), planned[p.batch] = code
               PROVE  FALSE
    BY DEF WaitingIsReplanned
  <2>1. raw[p] \in {"READY", "FAILED"} /\ dep[p] \in [Dataset -> Rows]
    BY DEF IInv, RowsFit, TypeOK
  <2>2. Readiness(raw[p], dep[p]) = "WAITING_DEPENDENCY"
    BY DEF IInv, RowsDecide, Replannable
  <2>3. \E d \in Dataset : dep[p][d].status = "WAITING"
    BY <2>1, <2>2, WaitingRow
  <2> QED
    BY <2>3 DEF PlansInv, PlannedRows, Replannable
<1> QED
  BY <1>1, Inductive, PlansInit, PlansStep, PTL DEF Spec

-----------------------------------------------------------------------------
(* An upgrade retires the tasks it replaces.                               *)

\* No processor is replaced twice, or the administrator retries nothing: a retry of an
\* old task queues the current one, and the planner then cancels no other old task.
PlainUpgrades ==
    \/ \A c, e, f \in 1 .. LastCode, d \in Dataset :
          ~(Revision[c][d] < Revision[e][d] /\ Revision[e][d] < Revision[f][d])
    \/ MaxRetries = 0

\* The current task appears when the old one no longer waits for anything.
CurrentReplaces == \A p \in Process :
    Old(p) /\ status[p] \in Pending => status[Current(p.batch, p.dataset)] = "ABSENT"

\* Old tasks that wait have waited since the planner read them, and it cancels them.
PlannerReplaces == \A p \in Process :
    p.batch = planner.batch /\ Old(p) /\ status[p] \in Pending =>
        /\ planner.phase = "read" => planner.seen[p] \notin Terminal \cup {"RUNNING", "ABSENT"}
        /\ planner.phase = "resolved" => p \in planner.cancelled

OldRetired == \A p \in Process : planned[p.batch] = code /\ Old(p) => status[p] \notin Pending

UpgradeInv == CurrentReplaces /\ PlannerReplaces /\ OldRetired

\* Processors are upgraded forward.
LEMMA RevisionsGrow ==
  ASSUME NEW c \in 1 .. LastCode, NEW e \in 1 .. LastCode, NEW d \in Dataset
  PROVE  /\ Revision[c][d] \in Nat /\ Revision[e][d] \in Nat
         /\ c <= e => Revision[c][d] <= Revision[e][d]
  BY ProcessingAssumption

\* A task that is there is the current one, or old.
LEMMA CurrentOrOld ==
  ASSUME IInv, NEW p \in Process, status[p] # "ABSENT"
  PROVE  p = Current(p.batch, p.dataset) \/ Old(p)
<1>1. PICK c \in 1 .. code : p.rev = Revision[c][p.dataset]
  BY DEF IInv, TasksKnown, Known
<1>2. /\ code \in 1 .. LastCode /\ c \in 1 .. LastCode /\ c <= code /\ p.dataset \in Dataset
  <2>1. code \in 1 .. LastCode /\ LastCode \in Nat /\ p.dataset \in Dataset
    BY ProcessingAssumption DEF IInv, TypeOK, Process
  <2> QED
    BY <2>1
<1>3. /\ Revision[c][p.dataset] <= Revision[code][p.dataset]
      /\ Revision[c][p.dataset] \in Nat /\ Revision[code][p.dataset] \in Nat
  BY <1>2, RevisionsGrow
<1>4. CASE p.rev = Revision[code][p.dataset]
  BY <1>4 DEF Current, Process
<1>5. CASE p.rev # Revision[code][p.dataset]
  BY <1>1, <1>3, <1>5 DEF Old
<1> QED
  BY <1>4, <1>5

LEMMA OldIsNotCurrent ==
  ASSUME TypeOK, NEW p \in Process, Old(p)
  PROVE  p # Current(p.batch, p.dataset)
<1>1. p.rev < Revision[code][p.dataset] /\ p.rev \in Nat
  BY ProcessingAssumption DEF Old, Process
<1> QED
  BY <1>1 DEF Current

\* Where no processor is replaced twice, a dataset has one old task in a batch.
LEMMA OneOld ==
  ASSUME IInv, NEW p \in Process, NEW q \in Process, p.batch = q.batch, p.dataset = q.dataset,
         status[p] # "ABSENT", status[q] # "ABSENT", Old(p), Old(q),
         \A c, e, f \in 1 .. LastCode, d \in Dataset :
            ~(Revision[c][d] < Revision[e][d] /\ Revision[e][d] < Revision[f][d])
  PROVE  p = q
<1>1. PICK c \in 1 .. code : p.rev = Revision[c][p.dataset]
  BY DEF IInv, TasksKnown, Known
<1>2. PICK e \in 1 .. code : q.rev = Revision[e][p.dataset]
  BY DEF IInv, TasksKnown, Known
<1>3. /\ code \in 1 .. LastCode /\ c \in 1 .. LastCode /\ e \in 1 .. LastCode
      /\ p.dataset \in Dataset
  <2>1. code \in 1 .. LastCode /\ LastCode \in Nat /\ p.dataset \in Dataset
    BY ProcessingAssumption DEF IInv, TypeOK, Process
  <2> QED
    BY <2>1
<1>4. p.rev \in Nat /\ q.rev \in Nat
  BY <1>1, <1>2, <1>3, RevisionsGrow
<1>5. ~(p.rev < q.rev) /\ ~(q.rev < p.rev)
  BY <1>1, <1>2, <1>3 DEF Old
<1>6. p.rev = q.rev
  BY <1>4, <1>5
<1> QED
  BY <1>6 DEF Process

LEMMA UpgradeInit == Init => UpgradeInv
<1> SUFFICES ASSUME Init PROVE UpgradeInv
  OBVIOUS
<1> QED
  BY DEF Init, UpgradeInv, CurrentReplaces, PlannerReplaces, OldRetired, Pending

LEMMA UpgradeUnplanned ==
  ASSUME IInv, IInv', PlainUpgrades, PlansKnown, UpgradeInv, Unplanned
  PROVE  UpgradeInv'
<1> USE DEF UpgradeInv
<1>1. /\ planned' = planned /\ code' \in code .. LastCode /\ TypeOK
      /\ code \in 1 .. LastCode /\ LastCode \in Nat
  BY ProcessingAssumption DEF Unplanned, IInv, TypeOK
<1>2. ASSUME NEW p \in Process, Old(p)', status'[p] \in Pending
      PROVE  status[p] \in Pending
  <2> SUFFICES ASSUME UNCHANGED code, p = Current(p.batch, p.dataset) PROVE FALSE
    BY <1>2 DEF Unplanned
  <2> QED
    BY <1>1, <1>2, OldIsNotCurrent DEF Old
<1>3. PlannerReplaces'
  <2>1. CASE planner' = NotPlanning
    BY <2>1 DEF PlannerReplaces, NotPlanning
  <2>2. CASE UNCHANGED <<planner, code>>
    BY <1>2, <2>2 DEF PlannerReplaces, Old
  <2> QED
    BY <2>1, <2>2 DEF Unplanned
<1>4. OldRetired'
  <2> SUFFICES ASSUME NEW p \in Process, planned[p.batch] = code', Old(p)', status'[p] \in Pending
               PROVE  FALSE
    BY <1>1 DEF OldRetired, Old
  <2>1. p.batch \in Batch
    BY DEF Process
  <2>2. planned[p.batch] <= code /\ planned[p.batch] \in Nat
    BY <1>1, <2>1 DEF PlansKnown, TypeOK
  <2>3. code' = code
    BY <1>1, <2>2
  <2> QED
    BY <1>2, <2>3 DEF OldRetired, Old
<1>5. CurrentReplaces'
  <2> SUFFICES ASSUME NEW p \in Process, Old(p)', status'[p] \in Pending,
                      status'[Current(p.batch, p.dataset)'] # "ABSENT"
               PROVE  FALSE
    BY DEF CurrentReplaces, Old, Current
  <2> DEFINE r == Current(p.batch, p.dataset)
  <2>0. p.batch \in Batch /\ p.dataset \in Dataset /\ status[p] # "ABSENT"
    BY <1>2 DEF Process, Pending
  <2>1. r' \in Process /\ r'.batch = p.batch /\ r'.dataset = p.dataset
        /\ r'.rev = Revision[code'][p.dataset]
    <3>1. TypeOK'
      BY DEF IInv
    <3> QED
      BY <1>1, <2>0, ProcessingAssumption DEF Process, Current
  <2>2. CASE status[r'] = "ABSENT"
    <3>1. PICK q \in Process : RetryReplaced(q) /\ r' = Current(q.batch, q.dataset)
      BY <2>1, <2>2 DEF Unplanned
    <3>2. /\ code' = code /\ retries > 0
          /\ status[q] \in Retryable /\ q # Current(q.batch, q.dataset)
          /\ Readiness(raw[q], dep[q]) = "QUEUED"
      BY <3>1 DEF RetryReplaced, Retry, AllReady
    <3>3. q.batch = p.batch /\ q.dataset = p.dataset
      BY <2>1, <3>1 DEF Current
    <3>4. status[q] # "ABSENT" /\ Old(q)
      BY <3>2, CurrentOrOld DEF Retryable
    <3>5. MaxRetries # 0
      BY <1>1, <3>2 DEF TypeOK
    <3>6. Old(p)
      BY <3>2 DEF Old
    <3>7. p = q
      BY <2>0, <3>3, <3>4, <3>5, <3>6, OneOld DEF PlainUpgrades
    <3>8. status[p] = "BLOCKED"
      BY <1>2, <3>2, <3>7 DEF Pending, Retryable
    <3>9. Readiness(raw[p], dep[p]) = "BLOCKED"
      BY <3>8 DEF IInv, RowsDecide, Replannable
    <3> QED
      BY <3>2, <3>7, <3>9
  <2>3. CASE status[r'] # "ABSENT"
    <3>1. PICK c \in 1 .. code : r'.rev = Revision[c][p.dataset]
      BY <2>1, <2>3 DEF IInv, TasksKnown, Known
    <3>2. /\ c \in 1 .. LastCode /\ code' \in 1 .. LastCode /\ c <= code /\ code <= code'
      BY <1>1
    <3>3. /\ Revision[c][p.dataset] <= Revision[code][p.dataset]
          /\ Revision[code][p.dataset] <= Revision[code'][p.dataset]
          /\ Revision[c][p.dataset] \in Nat /\ Revision[code][p.dataset] \in Nat
          /\ Revision[code'][p.dataset] \in Nat
      BY <1>1, <2>0, <3>2, RevisionsGrow
    <3>4. Revision[code'][p.dataset] = Revision[code][p.dataset]
      BY <2>1, <3>1, <3>3
    <3>5. r' = r /\ Old(p)
      BY <3>4 DEF Current, Old
    <3> QED
      BY <1>2, <2>3, <3>5 DEF CurrentReplaces
  <2> QED
    BY <2>2, <2>3
<1> QED
  BY <1>3, <1>4, <1>5

LEMMA UpgradePlan ==
  ASSUME IInv, UpgradeInv, Plan
  PROVE  UpgradeInv'
<1> USE DEF UpgradeInv
<1>1. TypeOK /\ code' = code
  BY DEF IInv, Plan, PlanBegin, PlanResolve, PlanCommit
<1>2. ASSUME NEW b \in Batch, PlanBegin(b) PROVE UpgradeInv'
  <2>1. /\ planner'.phase = "read"
        /\ planner'.batch = b
        /\ planner'.seen = [p \in Process |-> IF p.batch = b THEN status[p] ELSE "ABSENT"]
        /\ UNCHANGED <<planned, status>>
    BY <1>2 DEF PlanBegin, NotPlanning, taskVars
  <2>2. PlannerReplaces'
    BY <2>1 DEF PlannerReplaces, Pending, Terminal
  <2>3. CurrentReplaces' /\ OldRetired'
    BY <1>1, <2>1 DEF CurrentReplaces, OldRetired, Old, Current
  <2> QED
    BY <2>2, <2>3
<1>3. ASSUME NEW skipped, PlanResolve(skipped) PROVE UpgradeInv'
  <2> DEFINE b == planner.batch
  <2>1. /\ planner.phase = "read" /\ b \in Batch
        /\ planner'.phase = "resolved" /\ planner'.batch = b
        /\ planner'.cancelled = UNION {Replaced(b, d) : d \in Affected[b]}
        /\ UNCHANGED <<planned, status>>
    BY <1>1, <1>3 DEF PlanResolve, taskVars, TypeOK, IInv, PlannerReads
  <2>2. ASSUME NEW p \in Process, p.batch = b, Old(p), status[p] \in Pending
        PROVE  p \in planner'.cancelled
    <3>1. p.dataset \in Affected[b] /\ p.dataset \in Dataset
      <4>1. status[p] # "ABSENT"
        BY <2>2 DEF Pending
      <4> QED
        BY <2>2, <4>1 DEF IInv, TasksKnown, Process
    <3>2. planner.seen[p] \notin Terminal \cup {"RUNNING", "ABSENT"}
      BY <2>1, <2>2 DEF PlannerReplaces
    <3>3. p # Current(b, p.dataset)
      BY <1>1, <2>2, OldIsNotCurrent
    <3>4. planner.seen[Current(b, p.dataset)] = "ABSENT"
      <4>1. Current(b, p.dataset) \in Process
        BY <1>1, <2>1, <3>1, CurrentIsProcess
      <4>2. status[Current(b, p.dataset)] = "ABSENT"
        BY <2>2 DEF CurrentReplaces
      <4> QED
        BY <2>1, <4>1, <4>2 DEF IInv, PlannerReads
    <3>5. p \in Replaced(b, p.dataset)
      BY <2>2, <3>2, <3>3, <3>4 DEF Replaced, Prior
    <3> QED
      BY <2>1, <3>1, <3>5
  <2>3. PlannerReplaces'
    BY <1>1, <2>1, <2>2 DEF PlannerReplaces, Old
  <2>4. CurrentReplaces' /\ OldRetired'
    BY <1>1, <2>1 DEF CurrentReplaces, OldRetired, Old, Current
  <2> QED
    BY <2>3, <2>4
<1>4. ASSUME PlanCommit PROVE UpgradeInv'
  <2>1. planner.phase = "resolved" /\ planner' = NotPlanning
    BY <1>4 DEF PlanCommit
  <2>2. ASSUME NEW p \in Process, Old(p), status'[p] \in Pending
        PROVE  /\ status[p] \in Pending /\ p.batch # planner.batch
               /\ planned'[p.batch] = planned[p.batch]
    <3>1. p \notin planner.cancelled
      BY <1>4, <2>2, CommitEffect DEF Pending
    <3>2. p \notin planner.created \cup planner.locked
      BY <1>1, <1>4, <2>2, CommitEffect, OldIsNotCurrent
    <3>3. status'[p] = status[p]
      BY <1>4, <3>1, <3>2, CommitEffect
    <3>4. p.batch # planner.batch
      BY <2>1, <2>2, <3>1, <3>3 DEF PlannerReplaces
    <3>5. p.batch \in Batch
      BY DEF Process
    <3> QED
      BY <1>4, <2>2, <3>3, <3>4, <3>5, CommitEffect
  <2>3. PlannerReplaces'
    BY <2>1 DEF PlannerReplaces, NotPlanning
  <2>4. OldRetired'
    BY <1>1, <2>2 DEF OldRetired, Old
  <2>5. CurrentReplaces'
    <3> SUFFICES ASSUME NEW p \in Process, Old(p), status'[p] \in Pending
                 PROVE  status'[Current(p.batch, p.dataset)] = "ABSENT"
      BY <1>1 DEF CurrentReplaces, Old, Current
    <3> DEFINE r == Current(p.batch, p.dataset)
    <3>1. r \in Process /\ r.batch = p.batch /\ r.dataset = p.dataset
      BY <1>1, CurrentIsProcess DEF Process, Current
    <3>2. status[r] = "ABSENT" /\ p.batch # planner.batch
      BY <2>2 DEF CurrentReplaces
    <3>3. ~Old(r)
      <4>1. r = Current(r.batch, r.dataset)
        BY <3>1
      <4> HIDE DEF r
      <4> QED
        BY <1>1, <3>1, <4>1, OldIsNotCurrent
    <3> HIDE DEF r
    <3>4. r \notin planner.created \cup planner.locked \cup planner.cancelled
      BY <1>4, <3>1, <3>2, <3>3, CommitEffect
    <3>5. status'[r] = status[r]
      BY <1>4, <3>1, <3>4, CommitEffect
    <3> QED
      BY <3>2, <3>5 DEF r
  <2> QED
    BY <2>3, <2>4, <2>5
<1> QED
  BY <1>2, <1>3, <1>4 DEF Plan

LEMMA UpgradeStep ==
  ASSUME PlainUpgrades
  PROVE  IInv /\ IInv' /\ PlansInv /\ UpgradeInv /\ [Next]_vars => UpgradeInv'
BY OthersDoNotPlan, UpgradeUnplanned, UpgradePlan DEF PlansInv

\* Once a batch is planned with the running code, no task of an older revision waits, is
\* queued or blocked in it, whatever threads, recoveries and the administrator did to the
\* tasks the planner had read.
THEOREM OldTasksGone ==
  ASSUME PlainUpgrades
  PROVE  Spec => []OldTasksRetired
<1>1. IInv /\ UpgradeInv => OldTasksRetired
  <2> SUFFICES ASSUME IInv, UpgradeInv, NEW p \in Process, planned[p.batch] = code,
                      p # Current(p.batch, p.dataset)
               PROVE  status[p] \notin Pending
    BY DEF OldTasksRetired, Pending
  <2> QED
    BY CurrentOrOld DEF UpgradeInv, OldRetired, Pending
<1>2. IInv /\ IInv' /\ PlansInv /\ UpgradeInv /\ [Next]_vars => UpgradeInv'
  BY UpgradeStep
<1> QED
  BY <1>1, <1>2, Inductive, PlansInit, PlansStep, UpgradeInit, PTL DEF Spec

-----------------------------------------------------------------------------
(* While no processor changes, no task is overlooked.                      *)

Settled == {"READY", "WAITING"}

\* The tasks of a batch are inserted together.
BatchTogether == \A p \in Process : status[p] # "ABSENT" =>
    \A d \in Affected[p.batch] : status[Current(p.batch, d)] # "ABSENT"

\* A row for a dataset of the batch resolves to the batch's own task.
OwnUpstream == \A p \in Process : status[p] # "ABSENT" =>
    \A d \in Needs[p.dataset] \cap Affected[p.batch] : dep[p][d].on = Current(p.batch, d)

\* No row that failed resolves to a task that has published.
NoFalseFailure == \A p \in Process, d \in Dataset :
    status[p] # "ABSENT" /\ dep[p][d].on # None /\ status[dep[p][d].on] = "SUCCESS" =>
        dep[p][d].status \in Settled

\* The same of the rows of the plan under way: one that failed belongs to a locked task
\* that resolves to the same upstream already, so that this one cannot publish meanwhile.
PlanWhole == planner.phase = "resolved" =>
    /\ \A d \in Affected[planner.batch] :
          status[Current(planner.batch, d)] # "ABSENT" \/ Current(planner.batch, d) \in planner.created
    /\ \A p \in planner.created \cup planner.locked : \A d \in Needs[p.dataset] \cap Affected[planner.batch] :
          planner.rows[p][d].on = Current(planner.batch, d)
    /\ \A p \in planner.created \cup planner.locked, d \in Dataset :
          LET row == planner.rows[p][d]
          IN  row.on # None =>
                /\ row.status \notin Settled => p \in planner.locked /\ dep[p][d].on = row.on
                /\ status[row.on] = "SUCCESS" => row.status \in Settled

FoundInv == BatchTogether /\ OwnUpstream /\ NoFalseFailure /\ PlanWhole

LEMMA FoundInit == Init => FoundInv
<1> SUFFICES ASSUME Init PROVE FoundInv
  OBVIOUS
<1> QED
  BY DEF Init, NotPlanning, FoundInv, BatchTogether, OwnUpstream, NoFalseFailure, PlanWhole

\* What a step of the others does to the rows: nothing, or it marks those of one task.
LEMMA OthersMark ==
  ASSUME IInv, SameRevisions, [Next]_vars, ~Plan
  PROVE  \/ UNCHANGED dep
         \/ \E p \in Process : dep' = Marked(p, "FAILED") /\ status[p] # "SUCCESS"
         \/ \E w \in Worker : Publish(w) /\ worker[w] \in Process /\ Holds(w, worker[w])
<1> DEFINE Marks == \/ UNCHANGED dep
                    \/ \E p \in Process : dep' = Marked(p, "FAILED") /\ status[p] # "SUCCESS"
                    \/ \E w \in Worker : Publish(w) /\ worker[w] \in Process /\ Holds(w, worker[w])
<1>1. TypeOK
  BY DEF IInv
<1>2. ASSUME NEW w \in Worker, Publish(w) PROVE Marks
  BY <1>1, <1>2 DEF Publish, TypeOK
<1>3. ASSUME NEW w \in Worker, NEW retryable \in BOOLEAN, Fail(w, retryable) PROVE Marks
  BY <1>1, <1>3 DEF Fail, Holds, TypeOK
<1>4. ASSUME NEW w \in Worker, Execute(w) PROVE Marks
  <2>1. CASE WorkerDies(w)
    BY <2>1 DEF WorkerDies, taskVars
  <2> HIDE DEF Marks
  <2> QED
    BY <1>2, <1>3, <1>4, <2>1 DEF Execute
<1>5. ASSUME NEW p \in Process, RetryReplaced(p) PROVE FALSE
  BY <1>5, NothingIsOld DEF RetryReplaced, Retryable
<1>6. ASSUME NEW p \in Process, NEW target \in {"SKIPPED", "CANCELLED"}, TransitionTask(p, target)
      PROVE  Marks
  BY <1>6 DEF TransitionTask, Mutable
<1>7. ASSUME NEW p \in Process, RetryTask(p) PROVE Marks
  BY <1>7 DEF RetryTask
<1>8. ASSUME Admin PROVE Marks
  <2> HIDE DEF Marks
  <2> QED
    BY <1>5, <1>6, <1>7, <1>8, Zenon DEF Admin
<1>9. ASSUME NEW b \in Batch, NEW datasets \in SUBSET Affected[b], CloseBatch(b, datasets) PROVE Marks
  BY <1>9 DEF CloseBatch, taskVars
<1>10. ASSUME NEW w \in Worker, NEW p \in Process, Claim(w, p) PROVE Marks
  BY <1>10 DEF Claim
<1>11. ASSUME NEW p \in Process, RecoverStale(p) PROVE Marks
  BY <1>11 DEF RecoverStale
<1>12. ASSUME Crash PROVE Marks
  BY <1>12 DEF Crash, taskVars
<1>13. ASSUME NEW newCode \in 1 .. LastCode, Restart(newCode) PROVE Marks
  BY <1>13 DEF Restart
<1>14. ASSUME UNCHANGED vars PROVE Marks
  BY <1>14 DEF vars, taskVars
<1> HIDE DEF Marks
<1>15. Marks
  BY <1>4, <1>8, <1>9, <1>10, <1>11, <1>12, <1>13, <1>14 DEF Next
<1> QED
  BY <1>15 DEF Marks

\* Seen from a row: its task stays the same; once that has published, the row is READY or
\* as it was; and nothing publishes while the planner holds a task that depends on it.
LEMMA OthersKeepRows ==
  ASSUME IInv, SameRevisions, [Next]_vars, ~Plan
  PROVE  /\ \A p \in Process, d \in Dataset :
              /\ dep'[p][d].on = dep[p][d].on
              /\ dep[p][d].on \in Process /\ status'[dep[p][d].on] = "SUCCESS" =>
                   \/ dep'[p][d].status = "READY"
                   \/ dep'[p][d] = dep[p][d] /\ status[dep[p][d].on] = "SUCCESS"
         /\ \A p \in Process : status'[p] = "SUCCESS" /\ status[p] # "SUCCESS" =>
              \A q \in Dependents(p) : Free(q)
         /\ \A p \in Process : status'[p] = "ABSENT" <=> status[p] = "ABSENT"
<1>1. TypeOK
  BY DEF IInv
<1>2. \A p \in Process : status'[p] = "ABSENT" <=> status[p] = "ABSENT"
  <2>1. \A q \in Process : ~RetryReplaced(q)
    BY NothingIsOld DEF RetryReplaced, Retryable
  <2> QED
    BY <2>1, OthersDoNotPlan DEF Unplanned
<1>3. CASE \E w \in Worker : Publish(w) /\ worker[w] \in Process /\ Holds(w, worker[w])
  <2>1. PICK w \in Worker : Publish(w) /\ worker[w] \in Process /\ Holds(w, worker[w])
    BY <1>3
  <2> DEFINE p == worker[w]
  <2>2. /\ dep' = Marked(p, "READY") /\ \A q \in Dependents(p) : Free(q)
        /\ \A q \in Process : status'[q] = IF q = p THEN "SUCCESS"
             ELSE IF q \in Dependents(p) /\ status[q] \in Mutable
             THEN Readiness(raw[q], dep'[q])
             ELSE status[q]
    BY <2>1 DEF Publish
  <2>3. \A q \in Process : status'[q] = "SUCCESS" => q = p \/ status[q] = "SUCCESS"
    BY <2>2, ReadinessValues
  <2>4. \A q \in Process, d \in Dataset :
          /\ dep'[q][d].on = dep[q][d].on
          /\ dep[q][d].on = p => dep'[q][d].status = "READY"
          /\ dep[q][d].on # p => dep'[q][d] = dep[q][d]
    BY <1>1, <2>1, <2>2, MarkedFits DEF RowStatuses
  <2> HIDE DEF p
  <2> QED
    BY <1>2, <2>2, <2>3, <2>4
<1>4. CASE ~\E w \in Worker : Publish(w) /\ worker[w] \in Process /\ Holds(w, worker[w])
  <2>1. \A p \in Process : status'[p] = "SUCCESS" => status[p] = "SUCCESS"
    BY <1>4, OnlyHoldersPublish
  <2>2. CASE UNCHANGED dep
    BY <1>2, <2>1, <2>2
  <2>3. ASSUME NEW p \in Process, dep' = Marked(p, "FAILED"), status[p] # "SUCCESS"
        PROVE  \A q \in Process, d \in Dataset :
                 /\ dep'[q][d].on = dep[q][d].on
                 /\ dep[q][d].on # p => dep'[q][d] = dep[q][d]
    BY <1>1, <2>3, MarkedFits DEF RowStatuses
  <2> QED
    BY <1>2, <1>4, <2>1, <2>2, <2>3, OthersMark
<1> QED
  BY <1>3, <1>4

\* Without new processors, the current task of a dataset stays the same.
LEMMA SameCurrent ==
  ASSUME TypeOK, TypeOK', SameRevisions, NEW b, NEW d \in Dataset
  PROVE  Current(b, d)' = Current(b, d)
BY DEF SameRevisions, Current, TypeOK

LEMMA FoundUnplanned ==
  ASSUME IInv, IInv', SameRevisions, FoundInv, [Next]_vars, ~Plan
  PROVE  FoundInv'
<1> USE DEF FoundInv
<1>1. TypeOK /\ TypeOK'
  BY DEF IInv
<1>2. \A b \in Batch : Affected[b] \subseteq Dataset
  BY ProcessingAssumption
<1>3. /\ \A p \in Process, d \in Dataset :
           /\ dep'[p][d].on = dep[p][d].on
           /\ dep[p][d].on \in Process /\ status'[dep[p][d].on] = "SUCCESS" =>
                \/ dep'[p][d].status = "READY"
                \/ dep'[p][d] = dep[p][d] /\ status[dep[p][d].on] = "SUCCESS"
      /\ \A p \in Process : status'[p] = "SUCCESS" /\ status[p] # "SUCCESS" =>
           \A q \in Dependents(p) : Free(q)
      /\ \A p \in Process : status'[p] = "ABSENT" <=> status[p] = "ABSENT"
  BY OthersKeepRows
<1>4. \A b \in Batch, d \in Dataset : Current(b, d)' = Current(b, d) /\ Current(b, d) \in Process
  BY <1>1, SameCurrent, CurrentIsProcess
<1>5. BatchTogether'
  <2> SUFFICES ASSUME NEW p \in Process, status'[p] # "ABSENT", NEW d \in Affected[p.batch]
               PROVE  status'[Current(p.batch, d)'] # "ABSENT"
    BY DEF BatchTogether, Current
  <2>1. p.batch \in Batch /\ d \in Dataset
    BY <1>2 DEF Process
  <2>2. status[Current(p.batch, d)] # "ABSENT"
    BY <1>3 DEF BatchTogether
  <2> QED
    BY <1>3, <1>4, <2>1, <2>2
<1>6. OwnUpstream'
  <2> SUFFICES ASSUME NEW p \in Process, status'[p] # "ABSENT",
                      NEW d \in Needs[p.dataset] \cap Affected[p.batch]
               PROVE  dep'[p][d].on = Current(p.batch, d)'
    BY DEF OwnUpstream, Current
  <2>1. p.batch \in Batch /\ d \in Dataset
    BY <1>2 DEF Process
  <2> QED
    BY <1>3, <1>4, <2>1 DEF OwnUpstream
<1>7. NoFalseFailure'
  <2> SUFFICES ASSUME NEW p \in Process, NEW d \in Dataset, status'[p] # "ABSENT",
                      dep'[p][d].on # None, status'[dep'[p][d].on] = "SUCCESS"
               PROVE  dep'[p][d].status \in Settled
    BY DEF NoFalseFailure
  <2>1. dep[p][d].on \in Process
    BY <1>1, <1>3 DEF TypeOK, Rows
  <2> QED
    BY <1>3, <2>1 DEF NoFalseFailure, Settled
<1>8. PlanWhole'
  <2>1. CASE planner' = NotPlanning
    BY <2>1 DEF PlanWhole, NotPlanning
  <2>2. CASE UNCHANGED <<planner, code>> /\ planner.phase = "resolved"
    <3>1. planner.batch \in Batch
      BY <2>2 DEF IInv, PlannerReads
    <3>2. \A d \in Affected[planner.batch] :
             status'[Current(planner.batch, d)'] # "ABSENT" \/ Current(planner.batch, d)' \in planner.created
      BY <1>2, <1>3, <1>4, <2>2, <3>1 DEF PlanWhole
    <3>3. \A p \in planner.created \cup planner.locked : \A d \in Needs[p.dataset] \cap Affected[planner.batch] :
             planner.rows[p][d].on = Current(planner.batch, d)'
      BY <1>2, <1>4, <2>2, <3>1 DEF PlanWhole
    <3>4. ASSUME NEW p \in planner.created \cup planner.locked, NEW d \in Dataset,
                 planner.rows[p][d].on # None
          PROVE  LET row == planner.rows[p][d]
                 IN  /\ row.status \notin Settled => p \in planner.locked /\ dep'[p][d].on = row.on
                     /\ status'[row.on] = "SUCCESS" => row.status \in Settled
      <4> DEFINE row == planner.rows[p][d]
      <4>1. p \in Process
        BY HeldWaits
      <4>2. row.on \in Process
        BY <1>1, <3>4, <4>1 DEF TypeOK, Rows
      <4>3. row.status \notin Settled => p \in planner.locked /\ dep[p][d].on = row.on
        BY <2>2, <3>4 DEF PlanWhole
      <4>4. status[row.on] = "SUCCESS" => row.status \in Settled
        BY <2>2, <3>4 DEF PlanWhole
      <4> HIDE DEF row
      <4>5. status'[row.on] = "SUCCESS" => row.status \in Settled
        <5> SUFFICES ASSUME status'[row.on] = "SUCCESS", status[row.on] # "SUCCESS", row.status \notin Settled
                     PROVE  FALSE
          BY <4>4
        <5>1. p \in Dependents(row.on)
          BY <4>1, <4>3 DEF Dependents
        <5>2. Free(p)
          BY <1>3, <4>2, <5>1
        <5> QED
          BY <5>2 DEF Free
      <4> QED
        BY <1>3, <4>1, <4>3, <4>5 DEF row
    <3> QED
      BY <2>2, <3>2, <3>3, <3>4 DEF PlanWhole, Current
  <2>3. CASE UNCHANGED <<planner, code>> /\ planner.phase # "resolved"
    BY <2>3 DEF PlanWhole
  <2> QED
    BY <2>1, <2>2, <2>3, OthersDoNotPlan DEF Unplanned
<1> QED
  BY <1>5, <1>6, <1>7, <1>8

LEMMA FoundBegin ==
  ASSUME IInv, FoundInv, NEW b \in Batch, PlanBegin(b)
  PROVE  FoundInv'
<1> USE DEF FoundInv, PlanBegin, taskVars
<1>1. planner'.phase = "read"
  BY DEF NotPlanning
<1>2. PlanWhole'
  BY <1>1 DEF PlanWhole
<1> QED
  BY <1>2 DEF BatchTogether, OwnUpstream, NoFalseFailure, Current

\* Without new processors, the planner keeps the current task, and a row for a dataset of
\* the batch resolves to the current one if that is there.
LEMMA ResolvesCurrent ==
  ASSUME IInv, SameRevisions, planner.phase = "read", NEW d \in Dataset,
         NEW inserted \in SUBSET Process, \A p \in inserted : p = Current(planner.batch, p.dataset)
  PROVE  LET b == planner.batch
             u == Upstream(b, d, inserted)
         IN  /\ Kept(b, d) = Current(b, d)
             /\ u \in {Current(b, d), None}
             /\ status[Current(b, d)] # "ABSENT" \/ Current(b, d) \in inserted => u = Current(b, d)
             /\ u # None => status[u] # "ABSENT" \/ u \in inserted
<1> DEFINE b == planner.batch
           u == Upstream(b, d, inserted)
           there == {p \in Process : /\ p.batch = b /\ p.dataset = d
                                     /\ status[p] # "ABSENT" \/ p \in inserted}
<1>1. b \in Batch /\ TypeOK /\ Current(b, d) \in Process
  BY CurrentIsProcess DEF IInv, PlannerReads
<1>2. Prior(b, d) = {}
  <2> SUFFICES ASSUME NEW p \in Prior(b, d) PROVE FALSE
    OBVIOUS
  <2>1. p \in Process /\ p.batch = b /\ p.dataset = d /\ p # Current(b, d) /\ planner.seen[p] # "ABSENT"
    BY DEF Prior
  <2>2. status[p] # "ABSENT"
    BY <2>1 DEF IInv, PlannerReads
  <2> QED
    BY <2>1, <2>2, NothingIsOld
<1>3. Kept(b, d) = Current(b, d)
  BY <1>2 DEF Kept
<1>4. \A p \in there : p = Current(b, d)
  BY NothingIsOld
<1>5. u = IF Current(b, d) \in there THEN Current(b, d)
          ELSE IF there # {} THEN Newest(there) ELSE None
  BY DEF Upstream
<1>6. Current(b, d) \in there <=> status[Current(b, d)] # "ABSENT" \/ Current(b, d) \in inserted
  BY <1>1 DEF Current
<1>7. u = IF Current(b, d) \in there THEN Current(b, d) ELSE None
  <2> HIDE DEF u, there
  <2> QED
    BY <1>4, <1>5
<1>8. Current(b, d) # None
  BY <1>1, ProcessingAssumption
<1> HIDE DEF u, there
<1> QED
  BY <1>3, <1>6, <1>7, <1>8 DEF u

LEMMA FoundResolve ==
  ASSUME IInv, SameRevisions, FoundInv, NEW skipped \in SUBSET Process, PlanResolve(skipped)
  PROVE  FoundInv'
<1> USE DEF FoundInv
<1> DEFINE b == planner.batch
           kept == {Kept(b, d) : d \in Affected[b]}
           inserted == {p \in kept : status[p] = "ABSENT"}
           locked == {p \in kept : status[p] \in Replannable} \ skipped
           rows == [p \in Process |->
                      [d \in Dataset |->
                         IF p \in inserted \cup locked /\ d \in Needs[p.dataset]
                         THEN Resolve(b, d, inserted) ELSE NoRow]]
<1>1. /\ planner.phase = "read" /\ TypeOK /\ b \in Batch
      /\ UNCHANGED <<planned, status, dep, code>>
      /\ Affected[b] \subseteq Dataset
  BY ProcessingAssumption DEF PlanResolve, taskVars, IInv, PlannerReads
<1>2. /\ planner'.phase = "resolved" /\ planner'.batch = b
      /\ planner'.created = inserted /\ planner'.locked = locked /\ planner'.rows = rows
  BY <1>1 DEF PlanResolve, TypeOK
<1>3. \A d \in Affected[b] : Kept(b, d) = Current(b, d) /\ Current(b, d) \in Process
  <2>1. {} \in SUBSET Process /\ \A p \in {} : p = Current(b, p.dataset)
    OBVIOUS
  <2> QED
    BY <1>1, <2>1, ResolvesCurrent, CurrentIsProcess
<1>4. kept = {Current(b, d) : d \in Affected[b]}
  BY <1>3
<1>5. \A p \in kept : p \in Process /\ p = Current(b, p.dataset) /\ p.batch = b /\ p.dataset \in Affected[b]
  BY <1>3, <1>4 DEF Current
<1>6. inserted \in SUBSET Process /\ \A p \in inserted : p = Current(b, p.dataset)
  BY <1>5
<1>7. \A d \in Dataset :
        LET u == Upstream(b, d, inserted)
        IN  /\ u \in {Current(b, d), None}
            /\ status[Current(b, d)] # "ABSENT" \/ Current(b, d) \in inserted => u = Current(b, d)
            /\ u # None => status[u] # "ABSENT" \/ u \in inserted
  <2> HIDE DEF inserted, b
  <2> QED
    BY <1>1, <1>6, ResolvesCurrent DEF b
<1>8. \A d \in Affected[b] : status[Current(b, d)] # "ABSENT" \/ Current(b, d) \in inserted
  BY <1>4
<1>9. ASSUME NEW p \in inserted \cup locked, NEW d \in Needs[p.dataset], d \in Dataset
      PROVE  rows[p][d] = Resolve(b, d, inserted)
  BY <1>5, <1>9
<1>10. ASSUME NEW p \in inserted \cup locked, NEW d \in Needs[p.dataset] \cap Affected[b]
       PROVE  rows[p][d].on = Current(b, d)
  <2>0. d \in Dataset
    BY <1>1
  <2>1. Upstream(b, d, inserted) = Current(b, d)
    BY <1>7, <1>8, <2>0
  <2>2. Current(b, d) # None
    BY <1>3, ProcessingAssumption
  <2>3. Resolve(b, d, inserted).on = Current(b, d)
    BY <2>1, <2>2 DEF Resolve
  <2> HIDE DEF rows, inserted, locked
  <2> QED
    BY <1>9, <2>0, <2>3
<1>11. ASSUME NEW p \in inserted \cup locked, NEW d \in Dataset, rows[p][d].on # None
       PROVE  /\ rows[p][d].status \notin Settled => p \in locked /\ dep[p][d].on = rows[p][d].on
              /\ status[rows[p][d].on] = "SUCCESS" => rows[p][d].status \in Settled
  <2> DEFINE u == Upstream(b, d, inserted)
             r == release[<<d, Scope[b][d]>>]
  <2>1. d \in Needs[p.dataset]
    BY <1>5, <1>11 DEF NoRow
  <2>2. rows[p][d] = Resolve(b, d, inserted)
    BY <1>9, <2>1
  <2>3. CASE u = None
    <3>1. rows[p][d] = [status |-> IF r # None THEN "READY" ELSE "MISSING", on |-> r]
      BY <2>2, <2>3 DEF Resolve
    <3> HIDE DEF rows
    <3> QED
      BY <1>11, <3>1 DEF Settled
  <2>4. CASE u # None
    <3>1. rows[p][d] = [status |-> RowStatus(status[u]), on |-> u]
      BY <2>2, <2>4 DEF Resolve
    <3>2. u = Current(b, d)
      BY <1>7, <2>4
    <3>3. status[u] = "SUCCESS" => RowStatus(status[u]) \in Settled
      BY DEF RowStatus, Settled
    <3>4. ASSUME RowStatus(status[u]) \notin Settled
          PROVE  p \in locked /\ dep[p][d].on = u
      <4>1. status[u] # "ABSENT" /\ u \in Process
        BY <1>1, <3>2, <3>4, CurrentIsProcess DEF RowStatus, Settled, Terminal
      <4>2. p \in Process /\ p.batch = b /\ p = Current(b, p.dataset) /\ p.dataset \in Affected[b]
        BY <1>5
      <4>3. u.batch = b /\ u.dataset = d
        BY <3>2 DEF Current
      <4> HIDE DEF u
      <4>4. status[p] # "ABSENT"
        BY <4>1, <4>2, <4>3 DEF BatchTogether
      <4>5. p \in locked
        BY <4>4
      <4>6. d \in Affected[b]
        BY <4>1, <4>3 DEF IInv, TasksKnown
      <4>7. dep[p][d].on = Current(b, d)
        BY <2>1, <4>2, <4>4, <4>6 DEF OwnUpstream
      <4> QED
        BY <3>2, <4>5, <4>7
    <3> HIDE DEF rows, u, inserted, locked
    <3> QED
      BY <3>1, <3>3, <3>4
  <2> QED
    BY <2>3, <2>4
<1> HIDE DEF kept, inserted, locked, rows
<1>12. PlanWhole'
  <2>1. \A d \in Dataset : Current(planner.batch, d)' = Current(b, d)
    BY <1>1, <1>2 DEF Current
  <2>2. \A d \in Affected[planner'.batch] :
           status'[Current(planner.batch, d)'] # "ABSENT" \/ Current(planner.batch, d)' \in planner'.created
    BY <1>1, <1>2, <1>8, <2>1
  <2>3. \A p \in planner'.created \cup planner'.locked : \A d \in Needs[p.dataset] \cap Affected[planner'.batch] :
          planner'.rows[p][d].on = Current(planner.batch, d)'
    BY <1>1, <1>2, <1>10, <2>1
  <2>4. \A p \in planner'.created \cup planner'.locked, d \in Dataset :
           planner'.rows[p][d].on # None =>
             /\ planner'.rows[p][d].status \notin Settled =>
                  p \in planner'.locked /\ dep'[p][d].on = planner'.rows[p][d].on
             /\ status'[planner'.rows[p][d].on] = "SUCCESS" => planner'.rows[p][d].status \in Settled
    BY <1>1, <1>2, <1>11
  <2> QED
    BY <2>2, <2>3, <2>4 DEF PlanWhole, Current
<1>13. BatchTogether' /\ OwnUpstream' /\ NoFalseFailure'
  BY <1>1 DEF BatchTogether, OwnUpstream, NoFalseFailure, Current
<1> QED
  BY <1>12, <1>13

LEMMA FoundCommit ==
  ASSUME IInv, IInv', SameRevisions, FoundInv, PlanCommit
  PROVE  FoundInv'
<1> USE DEF FoundInv
<1> DEFINE resolved == planner.created \cup planner.locked
<1>1. /\ planner.phase = "resolved" /\ planner.batch \in Batch /\ TypeOK /\ code' = code
      /\ planner' = NotPlanning /\ resolved \subseteq Process
      /\ \A b \in Batch : Affected[b] \subseteq Dataset
  BY ProcessingAssumption DEF PlanCommit, IInv, PlannerReads, TypeOK
<1>2. planner.cancelled = {}
  BY <1>1, NothingIsOld DEF IInv, PlannerHolds, TypeOK
<1>3. \A p \in Process :
        /\ p \in resolved => /\ status'[p] \in {"QUEUED", "BLOCKED", "WAITING_DEPENDENCY"}
                             /\ dep'[p] = planner.rows[p] /\ p.batch = planner.batch
                             /\ status[p] # "SUCCESS"
        /\ p \notin resolved => status'[p] = status[p] /\ dep'[p] = dep[p]
  BY <1>2, CommitEffect, ReadinessValues, HeldWaits DEF Replannable
<1>4. PlanWhole'
  BY <1>1 DEF PlanWhole, NotPlanning
<1>5. \A p \in Process : /\ status'[p] = "SUCCESS" => status[p] = "SUCCESS"
                         /\ status[p] # "ABSENT" => status'[p] # "ABSENT"
  BY <1>3
<1> HIDE DEF resolved
<1>6. BatchTogether'
  <2> SUFFICES ASSUME NEW p \in Process, status'[p] # "ABSENT", NEW d \in Affected[p.batch]
               PROVE  status'[Current(p.batch, d)] # "ABSENT"
    BY <1>1 DEF BatchTogether, Current
  <2>1. p.batch \in Batch /\ d \in Dataset /\ Current(p.batch, d) \in Process
    BY <1>1, CurrentIsProcess DEF Process
  <2>2. CASE p.batch = planner.batch
    <3>1. status[Current(p.batch, d)] # "ABSENT" \/ Current(p.batch, d) \in planner.created
      BY <1>1, <2>2 DEF PlanWhole
    <3> QED
      BY <1>3, <1>5, <2>1, <3>1 DEF resolved
  <2>3. CASE p.batch # planner.batch
    <3>1. status[p] # "ABSENT"
      BY <1>3, <2>3
    <3> QED
      BY <1>5, <2>1, <3>1 DEF BatchTogether
  <2> QED
    BY <2>2, <2>3
<1>7. OwnUpstream'
  <2> SUFFICES ASSUME NEW p \in Process, status'[p] # "ABSENT",
                      NEW d \in Needs[p.dataset] \cap Affected[p.batch]
               PROVE  dep'[p][d].on = Current(p.batch, d)
    BY <1>1 DEF OwnUpstream, Current
  <2>1. CASE p \in resolved
    BY <1>1, <1>3, <2>1 DEF PlanWhole, resolved
  <2>2. CASE p \notin resolved
    BY <1>3, <2>2 DEF OwnUpstream
  <2> QED
    BY <2>1, <2>2
<1>8. NoFalseFailure'
  <2> SUFFICES ASSUME NEW p \in Process, NEW d \in Dataset, status'[p] # "ABSENT",
                      dep'[p][d].on # None, status'[dep'[p][d].on] = "SUCCESS"
               PROVE  dep'[p][d].status \in Settled
    BY DEF NoFalseFailure
  <2>1. dep'[p][d].on \in Process
    BY DEF IInv, TypeOK, Rows
  <2>2. status[dep'[p][d].on] = "SUCCESS"
    BY <1>5, <2>1
  <2>3. CASE p \in resolved
    <3>1. dep'[p][d] = planner.rows[p][d]
      BY <1>3, <2>3
    <3> QED
      BY <1>1, <2>2, <2>3, <3>1 DEF PlanWhole, resolved
  <2>4. CASE p \notin resolved
    BY <1>3, <2>2, <2>4 DEF NoFalseFailure
  <2> QED
    BY <2>3, <2>4
<1> QED
  BY <1>4, <1>6, <1>7, <1>8

LEMMA FoundStep ==
  ASSUME SameRevisions
  PROVE  IInv /\ IInv' /\ FoundInv /\ [Next]_vars => FoundInv'
<1> SUFFICES ASSUME IInv, IInv', FoundInv, [Next]_vars PROVE FoundInv'
  OBVIOUS
<1>1. CASE Plan
  <2>1. ASSUME NEW b \in Batch, PlanBegin(b) PROVE FoundInv'
    BY <2>1, FoundBegin
  <2>2. ASSUME NEW skipped \in SUBSET {p \in Process : status[p] \in Replannable}, PlanResolve(skipped)
        PROVE  FoundInv'
    <3>1. skipped \in SUBSET Process
      OBVIOUS
    <3> QED
      BY <2>2, <3>1, FoundResolve
  <2> QED
    BY <1>1, <2>1, <2>2, FoundCommit DEF Plan
<1> QED
  BY <1>1, FoundUnplanned

\* Rows that are all READY queue.
LEMMA AllReadyQueues ==
  ASSUME NEW rows, \A d \in Dataset : rows[d].status \in {"NONE", "READY"}
  PROVE  Readiness("READY", rows) = "QUEUED"
<1> DEFINE found == ({"READY"} \cup {rows[d].status : d \in Dataset}) \ {"NONE"}
<1>1. Readiness("READY", rows) = IF found = {"READY"} THEN "QUEUED"
                                 ELSE IF found \cap {"MISSING", "FAILED"} # {} THEN "BLOCKED"
                                 ELSE "WAITING_DEPENDENCY"
  BY DEF Readiness
<1>2. found = {"READY"}
  OBVIOUS
<1> HIDE DEF found
<1> QED
  BY <1>1, <1>2

\* While no processor changes, what waits is planned again, and in a planned batch what
\* has all its dependencies is queued: neither a stale read of the planner nor a row it
\* skipped loses a task.
THEOREM NothingLost ==
  ASSUME SameRevisions
  PROVE  Spec => []NothingOverlooked
<1>1. IInv /\ PlansInv /\ FoundInv => ReadyTasksQueued
  <2> SUFFICES ASSUME IInv, PlansInv, FoundInv, NEW p \in Process, status[p] \in Replannable,
                      raw[p] = "READY", planned[p.batch] = code,
                      \A d \in Needs[p.dataset] :
                         dep[p][d].on # None /\ status[dep[p][d].on] = "SUCCESS"
               PROVE  FALSE
    BY DEF ReadyTasksQueued
  <2>1. status[p] # "ABSENT" /\ p = Current(p.batch, p.dataset)
    BY NothingIsOld DEF Replannable
  <2>2. \A d \in Dataset : dep[p][d].status # "WAITING"
    BY <2>1 DEF PlansInv, PlannedRows
  <2>3. \A d \in Dataset : RowFits(p, d, dep[p][d])
    BY <2>1 DEF IInv, RowsFit
  <2>4. \A d \in Dataset : dep[p][d].status \in {"NONE", "READY"}
    <3> SUFFICES ASSUME NEW d \in Dataset PROVE dep[p][d].status \in {"NONE", "READY"}
      OBVIOUS
    <3>1. CASE d \in Needs[p.dataset]
      BY <2>1, <2>2, <3>1 DEF FoundInv, NoFalseFailure, Settled
    <3>2. CASE d \notin Needs[p.dataset]
      BY <2>3, <3>2 DEF RowFits, NoRow
    <3> QED
      BY <3>1, <3>2
  <2>5. Readiness(raw[p], dep[p]) = "QUEUED"
    BY <2>4, AllReadyQueues
  <2> QED
    BY <2>5 DEF IInv, RowsDecide, Replannable
<1>2. IInv /\ IInv' /\ FoundInv /\ [Next]_vars => FoundInv'
  BY FoundStep
<1>3. IInv => TypeOK
  BY DEF IInv
<1>4. TypeOK /\ WaitingIsReplanned /\ ReadyTasksQueued => NothingOverlooked
  BY DEF NothingOverlooked
<1> QED
  BY <1>1, <1>2, <1>3, <1>4, Inductive, PlansInit, PlansStep, FoundInit, WaitingPlannedAgain, PTL DEF Spec
=============================================================================
