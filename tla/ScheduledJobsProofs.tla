------------------------- MODULE ScheduledJobsProofs -------------------------
(***************************************************************************)
(* Theorems about module ScheduledJobs: the rows of a job tell the truth   *)
(* about its runs and a verdict is final, for any number of jobs, threads, *)
(* requests and faults.                                                    *)
(*                                                                         *)
(* The argument: whoever executes holds the lock, or the lock of the job   *)
(* was lost. An execution without the lock lost is therefore the only one  *)
(* of its job, what it finds RUNNING is an orphan, and the record it will  *)
(* close is RUNNING until then. For that a key must lead every thread to a *)
(* row of the thread's own job, which holds as uuid4 never repeats.        *)
(***************************************************************************)
EXTENDS ScheduledJobs, FiniteSetTheorems, SequenceTheorems, TLAPS

\* There is always a new key: uuid4 never repeats.
KeysNeverRunOut == ~IsFiniteSet(Record)

-----------------------------------------------------------------------------
(* The table.                                                              *)

UniqueKeys(rows) == \A i, k \in DOMAIN rows : rows[i].id = rows[k].id => i = k

\* The keys a thread holds lead to rows of the jobs it holds them for.
Coherent(state, rows) ==
    \A i \in DOMAIN rows :
        /\ state.id = rows[i].id => state.job = rows[i].job
        /\ \A n \in DOMAIN state.todo :
              state.todo[n].id = rows[i].id => state.todo[n].job = rows[i].job

\* The record of a live execution is RUNNING until that closes it.
RunsOpen(rows, states, gone) ==
    \A i \in DOMAIN rows, w \in Thread :
        states[w].phase = "running" /\ states[w].id = rows[i].id /\ rows[i].job \notin gone
        => rows[i].status = "RUNNING"

OnePerState(rows) ==
    \A i, k \in DOMAIN rows :
        rows[i].job = rows[k].job /\ rows[i].status = rows[k].status =>
            i = k \/ rows[i].status \in {"SUCCESS", "FAILED"}

NoOrphans(rows, states, gone) ==
    \A i \in DOMAIN rows, w \in Thread :
        /\ rows[i].status = "RUNNING"
        /\ states[w].phase = "running"
        /\ states[w].job = rows[i].job
        /\ rows[i].job \notin gone
        => states[w].id = rows[i].id

\* What the table is to the threads, given the jobs whose lock was lost.
TableFits(rows, states, gone) ==
    /\ \A w \in Thread : Coherent(states[w], rows)
    /\ RunsOpen(rows, states, gone)
    /\ OnePerState(rows)
    /\ NoOrphans(rows, states, gone)

-----------------------------------------------------------------------------
(* The inductive invariant.                                                *)

\* An execution holds the lock of its job, if that was not lost.
LockHeld ==
    \A w \in Thread : Active(w) => holder[thread[w].job] = w \/ thread[w].job \in lost

\* A thread that does something does it for a job, and executes under a key.
ThreadsBusy ==
    \A w \in Thread :
        /\ thread[w].phase # "idle" => thread[w].job \in Job
        /\ thread[w].phase = "running" => thread[w].id \in Record

\* No thread survives its process.
DownIsIdle == process = "down" => \A w \in Thread : thread[w].phase = "idle"

IInv ==
    /\ TypeOK
    /\ LockHeld
    /\ ThreadsBusy
    /\ DownIsIdle
    /\ TableFits(records, thread, lost)

-----------------------------------------------------------------------------
(* Rows by position.                                                       *)

\* The n-th of a finite set of positions is one of them, with n - 1 before it.
LEMMA NthIsThere ==
  ASSUME NEW m \in Nat, NEW S \in SUBSET (1 .. m), NEW n \in 1 .. Cardinality(S)
  PROVE  Nth(S, n) \in S /\ Cardinality({k \in S : k <= Nth(S, n)}) = n
<1> DEFINE Below(i) == {k \in S : k <= i}
           rank == [i \in S |-> Cardinality(Below(i))]
           size == Cardinality(S)
<1>1. IsFiniteSet(S) /\ size \in Nat
  <2>1. IsFiniteSet(1 .. m)
    BY FS_Interval
  <2> QED
    BY <2>1, FS_Subset, FS_CardinalityType
<1>2. \A i \in S : IsFiniteSet(Below(i)) /\ Cardinality(Below(i)) \in 1 .. size
  <2> SUFFICES ASSUME NEW i \in S
               PROVE  IsFiniteSet(Below(i)) /\ Cardinality(Below(i)) \in 1 .. size
    OBVIOUS
  <2>1. Below(i) \in SUBSET S /\ i \in Below(i)
    OBVIOUS
  <2>2. IsFiniteSet(Below(i)) /\ Cardinality(Below(i)) <= size
    BY <1>1, <2>1, FS_Subset
  <2>3. Cardinality(Below(i)) \in Nat /\ Cardinality(Below(i)) # 0
    BY <2>1, <2>2, FS_CardinalityType, FS_EmptySet
  <2> QED
    BY <1>1, <2>2, <2>3
<1>3. \A i, j \in S : i < j => rank[i] # rank[j]
  <2> SUFFICES ASSUME NEW i \in S, NEW j \in S, i < j, rank[i] = rank[j]
               PROVE  FALSE
    OBVIOUS
  <2> HIDE DEF rank
  <2>1. Below(i) \in SUBSET Below(j) /\ j \in Below(j) /\ j \notin Below(i)
    <3>1. \A k \in S : k \in Int
      OBVIOUS
    <3>2. \A k \in S : k <= i => k <= j
      BY <3>1
    <3>3. j <= j /\ ~(j <= i)
      BY <3>1
    <3>4. Below(i) \subseteq Below(j)
      BY <3>2
    <3> QED
      BY <3>3, <3>4
  <2>2. IsFiniteSet(Below(j)) /\ Cardinality(Below(j)) = Cardinality(Below(i))
    BY <1>2 DEF rank
  <2> QED
    BY <2>1, <2>2, FS_Subset
<1>4. rank \in Injection(S, 1 .. size)
  <2>1. \A i, j \in S : rank[i] = rank[j] => i = j
    <3> HIDE DEF rank
    <3>1. \A i, j \in S : i \in Nat /\ j \in Nat
      OBVIOUS
    <3> QED
      BY <1>3, <3>1
  <2>2. rank \in [S -> 1 .. size]
    BY <1>2
  <2> HIDE DEF rank
  <2> QED
    BY <2>1, <2>2 DEF Injection, IsInjective
<1>5. rank \in Surjection(S, 1 .. size)
  <2>1. IsFiniteSet(1 .. size) /\ Cardinality(1 .. size) = size
    BY <1>1, FS_Interval
  <2> QED
    BY <1>1, <1>4, <2>1, FS_Injection
<1>6. \E i \in S : rank[i] = n
  <2> HIDE DEF rank
  <2> QED
    BY <1>5 DEF Surjection
<1>7. \E i \in S : Cardinality(Below(i)) = n
  BY <1>6
<1> QED
  BY <1>7 DEF Nth

\* What stands at some positions of a sequence is a sequence of its elements, each
\* taken once.
LEMMA RowsAtSome ==
  ASSUME NEW R, NEW rows \in Seq(R), NEW S \in SUBSET DOMAIN rows
  PROVE  /\ RowsAt(rows, S) \in Seq(R)
         /\ \A n \in DOMAIN RowsAt(rows, S) :
               Nth(S, n) \in S /\ RowsAt(rows, S)[n] = rows[Nth(S, n)]
         /\ \A m, n \in DOMAIN RowsAt(rows, S) : Nth(S, m) = Nth(S, n) => m = n
<1>1. Len(rows) \in Nat /\ DOMAIN rows = 1 .. Len(rows)
  BY LenProperties
<1>2. Cardinality(S) \in Nat
  <2>1. IsFiniteSet(1 .. Len(rows))
    BY <1>1, FS_Interval
  <2> QED
    BY <1>1, <2>1, FS_Subset, FS_CardinalityType
<1>3. DOMAIN RowsAt(rows, S) = 1 .. Cardinality(S)
  BY DEF RowsAt
<1>4. \A n \in 1 .. Cardinality(S) :
         Nth(S, n) \in S /\ Cardinality({k \in S : k <= Nth(S, n)}) = n
  BY <1>1, NthIsThere
<1>5. \A n \in 1 .. Cardinality(S) : RowsAt(rows, S)[n] = rows[Nth(S, n)]
  BY DEF RowsAt
<1>6. \A n \in 1 .. Cardinality(S) : rows[Nth(S, n)] \in R
  BY <1>1, <1>4, ElementOfSeq
<1>7. RowsAt(rows, S) \in Seq(R)
  <2>1. RowsAt(rows, S) \in [1 .. Cardinality(S) -> R]
    BY <1>6 DEF RowsAt
  <2> QED
    BY <1>2, <2>1, SeqDef
<1>8. \A m, n \in 1 .. Cardinality(S) : Nth(S, m) = Nth(S, n) => m = n
  BY <1>4
<1> QED
  BY <1>3, <1>4, <1>5, <1>7, <1>8

\* Some of the rows of a table, each once.
Among(some, rows) ==
    /\ some \in Seq(Rows)
    /\ UniqueKeys(some)
    /\ \A k \in DOMAIN some : \E i \in DOMAIN rows : some[k] = rows[i]

\* Cleaning up takes rows away, and nothing else.
LEMMA KeptAmong ==
  ASSUME NEW rows \in Seq(Rows), UniqueKeys(rows)
  PROVE  Among(Kept(rows), rows)
<1> DEFINE S == {i \in DOMAIN rows : \/ rows[i].status \in {"PENDING", "RUNNING"}
                                     \/ \E w \in Thread : Names(thread'[w], rows[i].id)}
<1>1. S \in SUBSET DOMAIN rows /\ Kept(rows) = RowsAt(rows, S)
  BY DEF Kept
<1> HIDE DEF S
<1>2. PICK some : some = RowsAt(rows, S)
  OBVIOUS
<1>3. /\ some \in Seq(Rows)
      /\ \A n \in DOMAIN some : Nth(S, n) \in S /\ some[n] = rows[Nth(S, n)]
      /\ \A m, n \in DOMAIN some : Nth(S, m) = Nth(S, n) => m = n
  BY <1>1, <1>2, RowsAtSome
<1>4. UniqueKeys(some)
  BY <1>1, <1>3 DEF UniqueKeys
<1> QED
  BY <1>1, <1>2, <1>3, <1>4 DEF Among

\* Rows that are fit are so when there are fewer of them.
LEMMA FewerFit ==
  ASSUME NEW rows, NEW some, NEW states, NEW gone,
         TableFits(rows, states, gone), Among(some, rows)
  PROVE  TableFits(some, states, gone)
<1>1. \A k \in DOMAIN some : \E i \in DOMAIN rows : some[k] = rows[i]
  BY DEF Among
<1>2. \A w \in Thread : Coherent(states[w], some)
  <2> SUFFICES ASSUME NEW w \in Thread, NEW k \in DOMAIN some
               PROVE  /\ states[w].id = some[k].id => states[w].job = some[k].job
                      /\ \A n \in DOMAIN states[w].todo :
                            states[w].todo[n].id = some[k].id
                            => states[w].todo[n].job = some[k].job
    BY DEF Coherent
  <2>1. PICK i \in DOMAIN rows : some[k] = rows[i]
    BY <1>1
  <2> QED
    BY <2>1 DEF TableFits, Coherent
<1>3. RunsOpen(some, states, gone)
  <2> SUFFICES ASSUME NEW k \in DOMAIN some, NEW w \in Thread,
                      states[w].phase = "running", states[w].id = some[k].id,
                      some[k].job \notin gone
               PROVE  some[k].status = "RUNNING"
    BY DEF RunsOpen
  <2>1. PICK i \in DOMAIN rows : some[k] = rows[i]
    BY <1>1
  <2> QED
    BY <2>1 DEF TableFits, RunsOpen
<1>4. OnePerState(some)
  <2> SUFFICES ASSUME NEW k \in DOMAIN some, NEW l \in DOMAIN some,
                      some[k].job = some[l].job, some[k].status = some[l].status
               PROVE  k = l \/ some[k].status \in {"SUCCESS", "FAILED"}
    BY DEF OnePerState
  <2>1. PICK i \in DOMAIN rows : some[k] = rows[i]
    BY <1>1
  <2>2. PICK j \in DOMAIN rows : some[l] = rows[j]
    BY <1>1
  <2>3. i = j \/ rows[i].status \in {"SUCCESS", "FAILED"}
    BY <2>1, <2>2 DEF TableFits, OnePerState
  <2>4. i = j => k = l
    BY <2>1, <2>2 DEF Among, UniqueKeys
  <2> QED
    BY <2>1, <2>3, <2>4
<1>5. NoOrphans(some, states, gone)
  <2> SUFFICES ASSUME NEW k \in DOMAIN some, NEW w \in Thread,
                      some[k].status = "RUNNING", states[w].phase = "running",
                      states[w].job = some[k].job, some[k].job \notin gone
               PROVE  states[w].id = some[k].id
    BY DEF NoOrphans
  <2>1. PICK i \in DOMAIN rows : some[k] = rows[i]
    BY <1>1
  <2> QED
    BY <2>1 DEF TableFits, NoOrphans
<1> QED
  BY <1>2, <1>3, <1>4, <1>5 DEF TableFits

-----------------------------------------------------------------------------
(* What the transactions do to the table.                                  *)

\* Rows are changed in place: the keys, the jobs and the order stay.
LEMMA InterruptedInPlace ==
  ASSUME NEW rows \in Seq(Rows), UniqueKeys(rows), NEW jobs
  PROVE  /\ Interrupted(rows, jobs) \in Seq(Rows) /\ UniqueKeys(Interrupted(rows, jobs))
         /\ DOMAIN Interrupted(rows, jobs) = DOMAIN rows
         /\ \A i \in DOMAIN rows :
               LET r == Interrupted(rows, jobs)[i]
               IN  /\ r.id = rows[i].id /\ r.job = rows[i].job
                   /\ rows[i].job \in jobs /\ rows[i].status = "RUNNING" => r.status = "FAILED"
                   /\ ~(rows[i].job \in jobs /\ rows[i].status = "RUNNING") => r = rows[i]
<1>1. Len(rows) \in Nat /\ DOMAIN rows = 1 .. Len(rows) /\ \A i \in DOMAIN rows : rows[i] \in Rows
  BY LenProperties, ElementOfSeq
<1>2. /\ DOMAIN Interrupted(rows, jobs) = DOMAIN rows
      /\ \A i \in DOMAIN rows :
            LET r == Interrupted(rows, jobs)[i]
            IN  /\ r \in Rows /\ r.id = rows[i].id /\ r.job = rows[i].job
                /\ rows[i].job \in jobs /\ rows[i].status = "RUNNING" => r.status = "FAILED"
                /\ ~(rows[i].job \in jobs /\ rows[i].status = "RUNNING") => r = rows[i]
  BY <1>1 DEF Interrupted, Rows, Statuses
<1>3. Interrupted(rows, jobs) \in Seq(Rows)
  <2>1. Interrupted(rows, jobs) \in [1 .. Len(rows) -> Rows]
    BY <1>1, <1>2 DEF Interrupted
  <2> QED
    BY <1>1, <2>1, SeqDef
<1>4. UniqueKeys(Interrupted(rows, jobs))
  BY <1>2 DEF UniqueKeys
<1> QED
  BY <1>2, <1>3, <1>4

LEMMA FinishedInPlace ==
  ASSUME NEW rows \in Seq(Rows), UniqueKeys(rows), NEW id, NEW verdict \in Statuses
  PROVE  /\ Finished(rows, id, verdict) \in Seq(Rows) /\ UniqueKeys(Finished(rows, id, verdict))
         /\ DOMAIN Finished(rows, id, verdict) = DOMAIN rows
         /\ \A i \in DOMAIN rows :
               LET r == Finished(rows, id, verdict)[i]
               IN  /\ r.id = rows[i].id /\ r.job = rows[i].job
                   /\ rows[i].id = id => r.status = verdict
                   /\ rows[i].id # id => r = rows[i]
<1>1. Len(rows) \in Nat /\ DOMAIN rows = 1 .. Len(rows) /\ \A i \in DOMAIN rows : rows[i] \in Rows
  BY LenProperties, ElementOfSeq
<1>2. /\ DOMAIN Finished(rows, id, verdict) = DOMAIN rows
      /\ \A i \in DOMAIN rows :
            LET r == Finished(rows, id, verdict)[i]
            IN  /\ r \in Rows /\ r.id = rows[i].id /\ r.job = rows[i].job
                /\ rows[i].id = id => r.status = verdict
                /\ rows[i].id # id => r = rows[i]
  BY <1>1 DEF Finished, Rows, Statuses
<1>3. Finished(rows, id, verdict) \in Seq(Rows)
  <2>1. Finished(rows, id, verdict) \in [1 .. Len(rows) -> Rows]
    BY <1>1, <1>2 DEF Finished
  <2> QED
    BY <1>1, <2>1, SeqDef
<1>4. UniqueKeys(Finished(rows, id, verdict))
  BY <1>2 DEF UniqueKeys
<1> QED
  BY <1>2, <1>3, <1>4

\* A row under a new key comes last and leaves the others alone.
LEMMA Appended ==
  ASSUME NEW rows \in Seq(Rows), UniqueKeys(rows), NEW r \in Rows,
         \A i \in DOMAIN rows : rows[i].id # r.id
  PROVE  /\ Append(rows, r) \in Seq(Rows) /\ UniqueKeys(Append(rows, r))
         /\ \A k \in DOMAIN Append(rows, r) :
               \/ k \in DOMAIN rows /\ Append(rows, r)[k] = rows[k]
               \/ k \notin DOMAIN rows /\ Append(rows, r)[k] = r /\ k = Len(rows) + 1
<1>1. Len(rows) \in Nat /\ DOMAIN rows = 1 .. Len(rows)
  BY LenProperties
<1>2. Append(rows, r) \in Seq(Rows) /\ DOMAIN Append(rows, r) = 1 .. Len(rows) + 1
  OBVIOUS
<1>3. \A k \in 1 .. Len(rows) + 1 :
         \/ k \in 1 .. Len(rows) /\ Append(rows, r)[k] = rows[k]
         \/ k \notin 1 .. Len(rows) /\ Append(rows, r)[k] = r /\ k = Len(rows) + 1
  BY <1>1
<1>4. UniqueKeys(Append(rows, r))
  <2> DEFINE more == Append(rows, r)
  <2> SUFFICES ASSUME NEW i \in DOMAIN more, NEW k \in DOMAIN more, more[i].id = more[k].id
               PROVE  i = k
    BY DEF UniqueKeys
  <2> HIDE DEF more
  <2> QED
    BY <1>1, <1>2, <1>3 DEF UniqueKeys, more
<1> QED
  BY <1>1, <1>2, <1>3, <1>4

-----------------------------------------------------------------------------
(* The table and the threads.                                              *)

\* A thread that goes on without executing needs keys of its own jobs only.
LEMMA QuietFit ==
  ASSUME NEW rows, NEW gone, NEW states \in [Thread -> ThreadStates],
         TableFits(rows, states, gone),
         NEW w \in Thread, NEW state, state.phase # "running", Coherent(state, rows)
  PROVE  TableFits(rows, [states EXCEPT ![w] = state], gone)
<1> DEFINE after == [states EXCEPT ![w] = state]
<1>1. \A v \in Thread : after[v] = IF v = w THEN state ELSE states[v]
  OBVIOUS
<1> HIDE DEF after
<1>2. \A v \in Thread : Coherent(after[v], rows)
  BY <1>1 DEF TableFits
<1>3. RunsOpen(rows, after, gone)
  BY <1>1 DEF TableFits, RunsOpen
<1>4. NoOrphans(rows, after, gone)
  BY <1>1 DEF TableFits, NoOrphans
<1> QED
  BY <1>2, <1>3, <1>4 DEF TableFits, after

\* No execution of the jobs is alive, unless their lock was lost.
NoneAlive(states, jobs, gone) ==
    \A w \in Thread :
        states[w].phase = "running" /\ states[w].job \in jobs => states[w].job \in gone

\* Then the RUNNING rows of the jobs may be taken for interrupted.
LEMMA InterruptedFit ==
  ASSUME NEW rows \in Seq(Rows), UniqueKeys(rows), NEW states, NEW gone, NEW jobs,
         TableFits(rows, states, gone), NoneAlive(states, jobs, gone)
  PROVE  /\ TableFits(Interrupted(rows, jobs), states, gone)
         /\ \A i \in DOMAIN Interrupted(rows, jobs) :
               Interrupted(rows, jobs)[i].job \in jobs
               => Interrupted(rows, jobs)[i].status # "RUNNING"
<1> DEFINE after == Interrupted(rows, jobs)
<1>1. /\ DOMAIN after = DOMAIN rows
      /\ \A i \in DOMAIN rows :
            /\ after[i].id = rows[i].id /\ after[i].job = rows[i].job
            /\ rows[i].job \in jobs /\ rows[i].status = "RUNNING" => after[i].status = "FAILED"
            /\ ~(rows[i].job \in jobs /\ rows[i].status = "RUNNING") => after[i] = rows[i]
  BY InterruptedInPlace
<1> HIDE DEF after
<1>2. \A w \in Thread : Coherent(states[w], after)
  BY <1>1 DEF TableFits, Coherent
<1>3. RunsOpen(after, states, gone)
  <2> SUFFICES ASSUME NEW i \in DOMAIN rows, NEW w \in Thread,
                      states[w].phase = "running", states[w].id = rows[i].id,
                      rows[i].job \notin gone
               PROVE  after[i].status = "RUNNING"
    BY <1>1 DEF RunsOpen
  <2>1. states[w].job = rows[i].job /\ rows[i].status = "RUNNING"
    BY DEF TableFits, Coherent, RunsOpen
  <2> QED
    BY <1>1, <2>1 DEF NoneAlive
<1>4. OnePerState(after)
  <2> SUFFICES ASSUME NEW i \in DOMAIN rows, NEW k \in DOMAIN rows, i # k,
                      rows[i].job = rows[k].job, after[i].status = after[k].status,
                      after[i].status \notin {"SUCCESS", "FAILED"}
               PROVE  FALSE
    BY <1>1 DEF OnePerState
  <2>1. after[i] = rows[i] /\ after[k] = rows[k]
    BY <1>1
  <2> QED
    BY <2>1 DEF TableFits, OnePerState
<1>5. NoOrphans(after, states, gone)
  <2> SUFFICES ASSUME NEW i \in DOMAIN rows, NEW w \in Thread,
                      after[i].status = "RUNNING", states[w].phase = "running",
                      states[w].job = rows[i].job, rows[i].job \notin gone
               PROVE  states[w].id = rows[i].id
    BY <1>1 DEF NoOrphans
  <2>1. after[i] = rows[i]
    BY <1>1
  <2> QED
    BY <2>1 DEF TableFits, NoOrphans
<1>6. \A i \in DOMAIN rows : rows[i].job \in jobs => after[i].status # "RUNNING"
  BY <1>1
<1> QED
  BY <1>1, <1>2, <1>3, <1>4, <1>5, <1>6 DEF TableFits, after

\* What fits, fits when more locks are lost.
LEMMA MoreLost ==
  ASSUME NEW rows, NEW states, NEW gone, NEW more, gone \subseteq more,
         TableFits(rows, states, gone)
  PROVE  TableFits(rows, states, more)
  BY DEF TableFits, RunsOpen, NoOrphans

\* A thread without a task fits any table.
LEMMA IdleCoherent ==
  ASSUME NEW rows \in Seq(Rows)
  PROVE  Coherent(Idle, rows)
<1>1. \A i \in DOMAIN rows : rows[i] \in Rows
  BY LenProperties, ElementOfSeq
<1>2. \A i \in DOMAIN rows : rows[i].id # None
  BY <1>1, ScheduledJobsAssumption DEF Rows
<1> QED
  BY <1>2 DEF Coherent, Idle

\* The keys of a sequence are finitely many.
LEMMA FiniteKeys ==
  ASSUME NEW R, NEW rows \in Seq(R)
  PROVE  IsFiniteSet({rows[i].id : i \in DOMAIN rows})
<1> DEFINE f == [i \in DOMAIN rows |-> rows[i].id]
           T == {rows[i].id : i \in DOMAIN rows}
<1>1. f \in Surjection(DOMAIN rows, T)
  BY DEF Surjection
<1>2. IsFiniteSet(DOMAIN rows)
  <2>1. Len(rows) \in Nat /\ DOMAIN rows = 1 .. Len(rows)
    BY LenProperties
  <2> QED
    BY <2>1, FS_Interval
<1> HIDE DEF f, T
<1>3. IsFiniteSet(T)
  BY <1>1, <1>2, FS_Surjection
<1> QED
  BY <1>3 DEF T

\* A request and a timer's run get a key that nobody knows.
LEMMA NewIsUnused ==
  ASSUME TypeOK, KeysNeverRunOut
  PROVE  New \in Record /\ Unused(New)
<1> DEFINE inTable == {records[i].id : i \in DOMAIN records}
           named(w) == {thread[w].id} \cup {thread[w].todo[i].id : i \in DOMAIN thread[w].todo}
           f == [w \in Thread |-> named(w)]
           all == {named(w) : w \in Thread}
           taken == inTable \cup UNION all
<1>1. IsFiniteSet(inTable)
  BY FiniteKeys DEF TypeOK
<1>2. \A w \in Thread : IsFiniteSet(named(w))
  <2> SUFFICES ASSUME NEW w \in Thread PROVE IsFiniteSet(named(w))
    OBVIOUS
  <2>1. thread[w].todo \in Candidates
    BY DEF TypeOK, ThreadStates
  <2>2. IsFiniteSet({thread[w].todo[i].id : i \in DOMAIN thread[w].todo})
    BY <2>1, FiniteKeys DEF Candidates
  <2>3. IsFiniteSet({thread[w].id})
    BY FS_Singleton
  <2> QED
    BY <2>2, <2>3, FS_Union
<1>3. IsFiniteSet(all)
  <2>1. f \in Surjection(Thread, all)
    BY DEF Surjection
  <2>2. IsFiniteSet(Thread)
    BY ScheduledJobsAssumption
  <2> HIDE DEF f, all
  <2> QED
    BY <2>1, <2>2, FS_Surjection
<1>4. IsFiniteSet(taken)
  <2>1. \A T \in all : IsFiniteSet(T)
    BY <1>2
  <2> HIDE DEF all, inTable
  <2>2. IsFiniteSet(UNION all)
    BY <1>3, <2>1, FS_UNION
  <2> QED
    BY <1>1, <2>2, FS_Union
<1>5. \E id \in Record : id \notin taken
  <2> HIDE DEF taken
  <2> SUFFICES ASSUME Record \in SUBSET taken PROVE FALSE
    OBVIOUS
  <2> QED
    BY <1>4, FS_Subset DEF KeysNeverRunOut
<1>6. \A id \in Record : id \notin taken => Unused(id)
  BY DEF Unused, Exists, Names
<1> HIDE DEF taken
<1>7. \E id \in Record : Unused(id)
  BY <1>5, <1>6
<1> QED
  BY <1>7 DEF New

\* The next candidate of a dispatcher is one it held before.
LEMMA NextCandidateFits ==
  ASSUME NEW w \in Thread, thread[w] \in ThreadStates, NEW rows \in Seq(Rows),
         Coherent(thread[w], rows)
  PROVE  /\ NextCandidate(w) \in ThreadStates
         /\ NextCandidate(w).phase \in {"idle", "locking"}
         /\ NextCandidate(w).phase # "idle" => NextCandidate(w).job \in Job
         /\ Coherent(NextCandidate(w), rows)
<1> DEFINE todo == thread[w].todo
<1>1. todo \in Seq([id : Record, job : Job])
  BY DEF ThreadStates, Candidates
<1>2. CASE todo = <<>>
  <2>1. NextCandidate(w) = Idle
    BY <1>2 DEF NextCandidate
  <2>2. Idle \in ThreadStates /\ Idle.phase = "idle"
    BY EmptySeq DEF Idle, ThreadStates, Phases, Candidates
  <2> QED
    BY <2>1, <2>2, IdleCoherent
<1>3. CASE todo # <<>>
  <2>1. /\ Head(todo) \in [id : Record, job : Job] /\ Head(todo) = todo[1]
        /\ Tail(todo) \in Seq([id : Record, job : Job])
        /\ 1 \in DOMAIN todo
        /\ \A n \in DOMAIN Tail(todo) : n + 1 \in DOMAIN todo /\ Tail(todo)[n] = todo[n + 1]
    <3> HIDE DEF todo
    <3>1. /\ Head(todo) \in [id : Record, job : Job]
          /\ Tail(todo) \in Seq([id : Record, job : Job])
          /\ Len(Tail(todo)) = Len(todo) - 1
          /\ \A n \in 1 .. Len(Tail(todo)) : Tail(todo)[n] = todo[n + 1]
      BY <1>1, <1>3, HeadTailProperties
    <3>2. /\ Len(todo) \in Nat /\ DOMAIN todo = 1 .. Len(todo)
          /\ DOMAIN Tail(todo) = 1 .. Len(Tail(todo))
      BY <1>1, <3>1, LenProperties
    <3>3. Len(todo) # 0
      BY <1>1, <1>3, EmptySeq
    <3>4. Head(todo) = todo[1]
      BY <1>1, <1>3
    <3> QED
      BY <3>1, <3>2, <3>3, <3>4
  <2>2. NextCandidate(w) = [phase |-> "locking", job |-> Head(todo).job, id |-> Head(todo).id,
                            manual |-> TRUE, todo |-> Tail(todo), ran |-> FALSE]
    BY <1>3 DEF NextCandidate
  <2>3. NextCandidate(w) \in ThreadStates /\ NextCandidate(w).job \in Job
    BY <2>1, <2>2 DEF ThreadStates, Phases, Candidates
  <2>4. \A i \in DOMAIN rows, n \in DOMAIN todo :
           todo[n].id = rows[i].id => todo[n].job = rows[i].job
    BY DEF Coherent
  <2>5. Coherent(NextCandidate(w), rows)
    <3> HIDE DEF todo
    <3> SUFFICES ASSUME NEW i \in DOMAIN rows
                 PROVE  /\ Head(todo).id = rows[i].id => Head(todo).job = rows[i].job
                        /\ \A n \in DOMAIN Tail(todo) :
                              Tail(todo)[n].id = rows[i].id => Tail(todo)[n].job = rows[i].job
      BY <2>2 DEF Coherent
    <3> QED
      BY <2>1, <2>4
  <2> QED
    BY <2>2, <2>3, <2>5
<1> QED
  BY <1>2, <1>3

-----------------------------------------------------------------------------
(* The invariant.                                                          *)

LEMMA InitInv == Init => IInv
<1> SUFFICES ASSUME Init PROVE IInv
  OBVIOUS
<1>1. records \in Seq(Rows) /\ DOMAIN records = {}
  BY EmptySeq DEF Init
<1>2. Idle \in ThreadStates /\ Idle.phase = "idle"
  BY EmptySeq DEF Idle, ThreadStates, Phases, Candidates
<1>3. TypeOK
  BY <1>1, <1>2, ScheduledJobsAssumption DEF Init, TypeOK
<1>4. LockHeld /\ ThreadsBusy /\ DownIsIdle
  BY <1>2 DEF Init, LockHeld, Active, ThreadsBusy, DownIsIdle
<1>5. TableFits(records, thread, lost)
  BY <1>1 DEF TableFits, Coherent, RunsOpen, OnePerState, NoOrphans
<1> QED
  BY <1>3, <1>4, <1>5 DEF IInv

\* What the invariant says of one table and its rows.
LEMMA Known ==
  ASSUME IInv
  PROVE  /\ records \in Seq(Rows) /\ UniqueKeys(records)
         /\ TableFits(records, thread, lost)
         /\ thread \in [Thread -> ThreadStates]
         /\ \A w \in Thread : thread[w] \in ThreadStates /\ Coherent(thread[w], records)
  BY DEF IInv, TypeOK, UniqueKeys, TableFits

\* Among the live executions there is one of a job whose lock is not lost.
LEMMA OneAlive ==
  ASSUME IInv
  PROVE  OneRunAtATime
  BY DEF IInv, LockHeld, OneRunAtATime

\* Variables of the threads and the locks, when one thread goes on without executing
\* and the lock only leaves that thread.
LEMMA GoesOn ==
  ASSUME IInv, NEW w \in Thread, NEW state \in ThreadStates,
         thread' = [thread EXCEPT ![w] = state], process' = process, lost' = lost,
         state.phase \notin {"opening", "running"},
         state.phase # "idle" => state.job \in Job /\ process = "up",
         \A j \in Job : holder'[j] # holder[j] => holder[j] = w
  PROVE  /\ thread' \in [Thread -> ThreadStates]
         /\ LockHeld' /\ ThreadsBusy' /\ DownIsIdle'
<1>1. /\ thread' \in [Thread -> ThreadStates]
      /\ \A v \in Thread : thread'[v] = IF v = w THEN state ELSE thread[v]
  BY DEF IInv, TypeOK
<1>2. LockHeld'
  BY <1>1 DEF IInv, LockHeld, Active, ThreadsBusy
<1>3. ThreadsBusy'
  BY <1>1 DEF IInv, ThreadsBusy
<1>4. DownIsIdle'
  BY <1>1 DEF IInv, DownIsIdle
<1> QED
  BY <1>1, <1>2, <1>3, <1>4

\* Fire: a timer's thread holds no key.
LEMMA FireInv ==
  ASSUME IInv, NEW w \in Thread, NEW j \in Job, Fire(w, j)
  PROVE  IInv'
<1> DEFINE state == [Idle EXCEPT !.phase = "locking", !.job = j]
<1>1. /\ state \in ThreadStates /\ state.phase = "locking" /\ state.job = j
      /\ thread' = [thread EXCEPT ![w] = state] /\ process = "up"
  BY EmptySeq DEF Fire, Step, Idle, ThreadStates, Phases, Candidates
<1>2. Coherent(state, records)
  <2>1. Coherent(Idle, records)
    BY Known, IdleCoherent
  <2>2. state.id = None /\ Idle.id = None /\ state.todo = Idle.todo
    BY DEF Idle
  <2>3. \A i \in DOMAIN records : records[i].id # None
    <3>1. \A i \in DOMAIN records : records[i] \in Rows
      BY Known, LenProperties, ElementOfSeq
    <3> QED
      BY <3>1, ScheduledJobsAssumption DEF Rows
  <2> HIDE DEF state
  <2> QED
    BY <2>1, <2>2, <2>3 DEF Coherent
<1> HIDE DEF state
<1>3. TableFits(records, thread', lost)
  BY <1>1, <1>2, Known, QuietFit
<1>4. thread' \in [Thread -> ThreadStates] /\ LockHeld' /\ ThreadsBusy' /\ DownIsIdle'
  BY <1>1, GoesOn DEF Fire
<1> QED
  BY <1>3, <1>4 DEF Fire, IInv, TypeOK

\* The table, when one thread goes on without executing.
LEMMA QuietTable ==
  ASSUME IInv, NEW w \in Thread, NEW state, state.phase # "running", Coherent(state, records),
         thread' = [thread EXCEPT ![w] = state], lost' = lost,
         records' = records \/ records' = Kept(records)
  PROVE  /\ records' \in Seq(Rows) /\ UniqueKeys(records')
         /\ TableFits(records', thread', lost')
<1>1. PICK rows : rows = records
  OBVIOUS
<1>2. TableFits(rows, thread', lost)
  BY <1>1, Known, QuietFit
<1>3. CASE records' = records
  BY <1>1, <1>2, <1>3, Known
<1>4. CASE records' = Kept(records)
  <2>1. rows \in Seq(Rows) /\ UniqueKeys(rows)
    BY <1>1, Known
  <2>2. Among(Kept(rows), rows)
    BY <2>1, KeptAmong
  <2>3. Among(records', rows)
    BY <1>1, <1>4, <2>2
  <2>4. TableFits(records', thread', lost)
    BY <1>2, <2>3, FewerFit
  <2> QED
    BY <2>3, <2>4 DEF Among
<1> QED
  BY <1>3, <1>4

\* Dispatch: the candidates are rows of the table.
LEMMA DispatchInv ==
  ASSUME IInv, NEW w \in Thread, Dispatch(w)
  PROVE  IInv'
<1> DEFINE S == {i \in DOMAIN records : records[i].status = "PENDING"}
           pending == RowsAt(records, S)
           todo == [i \in DOMAIN pending |-> [id |-> pending[i].id, job |-> pending[i].job]]
           state == [phase |-> "locking", job |-> Head(todo).job, id |-> Head(todo).id,
                     manual |-> TRUE, todo |-> Tail(todo), ran |-> FALSE]
<1>1. /\ pending \in Seq(Rows)
      /\ \A n \in DOMAIN pending : Nth(S, n) \in DOMAIN records /\ pending[n] = records[Nth(S, n)]
  <2>1. S \in SUBSET DOMAIN records /\ records \in Seq(Rows)
    BY Known
  <2> HIDE DEF S
  <2> QED
    BY <2>1, RowsAtSome
<1>2. /\ todo # <<>> /\ thread' = [thread EXCEPT ![w] = state]
      /\ process = "up" /\ thread[w] = Idle
  BY DEF Dispatch, Step
<1> HIDE DEF pending
<1>3. todo \in Seq([id : Record, job : Job])
  <2>1. Len(pending) \in Nat /\ DOMAIN pending = 1 .. Len(pending)
    BY <1>1, LenProperties
  <2>2. \A n \in DOMAIN pending : pending[n].id \in Record /\ pending[n].job \in Job
    <3>1. \A n \in 1 .. Len(pending) : pending[n] \in Rows
      BY <1>1, ElementOfSeq
    <3> QED
      BY <2>1, <3>1 DEF Rows
  <2>3. todo \in [1 .. Len(pending) -> [id : Record, job : Job]]
    BY <2>1, <2>2
  <2> QED
    BY <2>1, <2>3, SeqDef
<1>4. /\ DOMAIN todo = DOMAIN pending
      /\ \A n \in DOMAIN pending : todo[n].id = pending[n].id /\ todo[n].job = pending[n].job
  OBVIOUS
<1> HIDE DEF todo
<1>5. /\ Head(todo) \in [id : Record, job : Job] /\ Head(todo) = todo[1] /\ 1 \in DOMAIN todo
      /\ Tail(todo) \in Seq([id : Record, job : Job])
      /\ \A n \in DOMAIN Tail(todo) : n + 1 \in DOMAIN todo /\ Tail(todo)[n] = todo[n + 1]
  <2>1. /\ Head(todo) \in [id : Record, job : Job]
        /\ Tail(todo) \in Seq([id : Record, job : Job])
        /\ Len(Tail(todo)) = Len(todo) - 1
        /\ \A n \in 1 .. Len(Tail(todo)) : Tail(todo)[n] = todo[n + 1]
    BY <1>2, <1>3, HeadTailProperties
  <2>2. /\ Len(todo) \in Nat /\ DOMAIN todo = 1 .. Len(todo)
        /\ DOMAIN Tail(todo) = 1 .. Len(Tail(todo))
    BY <1>3, <2>1, LenProperties
  <2>3. Len(todo) # 0
    BY <1>2, <1>3, EmptySeq
  <2>4. Head(todo) = todo[1]
    BY <1>2, <1>3
  <2> QED
    BY <2>1, <2>2, <2>3, <2>4
<1>6. \A i \in DOMAIN records, n \in DOMAIN todo :
         todo[n].id = records[i].id => todo[n].job = records[i].job
  <2> SUFFICES ASSUME NEW i \in DOMAIN records, NEW n \in DOMAIN todo,
                      todo[n].id = records[i].id
               PROVE  todo[n].job = records[i].job
    OBVIOUS
  <2>1. records[Nth(S, n)].id = records[i].id
    BY <1>1, <1>4
  <2>2. i = Nth(S, n)
    BY <1>1, <1>4, <2>1, Known DEF UniqueKeys
  <2> QED
    BY <1>1, <1>4, <2>2
<1>7. Coherent(state, records)
  <2> SUFFICES ASSUME NEW i \in DOMAIN records
               PROVE  /\ Head(todo).id = records[i].id => Head(todo).job = records[i].job
                      /\ \A n \in DOMAIN Tail(todo) :
                            Tail(todo)[n].id = records[i].id => Tail(todo)[n].job = records[i].job
    BY DEF Coherent
  <2> QED
    BY <1>5, <1>6
<1>8. /\ state \in ThreadStates /\ state.phase = "locking" /\ state.job \in Job
  BY <1>5 DEF ThreadStates, Phases, Candidates
<1> HIDE DEF state
<1>9. TableFits(records', thread', lost')
  <2>1. records' = records /\ lost' = lost
    BY DEF Dispatch
  <2> QED
    BY <1>2, <1>7, <1>8, <2>1, QuietTable
<1>10. thread' \in [Thread -> ThreadStates] /\ LockHeld' /\ ThreadsBusy' /\ DownIsIdle'
  <2>1. process' = process /\ lost' = lost /\ holder' = holder
    BY DEF Dispatch
  <2> QED
    BY <1>2, <1>8, <2>1, GoesOn
<1> QED
  BY <1>9, <1>10 DEF Dispatch, IInv, TypeOK

\* Lock: nobody else executes the job, unless its lock was lost.
LEMMA LockInv ==
  ASSUME IInv, NEW w \in Thread, Lock(w)
  PROVE  IInv'
<1> DEFINE state == [thread[w] EXCEPT !.phase = "opening"]
<1>1. /\ thread[w] \in ThreadStates /\ Coherent(thread[w], records)
      /\ thread' = [thread EXCEPT ![w] = state] /\ records' = records /\ lost' = lost
      /\ thread[w].phase = "locking" /\ thread[w].job \in Job
  BY Known DEF Lock, Step, IInv, ThreadsBusy
<1>2. /\ state \in ThreadStates /\ state.phase = "opening"
      /\ state.job = thread[w].job /\ state.id = thread[w].id /\ state.todo = thread[w].todo
  BY <1>1 DEF ThreadStates, Phases
<1> HIDE DEF state
<1>3. Coherent(state, records)
  BY <1>1, <1>2 DEF Coherent
<1>4. TableFits(records', thread', lost')
  BY <1>1, <1>2, <1>3, QuietTable
<1>5. /\ thread' \in [Thread -> ThreadStates]
      /\ \A v \in Thread : thread'[v] = IF v = w THEN state ELSE thread[v]
      /\ holder' \in [Job -> Thread \cup {None}]
      /\ \A j \in Job : holder'[j] = IF j = thread[w].job THEN w ELSE holder[j]
      /\ holder[thread[w].job] = None
  BY <1>1, <1>2 DEF Lock, IInv, TypeOK
<1>6. LockHeld'
  <2> SUFFICES ASSUME NEW v \in Thread, Active(v)'
               PROVE  holder'[thread'[v].job] = v \/ thread'[v].job \in lost
    BY <1>1 DEF LockHeld
  <2>1. CASE v = w
    BY <1>1, <1>2, <1>5, <2>1
  <2>2. CASE v # w
    <3>1. Active(v) /\ thread'[v] = thread[v] /\ thread[v].job \in Job
      BY <1>5, <2>2 DEF Active, IInv, ThreadsBusy
    <3>2. holder[thread[v].job] = v \/ thread[v].job \in lost
      BY <3>1 DEF IInv, LockHeld
    <3>3. v # None
      BY ScheduledJobsAssumption
    <3> QED
      BY <1>5, <3>1, <3>2, <3>3
  <2> QED
    BY <2>1, <2>2
<1>7. ThreadsBusy'
  BY <1>1, <1>2, <1>5 DEF IInv, ThreadsBusy
<1>8. DownIsIdle'
  BY <1>1, <1>5 DEF Lock, IInv, DownIsIdle
<1> QED
  BY <1>4, <1>5, <1>6, <1>7, <1>8 DEF Lock, IInv, TypeOK

\* What the thread does next is its last step, or the next candidate's first one.
LEMMA FreedInv ==
  ASSUME IInv, NEW w \in Thread, NEW state \in ThreadStates, Coherent(state, records),
         state.phase \notin {"opening", "running"},
         state.phase # "idle" => state.job \in Job,
         thread[w].phase # "idle",
         thread' = [thread EXCEPT ![w] = state], records' = Kept(records),
         \A j \in Job : holder'[j] # holder[j] => holder[j] = w,
         holder' \in [Job -> Thread \cup {None}], faults' \in 0 .. MaxFaults,
         UNCHANGED <<enabled, process, lost>>
  PROVE  IInv'
<1>1. /\ records' \in Seq(Rows) /\ UniqueKeys(records')
      /\ TableFits(records', thread', lost')
  BY QuietTable
<1>2. process = "up"
  BY DEF IInv, DownIsIdle, TypeOK
<1>3. thread' \in [Thread -> ThreadStates] /\ LockHeld' /\ ThreadsBusy' /\ DownIsIdle'
  BY <1>2, GoesOn
<1> QED
  BY <1>1, <1>3 DEF IInv, TypeOK, UniqueKeys

\* LockRefused.
LEMMA LockRefusedInv ==
  ASSUME IInv, NEW w \in Thread, LockRefused(w)
  PROVE  IInv'
<1>1. /\ thread[w] \in ThreadStates /\ Coherent(thread[w], records) /\ records \in Seq(Rows)
  BY Known
<1>2. PICK state : state = NextCandidate(w)
  OBVIOUS
<1>3. /\ state \in ThreadStates /\ state.phase \in {"idle", "locking"}
      /\ state.phase # "idle" => state.job \in Job
      /\ Coherent(state, records)
  BY <1>1, <1>2, NextCandidateFits
<1> QED
  BY <1>2, <1>3, FreedInv DEF LockRefused, Step, IInv, TypeOK

\* TransactionFails: the row is left as it was.
LEMMA TransactionFailsInv ==
  ASSUME IInv, NEW w \in Thread, TransactionFails(w)
  PROVE  IInv'
<1> DEFINE state == [thread[w] EXCEPT !.phase = "unlocking", !.ran = TRUE]
<1>1. /\ thread[w] \in ThreadStates /\ Coherent(thread[w], records)
      /\ thread[w].phase # "idle" /\ thread[w].job \in Job
  BY Known DEF TransactionFails, IInv, ThreadsBusy
<1>2. /\ state \in ThreadStates /\ state.phase = "unlocking"
      /\ state.job = thread[w].job /\ state.id = thread[w].id /\ state.todo = thread[w].todo
  BY <1>1 DEF ThreadStates, Phases
<1>3. thread' = [thread EXCEPT ![w] = state] /\ faults' \in 0 .. MaxFaults
  BY ScheduledJobsAssumption DEF TransactionFails, Step, IInv, TypeOK
<1> HIDE DEF state
<1>4. Coherent(state, records)
  BY <1>1, <1>2 DEF Coherent
<1> QED
  BY <1>1, <1>2, <1>3, <1>4, FreedInv DEF TransactionFails, IInv, TypeOK

\* Unlock: only a lock of one's own is given back.
LEMMA UnlockInv ==
  ASSUME IInv, NEW w \in Thread, Unlock(w)
  PROVE  IInv'
<1>1. /\ thread[w] \in ThreadStates /\ Coherent(thread[w], records) /\ records \in Seq(Rows)
      /\ thread[w].phase # "idle"
  BY Known DEF Unlock
<1>2. PICK state : state = (IF ~thread[w].ran /\ holder[thread[w].job] = w
                            THEN NextCandidate(w) ELSE Idle)
  OBVIOUS
<1>3. /\ NextCandidate(w) \in ThreadStates /\ NextCandidate(w).phase \in {"idle", "locking"}
      /\ NextCandidate(w).phase # "idle" => NextCandidate(w).job \in Job
      /\ Coherent(NextCandidate(w), records)
  BY <1>1, NextCandidateFits
<1>4. Idle \in ThreadStates /\ Idle.phase = "idle" /\ Coherent(Idle, records)
  BY <1>1, IdleCoherent, EmptySeq DEF Idle, ThreadStates, Phases, Candidates
<1>5. /\ state \in ThreadStates /\ state.phase \in {"idle", "locking"}
      /\ state.phase # "idle" => state.job \in Job
      /\ Coherent(state, records)
  BY <1>2, <1>3, <1>4
<1>6. /\ holder' \in [Job -> Thread \cup {None}]
      /\ \A j \in Job : holder'[j] # holder[j] => holder[j] = w
  BY DEF Unlock, IInv, TypeOK
<1>7. thread' = [thread EXCEPT ![w] = state]
  BY <1>2 DEF Unlock, Step
<1> QED
  BY <1>1, <1>5, <1>6, <1>7, FreedInv DEF Unlock, IInv, TypeOK

\* Finish: whoever else executes under the key that is closed has lost its lock.
LEMMA FinishInv ==
  ASSUME IInv, NEW w \in Thread, NEW outcome \in {"SUCCESS", "FAILED"}, Finish(w, outcome)
  PROVE  IInv'
<1> DEFINE state == [thread[w] EXCEPT !.phase = "unlocking", !.ran = TRUE]
<1>1. /\ thread[w] \in ThreadStates /\ Coherent(thread[w], records)
      /\ thread[w].phase = "running" /\ thread[w].job \in Job
      /\ records \in Seq(Rows) /\ UniqueKeys(records) /\ TableFits(records, thread, lost)
      /\ thread \in [Thread -> ThreadStates]
  BY Known DEF Finish, IInv, ThreadsBusy
<1>2. /\ state \in ThreadStates /\ state.phase = "unlocking"
      /\ state.job = thread[w].job /\ state.id = thread[w].id /\ state.todo = thread[w].todo
  BY <1>1 DEF ThreadStates, Phases
<1>3. thread' = [thread EXCEPT ![w] = state] /\ lost' = lost
  BY DEF Finish, Step
<1> HIDE DEF state
<1>4. Coherent(state, records)
  BY <1>1, <1>2 DEF Coherent
<1>5. TableFits(records, thread', lost)
  BY <1>1, <1>2, <1>3, <1>4, QuietFit
<1>6. \A v \in Thread : thread'[v] = IF v = w THEN state ELSE thread[v]
  BY <1>1, <1>3
<1>7. PICK rows : rows = Finished(records, thread[w].id, outcome)
  OBVIOUS
<1>8. /\ rows \in Seq(Rows) /\ UniqueKeys(rows) /\ DOMAIN rows = DOMAIN records
      /\ \A i \in DOMAIN records :
            /\ rows[i].id = records[i].id /\ rows[i].job = records[i].job
            /\ records[i].id = thread[w].id => rows[i].status = outcome
            /\ records[i].id # thread[w].id => rows[i] = records[i]
  <2>1. outcome \in Statuses
    BY DEF Statuses
  <2> QED
    BY <1>1, <1>7, <2>1, FinishedInPlace
<1>9. TableFits(rows, thread', lost)
  <2>1. \A v \in Thread : Coherent(thread'[v], rows)
    BY <1>5, <1>8 DEF TableFits, Coherent
  <2>2. RunsOpen(rows, thread', lost)
    <3> SUFFICES ASSUME NEW i \in DOMAIN records, NEW v \in Thread,
                        thread'[v].phase = "running", thread'[v].id = records[i].id,
                        records[i].job \notin lost
                 PROVE  rows[i].status = "RUNNING"
      BY <1>8 DEF RunsOpen
    <3>1. records[i].status = "RUNNING"
      BY <1>5 DEF TableFits, RunsOpen
    <3>2. v # w /\ thread[v].phase = "running" /\ thread[v].id = records[i].id
      BY <1>2, <1>6
    <3>3. ASSUME records[i].id = thread[w].id PROVE FALSE
      <4>1. thread[v].job = records[i].job /\ thread[w].job = records[i].job
        BY <1>1, <3>2, <3>3 DEF TableFits, Coherent
      <4>2. Active(v) /\ Active(w)
        BY <1>1, <3>2 DEF Active
      <4> QED
        BY <3>2, <4>1, <4>2, OneAlive DEF OneRunAtATime
    <3> QED
      BY <1>8, <3>1, <3>3
  <2>3. OnePerState(rows)
    BY <1>1, <1>8 DEF TableFits, OnePerState
  <2>4. NoOrphans(rows, thread', lost)
    BY <1>5, <1>8 DEF TableFits, NoOrphans
  <2> QED
    BY <2>1, <2>2, <2>3, <2>4 DEF TableFits
<1>10. records' \in Seq(Rows) /\ UniqueKeys(records') /\ TableFits(records', thread', lost)
  <2>1. Among(Kept(rows), rows)
    BY <1>8, KeptAmong
  <2>2. Among(records', rows)
    BY <1>7, <2>1 DEF Finish
  <2> QED
    BY <1>9, <2>2, FewerFit DEF Among
<1>11. thread' \in [Thread -> ThreadStates] /\ LockHeld' /\ ThreadsBusy' /\ DownIsIdle'
  <2>1. process' = process /\ holder' = holder /\ process = "up"
    BY <1>1 DEF Finish, IInv, DownIsIdle, TypeOK
  <2> QED
    BY <1>1, <1>2, <1>3, <2>1, GoesOn
<1> QED
  BY <1>3, <1>10, <1>11 DEF Finish, IInv, TypeOK, UniqueKeys

\* Request: a row under a key that no thread holds.
LEMMA RequestInv ==
  ASSUME IInv, KeysNeverRunOut, NEW j \in Job, Request(j)
  PROVE  IInv'
<1> DEFINE r == [id |-> New, job |-> j, status |-> "PENDING"]
<1>1. New \in Record /\ Unused(New)
  BY NewIsUnused DEF IInv
<1>2. /\ records \in Seq(Rows) /\ UniqueKeys(records) /\ TableFits(records, thread, lost)
      /\ thread' = thread /\ lost' = lost
  BY Known DEF Request
<1>3. PICK rows : rows = Append(records, r)
  OBVIOUS
<1>4. r \in Rows /\ r.id = New /\ r.job = j /\ r.status = "PENDING"
  BY <1>1 DEF Rows, Statuses
<1>5. /\ rows \in Seq(Rows) /\ UniqueKeys(rows)
      /\ \A k \in DOMAIN rows :
            \/ k \in DOMAIN records /\ rows[k] = records[k]
            \/ k \notin DOMAIN records /\ rows[k] = r /\ k = Len(records) + 1
  <2>1. \A i \in DOMAIN records : records[i].id # r.id
    BY <1>1, <1>4 DEF Unused, Exists
  <2> HIDE DEF r
  <2> QED
    BY <1>2, <1>3, <1>4, <2>1, Appended
<1>6. \A w \in Thread : ~Names(thread[w], New)
  BY <1>1 DEF Unused
<1>7. \A i \in DOMAIN records :
         records[i].job = j => records[i].status \notin {"PENDING", "RUNNING"}
  BY DEF Request, Requestable
<1>8. rows = records'
  BY <1>3 DEF Request
<1> HIDE DEF r
<1>9. \A w \in Thread : Coherent(thread[w], rows)
  <2> SUFFICES ASSUME NEW w \in Thread, NEW k \in DOMAIN rows
               PROVE  /\ thread[w].id = rows[k].id => thread[w].job = rows[k].job
                      /\ \A n \in DOMAIN thread[w].todo :
                            thread[w].todo[n].id = rows[k].id
                            => thread[w].todo[n].job = rows[k].job
    BY DEF Coherent
  <2>1. CASE k \in DOMAIN records /\ rows[k] = records[k]
    BY <1>2, <2>1 DEF TableFits, Coherent
  <2>2. CASE rows[k] = r
    BY <1>4, <1>6, <2>2 DEF Names
  <2> QED
    BY <1>5, <2>1, <2>2
<1>10. RunsOpen(rows, thread, lost)
  <2> SUFFICES ASSUME NEW k \in DOMAIN rows, NEW w \in Thread,
                      thread[w].phase = "running", thread[w].id = rows[k].id,
                      rows[k].job \notin lost
               PROVE  rows[k].status = "RUNNING"
    BY DEF RunsOpen
  <2>1. CASE k \in DOMAIN records /\ rows[k] = records[k]
    BY <1>2, <2>1 DEF TableFits, RunsOpen
  <2>2. CASE rows[k] = r
    BY <1>4, <1>6, <2>2 DEF Names
  <2> QED
    BY <1>5, <2>1, <2>2
<1>11. OnePerState(rows)
  <2> SUFFICES ASSUME NEW i \in DOMAIN rows, NEW k \in DOMAIN rows,
                      rows[i].job = rows[k].job, rows[i].status = rows[k].status
               PROVE  i = k \/ rows[i].status \in {"SUCCESS", "FAILED"}
    BY DEF OnePerState
  <2>1. CASE rows[i] = records[i] /\ rows[k] = records[k]
             /\ i \in DOMAIN records /\ k \in DOMAIN records
    BY <1>2, <2>1 DEF TableFits, OnePerState
  <2>2. CASE rows[i] = r /\ rows[k] = r
    BY <1>5, <2>2 DEF UniqueKeys
  <2>3. CASE rows[i] = r /\ rows[k] = records[k] /\ k \in DOMAIN records
    BY <1>4, <1>7, <2>3
  <2>4. CASE rows[k] = r /\ rows[i] = records[i] /\ i \in DOMAIN records
    BY <1>4, <1>7, <2>4
  <2> QED
    BY <1>5, <2>1, <2>2, <2>3, <2>4
<1>12. NoOrphans(rows, thread, lost)
  BY <1>2, <1>4, <1>5 DEF TableFits, NoOrphans
<1>13. TableFits(rows, thread, lost)
  BY <1>9, <1>10, <1>11, <1>12 DEF TableFits
<1>14. (LockHeld /\ ThreadsBusy /\ DownIsIdle)'
  BY DEF Request, IInv, LockHeld, Active, ThreadsBusy, DownIsIdle
<1> QED
  BY <1>2, <1>5, <1>8, <1>13, <1>14 DEF Request, IInv, TypeOK, UniqueKeys

\* What the opening transaction finds: no other execution of the job is alive, unless
\* its lock was lost, and after the treatment of orphans none of its rows is RUNNING.
LEMMA OpenFinds ==
  ASSUME IInv, NEW w \in Thread, thread[w].phase = "opening",
         NEW rows, rows = Interrupted(records, {thread[w].job})
  PROVE  /\ rows \in Seq(Rows) /\ UniqueKeys(rows) /\ TableFits(rows, thread, lost)
         /\ DOMAIN rows = DOMAIN records
         /\ \A i \in DOMAIN records :
               /\ rows[i].id = records[i].id /\ rows[i].job = records[i].job
               /\ rows[i].job = thread[w].job => rows[i].status # "RUNNING"
               /\ records[i].status # "RUNNING" => rows[i] = records[i]
         /\ \A v \in Thread :
               v # w /\ Active(v) /\ thread[v].job = thread[w].job => thread[w].job \in lost
<1> PICK jobs, table : jobs = {thread[w].job} /\ table = records
  OBVIOUS
<1>1. table \in Seq(Rows) /\ UniqueKeys(table) /\ TableFits(table, thread, lost)
  BY Known
<1>2. \A v \in Thread :
         v # w /\ Active(v) /\ thread[v].job = thread[w].job => thread[w].job \in lost
  BY OneAlive DEF OneRunAtATime, Active
<1>3. NoneAlive(thread, jobs, lost)
  BY <1>2 DEF Active, NoneAlive
<1>4. rows = Interrupted(table, jobs)
  OBVIOUS
<1>5. /\ TableFits(rows, thread, lost)
      /\ \A i \in DOMAIN rows : rows[i].job \in jobs => rows[i].status # "RUNNING"
  BY <1>1, <1>3, <1>4, InterruptedFit
<1>6. /\ rows \in Seq(Rows) /\ UniqueKeys(rows) /\ DOMAIN rows = DOMAIN table
      /\ \A i \in DOMAIN table :
            /\ rows[i].id = table[i].id /\ rows[i].job = table[i].job
            /\ ~(table[i].job \in jobs /\ table[i].status = "RUNNING") => rows[i] = table[i]
  BY <1>1, <1>4, InterruptedInPlace
<1> QED
  BY <1>2, <1>5, <1>6

\* The threads and the locks, when a thread that holds the lock goes on under a key.
LEMMA Executes ==
  ASSUME IInv, NEW w \in Thread, thread[w].phase = "opening", NEW state \in ThreadStates,
         state.phase = "running", state.job = thread[w].job, state.id \in Record,
         thread' = [thread EXCEPT ![w] = state], UNCHANGED <<holder, process, lost>>
  PROVE  thread' \in [Thread -> ThreadStates] /\ LockHeld' /\ ThreadsBusy' /\ DownIsIdle'
<1>1. /\ thread' \in [Thread -> ThreadStates]
      /\ \A v \in Thread : thread'[v] = IF v = w THEN state ELSE thread[v]
  BY DEF IInv, TypeOK
<1>2. LockHeld'
  BY <1>1 DEF IInv, LockHeld, Active
<1>3. ThreadsBusy'
  BY <1>1 DEF IInv, ThreadsBusy
<1>4. DownIsIdle'
  BY <1>1 DEF IInv, DownIsIdle
<1> QED
  BY <1>1, <1>2, <1>3, <1>4

\* A timer's run: its row is new.
LEMMA OpenNewFits ==
  ASSUME IInv, KeysNeverRunOut, NEW w \in Thread, thread[w].phase = "opening", NEW rows,
         rows = Interrupted(records, {thread[w].job}), NEW kept, Among(kept, rows),
         NEW r, r = [id |-> New, job |-> thread[w].job, status |-> "RUNNING"],
         NEW state, state = [thread[w] EXCEPT !.phase = "running", !.id = New],
         NEW after, after = Append(kept, r),
         NEW states, states = [thread EXCEPT ![w] = state]
  PROVE  after \in Seq(Rows) /\ UniqueKeys(after) /\ TableFits(after, states, lost)
<1>1. /\ rows \in Seq(Rows) /\ UniqueKeys(rows) /\ TableFits(rows, thread, lost)
      /\ DOMAIN rows = DOMAIN records
      /\ \A i \in DOMAIN records :
            /\ rows[i].id = records[i].id
            /\ rows[i].job = thread[w].job => rows[i].status # "RUNNING"
      /\ \A v \in Thread :
            v # w /\ Active(v) /\ thread[v].job = thread[w].job => thread[w].job \in lost
  BY OpenFinds
<1>2. New \in Record /\ Unused(New)
  BY NewIsUnused DEF IInv
<1>3. /\ kept \in Seq(Rows) /\ UniqueKeys(kept) /\ TableFits(kept, thread, lost)
      /\ \A k \in DOMAIN kept : \E i \in DOMAIN rows : kept[k] = rows[i]
  BY <1>1, FewerFit DEF Among
<1>4. \A k \in DOMAIN kept :
         kept[k].id # New /\ (kept[k].job = thread[w].job => kept[k].status # "RUNNING")
  <2>1. \A i \in DOMAIN rows : rows[i].id # New
    BY <1>1, <1>2 DEF Unused, Exists
  <2> SUFFICES ASSUME NEW k \in DOMAIN kept
               PROVE  /\ kept[k].id # New
                      /\ kept[k].job = thread[w].job => kept[k].status # "RUNNING"
    OBVIOUS
  <2>2. PICK i \in DOMAIN records : kept[k] = rows[i]
    BY <1>1, <1>3
  <2> QED
    BY <1>1, <2>1, <2>2
<1>5. /\ thread[w] \in ThreadStates /\ thread \in [Thread -> ThreadStates] /\ thread[w].job \in Job
  BY Known DEF IInv, ThreadsBusy
<1>6. r \in Rows /\ r.id = New /\ r.job = thread[w].job /\ r.status = "RUNNING"
  BY <1>2, <1>5 DEF Rows, Statuses
<1>7. /\ after \in Seq(Rows) /\ UniqueKeys(after)
      /\ \A k \in DOMAIN after :
            \/ k \in DOMAIN kept /\ after[k] = kept[k]
            \/ after[k] = r
  BY <1>3, <1>4, <1>6, Appended
<1>8. /\ state.phase = "running" /\ state.job = thread[w].job /\ state.id = New
      /\ state.todo = thread[w].todo
  BY <1>5 DEF ThreadStates
<1>9. \A v \in Thread : states[v] = IF v = w THEN state ELSE thread[v]
  BY <1>5
<1>10. \A v \in Thread : ~Names(thread[v], New)
  BY <1>2 DEF Unused
<1>11. \A v \in Thread : Coherent(states[v], after)
  <2> SUFFICES ASSUME NEW v \in Thread, NEW k \in DOMAIN after
               PROVE  /\ states[v].id = after[k].id => states[v].job = after[k].job
                      /\ \A n \in DOMAIN states[v].todo :
                            states[v].todo[n].id = after[k].id
                            => states[v].todo[n].job = after[k].job
    BY DEF Coherent
  <2>1. states[v].todo = thread[v].todo
    BY <1>8, <1>9
  <2>2. CASE k \in DOMAIN kept /\ after[k] = kept[k]
    <3>1. Coherent(thread[v], kept)
      BY <1>3 DEF TableFits
    <3> QED
      BY <1>4, <1>8, <1>9, <2>1, <2>2, <3>1 DEF Coherent
  <2>3. CASE after[k] = r
    BY <1>6, <1>8, <1>9, <1>10, <2>1, <2>3 DEF Names
  <2> QED
    BY <1>7, <2>2, <2>3
<1>12. RunsOpen(after, states, lost)
  <2> SUFFICES ASSUME NEW k \in DOMAIN after, NEW v \in Thread,
                      states[v].phase = "running", states[v].id = after[k].id,
                      after[k].job \notin lost
               PROVE  after[k].status = "RUNNING"
    BY DEF RunsOpen
  <2>1. CASE k \in DOMAIN kept /\ after[k] = kept[k]
    BY <1>3, <1>4, <1>8, <1>9, <2>1 DEF TableFits, RunsOpen
  <2>2. CASE after[k] = r
    BY <1>6, <2>2
  <2> QED
    BY <1>7, <2>1, <2>2
<1>13. OnePerState(after)
  <2> SUFFICES ASSUME NEW i \in DOMAIN after, NEW k \in DOMAIN after,
                      after[i].job = after[k].job, after[i].status = after[k].status
               PROVE  i = k \/ after[i].status \in {"SUCCESS", "FAILED"}
    BY DEF OnePerState
  <2>1. CASE after[i] = kept[i] /\ after[k] = kept[k] /\ i \in DOMAIN kept /\ k \in DOMAIN kept
    BY <1>3, <2>1 DEF TableFits, OnePerState
  <2>2. CASE after[i] = r /\ after[k] = r
    BY <1>7, <2>2 DEF UniqueKeys
  <2>3. CASE after[i] = r /\ after[k] = kept[k] /\ k \in DOMAIN kept
    BY <1>4, <1>6, <2>3
  <2>4. CASE after[k] = r /\ after[i] = kept[i] /\ i \in DOMAIN kept
    BY <1>4, <1>6, <2>4
  <2> QED
    BY <1>7, <2>1, <2>2, <2>3, <2>4
<1>14. NoOrphans(after, states, lost)
  <2> SUFFICES ASSUME NEW k \in DOMAIN after, NEW v \in Thread,
                      after[k].status = "RUNNING", states[v].phase = "running",
                      states[v].job = after[k].job, after[k].job \notin lost
               PROVE  states[v].id = after[k].id
    BY DEF NoOrphans
  <2>1. CASE k \in DOMAIN kept /\ after[k] = kept[k]
    BY <1>3, <1>4, <1>8, <1>9, <2>1 DEF TableFits, NoOrphans
  <2>2. CASE after[k] = r /\ v = w
    BY <1>6, <1>8, <1>9, <2>2
  <2>3. CASE after[k] = r /\ v # w
    BY <1>1, <1>6, <1>9, <2>3 DEF Active
  <2> QED
    BY <1>7, <2>1, <2>2, <2>3
<1> QED
  BY <1>7, <1>11, <1>12, <1>13, <1>14 DEF TableFits

\* A requested run: its row is that of the request, which is one of the thread's job.
LEMMA OpenRequestFits ==
  ASSUME IInv, NEW w \in Thread, thread[w].phase = "opening"
  PROVE  \A rows, state, after, states :
            /\ rows = Interrupted(records, {thread[w].job})
            /\ state = [thread[w] EXCEPT !.phase = "running"]
            /\ after = Finished(rows, thread[w].id, "RUNNING")
            /\ states = [thread EXCEPT ![w] = state]
            => after \in Seq(Rows) /\ UniqueKeys(after) /\ TableFits(after, states, lost)
<1>0. SUFFICES ASSUME NEW rows, NEW state, NEW after, NEW states,
                      rows = Interrupted(records, {thread[w].job}),
                      state = [thread[w] EXCEPT !.phase = "running"],
                      after = Finished(rows, thread[w].id, "RUNNING"),
                      states = [thread EXCEPT ![w] = state]
               PROVE  after \in Seq(Rows) /\ UniqueKeys(after) /\ TableFits(after, states, lost)
  OBVIOUS
<1>1. /\ rows \in Seq(Rows) /\ UniqueKeys(rows) /\ TableFits(rows, thread, lost)
      /\ DOMAIN rows = DOMAIN records
      /\ \A i \in DOMAIN records : rows[i].job = thread[w].job => rows[i].status # "RUNNING"
      /\ \A v \in Thread :
            v # w /\ Active(v) /\ thread[v].job = thread[w].job => thread[w].job \in lost
  BY <1>0, OpenFinds
<1>2. /\ thread[w] \in ThreadStates /\ thread \in [Thread -> ThreadStates]
  BY Known
<1>3. /\ after \in Seq(Rows) /\ UniqueKeys(after) /\ DOMAIN after = DOMAIN rows
      /\ \A i \in DOMAIN rows :
            /\ after[i].id = rows[i].id /\ after[i].job = rows[i].job
            /\ rows[i].id = thread[w].id => after[i].status = "RUNNING"
            /\ rows[i].id # thread[w].id => after[i] = rows[i]
  <2>1. "RUNNING" \in Statuses
    BY DEF Statuses
  <2>2. PICK id : id = thread[w].id
    OBVIOUS
  <2>3. after = Finished(rows, id, "RUNNING")
    BY <1>0, <2>2
  <2> QED
    BY <1>1, <2>1, <2>2, <2>3, FinishedInPlace
<1>4. /\ state.phase = "running" /\ state.job = thread[w].job /\ state.id = thread[w].id
      /\ state.todo = thread[w].todo
  BY <1>0, <1>2 DEF ThreadStates
<1>5. \A v \in Thread : states[v] = IF v = w THEN state ELSE thread[v]
  BY <1>0, <1>2
<1>6. \A i \in DOMAIN rows : rows[i].id = thread[w].id => rows[i].job = thread[w].job
  BY <1>1 DEF TableFits, Coherent
<1>7. \A v \in Thread : Coherent(states[v], after)
  <2> SUFFICES ASSUME NEW v \in Thread PROVE Coherent(states[v], after)
    OBVIOUS
  <2>1. Coherent(thread[v], rows)
    BY <1>1 DEF TableFits
  <2>2. /\ states[v].id = thread[v].id /\ states[v].job = thread[v].job
        /\ states[v].todo = thread[v].todo
    BY <1>4, <1>5
  <2> QED
    BY <1>3, <2>1, <2>2 DEF Coherent
<1>8. RunsOpen(after, states, lost)
  <2> SUFFICES ASSUME NEW i \in DOMAIN rows, NEW v \in Thread,
                      states[v].phase = "running", states[v].id = rows[i].id,
                      rows[i].job \notin lost
               PROVE  after[i].status = "RUNNING"
    BY <1>3 DEF RunsOpen
  <2>1. CASE rows[i].id = thread[w].id
    BY <1>3, <2>1
  <2>2. CASE rows[i].id # thread[w].id
    BY <1>1, <1>3, <1>4, <1>5, <2>2 DEF TableFits, RunsOpen
  <2> QED
    BY <2>1, <2>2
<1>9. OnePerState(after)
  <2> SUFFICES ASSUME NEW i \in DOMAIN rows, NEW k \in DOMAIN rows, i # k,
                      rows[i].job = rows[k].job, after[i].status = after[k].status,
                      after[i].status \notin {"SUCCESS", "FAILED"}
               PROVE  FALSE
    BY <1>3 DEF OnePerState
  <2>1. CASE rows[i].id = thread[w].id
    <3>1. rows[k].id # thread[w].id
      BY <1>1, <2>1 DEF UniqueKeys
    <3> QED
      BY <1>1, <1>3, <1>6, <2>1, <3>1
  <2>2. CASE rows[k].id = thread[w].id
    <3>1. rows[i].id # thread[w].id
      BY <1>1, <2>2 DEF UniqueKeys
    <3> QED
      BY <1>1, <1>3, <1>6, <2>2, <3>1
  <2>3. CASE rows[i].id # thread[w].id /\ rows[k].id # thread[w].id
    BY <1>1, <1>3, <2>3 DEF TableFits, OnePerState
  <2> QED
    BY <2>1, <2>2, <2>3
<1>10. NoOrphans(after, states, lost)
  <2> SUFFICES ASSUME NEW i \in DOMAIN rows, NEW v \in Thread,
                      after[i].status = "RUNNING", states[v].phase = "running",
                      states[v].job = rows[i].job, rows[i].job \notin lost
               PROVE  states[v].id = rows[i].id
    BY <1>3 DEF NoOrphans
  <2>1. CASE rows[i].id = thread[w].id
    <3>1. rows[i].job = thread[w].job
      BY <1>6, <2>1
    <3>2. v = w
      BY <1>1, <1>5, <3>1 DEF Active
    <3> QED
      BY <1>4, <1>5, <2>1, <3>2
  <2>2. CASE rows[i].id # thread[w].id
    <3>1. after[i] = rows[i] /\ rows[i].job # thread[w].job
      BY <1>1, <1>3, <2>2
    <3>2. v # w
      BY <1>4, <1>5, <3>1
    <3> QED
      BY <1>1, <1>5, <3>1, <3>2 DEF TableFits, NoOrphans
  <2> QED
    BY <2>1, <2>2
<1> QED
  BY <1>3, <1>7, <1>8, <1>9, <1>10 DEF TableFits

\* Open, in its three outcomes.
LEMMA OpenInv ==
  ASSUME IInv, KeysNeverRunOut, NEW w \in Thread, Open(w)
  PROVE  IInv'
<1>1. PICK rows : rows = Interrupted(records, {thread[w].job})
  OBVIOUS
<1>2. PICK kept : kept = Kept(rows)
  OBVIOUS
<1>3. /\ thread[w].phase = "opening" /\ thread[w].job \in Job
      /\ thread[w] \in ThreadStates /\ thread \in [Thread -> ThreadStates]
      /\ Coherent(thread[w], records)
      /\ UNCHANGED <<enabled, holder, process, faults, lost>>
  BY Known DEF Open, IInv, ThreadsBusy
<1>4. /\ rows \in Seq(Rows) /\ UniqueKeys(rows) /\ TableFits(rows, thread, lost)
      /\ DOMAIN rows = DOMAIN records
      /\ \A i \in DOMAIN records : rows[i].id = records[i].id /\ rows[i].job = records[i].job
  BY <1>1, <1>3, OpenFinds
<1>5. Among(kept, rows)
  BY <1>2, <1>4, KeptAmong
<1>6. CASE /\ thread[w].id = None
           /\ Step(w, [thread[w] EXCEPT !.phase = "running", !.id = New])
           /\ records' = Append(kept, [id |-> New, job |-> thread[w].job, status |-> "RUNNING"])
  <2>1. PICK state : state = [thread[w] EXCEPT !.phase = "running", !.id = New]
    OBVIOUS
  <2>2. New \in Record
    BY NewIsUnused DEF IInv
  <2>3. /\ state \in ThreadStates /\ state.phase = "running" /\ state.job = thread[w].job
        /\ state.id \in Record
    BY <1>3, <2>1, <2>2 DEF ThreadStates, Phases
  <2>4. thread' = [thread EXCEPT ![w] = state]
    BY <1>6, <2>1 DEF Step
  <2>5. thread' \in [Thread -> ThreadStates] /\ LockHeld' /\ ThreadsBusy' /\ DownIsIdle'
    BY <1>3, <2>3, <2>4, Executes
  <2>6. records' \in Seq(Rows) /\ UniqueKeys(records') /\ TableFits(records', thread', lost)
    <3>1. PICK r : r = [id |-> New, job |-> thread[w].job, status |-> "RUNNING"]
      OBVIOUS
    <3>2. records' = Append(kept, r)
      BY <1>6, <3>1
    <3> QED
      BY <1>1, <1>3, <1>5, <2>1, <2>4, <3>1, <3>2, OpenNewFits
  <2> QED
    BY <1>3, <2>5, <2>6 DEF IInv, TypeOK, UniqueKeys
<1>7. CASE /\ thread[w].id # None
           /\ Step(w, [thread[w] EXCEPT !.phase = "running"])
           /\ records' = Kept(Finished(rows, thread[w].id, "RUNNING"))
  <2>1. PICK state : state = [thread[w] EXCEPT !.phase = "running"]
    OBVIOUS
  <2>2. PICK after : after = Finished(rows, thread[w].id, "RUNNING")
    OBVIOUS
  <2>3. /\ state \in ThreadStates /\ state.phase = "running" /\ state.job = thread[w].job
        /\ state.id \in Record
    BY <1>3, <1>7, <2>1 DEF ThreadStates, Phases
  <2>4. thread' = [thread EXCEPT ![w] = state]
    BY <1>7, <2>1 DEF Step
  <2>5. thread' \in [Thread -> ThreadStates] /\ LockHeld' /\ ThreadsBusy' /\ DownIsIdle'
    BY <1>3, <2>3, <2>4, Executes
  <2>6. after \in Seq(Rows) /\ UniqueKeys(after) /\ TableFits(after, thread', lost)
    BY <1>1, <1>3, <2>1, <2>2, <2>4, OpenRequestFits
  <2>7. records' \in Seq(Rows) /\ UniqueKeys(records') /\ TableFits(records', thread', lost)
    <3>1. Among(Kept(after), after)
      BY <2>6, KeptAmong
    <3>2. Among(records', after)
      BY <1>7, <2>2, <3>1
    <3> QED
      BY <2>6, <3>2, FewerFit DEF Among
  <2> QED
    BY <1>3, <2>5, <2>7 DEF IInv, TypeOK, UniqueKeys
<1>8. CASE /\ Step(w, [thread[w] EXCEPT !.phase = "unlocking"])
           /\ records' = Kept(rows)
  <2>1. PICK state : state = [thread[w] EXCEPT !.phase = "unlocking"]
    OBVIOUS
  <2>2. /\ state \in ThreadStates /\ state.phase = "unlocking" /\ state.job = thread[w].job
        /\ state.id = thread[w].id /\ state.todo = thread[w].todo
    BY <1>3, <2>1 DEF ThreadStates, Phases
  <2>3. thread' = [thread EXCEPT ![w] = state]
    BY <1>8, <2>1 DEF Step
  <2>4. process = "up"
    BY <1>3 DEF IInv, DownIsIdle, TypeOK
  <2>5. thread' \in [Thread -> ThreadStates] /\ LockHeld' /\ ThreadsBusy' /\ DownIsIdle'
    BY <1>3, <2>2, <2>3, <2>4, GoesOn
  <2>6. Coherent(state, rows)
    BY <1>3, <1>4, <2>2 DEF Coherent
  <2>7. TableFits(rows, thread', lost)
    BY <1>3, <1>4, <2>2, <2>3, <2>6, QuietFit
  <2>8. Among(records', rows)
    BY <1>2, <1>5, <1>8
  <2>9. TableFits(records', thread', lost)
    BY <2>7, <2>8, FewerFit
  <2> QED
    BY <1>3, <2>5, <2>8, <2>9 DEF IInv, TypeOK, UniqueKeys, Among
<1> QED
  BY <1>1, <1>2, <1>6, <1>7, <1>8 DEF Open

\* LoseConnection: what the lock protected is not claimed any more.
LEMMA LoseConnectionInv ==
  ASSUME IInv, NEW j \in Job, LoseConnection(j)
  PROVE  IInv'
<1>1. TableFits(records', thread', lost')
  <2>1. TableFits(records, thread, lost) /\ lost \subseteq lost'
    BY DEF IInv, LoseConnection
  <2>2. TableFits(records, thread, lost')
    BY <2>1, MoreLost
  <2> QED
    BY <2>2 DEF LoseConnection
<1>2. LockHeld'
  BY DEF LoseConnection, IInv, TypeOK, LockHeld, Active, ThreadsBusy
<1>3. ThreadsBusy' /\ DownIsIdle'
  BY DEF LoseConnection, IInv, ThreadsBusy, DownIsIdle
<1>4. faults' \in 0 .. MaxFaults
  BY ScheduledJobsAssumption DEF LoseConnection, IInv, TypeOK
<1> QED
  BY <1>1, <1>2, <1>3, <1>4 DEF LoseConnection, IInv, TypeOK

LEMMA SetEnabledInv ==
  ASSUME IInv, NEW j \in Job, NEW on \in BOOLEAN, SetEnabled(j, on)
  PROVE  IInv'
  BY DEF SetEnabled, IInv, TypeOK, LockHeld, Active, ThreadsBusy, DownIsIdle

\* Crash and Start: nobody executes, nobody holds a key.
LEMMA NobodyFits ==
  ASSUME NEW rows \in Seq(Rows), OnePerState(rows), NEW states, NEW gone,
         \A w \in Thread : states[w] = Idle
  PROVE  TableFits(rows, states, gone)
<1>1. \A w \in Thread : Coherent(states[w], rows)
  BY IdleCoherent
<1>2. \A w \in Thread : states[w].phase # "running"
  BY DEF Idle
<1> QED
  BY <1>1, <1>2 DEF TableFits, RunsOpen, NoOrphans

LEMMA CrashInv ==
  ASSUME IInv, Crash
  PROVE  IInv'
<1>1. PICK rows : rows = records
  OBVIOUS
<1>2. rows \in Seq(Rows) /\ UniqueKeys(rows) /\ OnePerState(rows)
  BY <1>1, Known DEF TableFits
<1>3. \A w \in Thread : thread'[w] = Idle
  BY DEF Crash
<1>4. TableFits(rows, thread', lost)
  BY <1>2, <1>3, NobodyFits
<1>5. Among(records', rows)
  <2>1. Among(Kept(rows), rows)
    BY <1>2, KeptAmong
  <2> QED
    BY <1>1, <2>1 DEF Crash
<1>6. TableFits(records', thread', lost)
  BY <1>4, <1>5, FewerFit
<1>7. Idle \in ThreadStates /\ Idle.phase = "idle"
  BY EmptySeq DEF Idle, ThreadStates, Phases, Candidates
<1>8. (LockHeld /\ ThreadsBusy /\ DownIsIdle)'
  BY <1>3, <1>7 DEF LockHeld, Active, ThreadsBusy, DownIsIdle
<1>9. /\ thread' \in [Thread -> ThreadStates] /\ faults' \in 0 .. MaxFaults
      /\ holder' \in [Job -> Thread \cup {None}] /\ lost' = lost
  BY <1>7, ScheduledJobsAssumption DEF Crash, IInv, TypeOK
<1> QED
  BY <1>5, <1>6, <1>8, <1>9 DEF Crash, IInv, TypeOK, Among, UniqueKeys

LEMMA StartInv ==
  ASSUME IInv, Start
  PROVE  IInv'
<1>1. PICK rows : rows = Interrupted(records, Job)
  OBVIOUS
<1>2. \A w \in Thread : thread[w].phase = "idle"
  BY DEF Start, IInv, DownIsIdle
<1>3. rows \in Seq(Rows) /\ UniqueKeys(rows)
  BY <1>1, Known, InterruptedInPlace
<1>4. TableFits(rows, thread, lost)
  <2>1. NoneAlive(thread, Job, lost)
    BY <1>2 DEF NoneAlive
  <2> QED
    BY <1>1, <2>1, Known, InterruptedFit
<1>5. Among(records', rows)
  <2>1. Among(Kept(rows), rows)
    BY <1>3, KeptAmong
  <2> QED
    BY <1>1, <2>1 DEF Start
<1>6. TableFits(records', thread, lost)
  BY <1>4, <1>5, FewerFit
<1>7. (LockHeld /\ ThreadsBusy /\ DownIsIdle)'
  BY <1>2 DEF Start, LockHeld, Active, ThreadsBusy, DownIsIdle
<1> QED
  BY <1>5, <1>6, <1>7 DEF Start, IInv, TypeOK, Among, UniqueKeys

LEMMA NextInv == ASSUME IInv, KeysNeverRunOut, [Next]_vars PROVE IInv'
<1>1. ASSUME NEW w \in Thread, ThreadStep(w) PROVE IInv'
  BY <1>1, FireInv, DispatchInv, LockInv, LockRefusedInv, OpenInv, FinishInv, UnlockInv
     DEF ThreadStep
<1>2. ASSUME NEW w \in Thread, TransactionFails(w) PROVE IInv'
  BY <1>2, TransactionFailsInv
<1>3. ASSUME NEW j \in Job, Request(j) PROVE IInv'
  BY <1>3, RequestInv
<1>4. ASSUME NEW j \in Switched, NEW on \in BOOLEAN, SetEnabled(j, on) PROVE IInv'
  BY <1>4, SetEnabledInv, ScheduledJobsAssumption
<1>5. ASSUME NEW j \in Job, LoseConnection(j) PROVE IInv'
  BY <1>5, LoseConnectionInv
<1>6. CASE UNCHANGED vars
  BY <1>6 DEF vars, IInv, TypeOK, LockHeld, Active, ThreadsBusy, DownIsIdle
<1> QED
  BY <1>1, <1>2, <1>3, <1>4, <1>5, <1>6, CrashInv, StartInv DEF Next

\* The invariant of all reachable states.
THEOREM Inductive ==
  ASSUME KeysNeverRunOut
  PROVE  Spec => []IInv
<1>1. IInv /\ [Next]_vars => IInv'
  BY NextInv
<1> QED
  BY <1>1, InitInv, PTL DEF Spec

\* The rows of a job tell the truth about its runs: the types are right, a job whose lock
\* was not lost executes in one thread at a time, it has one RUNNING and one PENDING row at
\* most, and a RUNNING row that an earlier execution left behind does not survive the next.
\* (execute_scheduled_job, dispatch_manual_scheduled_job and the recovery of the startup.)
THEOREM RunsTold ==
  ASSUME KeysNeverRunOut
  PROVE  Spec => []RowsTellRuns
<1>1. IInv => RowsTellRuns
  <2> SUFFICES ASSUME IInv PROVE RowsTellRuns
    OBVIOUS
  <2>1. OneRowPerState
    BY DEF IInv, TableFits, OnePerState, OneRowPerState
  <2>2. OrphansCollected
    BY DEF IInv, TableFits, NoOrphans, OrphansCollected
  <2> QED
    BY <2>1, <2>2, OneAlive DEF IInv, RowsTellRuns
<1> QED
  BY <1>1, Inductive, PTL

-----------------------------------------------------------------------------
(* Verdicts.                                                               *)

\* The verdicts of some rows, but for the jobs whose lock was lost, are those of others.
VerdictsStay(rows, after, gone) ==
    \A i \in DOMAIN rows :
        rows[i].status \in {"SUCCESS", "FAILED"} /\ rows[i].job \notin gone =>
            \A k \in DOMAIN after : after[k].id = rows[i].id => after[k] = rows[i]

\* A change in place that leaves closed rows alone, whatever is cleaned up after it.
LEMMA PlaceKeepsVerdicts ==
  ASSUME NEW rows, UniqueKeys(rows), NEW mid, NEW after, NEW gone,
         DOMAIN mid = DOMAIN rows, Among(after, mid),
         \A i \in DOMAIN rows :
            /\ mid[i].id = rows[i].id
            /\ rows[i].status \in {"SUCCESS", "FAILED"} /\ rows[i].job \notin gone
               => mid[i] = rows[i]
  PROVE  VerdictsStay(rows, after, gone)
<1> SUFFICES ASSUME NEW i \in DOMAIN rows, NEW k \in DOMAIN after,
                    rows[i].status \in {"SUCCESS", "FAILED"}, rows[i].job \notin gone,
                    after[k].id = rows[i].id
             PROVE  after[k] = rows[i]
  BY DEF VerdictsStay
<1>1. PICK m \in DOMAIN mid : after[k] = mid[m]
  BY DEF Among
<1>2. m = i
  BY <1>1 DEF UniqueKeys
<1> QED
  BY <1>1, <1>2

LEMMA KeptKeepsVerdicts ==
  ASSUME IInv, records' = Kept(records) \/ records' = records
  PROVE  VerdictsStay(records, records', lost)
<1>1. PICK rows : rows = records
  OBVIOUS
<1>2. rows \in Seq(Rows) /\ UniqueKeys(rows)
  BY <1>1, Known
<1>3. Among(rows, rows)
  BY <1>2 DEF Among
<1>4. Among(Kept(rows), rows)
  BY <1>2, KeptAmong
<1>5. Among(records', rows)
  BY <1>1, <1>3, <1>4
<1>6. VerdictsStay(rows, records', lost)
  BY <1>2, <1>5, PlaceKeepsVerdicts
<1> QED
  BY <1>1, <1>6

LEMMA NewKeepsVerdicts ==
  ASSUME IInv, KeysNeverRunOut, NEW kept \in Seq(Rows), UniqueKeys(kept),
         VerdictsStay(records, kept, lost), \A k \in DOMAIN kept : kept[k].id # New,
         NEW r \in Rows, r.id = New, records' = Append(kept, r)
  PROVE  VerdictsStay(records, records', lost)
<1>1. \A k \in DOMAIN records' : (k \in DOMAIN kept /\ records'[k] = kept[k]) \/ records'[k] = r
  BY Appended
<1>2. \A i \in DOMAIN records : records[i].id # New
  BY NewIsUnused DEF IInv, Unused, Exists
<1> QED
  BY <1>1, <1>2 DEF VerdictsStay

LEMMA FinishKeepsVerdicts ==
  ASSUME IInv, NEW w \in Thread, NEW outcome \in {"SUCCESS", "FAILED"}, Finish(w, outcome)
  PROVE  VerdictsStay(records, records', lost)
<1>1. PICK mid : mid = Finished(records, thread[w].id, outcome)
  OBVIOUS
<1>2. records \in Seq(Rows) /\ UniqueKeys(records)
  BY Known
<1>3. /\ mid \in Seq(Rows) /\ UniqueKeys(mid) /\ DOMAIN mid = DOMAIN records
      /\ \A i \in DOMAIN records :
            /\ mid[i].id = records[i].id
            /\ records[i].id # thread[w].id => mid[i] = records[i]
  <2>1. outcome \in Statuses
    BY DEF Statuses
  <2> QED
    BY <1>1, <1>2, <2>1, FinishedInPlace
<1>4. Among(records', mid)
  <2>1. Among(Kept(mid), mid)
    BY <1>3, KeptAmong
  <2> QED
    BY <1>1, <2>1 DEF Finish
<1>5. \A i \in DOMAIN records :
         records[i].id = thread[w].id /\ records[i].job \notin lost
         => records[i].status = "RUNNING"
  BY Known DEF Finish, TableFits, RunsOpen
<1>6. PICK rows : rows = records
  OBVIOUS
<1>7. VerdictsStay(rows, records', lost)
  BY <1>2, <1>3, <1>4, <1>5, <1>6, PlaceKeepsVerdicts
<1> QED
  BY <1>6, <1>7

LEMMA StartKeepsVerdicts ==
  ASSUME IInv, Start
  PROVE  VerdictsStay(records, records', lost)
<1>1. PICK rows, mid : rows = records /\ mid = Interrupted(rows, Job)
  OBVIOUS
<1>2. rows \in Seq(Rows) /\ UniqueKeys(rows)
  BY <1>1, Known
<1>3. /\ mid \in Seq(Rows) /\ UniqueKeys(mid) /\ DOMAIN mid = DOMAIN rows
      /\ \A i \in DOMAIN rows :
            /\ mid[i].id = rows[i].id
            /\ rows[i].status # "RUNNING" => mid[i] = rows[i]
  BY <1>1, <1>2, InterruptedInPlace
<1>4. Among(records', mid)
  <2>1. Among(Kept(mid), mid)
    BY <1>3, KeptAmong
  <2> QED
    BY <1>1, <2>1 DEF Start
<1>5. VerdictsStay(rows, records', lost)
  BY <1>2, <1>3, <1>4, PlaceKeepsVerdicts
<1> QED
  BY <1>1, <1>5

LEMMA OpenKeepsVerdicts ==
  ASSUME IInv, KeysNeverRunOut, NEW w \in Thread, Open(w)
  PROVE  VerdictsStay(records, records', lost)
<1>1. PICK table, rows, id : /\ table = records /\ id = thread[w].id
                             /\ rows = Interrupted(records, {thread[w].job})
  OBVIOUS
<1>2. PICK kept, after : kept = Kept(rows) /\ after = Finished(rows, id, "RUNNING")
  OBVIOUS
<1>3. table \in Seq(Rows) /\ UniqueKeys(table)
  BY <1>1, Known
<1>4. /\ rows \in Seq(Rows) /\ UniqueKeys(rows) /\ DOMAIN rows = DOMAIN table
      /\ \A i \in DOMAIN table :
            /\ rows[i].id = table[i].id
            /\ table[i].status # "RUNNING" => rows[i] = table[i]
  BY <1>1, OpenFinds DEF Open
<1>5. Among(kept, rows)
  BY <1>2, <1>4, KeptAmong
<1>6. VerdictsStay(table, kept, lost)
  BY <1>3, <1>4, <1>5, PlaceKeepsVerdicts
<1>7. CASE records' = kept
  BY <1>1, <1>6, <1>7
<1>8. CASE records' = Append(kept, [id |-> New, job |-> thread[w].job, status |-> "RUNNING"])
  <2>1. PICK r : r = [id |-> New, job |-> thread[w].job, status |-> "RUNNING"]
    OBVIOUS
  <2>2. New \in Record /\ \A i \in DOMAIN records : records[i].id # New
    BY NewIsUnused DEF IInv, Unused, Exists
  <2>3. r \in Rows /\ r.id = New
    BY <2>1, <2>2 DEF Open, IInv, ThreadsBusy, Rows, Statuses
  <2>4. \A k \in DOMAIN kept : kept[k].id # New
    <3> SUFFICES ASSUME NEW k \in DOMAIN kept PROVE kept[k].id # New
      OBVIOUS
    <3>1. PICK i \in DOMAIN rows : kept[k] = rows[i]
      BY <1>5 DEF Among
    <3> QED
      BY <1>1, <1>4, <2>2, <3>1
  <2>5. VerdictsStay(records, kept, lost)
    BY <1>1, <1>6
  <2>6. records' = Append(kept, r)
    BY <1>8, <2>1
  <2> QED
    BY <1>5, <2>3, <2>4, <2>5, <2>6, NewKeepsVerdicts DEF Among
<1>9. CASE Startable(id) /\ records' = Kept(after)
  <2>1. PICK p \in DOMAIN table : table[p].id = id /\ table[p].status = "PENDING"
    <3>1. Position(id) \in DOMAIN records /\ records[Position(id)].id = id
      BY <1>9 DEF Startable, Exists, Position
    <3> QED
      BY <1>1, <1>9, <3>1 DEF Startable, Status
  <2>2. /\ after \in Seq(Rows) /\ UniqueKeys(after) /\ DOMAIN after = DOMAIN rows
        /\ \A i \in DOMAIN rows :
              /\ after[i].id = rows[i].id
              /\ rows[i].id # id => after[i] = rows[i]
    <3>1. "RUNNING" \in Statuses
      BY DEF Statuses
    <3> QED
      BY <1>2, <1>4, <3>1, FinishedInPlace
  <2>3. Among(records', after)
    <3>1. Among(Kept(after), after)
      BY <2>2, KeptAmong
    <3> QED
      BY <1>9, <3>1
  <2>4. \A i \in DOMAIN table :
           /\ after[i].id = table[i].id
           /\ table[i].status \in {"SUCCESS", "FAILED"} => after[i] = table[i]
    <3> SUFFICES ASSUME NEW i \in DOMAIN table
                 PROVE  /\ after[i].id = table[i].id
                        /\ table[i].status \in {"SUCCESS", "FAILED"} => after[i] = table[i]
      OBVIOUS
    <3>1. table[i].id = id => i = p
      BY <1>3, <2>1 DEF UniqueKeys
    <3> QED
      BY <1>4, <2>1, <2>2, <3>1
  <2>5. VerdictsStay(table, records', lost)
    BY <1>3, <1>4, <2>2, <2>3, <2>4, PlaceKeepsVerdicts
  <2> QED
    BY <1>1, <2>5
<1> QED
  BY <1>1, <1>2, <1>7, <1>8, <1>9 DEF Open

LEMMA RequestKeepsVerdicts ==
  ASSUME IInv, KeysNeverRunOut, NEW j \in Job, Request(j)
  PROVE  VerdictsStay(records, records', lost)
<1>1. PICK table, r : table = records /\ r = [id |-> New, job |-> j, status |-> "PENDING"]
  OBVIOUS
<1>2. New \in Record /\ \A i \in DOMAIN records : records[i].id # New
  BY NewIsUnused DEF IInv, Unused, Exists
<1>3. r \in Rows /\ r.id = New
  BY <1>1, <1>2 DEF Rows, Statuses
<1>4. table \in Seq(Rows) /\ UniqueKeys(table)
  BY <1>1, Known
<1>5. VerdictsStay(records, table, lost)
  BY <1>1, <1>4 DEF VerdictsStay, UniqueKeys
<1>6. records' = Append(table, r)
  BY <1>1 DEF Request
<1> QED
  BY <1>1, <1>2, <1>3, <1>4, <1>5, <1>6, NewKeepsVerdicts

\* A verdict is final: no step of the threads, the administrator, a crash or a restart
\* changes a closed record, or executes its request again, unless the lock of its job was
\* lost. (_finish_execution writes by primary key, and a dispatcher reads its candidates
\* long before it starts them.)
THEOREM VerdictsAreFinal ==
  ASSUME KeysNeverRunOut
  PROVE  Spec => VerdictsFinal
<1>1. ASSUME IInv, [Next]_vars PROVE VerdictsStay(records, records', lost)
  <2>1. ASSUME NEW w \in Thread, ThreadStep(w) PROVE VerdictsStay(records, records', lost)
    <3>1. ASSUME NEW j \in Job, Fire(w, j) PROVE records' = records
      BY <3>1 DEF Fire
    <3>2. Dispatch(w) \/ Lock(w) => records' = records
      BY DEF Dispatch, Lock
    <3>3. LockRefused(w) \/ Unlock(w) => records' = Kept(records)
      BY DEF LockRefused, Unlock
    <3> QED
      BY <1>1, <2>1, <3>1, <3>2, <3>3, KeptKeepsVerdicts, OpenKeepsVerdicts,
         FinishKeepsVerdicts DEF ThreadStep
  <2>2. ASSUME NEW w \in Thread, TransactionFails(w) PROVE VerdictsStay(records, records', lost)
    BY <1>1, <2>2, KeptKeepsVerdicts DEF TransactionFails
  <2>3. ASSUME NEW j \in Job, Request(j) PROVE VerdictsStay(records, records', lost)
    BY <1>1, <2>3, RequestKeepsVerdicts
  <2>4. ASSUME NEW j \in Switched, NEW on \in BOOLEAN, SetEnabled(j, on)
        PROVE  VerdictsStay(records, records', lost)
    BY <1>1, <2>4, KeptKeepsVerdicts DEF SetEnabled
  <2>5. ASSUME NEW j \in Job, LoseConnection(j) PROVE VerdictsStay(records, records', lost)
    BY <1>1, <2>5, KeptKeepsVerdicts DEF LoseConnection
  <2>6. CASE Crash
    BY <1>1, <2>6, KeptKeepsVerdicts DEF Crash
  <2>7. CASE Start
    BY <1>1, <2>7, StartKeepsVerdicts
  <2>8. CASE UNCHANGED vars
    BY <1>1, <2>8, KeptKeepsVerdicts DEF vars
  <2> QED
    BY <1>1, <2>1, <2>2, <2>3, <2>4, <2>5, <2>6, <2>7, <2>8 DEF Next
<1>2. IInv /\ [Next]_vars =>
        [\A i \in DOMAIN records :
            records[i].status \in {"SUCCESS", "FAILED"} /\ records[i].job \notin lost =>
                \A k \in DOMAIN records' : records'[k].id = records[i].id => records'[k] = records[i]]_vars
  BY <1>1 DEF VerdictsStay
<1> QED
  BY <1>2, Inductive, PTL DEF Spec, VerdictsFinal
=============================================================================
