---------------------------- MODULE PlanningProofs ----------------------------
(***************************************************************************)
(* Proofs about what is planned when: RetryPolicy, and the parts that      *)
(* Planning puts beside it, for any number of clients, commands, boards    *)
(* and days.                                                               *)
(***************************************************************************)
EXTENDS Planning, FiniteSetTheorems, SequenceTheorems, TLAPS

-----------------------------------------------------------------------------
(* RetryPolicy.  A verdict without an attempt left is given only where the *)
(* rules compute no later attempt, and those give a historical task one    *)
(* after each attempt but the last.                                        *)

\* A running thread has read the clock; a task that waits has an attempt left.
Underway ==
    /\ status = "RUNNING" => started \in Nat /\ attempts > 0
    /\ status \in {"PENDING", "RETRY_WAIT"} => attempts < MaxAttempts
    /\ status = "RETRY_WAIT" => retryAt \in Int

IInv == AttemptsUsedInTime /\ Underway

\* The fields of a task and of its history.
LEMMA Types ==
    ASSUME TypeOK
    PROVE  /\ now \in Nat /\ attempts \in Nat /\ attempts <= MaxAttempts
           /\ MaxAttempts \in Nat \ {0} /\ None \notin Int
           /\ task.type \in {"DAILY"} \cup Historical /\ task.policy \in Policies
           /\ task.day = None \/ task.day \in Nat
           /\ task.cutoff = None \/ task.cutoff \in Nat
           /\ task.kept = None \/ task.kept \in Nat
<1>1. /\ task.type \in {"DAILY"} \cup Historical /\ task.policy \in Policies
      /\ task.day \in (0 .. Today) \cup {None} /\ task.cutoff \in (0 .. DayLength - 1) \cup {None}
      /\ task.kept \in Retentions \cup {None}
  BY DEF TypeOK, Tasks
<1>2. now \in Nat /\ attempts \in 0 .. MaxAttempts
  BY DEF TypeOK
<1>3. 0 .. Today \subseteq Nat /\ 0 .. DayLength - 1 \subseteq Nat /\ Retentions \subseteq Nat
  BY RetryPolicyAssumption
<1>4. /\ task.day = None \/ task.day \in Nat
      /\ task.cutoff = None \/ task.cutoff \in Nat
      /\ task.kept = None \/ task.kept \in Nat
  BY <1>1, <1>3
<1> QED BY <1>1, <1>2, <1>4, RetryPolicyAssumption

\* A day is a number, and so is the time of a cut-off and of the next attempt.
LEMMA Times ==
    ASSUME TypeOK
    PROVE  /\ \A time \in Nat : DayOf(time) \in Int
           /\ CutoffAt \in Int \cup {None}
           /\ status = "RUNNING" /\ attempts > 0 => now + Backoff \in Int
<1>1. ASSUME NEW time \in Nat PROVE DayOf(time) \in Int
  BY RetryPolicyAssumption DEF DayOf
<1>2. CutoffAt \in Int \cup {None}
  <2>1. ASSUME NEW day \in Nat, NEW cutoff \in Nat PROVE day * DayLength + cutoff \in Int
    BY RetryPolicyAssumption
  <2> QED BY <2>1, Types DEF CutoffAt
<1>3. ASSUME attempts > 0 PROVE now + Backoff \in Int
  <2>1. attempts - 1 \in Nat
    BY <1>3, Types
  <2>2. 2 ^ (attempts - 1) \in Int
    BY <2>1
  <2>3. InitialWait * 2 ^ (attempts - 1) \in Int
    BY <2>2, RetryPolicyAssumption
  <2>4. Backoff \in Int
    BY <2>3, RetryPolicyAssumption DEF Backoff
  <2> QED BY <2>4, Types
<1> QED BY <1>1, <1>2, <1>3

\* An attempt that is computed is a number, and not after the cut-off of a daily task;
\* there is one while an attempt is left, unless that would be too late.
LEMMA RetryTimes ==
    ASSUME TypeOK, status = "RUNNING", attempts > 0
    PROVE  /\ RetryTime \in Int \cup {None}
           /\ attempts < MaxAttempts /\ RetryTime = None
                => task.type \notin Historical /\ PastCutoff(now + Backoff)
           /\ task.type \notin Historical /\ CutoffAt # None /\ RetryTime # None => RetryTime <= CutoffAt
BY Types, Times DEF RetryTime, WaitsForCutoff, PastCutoff

\* A gap is of a day that was over when the attempt started.
LEMMA Gaps ==
    ASSUME TypeOK, started \in Nat, HistoricalGap, task.policy # "UNSUPPORTED"
    PROVE  /\ task.type \in Historical
           /\ task.day < DayOf(started)
           /\ attempts = MaxAttempts \/ OutsideRetention(DayOf(started))
BY Types, Times DEF HistoricalGap, OutsideRetention, ExhaustedBackfill

\* The first states.
LEMMA InitHolds == Init => IInv
<1> SUFFICES ASSUME Init PROVE IInv
  OBVIOUS
<1>1. now \in Nat
  <2>1. Today * DayLength \in Nat /\ (Today + 1) * DayLength - 1 \in Int
    BY RetryPolicyAssumption
  <2> QED BY <2>1 DEF Init
<1> QED BY <1>1, RetryPolicyAssumption DEF Init, IInv, AttemptsUsedInTime, TypeOK, NoAttemptGivenUp,
                                          DailyStopsAtCutoff, Underway

\* A failure is the last word only where no attempt is left or none is computed.
LEMMA FailureKeeps ==
    ASSUME IInv, status = "RUNNING", NEW error \in Answers, NEW retryable \in BOOLEAN,
           retryable \/ error = "FATAL" \/ (error = "EMPTY_RESULT" /\ task.policy # "RETRY_UNTIL_CUTOFF"),
           RecordFailure(error, retryable)
    PROVE  IInv'
<1>1. TypeOK /\ attempts > 0 /\ started \in Nat
  BY DEF IInv, AttemptsUsedInTime, Underway
<1>2. PICK at : at = IF retryable THEN RetryTime ELSE None
  OBVIOUS
<1>3. CASE at # None /\ attempts < MaxAttempts
  <2>1. /\ status' = "RETRY_WAIT" /\ retryAt' = at /\ started' = None /\ finishedAt' = None
        /\ reason' = error /\ UNCHANGED <<now, task, attempts>>
    BY <1>2, <1>3 DEF RecordFailure
  <2>2. at \in Int /\ (task.type \notin Historical /\ CutoffAt # None => at <= CutoffAt)
    BY <1>1, <1>2, <1>3, RetryTimes
  <2>3. CutoffAt' = CutoffAt
    BY <2>1 DEF CutoffAt
  <2> QED BY <2>1, <2>2, <2>3, <1>1, <1>3 DEF IInv, AttemptsUsedInTime, TypeOK, NoAttemptGivenUp,
                                              DailyStopsAtCutoff, Underway
<1>4. CASE at = None \/ attempts >= MaxAttempts
  <2>1. /\ status' = "FAILED" /\ retryAt' = None /\ started' = None /\ finishedAt' = now
        /\ reason' = error /\ UNCHANGED <<now, task, attempts>>
    BY <1>1, <1>2, <1>4, Types DEF RecordFailure, Settle
  <2>2. ASSUME retryable
        PROVE  attempts = MaxAttempts \/ (task.type \notin Historical /\ PastCutoff(now + Backoff))
    BY <1>1, <1>2, <1>4, <2>2, RetryTimes, Types
  <2>3. PastCutoff(finishedAt + Backoff)' <=> PastCutoff(now + Backoff)
    BY <2>1 DEF PastCutoff, CutoffAt, Backoff
  <2>4. NoAttemptGivenUp'
    BY <2>1, <2>2, <2>3 DEF NoAttemptGivenUp
  <2> QED BY <2>1, <2>4, <1>1 DEF IInv, AttemptsUsedInTime, TypeOK, DailyStopsAtCutoff, Underway
<1> QED BY <1>1, <1>3, <1>4, Types

\* An empty answer is a gap, skipped or a failure.
LEMMA EmptyKeeps ==
    ASSUME IInv, Empty
    PROVE  IInv'
<1>1. TypeOK /\ attempts > 0 /\ started \in Nat /\ status = "RUNNING"
  BY DEF IInv, AttemptsUsedInTime, Underway, Empty
<1>2. CASE task.policy = "ALLOWED" \/ HistoricalGap
  <2>1. /\ status' = "EMPTY_VALID" /\ retryAt' = None /\ started' = None /\ finishedAt' = started
        /\ reason' \in {"gap", "none"} /\ UNCHANGED <<now, task, attempts>>
    BY <1>2 DEF Empty, Settle
  <2>2. task.policy # "ALLOWED" =>
            /\ task.type \in Historical
            /\ task.day < DayOf(started)
            /\ attempts = MaxAttempts \/ OutsideRetention(DayOf(started))
    BY <1>1, <1>2, Gaps DEF HistoricalGap
  <2>3. DayOf(finishedAt)' = DayOf(started)
    BY <2>1 DEF DayOf
  <2>4. OutsideRetention(DayOf(finishedAt))' <=> OutsideRetention(DayOf(started))
    BY <2>1, <2>3 DEF OutsideRetention
  <2>5. NoAttemptGivenUp'
    BY <2>1, <2>2, <2>3, <2>4 DEF NoAttemptGivenUp
  <2> QED BY <2>1, <2>5, <1>1 DEF IInv, AttemptsUsedInTime, TypeOK, DailyStopsAtCutoff, Underway
<1>3. CASE ~(task.policy = "ALLOWED" \/ HistoricalGap) /\ task.policy = "UNSUPPORTED"
  <2>1. /\ status' = "SKIPPED" /\ retryAt' = None /\ started' = None /\ finishedAt' = started
        /\ reason' = "UNSUPPORTED" /\ UNCHANGED <<now, task, attempts>>
    BY <1>3 DEF Empty, Settle
  <2> QED BY <2>1, <1>1 DEF IInv, AttemptsUsedInTime, TypeOK, NoAttemptGivenUp, DailyStopsAtCutoff, Underway
<1>4. CASE ~(task.policy = "ALLOWED" \/ HistoricalGap) /\ task.policy # "UNSUPPORTED"
  <2>1. PICK retryable : retryable = (task.policy = "RETRY_UNTIL_CUTOFF")
    OBVIOUS
  <2>2. RecordFailure("EMPTY_RESULT", retryable) /\ "EMPTY_RESULT" \in Answers /\ retryable \in BOOLEAN
    BY <1>4, <2>1 DEF Empty, Answers
  <2> QED BY <2>1, <2>2, <1>1, FailureKeeps
<1> QED BY <1>2, <1>3, <1>4

\* Every step keeps the invariant.
LEMMA StepHolds == IInv /\ [Next]_vars => IInv'
<1> SUFFICES ASSUME IInv, [Next]_vars PROVE IInv'
  OBVIOUS
<1>1. CASE Tick
  <2>1. now' \in Nat /\ UNCHANGED <<task, status, attempts, retryAt, started, finishedAt, reason>>
    BY <1>1, Types DEF Tick, IInv, AttemptsUsedInTime
  <2>2. NoAttemptGivenUp' /\ DailyStopsAtCutoff'
    BY <2>1 DEF IInv, AttemptsUsedInTime, NoAttemptGivenUp, DailyStopsAtCutoff, CutoffAt, PastCutoff,
                Backoff, DayOf, OutsideRetention
  <2> QED BY <2>1, <2>2 DEF IInv, AttemptsUsedInTime, TypeOK, Underway
<1>2. CASE Claim
  <2>1. /\ status \in {"PENDING", "RETRY_WAIT"} /\ status' = "RUNNING" /\ attempts' = attempts + 1
        /\ started' = now /\ retryAt' = None /\ finishedAt' = None /\ reason' = "none"
        /\ UNCHANGED <<now, task>>
    BY <1>2 DEF Claim
  <2>2. attempts + 1 \in 0 .. MaxAttempts /\ attempts + 1 > 0 /\ now \in Nat
    BY <2>1, Types DEF IInv, AttemptsUsedInTime, Underway
  <2> QED BY <2>1, <2>2 DEF IInv, AttemptsUsedInTime, TypeOK, NoAttemptGivenUp, DailyStopsAtCutoff, Underway
<1>3. CASE Rows
  BY <1>3 DEF Rows, Settle, IInv, AttemptsUsedInTime, TypeOK, NoAttemptGivenUp, DailyStopsAtCutoff, Underway
<1>4. CASE Empty
  BY <1>4, EmptyKeeps
<1>5. ASSUME NEW kind \in {"TRANSIENT", "FATAL"}, Error(kind) PROVE IInv'
  <2>1. PICK retryable : retryable = (kind = "TRANSIENT")
    OBVIOUS
  <2>2. RecordFailure(kind, retryable) /\ kind \in Answers /\ retryable \in BOOLEAN /\ status = "RUNNING"
    BY <1>5, <2>1 DEF Error, Answers
  <2> QED BY <2>1, <2>2, FailureKeeps
<1>6. CASE UNCHANGED vars
  BY <1>6 DEF vars, IInv, AttemptsUsedInTime, TypeOK, NoAttemptGivenUp, DailyStopsAtCutoff, Underway, CutoffAt,
              DayOf, PastCutoff, Backoff, OutsideRetention
<1> QED BY <1>1, <1>2, <1>3, <1>4, <1>5, <1>6 DEF Next

\* An attempt that is left and would be in time is made: a retryable failure is final only
\* when the attempts are used up or, for a daily task, the next would be due after the
\* cut-off; and an empty answer where none is allowed becomes a result only as the gap of a
\* historical day that was over. Nothing is said of when attempts are used up: that may be
\* long before the cut-off.
THEOREM AttemptsAreUsed == Spec => []AttemptsUsedInTime
<1>1. Init => IInv
  BY InitHolds
<1>2. IInv /\ [Next]_vars => IInv'
  BY StepHolds
<1>3. IInv => AttemptsUsedInTime
  BY DEF IInv
<1> QED BY <1>1, <1>2, <1>3, PTL DEF Spec

-----------------------------------------------------------------------------
(* What is declared.                                                       *)

LEMMA NamedManual ==
    ASSUME NEW declared
    PROVE  /\ DOMAIN M!Named(declared) = M!Names(declared)
           /\ \A n \in M!Names(declared) :
                M!Named(declared)[n] \in declared /\ M!Named(declared)[n].name = n
BY DEF M!Named, M!Names

\* The APIs that the commands of ManualPlans ask for are declared.
LEMMA AskedDeclared == {"suspend_d", "moneyflow"} \subseteq DOMAIN M!Apis
<1> DEFINE specs == M!MasterApis \cup M!StockApis \cup M!FundApis \cup M!BoardApis \cup M!HotApis
                   \cup M!ThemeApis \cup M!EventApis \cup M!IndexApis
<1>1. \E s \in specs : s.name = "suspend_d"
  <2>1. \E s \in M!StockApis : s.name = "suspend_d"
    BY DEF M!StockApis, M!EmptyAllowed, M!Daily
  <2> QED BY <2>1
<1>2. \E s \in specs : s.name = "moneyflow"
  <2>1. \E s \in M!StockApis : s.name = "moneyflow"
    BY DEF M!StockApis, M!Daily
  <2> QED BY <2>1
<1>3. M!Apis = M!Named(specs)
  BY DEF M!Apis
<1> HIDE DEF specs
<1>4. DOMAIN M!Apis = M!Names(specs)
  BY <1>3, NamedManual
<1> QED BY <1>1, <1>2, <1>4 DEF M!Names

\* What a dataset is made from, by its declaration.
LEMMA RawGlobal == \A n, raw, w, on : M!Global(n, raw, w, on).raw = raw
BY DEF M!Global

LEMMA RawDated == \A n, raw, g, o : M!Dated(n, raw, g, o).raw = raw
BY DEF M!Dated

LEMMA RawWritten == \A n, raw, g, o, x : M!Written(x, M!Dated(n, raw, g, o)).raw = raw
BY DEF M!Dated, M!Written

LEMMA RawScoped == \A n, raw, g, o, x : M!OfScope(x, M!Dated(n, raw, g, o)).raw = raw
BY DEF M!Dated, M!OfScope

\* Datasets are made from something, and that is declared.
LEMMA RawDeclared ==
    \A d \in DOMAIN M!Datasets : M!Datasets[d].raw # {} /\ M!Datasets[d].raw \subseteq DOMAIN M!Apis
<1> DEFINE specs == M!MasterApis \cup M!StockApis \cup M!FundApis \cup M!BoardApis \cup M!HotApis
                   \cup M!ThemeApis \cup M!EventApis \cup M!IndexApis
           sets == M!MasterDatasets \cup M!EtfDatasets \cup M!StockDatasets \cup M!BoardDatasets
                  \cup M!ThemeIndexDatasets \cup M!MarketThemeDatasets \cup M!EventDatasets
                  \cup M!IndexDatasets
<1>1. \A d \in M!MasterDatasets :
        d.raw # {} /\ \A a \in d.raw : \E s \in M!MasterApis : s.name = a
  <2>1. \A d \in M!MasterDatasets : d.raw \in
          {{"trade_cal"}, {"stock_basic"}, {"stock_company"}, {"etf_basic"}}
    BY RawGlobal DEF M!MasterDatasets
  <2>2. \A a \in {"trade_cal", "stock_basic", "stock_company", "etf_basic"} :
          \E s \in M!MasterApis : s.name = a
    BY DEF M!MasterApis, M!Master
  <2> QED BY <2>1, <2>2
<1>2. \A d \in M!EtfDatasets :
        d.raw # {} /\ \A a \in d.raw : \E s \in M!FundApis : s.name = a
  <2>1. \A d \in M!EtfDatasets : d.raw \in
          {{"fund_daily", "fund_adj"}, {"etf_share_size"}}
    BY RawDated DEF M!EtfDatasets
  <2>2. \A a \in {"fund_daily", "fund_adj", "etf_share_size"} :
          \E s \in M!FundApis : s.name = a
    BY DEF M!FundApis, M!Daily, M!OfGroup
  <2> QED BY <2>1, <2>2
<1>3. \A d \in M!StockDatasets :
        d.raw # {} /\ \A a \in d.raw : \E s \in M!StockApis : s.name = a
  <2>1. \A d \in M!StockDatasets : d.raw \in
          {{"daily", "daily_basic", "adj_factor"}, {"stk_limit"}, {"stk_factor"},
          {"moneyflow"}, {"suspend_d"}}
    BY RawDated, RawWritten DEF M!StockDatasets
  <2>2. \A a \in {"daily", "daily_basic", "adj_factor", "stk_limit", "stk_factor", "moneyflow",
          "suspend_d"} :
          \E s \in M!StockApis : s.name = a
    BY DEF M!StockApis, M!Daily, M!EmptyAllowed
  <2> QED BY <2>1, <2>2
<1>4. \A d \in M!BoardDatasets :
        d.raw # {} /\ \A a \in d.raw : \E s \in M!BoardApis : s.name = a
  <2>1. \A d \in M!BoardDatasets : d.raw \in
          {{"ths_index"}, {"ths_daily"}, {"ths_member"}}
    BY RawGlobal, RawDated DEF M!BoardDatasets
  <2>2. \A a \in {"ths_index", "ths_daily", "ths_member"} :
          \E s \in M!BoardApis : s.name = a
    BY DEF M!BoardApis, M!Master, M!Daily
  <2> QED BY <2>1, <2>2
<1>5. \A d \in M!ThemeIndexDatasets :
        d.raw # {} /\ \A a \in d.raw : \E s \in M!BoardApis : s.name = a
  <2>1. \A d \in M!ThemeIndexDatasets : d.raw \in
          {{"ths_index"}, {"ths_daily"}, {"ths_member"}}
    BY RawGlobal, RawDated DEF M!ThemeIndexDatasets
  <2>2. \A a \in {"ths_index", "ths_daily", "ths_member"} :
          \E s \in M!BoardApis : s.name = a
    BY DEF M!BoardApis, M!Master, M!Daily
  <2> QED BY <2>1, <2>2
<1>6. \A d \in M!MarketThemeDatasets :
        d.raw # {} /\ \A a \in d.raw : \E s \in M!HotApis \cup M!ThemeApis : s.name = a
  <2>1. \A d \in M!MarketThemeDatasets : d.raw \in
          {{"ths_hot", "dc_hot"}, {"dc_concept"}, {"dc_concept_cons"}}
    BY RawDated, RawWritten DEF M!MarketThemeDatasets
  <2>2. \A a \in {"ths_hot", "dc_hot", "dc_concept", "dc_concept_cons"} :
          \E s \in M!HotApis \cup M!ThemeApis : s.name = a
    BY DEF M!HotApis, M!ThemeApis, M!Daily, M!OfGroup, M!EmptyAllowed
  <2> QED BY <2>1, <2>2
<1>7. \A d \in M!EventDatasets :
        d.raw # {} /\ \A a \in d.raw : \E s \in M!EventApis : s.name = a
  <2>1. \A d \in M!EventDatasets : d.raw \in
          {{"top_list"}, {"top_inst"}, {"limit_list_d"}, {"limit_step"}, {"moneyflow_cnt_ths",
          "moneyflow_ind_ths"}}
    BY RawDated DEF M!EventDatasets
  <2>2. \A a \in {"top_list", "top_inst", "limit_list_d", "limit_step", "moneyflow_cnt_ths",
          "moneyflow_ind_ths"} :
          \E s \in M!EventApis : s.name = a
    BY DEF M!EventApis, M!Daily, M!EmptyAllowed
  <2> QED BY <2>1, <2>2
<1>8. \A d \in M!IndexDatasets :
        d.raw # {} /\ \A a \in d.raw : \E s \in M!IndexApis : s.name = a
  <2>1. \A d \in M!IndexDatasets : d.raw \in
          {{"index_basic"}, {"index_daily"}, {"index_dailybasic"}, {"index_weight"}}
    BY RawGlobal, RawDated, RawScoped DEF M!IndexDatasets
  <2>2. \A a \in {"index_basic", "index_daily", "index_dailybasic", "index_weight"} :
          \E s \in M!IndexApis : s.name = a
    BY DEF M!IndexApis, M!Master, M!Daily
  <2> QED BY <2>1, <2>2
<1>9. \A d \in sets : d.raw # {} /\ \A a \in d.raw : \E s \in specs : s.name = a
  BY <1>1, <1>2, <1>3, <1>4, <1>5, <1>6, <1>7, <1>8
<1>10. M!Apis = M!Named(specs) /\ M!Datasets = M!Named(sets)
  BY DEF M!Apis, M!Datasets
<1> HIDE DEF specs, sets
<1>11. /\ DOMAIN M!Apis = M!Names(specs) /\ DOMAIN M!Datasets = M!Names(sets)
       /\ \A d \in M!Names(sets) : M!Datasets[d] \in sets
  BY <1>10, NamedManual
<1> QED BY <1>9, <1>11 DEF M!Names

-----------------------------------------------------------------------------
(* What a new release has made again.                                      *)

\* One round, and all of them.
More(known) == known \cup {d \in DOMAIN M!Datasets : M!Triggered(known, d)}

Made == CHOOSE made : made = [known \in SUBSET DOMAIN M!Datasets |->
                                IF More(known) = known THEN known ELSE made[More(known)]]

LEMMA AffectedIsMade ==
    ASSUME NEW apis
    PROVE  M!AffectedBy(apis) = Made[{d \in DOMAIN M!Datasets : M!Datasets[d].raw \cap apis # {}}]
BY DEF M!AffectedBy, Made, More

\* The rounds come to an end: what they make is the least set that a round adds nothing to.
LEMMA MadeSo ==
    \A known \in SUBSET DOMAIN M!Datasets :
        Made[known] = IF More(known) = known THEN known ELSE Made[More(known)]
<1> DEFINE All == DOMAIN M!Datasets
           Least(known) == {d \in All : \A c \in SUBSET All : known \subseteq c /\ More(c) = c => d \in c}
           least == [known \in SUBSET All |-> Least(known)]
           Step(f) == [known \in SUBSET All |-> IF More(known) = known THEN known ELSE f[More(known)]]
<1>1. \A known \in SUBSET All : More(known) \in SUBSET All /\ known \subseteq More(known)
  BY DEF More
<1>2. \A known, c \in SUBSET All : known \subseteq c => More(known) \subseteq More(c)
  BY DEF More, M!Triggered
<1> HIDE DEF All
<1>3. ASSUME NEW known \in SUBSET All, More(known) = known PROVE Least(known) = known
  BY <1>3
<1>4. ASSUME NEW known \in SUBSET All PROVE Least(More(known)) = Least(known)
  <2>1. \A c \in SUBSET All : More(c) = c => (known \subseteq c <=> More(known) \subseteq c)
    BY <1>1, <1>2
  <2> QED BY <2>1
<1> HIDE DEF Least
<1>5. \A known \in SUBSET All : least[known] = IF More(known) = known THEN known ELSE least[More(known)]
  BY <1>1, <1>3, <1>4
<1>6. least = Step(least)
  BY <1>5
<1>7. \E made : made = Step(made)
  <2> HIDE DEF Step, least
  <2> QED BY <1>6
<1>8. Made = Step(Made)
  BY <1>7 DEF Made, All
<1> HIDE DEF Step
<1>9. \A known \in SUBSET All : Step(Made)[known] = IF More(known) = known THEN known ELSE Made[More(known)]
  BY DEF Step
<1> QED BY <1>8, <1>9 DEF All

LEMMA FewAreFinite ==
    /\ \A a, b, c : IsFiniteSet({a, b, c})
    /\ \A a, b, c, d : IsFiniteSet({a, b, c, d})
    /\ \A a, b, c, d, e : IsFiniteSet({a, b, c, d, e})
<1>1. ASSUME NEW a, NEW b, NEW c PROVE IsFiniteSet({a, b, c})
  <2>1. IsFiniteSet({a})
    BY FS_Singleton
  <2>2. IsFiniteSet({a} \cup {b})
    BY <2>1, FS_AddElement
  <2>3. IsFiniteSet(({a} \cup {b}) \cup {c})
    BY <2>2, FS_AddElement
  <2>4. ({a} \cup {b}) \cup {c} = {a, b, c}
    OBVIOUS
  <2> QED BY <2>3, <2>4
<1>2. ASSUME NEW a, NEW b, NEW c, NEW d PROVE IsFiniteSet({a, b, c, d})
  <2>1. IsFiniteSet({a, b, c} \cup {d})
    BY <1>1, FS_AddElement
  <2>2. {a, b, c} \cup {d} = {a, b, c, d}
    OBVIOUS
  <2> QED BY <2>1, <2>2
<1>3. ASSUME NEW a, NEW b, NEW c, NEW d, NEW e PROVE IsFiniteSet({a, b, c, d, e})
  <2>1. IsFiniteSet({a, b, c, d} \cup {e})
    BY <1>2, FS_AddElement
  <2>2. {a, b, c, d} \cup {e} = {a, b, c, d, e}
    OBVIOUS
  <2> QED BY <2>1, <2>2
<1> QED BY <1>1, <1>2, <1>3

LEMMA DatasetsAreFinite == IsFiniteSet(DOMAIN M!Datasets)
<1> DEFINE sets == M!MasterDatasets \cup M!EtfDatasets \cup M!StockDatasets \cup M!BoardDatasets
                  \cup M!ThemeIndexDatasets \cup M!MarketThemeDatasets \cup M!EventDatasets
                  \cup M!IndexDatasets
           name == [s \in sets |-> s.name]
<1>1. /\ IsFiniteSet(M!MasterDatasets) /\ IsFiniteSet(M!EtfDatasets) /\ IsFiniteSet(M!StockDatasets)
      /\ IsFiniteSet(M!BoardDatasets) /\ IsFiniteSet(M!ThemeIndexDatasets)
      /\ IsFiniteSet(M!MarketThemeDatasets) /\ IsFiniteSet(M!EventDatasets)
      /\ IsFiniteSet(M!IndexDatasets)
  <2>1. IsFiniteSet(M!MasterDatasets)
    BY FewAreFinite DEF M!MasterDatasets
  <2>2. IsFiniteSet(M!EtfDatasets)
    BY FewAreFinite DEF M!EtfDatasets
  <2>3. IsFiniteSet(M!StockDatasets)
    BY FewAreFinite DEF M!StockDatasets
  <2>4. IsFiniteSet(M!BoardDatasets)
    BY FewAreFinite DEF M!BoardDatasets
  <2>5. IsFiniteSet(M!ThemeIndexDatasets)
    BY FewAreFinite DEF M!ThemeIndexDatasets
  <2>6. IsFiniteSet(M!MarketThemeDatasets)
    BY FewAreFinite DEF M!MarketThemeDatasets
  <2>7. IsFiniteSet(M!EventDatasets)
    BY FewAreFinite DEF M!EventDatasets
  <2>8. IsFiniteSet(M!IndexDatasets)
    BY FewAreFinite DEF M!IndexDatasets
  <2> QED BY <2>1, <2>2, <2>3, <2>4, <2>5, <2>6, <2>7, <2>8
<1>2. IsFiniteSet(sets)
  BY <1>1, FS_Union
<1>3. M!Datasets = M!Named(sets)
  BY DEF M!Datasets
<1> HIDE DEF sets
<1>4. DOMAIN M!Datasets = {s.name : s \in sets}
  BY <1>3, NamedManual DEF M!Names
<1>5. name \in Surjection(sets, {s.name : s \in sets})
  BY DEF Surjection
<1> HIDE DEF name
<1> QED BY <1>2, <1>4, <1>5, FS_Surjection

\* Nothing that a round begins with is lost.
LEMMA MadeKeeps ==
    \A known \in SUBSET DOMAIN M!Datasets : known \subseteq Made[known]
<1> DEFINE All == DOMAIN M!Datasets
           lost == {known \in SUBSET All : ~(known \subseteq Made[known])}
           left(known) == All \ known
           lefts == {left(known) : known \in lost}
           R_ == StrictSubsetOrdering(All)
<1>1. \A known \in SUBSET All : More(known) \in SUBSET All /\ known \subseteq More(known)
  BY DEF More
<1>2. \A known \in SUBSET All : Made[known] = IF More(known) = known THEN known ELSE Made[More(known)]
  BY MadeSo
<1>3. IsFiniteSet(All)
  BY DatasetsAreFinite
<1> HIDE DEF All
<1> SUFFICES ASSUME lost # {} PROVE FALSE
  BY DEF All
<1>4. lefts \subseteq FiniteSubsetsOf(All) /\ lefts # {}
  <2>1. \A known \in SUBSET All : left(known) \subseteq All /\ IsFiniteSet(left(known))
    BY <1>3, FS_Subset
  <2> HIDE DEF left
  <2> QED BY <2>1 DEF FiniteSubsetsOf
<1>5. IsWellFoundedOn(R_, FiniteSubsetsOf(All))
  BY FS_StrictSubsetOrderingWellFounded DEF R_
<1>6. \E A \in lefts : \A B \in lefts : <<B, A>> \notin R_
  <2> HIDE DEF lefts, R_
  <2> QED BY <1>4, <1>5, WFMin, Zenon
<1>7. PICK known \in lost : \A other \in lost : <<left(other), left(known)>> \notin R_
  BY <1>6
<1>8. known \in SUBSET All /\ ~(known \subseteq Made[known])
  OBVIOUS
<1>9. More(known) # known /\ Made[known] = Made[More(known)]
  BY <1>2, <1>8
<1>10. ~(More(known) \subseteq Made[More(known)])
  BY <1>1, <1>8, <1>9
<1>11. More(known) \in lost
  BY <1>1, <1>8, <1>10
<1>12. <<left(More(known)), left(known)>> \in R_
  <2>1. /\ left(More(known)) \in SUBSET All /\ left(known) \in SUBSET All
        /\ left(More(known)) \subseteq left(known) /\ left(More(known)) # left(known)
    BY <1>1, <1>8, <1>9
  <2> HIDE DEF left
  <2> QED BY <2>1 DEF R_, StrictSubsetOrdering
<1> QED BY <1>7, <1>11, <1>12

\* What is made from data that came is made again.
LEMMA AffectedHasInputs ==
    ASSUME NEW apis, NEW d \in DOMAIN M!Datasets, M!Datasets[d].raw \cap apis # {}
    PROVE  d \in M!AffectedBy(apis)
BY AffectedIsMade, MadeKeeps

-----------------------------------------------------------------------------
(* ManualPlans.  What a recovery leaves out it has read as active; a task  *)
(* that it doubles is of a batch that was committed later.                 *)

ManualKinds == {"BACKFILL", "REPAIR", "RECOVER"}

ManualBatch ==
    [type : ManualKinds, day : M!Days, apis : (SUBSET DOMAIN M!Apis) \ {{}}, read : Nat]

\* The days of a command with the APIs of each.
ManualPlan == UNION {[days -> SUBSET DOMAIN M!Apis] : days \in SUBSET M!Days}

ManualCommand == [type : ManualKinds, of : ManualPlan, read : Nat]

ManualTypes ==
    /\ calendar \in [M!Days -> {"open", "closed", None}]
    /\ published \subseteq M!Days \X Watched
    /\ manualBatches \in Seq(ManualBatch)
    /\ Len(manualBatches) <= MaxBatches
    /\ \A t \in active : t[1] \in DOMAIN manualBatches /\ t[2] \in manualBatches[t[1]].apis
    /\ command \in [Clients -> ManualCommand \cup {None}]

\* Batches were read before they are committed.
ReadBefore ==
    /\ \A c \in Clients : command[c] # None => command[c].read <= Len(manualBatches)
    /\ \A i \in DOMAIN manualBatches : manualBatches[i].read < i

\* What a recovery is going to collect was being collected by no batch it has read.
LeftOut ==
    \A c \in Clients : command[c] # None /\ command[c].type = "RECOVER" =>
        \A day \in DOMAIN command[c].of : \A t \in active :
            /\ t[2] \in command[c].of[day]
            /\ manualBatches[t[1]].day = day
            => command[c].read < t[1]

ManualInv == ManualTypes /\ ReadBefore /\ LeftOut /\ M!RecoveredOnce

\* The days of a set can be numbered: one has n - 1 smaller ones.
LEMMA Numbered ==
    ASSUME NEW days \in SUBSET Nat, IsFiniteSet(days), NEW n \in 1 .. Cardinality(days)
    PROVE  \E day \in days : Cardinality({k \in days : k < day}) = n - 1
<1> DEFINE Before(day) == {k \in days : k < day}
           N == Cardinality(days)
           Rank == [day \in days |-> Cardinality(Before(day))]
<1>1. N \in Nat
  BY FS_CardinalityType
<1>2. \A day \in days : IsFiniteSet(Before(day)) /\ Cardinality(Before(day)) \in Nat
  <2> TAKE day \in days
  <2>1. Before(day) \subseteq days
    OBVIOUS
  <2> QED BY <2>1, FS_Subset, FS_CardinalityType
<1>3. \A day \in days : Cardinality(Before(day)) < N
  <2> TAKE day \in days
  <2>1. Before(day) \subseteq days /\ Before(day) # days
    OBVIOUS
  <2> HIDE DEF Before
  <2>2. Cardinality(Before(day)) <= N /\ Cardinality(Before(day)) # N
    BY <2>1, FS_Subset
  <2> QED BY <2>2, <1>1, <1>2
<1>4. \A a, b \in days : a < b => Cardinality(Before(a)) < Cardinality(Before(b))
  <2> SUFFICES ASSUME NEW a \in days, NEW b \in days, a < b
               PROVE  Cardinality(Before(a)) < Cardinality(Before(b))
    OBVIOUS
  <2>0. \A k \in days : k \in Nat
    OBVIOUS
  <2>1. Before(a) \subseteq Before(b) /\ a \in Before(b) /\ a \notin Before(a)
    <3>1. a \in Nat /\ b \in Nat
      BY <2>0
    <3>2. \A k \in days : k < a => k < b
      BY <2>0, <3>1
    <3>3. ~(a < a)
      BY <3>1
    <3> QED BY <3>2, <3>3
  <2>2. IsFiniteSet(Before(b)) /\ Before(a) # Before(b)
    BY <1>2, <2>1
  <2> HIDE DEF Before
  <2>3. /\ Cardinality(Before(a)) <= Cardinality(Before(b))
        /\ Cardinality(Before(a)) # Cardinality(Before(b))
    BY <2>1, <2>2, FS_Subset
  <2> QED BY <2>3, <1>2
<1>5. Rank \in [days -> 0 .. N - 1]
  BY <1>1, <1>2, <1>3
<1>6. \A a, b \in days : a # b => Rank[a] # Rank[b]
  <2> SUFFICES ASSUME NEW a \in days, NEW b \in days, a # b PROVE Rank[a] # Rank[b]
    OBVIOUS
  <2>1. a < b \/ b < a
    OBVIOUS
  <2> HIDE DEF Before
  <2> QED BY <2>1, <1>2, <1>4
<1>7. Rank \in Injection(days, 0 .. N - 1)
  BY <1>5, <1>6 DEF Injection, IsInjective
<1>8. IsFiniteSet(0 .. N - 1) /\ Cardinality(0 .. N - 1) = N
  <2>1. 0 \in Int /\ N - 1 \in Int
    BY <1>1
  <2>2. /\ IsFiniteSet(0 .. N - 1)
        /\ Cardinality(0 .. N - 1) = IF 0 > N - 1 THEN 0 ELSE N - 1 - 0 + 1
    BY <2>1, FS_Interval
  <2> QED BY <2>2, <1>1
<1>9. Rank \in Surjection(days, 0 .. N - 1)
  BY <1>7, <1>8, FS_Injection
<1>10. n - 1 \in 0 .. N - 1
  BY <1>1
<1>11. PICK day \in days : Rank[day] = n - 1
  BY <1>9, <1>10 DEF Surjection
<1> QED BY <1>11

\* The batches of a plan: one for each day that has APIs.
LEMMA PlanOfDays ==
    ASSUME NEW type \in ManualKinds, NEW of \in ManualPlan, NEW read \in Nat, LastDay \in Nat
    PROVE  LET plan == M!Planned(type, of, read)
           IN  /\ plan \in Seq(ManualBatch)
               /\ \A n \in DOMAIN plan :
                    /\ plan[n].type = type /\ plan[n].read = read
                    /\ plan[n].day \in DOMAIN of /\ plan[n].apis = of[plan[n].day]
               /\ \A n, m \in DOMAIN plan : plan[n].day = plan[m].day => n = m
<1> DEFINE days == {day \in DOMAIN of : of[day] # {}}
           Nth(n) == CHOOSE day \in days : Cardinality({k \in days : k < day}) = n - 1
           plan == M!Planned(type, of, read)
<1>1. /\ DOMAIN of \subseteq M!Days
      /\ \A day \in DOMAIN of : of[day] \in SUBSET DOMAIN M!Apis
  BY DEF ManualPlan
<1>2. IsFiniteSet(M!Days)
  <2>1. 1 \in Int /\ LastDay \in Int
    OBVIOUS
  <2> QED BY <2>1, FS_Interval DEF M!Days
<1>3. days \in SUBSET Nat /\ IsFiniteSet(days) /\ days \subseteq M!Days
  <2>1. days \subseteq M!Days
    BY <1>1
  <2>2. M!Days \subseteq Nat
    BY DEF M!Days
  <2> QED BY <1>2, <2>1, <2>2, FS_Subset
<1>4. Cardinality(days) \in Nat
  BY <1>3, FS_CardinalityType
<1>5. \A n \in 1 .. Cardinality(days) : Nth(n) \in days /\ Cardinality({k \in days : k < Nth(n)}) = n - 1
  <2> TAKE n \in 1 .. Cardinality(days)
  <2>1. \E day \in days : Cardinality({k \in days : k < day}) = n - 1
    <3> HIDE DEF days
    <3> QED BY <1>3, Numbered
  <2> QED BY <2>1
<1>6. plan = [n \in 1 .. Cardinality(days) |->
                [type |-> type, day |-> Nth(n), apis |-> of[Nth(n)], read |-> read]]
  BY DEF M!Planned, M!Cardinality, Cardinality
<1> HIDE DEF plan
<1>7. DOMAIN plan = 1 .. Cardinality(days)
  BY <1>6
<1>8. \A n \in DOMAIN plan : plan[n] = [type |-> type, day |-> Nth(n), apis |-> of[Nth(n)], read |-> read]
  BY <1>6
<1>9. \A n \in 1 .. Cardinality(days) : Nth(n) \in M!Days /\ of[Nth(n)] \in (SUBSET DOMAIN M!Apis) \ {{}}
  <2> TAKE n \in 1 .. Cardinality(days)
  <2>1. Nth(n) \in days
    BY <1>5
  <2> HIDE DEF Nth
  <2> QED BY <2>1, <1>1
<1>10. \A n, m \in 1 .. Cardinality(days) : Nth(n) = Nth(m) => n = m
  <2> SUFFICES ASSUME NEW n \in 1 .. Cardinality(days), NEW m \in 1 .. Cardinality(days), Nth(n) = Nth(m)
               PROVE  n = m
    OBVIOUS
  <2>1. /\ Cardinality({k \in days : k < Nth(n)}) = n - 1
        /\ Cardinality({k \in days : k < Nth(m)}) = m - 1
    BY <1>5
  <2> HIDE DEF Nth, days
  <2>2. n - 1 = m - 1
    BY <2>1
  <2> QED BY <2>2, <1>4
<1>11. \A n \in 1 .. Cardinality(days) : Nth(n) \in DOMAIN of
  BY <1>5
<1> HIDE DEF Nth, days
<1>12. \A n \in 1 .. Cardinality(days) : plan[n] \in ManualBatch
  BY <1>7, <1>8, <1>9 DEF ManualBatch
<1>13. plan \in Seq(ManualBatch)
  BY <1>4, <1>6, <1>7, <1>12
<1>14. /\ plan \in Seq(ManualBatch)
       /\ \A n \in DOMAIN plan :
            /\ plan[n].type = type /\ plan[n].read = read
            /\ plan[n].day \in DOMAIN of /\ plan[n].apis = of[plan[n].day]
       /\ \A n, m \in DOMAIN plan : plan[n].day = plan[m].day => n = m
  BY <1>7, <1>8, <1>10, <1>11, <1>13
<1> QED BY <1>14 DEF plan

LEMMA ManualInitHolds ==
    ASSUME M!Init
    PROVE  ManualInv
<1>1. manualBatches = <<>> /\ Len(manualBatches) = 0 /\ DOMAIN manualBatches = {}
  BY DEF M!Init
<1>2. manualBatches \in Seq(ManualBatch)
  BY <1>1
<1> QED BY <1>1, <1>2, PlanningAssumption DEF M!Init, ManualInv, ManualTypes, ReadBefore, LeftOut, M!RecoveredOnce

\* A command has read what the batches are now.
LEMMA BeginKeeps ==
    ASSUME ManualInv, NEW c \in Clients, NEW type \in ManualKinds, NEW of \in ManualPlan,
           M!Begin(c, type, of),
           type = "RECOVER" => \A day \in DOMAIN of : of[day] \cap M!ActiveApis(day) = {}
    PROVE  ManualInv'
<1> DEFINE new == [type |-> type, of |-> of, read |-> Len(manualBatches)]
<1>1. /\ command' = [command EXCEPT ![c] = new]
      /\ UNCHANGED <<calendar, published, manualBatches, active>>
  BY DEF M!Begin
<1>2. Len(manualBatches) \in Nat
  BY DEF ManualInv, ManualTypes
<1>3. new \in ManualCommand
  BY <1>2 DEF ManualCommand
<1>4. ManualTypes'
  BY <1>1, <1>3 DEF ManualInv, ManualTypes
<1>5. /\ new.type = type /\ new.of = of /\ new.read = Len(manualBatches)
      /\ command'[c] = new /\ \A k \in Clients \ {c} : command'[k] = command[k]
  BY <1>1 DEF ManualInv, ManualTypes
<1> HIDE DEF new
<1>6. ReadBefore'
  BY <1>1, <1>2, <1>5 DEF ManualInv, ReadBefore
<1>7. ASSUME type = "RECOVER", NEW day \in DOMAIN of, NEW t \in active, t[2] \in of[day],
             manualBatches[t[1]].day = day
      PROVE  FALSE
  <2>1. t[2] \in DOMAIN M!Apis
    BY <1>7 DEF ManualPlan
  <2>2. t[2] \in M!ActiveApis(day)
    BY <1>7, <2>1 DEF M!ActiveApis
  <2> QED BY <1>7, <2>2
<1>8. LeftOut'
  BY <1>1, <1>5, <1>7 DEF ManualInv, LeftOut
<1>9. M!RecoveredOnce'
  BY <1>1 DEF ManualInv, M!RecoveredOnce
<1> QED BY <1>4, <1>6, <1>8, <1>9 DEF ManualInv

\* The batches of a command come after all others; those of a recovery repeat only tasks
\* of batches it has not read.
LEMMA CommitKeeps ==
    ASSUME ManualInv, NEW c \in Clients, M!Commit(c)
    PROVE  ManualInv'
<1> DEFINE of == command[c].of
           type == command[c].type
           read == command[c].read
           plan == M!Planned(type, of, read)
           first == Len(manualBatches)
           New == UNION {{<<first + n, a>> : a \in plan[n].apis} : n \in DOMAIN plan}
<1>1. /\ command[c] # None
      /\ first + Len(plan) <= MaxBatches
      /\ manualBatches' = manualBatches \o plan
      /\ active' = active \cup New
      /\ command' = [command EXCEPT ![c] = None]
      /\ UNCHANGED <<calendar, published>>
  BY DEF M!Commit
<1>2. command[c] \in ManualCommand
  BY <1>1 DEF ManualInv, ManualTypes
<1>3. type \in ManualKinds /\ of \in ManualPlan /\ read \in Nat /\ read <= first
  BY <1>1, <1>2 DEF ManualCommand, ManualInv, ReadBefore
<1>4. /\ plan \in Seq(ManualBatch)
      /\ \A n \in DOMAIN plan :
           /\ plan[n].type = type /\ plan[n].read = read
           /\ plan[n].day \in DOMAIN of /\ plan[n].apis = of[plan[n].day]
      /\ \A n, m \in DOMAIN plan : plan[n].day = plan[m].day => n = m
  <2> HIDE DEF of, type, read
  <2> QED BY <1>3, PlanOfDays, PlanningAssumption
<1> HIDE DEF plan
<1>5. manualBatches \in Seq(ManualBatch) /\ first \in Nat /\ Len(plan) \in Nat
  BY <1>4 DEF ManualInv, ManualTypes
<1>6. /\ manualBatches' \in Seq(ManualBatch)
      /\ Len(manualBatches') = first + Len(plan)
      /\ \A i \in 1 .. first : manualBatches'[i] = manualBatches[i]
      /\ \A n \in 1 .. Len(plan) : manualBatches'[first + n] = plan[n]
  <2>1. /\ Len(manualBatches \o plan) = first + Len(plan)
        /\ \A i \in 1 .. first + Len(plan) : (manualBatches \o plan)[i] =
             IF i <= first THEN manualBatches[i] ELSE plan[i - first]
    BY <1>4, <1>5, ConcatProperties
  <2>2. manualBatches \o plan \in Seq(ManualBatch)
    BY <1>4, <1>5, ConcatProperties
  <2>3. manualBatches' = manualBatches \o plan
    BY <1>1
  <2>4. \A n \in 1 .. Len(plan) : first + n \in 1 .. first + Len(plan) /\ ~(first + n <= first) /\ (first + n) - first = n
    BY <1>5
  <2>5. \A i \in 1 .. first : i \in 1 .. first + Len(plan) /\ i <= first
    BY <1>5
  <2> QED BY <2>1, <2>2, <2>3, <2>4, <2>5
<1>7. /\ DOMAIN manualBatches = 1 .. first /\ DOMAIN plan = 1 .. Len(plan)
      /\ DOMAIN manualBatches' = 1 .. first + Len(plan)
  BY <1>4, <1>5, <1>6
\* A new task is one of a batch of the plan.
<1>8. \A t \in New : \E n \in 1 .. Len(plan) :
        t[1] = first + n /\ t[2] \in plan[n].apis
  BY <1>7
<1>9. ASSUME NEW t \in active PROVE t[1] \in 1 .. first /\ t[2] \in manualBatches[t[1]].apis
  BY <1>7 DEF ManualInv, ManualTypes
<1> HIDE DEF New, first
<1>10. ASSUME NEW t \in active' PROVE t[1] \in DOMAIN manualBatches' /\ t[2] \in manualBatches'[t[1]].apis
  <2>1. CASE t \in active
    BY <2>1, <1>5, <1>6, <1>7, <1>9
  <2>2. CASE t \in New
    <3>1. PICK n \in 1 .. Len(plan) : t[1] = first + n /\ t[2] \in plan[n].apis
      BY <2>2, <1>8
    <3>2. first + n \in 1 .. first + Len(plan)
      BY <1>5
    <3> QED BY <3>1, <3>2, <1>6, <1>7
  <2> QED BY <2>1, <2>2, <1>1
<1>11. command' \in [Clients -> ManualCommand \cup {None}]
  BY <1>1 DEF ManualInv, ManualTypes
<1>12. ManualTypes'
  BY <1>1, <1>6, <1>10, <1>11, PlanningAssumption DEF ManualInv, ManualTypes
<1>13. \A k \in Clients : command'[k] # None => k # c /\ command'[k] = command[k]
  BY <1>1 DEF ManualInv, ManualTypes
<1>14. ReadBefore'
  <2>1. ASSUME NEW k \in Clients, command'[k] # None PROVE command'[k].read <= Len(manualBatches')
    <3>1. command[k] # None /\ command'[k] = command[k] /\ command[k] \in ManualCommand
      BY <2>1, <1>13 DEF ManualInv, ManualTypes
    <3>2. command[k].read <= first /\ command[k].read \in Nat
      BY <3>1 DEF ManualInv, ReadBefore, ManualCommand, first
    <3> QED BY <3>1, <3>2, <1>5, <1>6
  <2>2. ASSUME NEW i \in DOMAIN manualBatches' PROVE manualBatches'[i].read < i
    <3>1. CASE i \in 1 .. first
      BY <3>1, <1>6, <1>7 DEF ManualInv, ReadBefore
    <3>2. CASE i \notin 1 .. first
      <4>1. i - first \in 1 .. Len(plan) /\ first + (i - first) = i
        BY <3>2, <1>5, <1>7
      <4>2. manualBatches'[i] = plan[i - first]
        BY <4>1, <1>6
      <4> QED BY <4>1, <4>2, <1>3, <1>4, <1>5, <1>7
    <3> QED BY <3>1, <3>2
  <2> QED BY <2>1, <2>2 DEF ReadBefore
<1>15. LeftOut'
  <2> SUFFICES ASSUME NEW k \in Clients, command'[k] # None, command'[k].type = "RECOVER",
                      NEW day \in DOMAIN command'[k].of, NEW t \in active',
                      t[2] \in command'[k].of[day], manualBatches'[t[1]].day = day
               PROVE  command'[k].read < t[1]
    BY DEF LeftOut
  <2>1. command[k] # None /\ command'[k] = command[k] /\ command[k] \in ManualCommand
    BY <1>13 DEF ManualInv, ManualTypes
  <2>2. CASE t \in active
    <3>1. manualBatches'[t[1]] = manualBatches[t[1]]
      BY <2>2, <1>6, <1>9
    <3> QED BY <2>1, <2>2, <3>1 DEF ManualInv, LeftOut
  <2>3. CASE t \in New
    <3>1. PICK n \in 1 .. Len(plan) : t[1] = first + n /\ t[2] \in plan[n].apis
      BY <2>3, <1>8
    <3>2. command[k].read <= first /\ command[k].read \in Nat
      BY <2>1 DEF ManualInv, ReadBefore, ManualCommand, first
    <3> QED BY <2>1, <3>1, <3>2, <1>5
  <2> QED BY <2>2, <2>3, <1>1
<1>16. M!RecoveredOnce'
  <2> SUFFICES ASSUME NEW t \in active', NEW u \in active', t[2] = u[2], t[1] < u[1],
                      manualBatches'[t[1]].day = manualBatches'[u[1]].day,
                      manualBatches'[u[1]].type = "RECOVER"
               PROVE  manualBatches'[u[1]].read < t[1]
    BY DEF M!RecoveredOnce
  <2>1. CASE u \in active
    <3>1. t \notin New
      <4> SUFFICES ASSUME t \in New PROVE FALSE
        OBVIOUS
      <4>1. PICK n \in 1 .. Len(plan) : t[1] = first + n
        BY <1>8
      <4> QED BY <4>1, <2>1, <1>5, <1>9
    <3>2. t \in active
      BY <3>1, <1>1
    <3>3. /\ manualBatches'[t[1]] = manualBatches[t[1]]
          /\ manualBatches'[u[1]] = manualBatches[u[1]]
      BY <2>1, <3>2, <1>6, <1>9
    <3> QED BY <2>1, <3>2, <3>3 DEF ManualInv, M!RecoveredOnce
  <2>2. CASE u \in New
    <3>1. PICK n \in 1 .. Len(plan) : u[1] = first + n /\ u[2] \in plan[n].apis
      BY <2>2, <1>8
    <3>2. manualBatches'[u[1]] = plan[n]
      BY <3>1, <1>6
    <3>3. /\ type = "RECOVER" /\ plan[n].read = read /\ plan[n].day \in DOMAIN of
          /\ u[2] \in of[plan[n].day]
      BY <3>1, <3>2, <1>4, <1>7
    <3>4. CASE t \in active
      <4>1. manualBatches'[t[1]] = manualBatches[t[1]]
        BY <3>4, <1>6, <1>9
      <4>2. t[2] \in of[plan[n].day] /\ manualBatches[t[1]].day = plan[n].day
        BY <3>2, <3>3, <4>1
      <4>3. read < t[1]
        BY <1>1, <3>3, <3>4, <4>2 DEF ManualInv, LeftOut
      <4> QED BY <3>2, <3>3, <4>3
    <3>5. CASE t \in New
      <4>1. PICK m \in 1 .. Len(plan) : t[1] = first + m /\ t[2] \in plan[m].apis
        BY <3>5, <1>8
      <4>2. manualBatches'[t[1]] = plan[m]
        BY <4>1, <1>6
      <4>3. m = n
        BY <3>2, <4>2, <1>4, <1>7
      <4> QED BY <3>1, <4>1, <4>3, <1>5
    <3> QED BY <3>4, <3>5, <1>1
  <2> QED BY <2>1, <2>2, <1>1
<1> QED BY <1>12, <1>14, <1>15, <1>16 DEF ManualInv

LEMMA DaysBetween == \A from, to \in M!Days : from .. to \subseteq M!Days
<1> SUFFICES ASSUME NEW from \in M!Days, NEW to \in M!Days, NEW day \in from .. to PROVE day \in M!Days
  OBVIOUS
<1>1. LastDay \in Nat
  BY PlanningAssumption
<1>2. from \in Nat /\ to \in Nat /\ 1 <= from /\ to <= LastDay
  BY <1>1 DEF M!Days
<1>3. day \in Int /\ from <= day /\ day <= to
  BY <1>2
<1> QED BY <1>1, <1>2, <1>3 DEF M!Days

LEMMA ManualStepHolds ==
    ASSUME ManualInv, [M!Next]_manualVars
    PROVE  ManualInv'
<1>1. ASSUME NEW c \in Clients, NEW from \in M!Days, NEW to \in M!Days, M!Recover(c, from, to)
      PROVE  ManualInv'
  <2> DEFINE of == [day \in M!Recoverable(from, to) |->
                      M!Required(M!Missing(day)) \ M!ActiveApis(day)]
  <2>1. M!Begin(c, "RECOVER", of)
    BY <1>1 DEF M!Recover
  <2>2. M!Recoverable(from, to) \subseteq M!Days
    BY DaysBetween DEF M!Recoverable, M!TradingDates
  <2>3. \A day \in M!Recoverable(from, to) : M!Required(M!Missing(day)) \subseteq DOMAIN M!Apis
    BY RawDeclared, PlanningAssumption DEF M!Required, M!Missing
  <2>4. of \in ManualPlan
    BY <2>2, <2>3 DEF ManualPlan
  <2>5. \A day \in DOMAIN of : of[day] \cap M!ActiveApis(day) = {}
    OBVIOUS
  <2> HIDE DEF of
  <2> QED BY <2>1, <2>4, <2>5, BeginKeeps DEF ManualKinds
<1>2. ASSUME NEW c \in Clients, NEW from \in M!Days, NEW to \in M!Days,
             M!Backfill(c, from, to, {"suspend_d"})
      PROVE  ManualInv'
  <2> DEFINE of == [day \in M!TradingDates(from, to) |-> {"suspend_d"}]
  <2>1. M!Begin(c, "BACKFILL", of)
    BY <1>2 DEF M!Backfill
  <2>2. M!TradingDates(from, to) \subseteq M!Days
    BY DaysBetween DEF M!TradingDates
  <2>3. of \in ManualPlan
    BY <2>2, AskedDeclared DEF ManualPlan
  <2> HIDE DEF of
  <2> QED BY <2>1, <2>3, BeginKeeps DEF ManualKinds
<1>3. ASSUME NEW c \in Clients, NEW day \in M!Days, M!Repair(c, day, {"moneyflow"}) PROVE ManualInv'
  <2> DEFINE of == [k \in {day} |-> {"moneyflow"}]
  <2>1. M!Begin(c, "REPAIR", of)
    BY <1>3 DEF M!Repair
  <2>2. of \in ManualPlan
    <3>1. {day} \in SUBSET M!Days /\ of \in [{day} -> SUBSET DOMAIN M!Apis]
      BY AskedDeclared
    <3> HIDE DEF of
    <3> QED BY <3>1 DEF ManualPlan
  <2> HIDE DEF of
  <2> QED BY <2>1, <2>2, BeginKeeps DEF ManualKinds
<1>4. ASSUME NEW t \in active, M!TaskEnds(t) PROVE ManualInv'
  BY <1>4 DEF M!TaskEnds, ManualInv, ManualTypes, ReadBefore, LeftOut, M!RecoveredOnce
<1>5. ASSUME NEW i \in DOMAIN manualBatches, NEW d \in Watched, M!Publish(i, d) PROVE ManualInv'
  <2>1. /\ published' = published \cup {<<manualBatches[i].day, d>>}
        /\ UNCHANGED <<calendar, manualBatches, active, command>>
    BY <1>5 DEF M!Publish
  <2>2. <<manualBatches[i].day, d>> \in M!Days \X Watched
    <3>1. manualBatches[i] \in ManualBatch
      BY DEF ManualInv, ManualTypes
    <3>2. manualBatches[i].day \in M!Days
      BY <3>1 DEF ManualBatch
    <3> QED BY <3>2
  <2>3. published' \subseteq M!Days \X Watched
    BY <2>1, <2>2 DEF ManualInv, ManualTypes
  <2> QED BY <2>1, <2>3 DEF ManualInv, ManualTypes, ReadBefore, LeftOut, M!RecoveredOnce
<1>6. CASE UNCHANGED manualVars
  BY <1>6 DEF manualVars, ManualInv, ManualTypes, ReadBefore, LeftOut, M!RecoveredOnce
<1> QED BY <1>1, <1>2, <1>3, <1>4, <1>5, <1>6, CommitKeeps DEF M!Next

LEMMA ManualTyped ==
    ASSUME ManualInv
    PROVE  M!TypeOK
<1>1. \A c \in Clients : command[c] = None \/ command[c].read \in 0 .. MaxBatches
  BY PlanningAssumption DEF ManualInv, ManualTypes, ReadBefore, ManualCommand
<1>2. \A i \in DOMAIN manualBatches : manualBatches[i] \in ManualBatch
  BY DEF ManualInv, ManualTypes
<1> QED BY <1>1, <1>2 DEF ManualInv, ManualTypes, ManualBatch, M!TypeOK

\* What a recovery asks for, and what is being collected, is all that the missing datasets
\* of the day are made from.
LEMMA RecoveryCovers ==
    ASSUME ManualInv, [M!Next]_manualVars
    PROVE  M!CoveredIfRecovered
<1> SUFFICES ASSUME NEW c \in Clients, command[c] = None, command'[c] # None, command'[c].type = "RECOVER",
                    NEW day \in DOMAIN command'[c].of
             PROVE  /\ calendar[day] = "open" /\ day < LastDay
                    /\ M!Missing(day) \subseteq M!AffectedBy(command'[c].of[day] \cup M!ActiveApis(day))
  BY DEF M!CoveredIfRecovered
<1>1. command \in [Clients -> ManualCommand \cup {None}]
  BY DEF ManualInv, ManualTypes
<1>2. ASSUME NEW k \in Clients, NEW type, NEW of, M!Begin(k, type, of)
      PROVE  type = "RECOVER" /\ command'[c].of = of
  <2>1. command' = [command EXCEPT ![k] = [type |-> type, of |-> of, read |-> Len(manualBatches)]]
    BY <1>2 DEF M!Begin
  <2>2. k = c
    BY <1>1, <2>1
  <2> QED BY <1>1, <2>1, <2>2
<1>3. PICK k \in Clients, from \in M!Days, to \in M!Days : M!Recover(k, from, to)
  <2>1. command' # command
    OBVIOUS
  <2>2. ASSUME NEW k \in Clients, NEW from \in M!Days, NEW to \in M!Days, NEW apis, M!Backfill(k, from, to, apis)
        PROVE  FALSE
    <3>1. M!Begin(k, "BACKFILL", [d \in M!TradingDates(from, to) |-> apis])
      BY <2>2 DEF M!Backfill
    <3> QED BY <3>1, <1>2
  <2>3. ASSUME NEW k \in Clients, NEW d \in M!Days, NEW apis, M!Repair(k, d, apis) PROVE FALSE
    <3>1. M!Begin(k, "REPAIR", [n \in {d} |-> apis])
      BY <2>3 DEF M!Repair
    <3> QED BY <3>1, <1>2
  <2>4. ASSUME NEW k \in Clients, M!Commit(k) PROVE FALSE
    BY <1>1, <2>4 DEF M!Commit
  <2> QED BY <2>1, <2>2, <2>3, <2>4 DEF M!Next, manualVars, M!TaskEnds, M!Publish
<1> DEFINE of == [d \in M!Recoverable(from, to) |-> M!Required(M!Missing(d)) \ M!ActiveApis(d)]
<1>4. command'[c].of = of
  <2>1. M!Begin(k, "RECOVER", of)
    BY <1>3 DEF M!Recover
  <2> HIDE DEF of
  <2> QED BY <2>1, <1>2
<1>5. day \in M!Recoverable(from, to) /\ of[day] = M!Required(M!Missing(day)) \ M!ActiveApis(day)
  BY <1>4
<1>6. calendar[day] = "open" /\ day < LastDay
  BY <1>5 DEF M!Recoverable, M!TradingDates
<1>7. ASSUME NEW d \in M!Missing(day) PROVE d \in M!AffectedBy(of[day] \cup M!ActiveApis(day))
  <2>1. d \in DOMAIN M!Datasets
    BY <1>7, PlanningAssumption DEF M!Missing
  <2>2. M!Datasets[d].raw # {} /\ M!Datasets[d].raw \subseteq M!Required(M!Missing(day))
    BY <1>7, <2>1, RawDeclared DEF M!Required
  <2>3. M!Required(M!Missing(day)) \subseteq of[day] \cup M!ActiveApis(day)
    BY <1>5
  <2> HIDE DEF of
  <2>4. M!Datasets[d].raw \cap (of[day] \cup M!ActiveApis(day)) # {}
    BY <2>2, <2>3
  <2> QED BY <2>1, <2>4, AffectedHasInputs
<1> QED BY <1>4, <1>6, <1>7

-----------------------------------------------------------------------------
(* RepairCommands, by the theorems of RepairCommandsProofs.                *)

RP == INSTANCE RepairCommandsProofs WITH
        clock <- repairClock, faults <- repairFaults, Scopes <- RepairScopes,
        Days <- RepairDays

LEMMA RepairsBounded == RP!Bounded
<1>1. IsFiniteSet(RepairScopes) <=> RP!IsFiniteSet(RepairScopes)
  BY DEF IsFiniteSet, RP!IsFiniteSet
<1> QED BY <1>1, PlanningAssumption, RetryPolicyAssumption DEF RP!Bounded, RP!Records, RP!KindSet, RP!Batches, RP!Keys

\* The commands of both instances are the same.
LEMMA RepairsAgree ==
    /\ R!Init => RP!Init
    /\ [R!Next]_repairVars => [RP!Next]_RP!vars
<1>1. R!Init => RP!Init
  BY DEF R!Init, RP!Init, R!Requests, RP!Requests, R!Keys, RP!Keys, R!NoRequest, RP!NoRequest
<1>2. [R!Next]_repairVars => [RP!Next]_RP!vars
  BY DEF R!Next, RP!Next, repairVars, RP!vars, R!Requests, RP!Requests, R!Keys, RP!Keys,
         R!Refused, RP!Refused, R!NoRequest, RP!NoRequest, R!Task, RP!Task,
         R!Scheduled, RP!Scheduled, R!SameScope, RP!SameScope,
         R!Planned, RP!Planned, R!Listed, RP!Listed, R!Plan, RP!Plan,
         R!Finish, RP!Finish, R!LoseFile, RP!LoseFile, R!Audit, RP!Audit,
         R!Recovered, RP!Recovered, R!Active, RP!Active, R!Repairable, RP!Repairable,
         R!Before, RP!Before, R!Selection, RP!Selection, R!Failed, RP!Failed, R!Kinds, RP!Kinds,
         R!Begin, RP!Begin, R!Answer, RP!Answer, R!Insert, RP!Insert, R!Lock, RP!Lock,
         R!Release, RP!Release, R!Rollback, RP!Rollback, R!Select, RP!Select, R!Create, RP!Create,
         R!Break, RP!Break, R!Cardinality, RP!Cardinality
<1> QED BY <1>1, <1>2

LEMMA RepairsHold ==
    ASSUME RP!IInv
    PROVE  R!TypeOK /\ R!OneRepairUnlessOvertaken /\ R!OneEffectPerKey
<1>1. R!TypeOK
  BY RP!Typed DEF RP!IInv, RP!Types, RP!Tasks, RP!Batches, RP!Statuses, RP!RequestStates, RP!Phases,
                  RP!Requests, R!Requests, RP!Keys, R!Keys, R!TypeOK
<1>2. R!OneRepairUnlessOvertaken
  BY DEF RP!IInv, RP!TasksFit, RP!OneRepairUnlessOvertaken, RP!SameScope, RP!Scheduled, RP!UnderRepair,
         R!OneRepairUnlessOvertaken, R!SameScope, R!Scheduled, R!UnderRepair
<1>3. R!OneEffectPerKey
  BY DEF RP!IInv, RP!TasksFit, RP!KeysApart, RP!AnswersTold, RP!Refused, RP!Requests, RP!BatchesOf,
         RP!SameScope, RP!Scheduled,
         R!OneEffectPerKey, R!Refused, R!Requests, R!BatchesOf, R!SameScope, R!Scheduled
<1> QED BY <1>1, <1>2, <1>3

-----------------------------------------------------------------------------
(* PlanDay.  What is declared of the daily stages.                         *)

LEMMA NamedDay ==
    ASSUME NEW declared
    PROVE  /\ DOMAIN D!Named(declared) = D!Names(declared)
           /\ \A n \in D!Names(declared) :
                D!Named(declared)[n] \in declared /\ D!Named(declared)[n].name = n
BY DEF D!Named, D!Names

\* The APIs that the stages before the last one ask for.
EarlyApis == {"adj_factor", "daily", "fund_daily"} \cup D!LateApis

\* They are declared, once and as daily ones: the last stage has them all.
LEMMA EarlyAreFinal == EarlyApis \subseteq D!FinalApis
<1> DEFINE specs == D!MasterApis \cup D!StockApis \cup D!FundApis \cup D!BoardApis \cup D!HotApis
                   \cup D!ThemeApis \cup D!EventApis \cup D!IndexApis
           OneOf(a) == \E s \in specs : s.name = a
           Daily(a) == \A s \in specs : s.name = a => s.group = "DAILY"
<1>1. \A s \in D!StockApis : s.group = "DAILY"
  BY DEF D!StockApis, D!Daily, D!EmptyAllowed
<1>2. \A s \in D!FundApis : s.group = "DAILY" \/ s.name = "etf_share_size"
  BY DEF D!FundApis, D!Daily, D!OfGroup
<1>3. \A s \in D!BoardApis : s.group = "DAILY" \/ s.name \in {"ths_index", "ths_member"}
  BY DEF D!BoardApis, D!Daily, D!Master
<1>4. \A s \in D!HotApis : s.name \in {"ths_hot", "dc_hot"}
  BY DEF D!HotApis, D!Daily, D!OfGroup
<1>5. \A s \in D!ThemeApis : s.group = "DAILY" \/ s.name = "dc_concept_cons"
  <2>1. \A n, c : D!Daily(n, c).group = "DAILY"
    BY DEF D!Daily
  <2>2. \A n, c, g : D!OfGroup(g, D!EmptyAllowed(D!Daily(n, c))).name = n
    BY DEF D!Daily, D!OfGroup, D!EmptyAllowed
  <2> QED BY <2>1, <2>2 DEF D!ThemeApis
<1>6. \A s \in D!EventApis : s.group = "DAILY"
  BY DEF D!EventApis, D!Daily, D!EmptyAllowed
<1>7. \A s \in D!IndexApis : s.group = "DAILY" \/ s.name \in {"index_basic", "index_weight"}
  BY DEF D!IndexApis, D!Daily, D!Master
<1>8. \A s \in D!MasterApis : s.name \in {"trade_cal", "stock_basic", "stock_company", "etf_basic"}
  BY DEF D!MasterApis, D!Master
<1>9. \A a \in EarlyApis :
        a \notin {"etf_share_size", "ths_index", "ths_member", "ths_hot", "dc_hot", "dc_concept_cons",
                  "index_basic", "index_weight", "trade_cal", "stock_basic", "stock_company", "etf_basic"}
  BY DEF EarlyApis, D!LateApis
<1>10. \A a \in EarlyApis : Daily(a)
  BY <1>1, <1>2, <1>3, <1>4, <1>5, <1>6, <1>7, <1>8, <1>9
<1>11. \A a \in {"daily", "daily_basic", "adj_factor", "stk_limit", "moneyflow", "suspend_d"} :
         \E s \in D!StockApis : s.name = a
  BY DEF D!StockApis, D!Daily, D!EmptyAllowed
<1>12. \A a \in {"fund_daily", "fund_adj"} : \E s \in D!FundApis : s.name = a
  BY DEF D!FundApis, D!Daily, D!OfGroup
<1>13. \A a \in {"ths_daily"} : \E s \in D!BoardApis : s.name = a
  BY DEF D!BoardApis, D!Daily, D!Master
<1>14. \A a \in {"dc_concept"} : \E s \in D!ThemeApis : s.name = a
  BY DEF D!ThemeApis, D!Daily, D!OfGroup, D!EmptyAllowed
<1>15. \A a \in {"top_list", "top_inst", "limit_list_d", "limit_step", "moneyflow_cnt_ths",
                 "moneyflow_ind_ths"} : \E s \in D!EventApis : s.name = a
  BY DEF D!EventApis, D!Daily, D!EmptyAllowed
<1>16. \A a \in {"index_daily", "index_dailybasic"} : \E s \in D!IndexApis : s.name = a
  BY DEF D!IndexApis, D!Daily, D!Master
<1>17. \A a \in EarlyApis : OneOf(a)
  BY <1>11, <1>12, <1>13, <1>14, <1>15, <1>16 DEF EarlyApis, D!LateApis
<1>18. D!Apis = D!Named(specs)
  BY DEF D!Apis
<1> HIDE DEF specs
<1>19. /\ DOMAIN D!Apis = D!Names(specs)
       /\ \A a \in D!Names(specs) : D!Apis[a] \in specs /\ D!Apis[a].name = a
  BY <1>18, NamedDay
<1>20. \A a \in EarlyApis : a \in DOMAIN D!Apis
  BY <1>17, <1>19 DEF D!Names
<1>21. \A a \in EarlyApis : D!Apis[a].group = "DAILY"
  BY <1>10, <1>19, <1>20
<1> QED BY <1>20, <1>21 DEF D!FinalApis

\* The stages, of which only the last one is final; it has the APIs of all.
LEMMA StagesDeclared ==
    /\ "plan-daily-final" \in D!Jobs
    /\ D!DailyStages["plan-daily-final"].final
    /\ \A j \in D!Jobs :
         /\ D!DailyStages[j].final \in BOOLEAN
         /\ D!DailyStages[j].apis \subseteq D!FinalApis
         /\ D!DailyStages[j].final => D!DailyStages[j].apis = D!FinalApis
<1> DEFINE daily_ ==
        {D!EarlyStage("plan-daily-preopen", D!At(9, 25), "DAILY", {"adj_factor"}),
         D!EarlyStage("plan-daily-close", D!At(16, 10), "DAILY", {"daily", "fund_daily"}),
         D!EarlyStage("plan-daily-late", D!At(17, 30), "DAILY", D!LateApis),
         D!Stage("plan-daily-final", D!At(19, 0), "DAILY", D!FinalApis)}
<1>1. D!DailyStages = D!Named(daily_)
  BY DEF D!DailyStages
<1>2. \A s \in daily_ :
        \/ s.final = TRUE /\ s.apis = D!FinalApis
        \/ s.final = FALSE /\ s.apis \subseteq EarlyApis /\ s.name # "plan-daily-final"
  <2>1. \A n, at, type, apis : D!Stage(n, at, type, apis).final = TRUE
                               /\ D!Stage(n, at, type, apis).apis = apis
    BY DEF D!Stage
  <2>2. \A n, at, type, apis : D!EarlyStage(n, at, type, apis).final = FALSE
                               /\ D!EarlyStage(n, at, type, apis).apis = apis
                               /\ D!EarlyStage(n, at, type, apis).name = n
    BY DEF D!EarlyStage
  <2>3. {"adj_factor"} \subseteq EarlyApis /\ {"daily", "fund_daily"} \subseteq EarlyApis
        /\ D!LateApis \subseteq EarlyApis
    BY DEF EarlyApis
  <2> QED BY <2>1, <2>2, <2>3
<1>3. \E s \in daily_ : s.name = "plan-daily-final"
  BY DEF D!Stage
<1> HIDE DEF daily_
<1>4. /\ D!Jobs = D!Names(daily_)
      /\ \A j \in D!Names(daily_) : D!DailyStages[j] \in daily_ /\ D!DailyStages[j].name = j
  BY <1>1, NamedDay DEF D!Jobs
<1>5. "plan-daily-final" \in D!Jobs
  BY <1>3, <1>4 DEF D!Names
<1> QED BY <1>2, <1>4, <1>5, EarlyAreFinal

\* In what a check may be.
CheckStates == [phase : {"idle", "reading", "sending", "silent", "sent", "failing"},
                status : D!RunStatuses, messages : Nat, passed : BOOLEAN]

RunStates == [phase : {"idle", "planning", "appending", "failing", "done"}, status : D!RunStatuses]

DayTypes ==
    /\ dayClock \in DOMAIN D!Instants
    /\ due \subseteq D!Jobs \cup {D!CheckJob}
    /\ dayCalendar \in {"missing", "open", "closed"}
    /\ batch \in [created : BOOLEAN, apis : SUBSET D!FinalApis, frozen : BOOLEAN,
                  closed : BOOLEAN, planned : BOOLEAN]
    /\ runs \in [D!Jobs -> RunStates]
    /\ enabled \subseteq D!Jobs
    /\ catchup \subseteq D!Jobs \cup {D!CheckJob}
    /\ up \in BOOLEAN
    /\ check \in CheckStates
    /\ dayFaults \in 0 .. MaxFaults

\* What a run has found stays true: an open day, whose batch is there before it appends;
\* a run that is done, or was, has found a calendar. What is closed was frozen.
RunsFound ==
    /\ batch.closed => batch.frozen
    /\ \A j \in D!Jobs :
         /\ runs[j].phase = "appending" => dayCalendar = "open" /\ batch.created
         /\ runs[j].phase = "done" \/ runs[j].status = "SUCCESS" =>
              dayCalendar = "closed" \/ (dayCalendar = "open" /\ batch.created)

\* The last stage is done on an open day only with a frozen plan.
LastFroze ==
    dayCalendar = "open"
    /\ (\/ runs["plan-daily-final"].phase = "done"
        \/ runs["plan-daily-final"].status = "SUCCESS")
    => batch.frozen

\* One message more than faults only while its check is known, or going, to be a success.
MessagesPaid ==
    \/ check.messages <= MaxFaults - dayFaults
    \/ /\ check.messages <= 1 + (MaxFaults - dayFaults)
       /\ \/ check.passed
          \/ check.phase = "sent"
          \/ check.phase = "idle" /\ check.status = "SUCCESS"

\* A check that has passed before is not looking for issues.
LooksOnce == check.phase \in {"sending", "silent", "failing"} => ~check.passed

DayInv ==
    DayTypes /\ D!FrozenPlanComplete /\ RunsFound /\ LastFroze /\ MessagesPaid /\ LooksOnce

LEMMA DayInitHolds ==
    ASSUME D!Init
    PROVE  DayInv
<1>1. "plan-daily-final" \in D!Jobs
  BY StagesDeclared
<1>2. 1 \in DOMAIN D!Instants
  BY DEF D!Instants
<1>3. check \in CheckStates /\ check.messages = 0 /\ check.phase = "idle" /\ ~check.passed
  BY DEF D!Init, CheckStates, D!RunStatuses
<1>4. dayFaults = MaxFaults /\ MaxFaults \in Nat
  BY PlanningAssumption DEF D!Init
<1>5. /\ batch = D!NoBatch
      /\ batch \in [created : BOOLEAN, apis : SUBSET D!FinalApis, frozen : BOOLEAN,
                    closed : BOOLEAN, planned : BOOLEAN]
      /\ ~batch.closed /\ ~batch.frozen
  BY DEF D!Init, D!NoBatch
<1>6. /\ runs \in [D!Jobs -> RunStates]
      /\ \A j \in D!Jobs : runs[j].phase = "idle" /\ runs[j].status = "NONE"
  BY DEF D!Init, D!NoRun, RunStates, D!RunStatuses
<1>7. DayTypes
  BY <1>2, <1>3, <1>4, <1>5, <1>6 DEF D!Init, DayTypes
<1> QED BY <1>1, <1>3, <1>4, <1>5, <1>6, <1>7
        DEF DayInv, D!FrozenPlanComplete, RunsFound, LastFroze, MessagesPaid, LooksOnce

\* A step of the check, of its messages or of the faults keeps the rest.
LEMMA CheckKeeps ==
    ASSUME DayInv, UNCHANGED <<dayClock, dayCalendar, batch, runs, enabled, up>>,
           due' \subseteq D!Jobs \cup {D!CheckJob}, catchup' \subseteq D!Jobs \cup {D!CheckJob},
           check' \in CheckStates, dayFaults' \in 0 .. MaxFaults,
           MessagesPaid', LooksOnce'
    PROVE  DayInv'
BY DEF DayInv, DayTypes, D!FrozenPlanComplete, RunsFound, LastFroze

\* A step of one run: it goes on with what was true, or what it makes true.
LEMMA RunKeeps ==
    ASSUME DayInv, NEW j \in D!Jobs, NEW new \in RunStates, runs' = [runs EXCEPT ![j] = new],
           UNCHANGED <<dayClock, dayCalendar, enabled, up, check, dayFaults>>,
           due' \subseteq D!Jobs \cup {D!CheckJob}, catchup' \subseteq D!Jobs \cup {D!CheckJob},
           batch' \in [created : BOOLEAN, apis : SUBSET D!FinalApis, frozen : BOOLEAN,
                       closed : BOOLEAN, planned : BOOLEAN],
           batch.created => batch'.created, batch.frozen => batch'.frozen,
           batch'.frozen => batch'.apis = D!FinalApis,
           batch'.closed => batch.closed,
           new.phase = "appending" => dayCalendar = "open" /\ batch'.created,
           new.phase = "done" \/ new.status = "SUCCESS" =>
             dayCalendar = "closed" \/ (dayCalendar = "open" /\ batch'.created),
           j = "plan-daily-final" /\ dayCalendar = "open"
             /\ (new.phase = "done" \/ new.status = "SUCCESS") => batch'.frozen
    PROVE  DayInv'
<1>1. runs \in [D!Jobs -> RunStates] /\ "plan-daily-final" \in D!Jobs
  BY StagesDeclared DEF DayInv, DayTypes
<1>2. runs' \in [D!Jobs -> RunStates] /\ \A k \in D!Jobs : runs'[k] = IF k = j THEN new ELSE runs[k]
  BY <1>1
<1>3. DayTypes'
  BY <1>2 DEF DayInv, DayTypes
<1>4. D!FrozenPlanComplete'
  BY DEF D!FrozenPlanComplete
<1>5. RunsFound'
  BY <1>2 DEF DayInv, RunsFound
<1>6. LastFroze'
  BY <1>1, <1>2 DEF DayInv, LastFroze
<1>7. MessagesPaid' /\ LooksOnce'
  BY DEF DayInv, MessagesPaid, LooksOnce
<1> QED BY <1>3, <1>4, <1>5, <1>6, <1>7 DEF DayInv

\* Begin, with nothing else of the batch.
LEMMA BeginRun ==
    ASSUME DayInv, NEW j \in D!Jobs, D!Begin(j),
           UNCHANGED <<dayClock, dayCalendar, batch, enabled, up, check, dayFaults>>,
           due' \subseteq D!Jobs \cup {D!CheckJob}, catchup' \subseteq D!Jobs \cup {D!CheckJob}
    PROVE  DayInv'
<1> DEFINE new == [phase |-> "planning", status |-> "RUNNING"]
<1>1. runs' = [runs EXCEPT ![j] = new]
  BY DEF D!Begin, D!SetRun
<1>2. new \in RunStates /\ new.phase = "planning" /\ new.status = "RUNNING"
  BY DEF RunStates, D!RunStatuses
<1>3. /\ batch \in [created : BOOLEAN, apis : SUBSET D!FinalApis, frozen : BOOLEAN,
                    closed : BOOLEAN, planned : BOOLEAN]
      /\ batch.frozen => batch.apis = D!FinalApis
  BY DEF DayInv, DayTypes, D!FrozenPlanComplete
<1> HIDE DEF new
<1> QED BY <1>1, <1>2, <1>3, RunKeeps

LEMMA PlanKeeps ==
    ASSUME DayInv, NEW j \in D!Jobs, D!Plan(j)
    PROVE  DayInv'
<1> DEFINE new == [phase |-> CASE dayCalendar = "missing" -> "failing"
                               [] dayCalendar = "closed" -> "done"
                               [] dayCalendar = "open" -> "appending", status |-> "RUNNING"]
<1>1. runs' = [runs EXCEPT ![j] = new]
  BY DEF D!Plan, D!SetRun
<1>2. /\ dayCalendar \in {"missing", "open", "closed"}
      /\ batch \in [created : BOOLEAN, apis : SUBSET D!FinalApis, frozen : BOOLEAN,
                    closed : BOOLEAN, planned : BOOLEAN]
      /\ batch.frozen => batch.apis = D!FinalApis
      /\ due \subseteq D!Jobs \cup {D!CheckJob} /\ catchup \subseteq D!Jobs \cup {D!CheckJob}
  BY DEF DayInv, DayTypes, D!FrozenPlanComplete
<1>3. new \in RunStates /\ new.status = "RUNNING"
  BY <1>2 DEF RunStates, D!RunStatuses
<1>4. /\ new.phase = "appending" => dayCalendar = "open"
      /\ new.phase = "done" => dayCalendar = "closed"
  BY <1>2
<1>5. /\ batch' \in [created : BOOLEAN, apis : SUBSET D!FinalApis, frozen : BOOLEAN,
                     closed : BOOLEAN, planned : BOOLEAN]
      /\ batch.created => batch'.created
      /\ dayCalendar = "open" => batch'.created
      /\ batch'.frozen = batch.frozen /\ batch'.apis = batch.apis /\ batch'.closed = batch.closed
  BY <1>2 DEF D!Plan
<1>6. UNCHANGED <<dayClock, due, dayCalendar, enabled, catchup, up, check, dayFaults>>
  BY DEF D!Plan
<1> HIDE DEF new
<1> QED BY <1>1, <1>2, <1>3, <1>4, <1>5, <1>6, RunKeeps

\* A stage that runs after the last one is not refused: the frozen plan has its APIs.
LEMMA NeverRefused ==
    ASSUME DayInv, NEW j \in D!Jobs
    PROVE  batch.frozen => D!DailyStages[j].apis \subseteq batch.apis
BY StagesDeclared DEF DayInv, D!FrozenPlanComplete

LEMMA AppendKeeps ==
    ASSUME DayInv, NEW j \in D!Jobs, D!AppendTasks(j)
    PROVE  DayInv'
<1> DEFINE new == [phase |-> "done", status |-> "RUNNING"]
<1>1. runs' = [runs EXCEPT ![j] = new]
  BY NeverRefused DEF D!AppendTasks, D!SetRun
<1>2. /\ batch \in [created : BOOLEAN, apis : SUBSET D!FinalApis, frozen : BOOLEAN,
                    closed : BOOLEAN, planned : BOOLEAN]
      /\ batch.frozen => batch.apis = D!FinalApis
      /\ batch.closed => batch.frozen
      /\ due \subseteq D!Jobs \cup {D!CheckJob} /\ catchup \subseteq D!Jobs \cup {D!CheckJob}
  BY DEF DayInv, DayTypes, RunsFound, D!FrozenPlanComplete
<1>3. new \in RunStates /\ new.status = "RUNNING" /\ new.phase = "done"
  BY DEF RunStates, D!RunStatuses
<1>4. dayCalendar = "open" /\ batch.created
  <2>1. runs[j].phase = "appending"
    BY DEF D!AppendTasks
  <2> QED BY <2>1 DEF DayInv, RunsFound
<1>5. /\ batch' \in [created : BOOLEAN, apis : SUBSET D!FinalApis, frozen : BOOLEAN,
                     closed : BOOLEAN, planned : BOOLEAN]
      /\ batch'.created /\ batch'.closed = batch.closed
      /\ batch.frozen => batch'.frozen
      /\ batch'.frozen => batch'.apis = D!FinalApis
      /\ D!DailyStages[j].final => batch'.frozen
  <2>1. CASE batch.frozen
    BY <2>1, <1>2, <1>4 DEF D!AppendTasks
  <2>2. CASE ~batch.frozen
    <3>1. batch' = [batch EXCEPT !.apis = @ \cup D!DailyStages[j].apis,
                                 !.frozen = D!DailyStages[j].final]
      BY <2>2 DEF D!AppendTasks
    <3>2. /\ D!DailyStages[j].final \in BOOLEAN /\ D!DailyStages[j].apis \subseteq D!FinalApis
          /\ D!DailyStages[j].final => D!DailyStages[j].apis = D!FinalApis
      BY StagesDeclared
    <3>3. batch.apis \subseteq D!FinalApis
      BY <1>2
    <3> QED BY <2>2, <3>1, <3>2, <3>3, <1>2, <1>4
  <2> QED BY <2>1, <2>2
<1>6. j = "plan-daily-final" => batch'.frozen
  BY <1>5, StagesDeclared
<1>7. UNCHANGED <<dayClock, due, dayCalendar, enabled, catchup, up, check, dayFaults>>
  BY DEF D!AppendTasks
<1> HIDE DEF new
<1> QED BY <1>1, <1>2, <1>3, <1>4, <1>5, <1>6, <1>7, RunKeeps

LEMMA EndKeeps ==
    ASSUME DayInv, NEW j \in D!Jobs, D!End(j)
    PROVE  DayInv'
<1> DEFINE new == [phase |-> "idle", status |-> IF runs[j].phase = "done" THEN "SUCCESS" ELSE "FAILED"]
<1>1. runs' = [runs EXCEPT ![j] = new]
  BY DEF D!End, D!SetRun
<1>2. /\ batch \in [created : BOOLEAN, apis : SUBSET D!FinalApis, frozen : BOOLEAN,
                    closed : BOOLEAN, planned : BOOLEAN]
      /\ batch.frozen => batch.apis = D!FinalApis
      /\ due \subseteq D!Jobs \cup {D!CheckJob} /\ catchup \subseteq D!Jobs \cup {D!CheckJob}
  BY DEF DayInv, DayTypes, D!FrozenPlanComplete
<1>3. new \in RunStates /\ new.phase = "idle" /\ (new.status = "SUCCESS" => runs[j].phase = "done")
  BY DEF RunStates, D!RunStatuses
<1>4. UNCHANGED <<dayClock, due, dayCalendar, batch, enabled, up, check, dayFaults>>
  BY DEF D!End
<1>5. catchup' \subseteq D!Jobs \cup {D!CheckJob}
  BY <1>2 DEF D!End
<1>6. runs[j].phase = "done" =>
        /\ dayCalendar = "closed" \/ (dayCalendar = "open" /\ batch.created)
        /\ j = "plan-daily-final" /\ dayCalendar = "open" => batch.frozen
  BY DEF DayInv, RunsFound, LastFroze
<1> HIDE DEF new
<1> QED BY <1>1, <1>2, <1>3, <1>4, <1>5, <1>6, RunKeeps

\* A check begins; what it knows of an earlier success it keeps.
LEMMA CheckBegins ==
    ASSUME DayInv, D!CheckBegin,
           UNCHANGED <<dayClock, dayCalendar, batch, runs, enabled, up, dayFaults>>,
           due' \subseteq D!Jobs \cup {D!CheckJob}, catchup' \subseteq D!Jobs \cup {D!CheckJob}
    PROVE  DayInv'
<1>1. /\ check \in CheckStates /\ check.phase = "idle" /\ dayFaults \in 0 .. MaxFaults
      /\ check' = [check EXCEPT !.phase = "reading",
                                !.passed = check.passed \/ check.status = "SUCCESS",
                                !.status = "RUNNING"]
  BY DEF D!CheckBegin, DayInv, DayTypes
<1>2. /\ check' \in CheckStates /\ check'.phase = "reading" /\ check'.messages = check.messages
      /\ check'.passed = (check.passed \/ check.status = "SUCCESS")
  BY <1>1 DEF CheckStates, D!RunStatuses
<1>3. MessagesPaid' /\ LooksOnce'
  BY <1>1, <1>2 DEF DayInv, MessagesPaid, LooksOnce
<1> QED BY <1>1, <1>2, <1>3, CheckKeeps

LEMMA CheckReadKeeps ==
    ASSUME DayInv, D!CheckRead
    PROVE  DayInv'
<1> DEFINE phase == CASE check.passed -> "sent" [] ~check.passed /\ D!Issues -> "sending"
                      [] OTHER -> "silent"
<1>1. /\ check \in CheckStates /\ check.phase = "reading" /\ dayFaults \in 0 .. MaxFaults
      /\ check' = [check EXCEPT !.phase = phase, !.status = "RUNNING"]
      /\ due \subseteq D!Jobs \cup {D!CheckJob} /\ catchup \subseteq D!Jobs \cup {D!CheckJob}
      /\ UNCHANGED <<dayClock, due, dayCalendar, batch, runs, enabled, catchup, up, dayFaults>>
  BY DEF D!CheckRead, D!SetCheck, DayInv, DayTypes
<1>2. phase \in {"sent", "sending", "silent"} /\ (check.passed <=> phase = "sent")
  BY <1>1 DEF CheckStates
<1> HIDE DEF phase
<1>3. /\ check' \in CheckStates /\ check'.phase = phase /\ check'.messages = check.messages
      /\ check'.passed = check.passed
  BY <1>1, <1>2 DEF CheckStates, D!RunStatuses
<1>4. MessagesPaid' /\ LooksOnce'
  BY <1>1, <1>2, <1>3 DEF DayInv, MessagesPaid, LooksOnce
<1> QED BY <1>1, <1>3, <1>4, CheckKeeps

LEMMA CheckSendKeeps ==
    ASSUME DayInv, D!CheckSend
    PROVE  DayInv'
<1>1. /\ check \in CheckStates /\ check.phase = "sending" /\ dayFaults \in 0 .. MaxFaults
      /\ due \subseteq D!Jobs \cup {D!CheckJob} /\ catchup \subseteq D!Jobs \cup {D!CheckJob}
      /\ UNCHANGED <<dayClock, due, dayCalendar, batch, runs, enabled, catchup, up>>
      /\ MaxFaults \in Nat
  BY PlanningAssumption DEF D!CheckSend, DayInv, DayTypes
<1>2. ~check.passed /\ check.messages \in Nat /\ check.messages <= MaxFaults - dayFaults
  BY <1>1 DEF DayInv, LooksOnce, MessagesPaid, CheckStates
<1>3. CASE check' = [check EXCEPT !.phase = "sent", !.messages = check.messages + 1] /\ UNCHANGED dayFaults
  <2>0. check.messages + 1 \in Nat
    BY <1>2
  <2>1. check' \in CheckStates /\ check'.phase = "sent" /\ check'.messages = check.messages + 1
    BY <1>1, <1>3, <2>0 DEF CheckStates
  <2>2. MessagesPaid' /\ LooksOnce'
    BY <1>1, <1>2, <1>3, <2>1 DEF MessagesPaid, LooksOnce
  <2> QED BY <1>1, <1>3, <2>1, <2>2, CheckKeeps
<1>4. CASE /\ dayFaults > 0 /\ dayFaults' = dayFaults - 1
           /\ check' = [check EXCEPT !.phase = "failing", !.status = "RUNNING"]
  <2>1. /\ check' \in CheckStates /\ check'.phase = "failing" /\ check'.messages = check.messages
        /\ check'.passed = check.passed
    BY <1>1, <1>4 DEF CheckStates, D!RunStatuses
  <2>2. dayFaults' \in 0 .. MaxFaults /\ MessagesPaid' /\ LooksOnce'
    BY <1>1, <1>2, <1>4, <2>1 DEF MessagesPaid, LooksOnce
  <2> QED BY <1>1, <2>1, <2>2, CheckKeeps
<1> QED BY <1>3, <1>4 DEF D!CheckSend, D!SetCheck

LEMMA CheckEndKeeps ==
    ASSUME DayInv, D!CheckEnd
    PROVE  DayInv'
<1> DEFINE told == IF check.phase = "failing" THEN "FAILED" ELSE "SUCCESS"
<1>1. /\ check \in CheckStates /\ check.phase \in {"silent", "sent", "failing"}
      /\ dayFaults \in 0 .. MaxFaults
      /\ check' = [check EXCEPT !.phase = "idle", !.status = told]
      /\ due \subseteq D!Jobs \cup {D!CheckJob} /\ catchup \subseteq D!Jobs \cup {D!CheckJob}
      /\ UNCHANGED <<dayClock, due, dayCalendar, batch, runs, enabled, catchup, up, dayFaults>>
  BY DEF D!CheckEnd, D!SetCheck, DayInv, DayTypes
<1>2. /\ check' \in CheckStates /\ check'.phase = "idle" /\ check'.messages = check.messages
      /\ check'.passed = check.passed /\ check'.status = told
  BY <1>1 DEF CheckStates, D!RunStatuses
<1>3. MessagesPaid' /\ LooksOnce'
  BY <1>1, <1>2 DEF DayInv, MessagesPaid, LooksOnce
<1> QED BY <1>1, <1>2, <1>3, CheckKeeps

\* The end of a process leaves records; a fault is spent on it.
LEMMA CrashKeeps ==
    ASSUME DayInv, D!Crash
    PROVE  DayInv'
<1>1. /\ check \in CheckStates /\ runs \in [D!Jobs -> RunStates]
      /\ dayFaults \in 0 .. MaxFaults /\ dayFaults > 0 /\ dayFaults' = dayFaults - 1
      /\ runs' = [j \in D!Jobs |-> [runs[j] EXCEPT !.phase = "idle"]]
      /\ check' = [check EXCEPT !.phase = "idle"]
      /\ up' = FALSE /\ due' = {} /\ catchup' = {}
      /\ UNCHANGED <<dayClock, dayCalendar, batch, enabled>>
      /\ MaxFaults \in Nat /\ "plan-daily-final" \in D!Jobs
  BY PlanningAssumption, StagesDeclared DEF D!Crash, DayInv, DayTypes
<1>2. /\ check' \in CheckStates /\ check'.phase = "idle" /\ check'.messages = check.messages
      /\ check.messages \in Nat
  BY <1>1 DEF CheckStates
<1>3. \A j \in D!Jobs : runs'[j] \in RunStates /\ runs'[j].phase = "idle"
                        /\ runs'[j].status = runs[j].status
  <2> SUFFICES ASSUME NEW j \in D!Jobs
               PROVE  runs'[j] \in RunStates /\ runs'[j].phase = "idle" /\ runs'[j].status = runs[j].status
    OBVIOUS
  <2>1. runs[j] \in RunStates /\ runs'[j] = [runs[j] EXCEPT !.phase = "idle"]
    BY <1>1
  <2> QED BY <2>1 DEF RunStates
<1>4. runs' \in [D!Jobs -> RunStates]
  BY <1>1, <1>3
<1>5. DayTypes'
  <2>1. dayFaults' \in 0 .. MaxFaults
    BY <1>1
  <2> QED BY <1>1, <1>2, <1>4, <2>1 DEF DayInv, DayTypes
<1>6. MessagesPaid' /\ LooksOnce'
  BY <1>1, <1>2 DEF DayInv, MessagesPaid, LooksOnce
<1>7. RunsFound' /\ LastFroze'
  BY <1>1, <1>3 DEF DayInv, RunsFound, LastFroze
<1> QED BY <1>1, <1>5, <1>6, <1>7 DEF DayInv, D!FrozenPlanComplete

LEMMA StartKeeps ==
    ASSUME DayInv, D!Start
    PROVE  DayInv'
<1>1. /\ check \in CheckStates /\ runs \in [D!Jobs -> RunStates]
      /\ runs' = [j \in D!Jobs |-> [runs[j] EXCEPT !.status = D!Missed(runs[j].status)]]
      /\ check' = [check EXCEPT !.status = D!Missed(check.status)]
      /\ up' = TRUE
      /\ UNCHANGED <<dayClock, due, dayCalendar, batch, enabled, dayFaults>>
      /\ "plan-daily-final" \in D!Jobs
  BY StagesDeclared DEF D!Start, DayInv, DayTypes
<1>2. catchup' \subseteq D!Jobs \cup {D!CheckJob}
  BY DEF D!Start
<1>3. /\ check' \in CheckStates /\ check'.phase = check.phase /\ check'.messages = check.messages
      /\ check'.passed = check.passed /\ (check.status = "SUCCESS" => check'.status = "SUCCESS")
  BY <1>1 DEF CheckStates, D!Missed, D!RunStatuses
<1>4. \A j \in D!Jobs : runs'[j] \in RunStates /\ runs'[j].phase = runs[j].phase
                        /\ (runs'[j].status = "SUCCESS" => runs[j].status = "SUCCESS")
  <2> SUFFICES ASSUME NEW j \in D!Jobs
               PROVE  runs'[j] \in RunStates /\ runs'[j].phase = runs[j].phase
                        /\ (runs'[j].status = "SUCCESS" => runs[j].status = "SUCCESS")
    OBVIOUS
  <2>1. runs[j] \in RunStates /\ runs'[j] = [runs[j] EXCEPT !.status = D!Missed(runs[j].status)]
    BY <1>1
  <2> QED BY <2>1 DEF RunStates, D!Missed, D!RunStatuses
<1>5. runs' \in [D!Jobs -> RunStates]
  BY <1>1, <1>4
<1>6. DayTypes'
  BY <1>1, <1>2, <1>3, <1>5 DEF DayInv, DayTypes
<1>7. MessagesPaid' /\ LooksOnce'
  BY <1>1, <1>3 DEF DayInv, MessagesPaid, LooksOnce
<1>8. RunsFound' /\ LastFroze'
  BY <1>1, <1>4 DEF DayInv, RunsFound, LastFroze
<1> QED BY <1>1, <1>6, <1>7, <1>8 DEF DayInv, D!FrozenPlanComplete

LEMMA TickKeeps ==
    ASSUME DayInv, D!Tick
    PROVE  DayInv'
<1>1. /\ DayTypes /\ MaxFaults \in Nat
      /\ UNCHANGED <<dayCalendar, batch, runs, enabled, catchup, up, check>>
  BY PlanningAssumption DEF DayInv, D!Tick
<1>2. dayFaults' \in 0 .. MaxFaults /\ dayFaults' <= dayFaults /\ dayFaults \in 0 .. MaxFaults
  BY <1>1 DEF D!Tick, DayTypes
<1>3. dayClock' \in DOMAIN D!Instants
  BY <1>1 DEF D!Tick, DayTypes, D!Instants
<1>4. due' \subseteq D!Jobs \cup {D!CheckJob}
  BY DEF D!Tick, D!Timers
<1>5. DayTypes'
  BY <1>1, <1>2, <1>3, <1>4 DEF DayTypes
<1>6. check.messages \in Nat
  BY <1>1 DEF DayTypes, CheckStates
<1>7. MessagesPaid'
  BY <1>1, <1>2, <1>6 DEF DayInv, MessagesPaid
<1> QED BY <1>1, <1>5, <1>7 DEF DayInv, D!FrozenPlanComplete, RunsFound, LastFroze, LooksOnce

LEMMA DayStepHolds ==
    ASSUME DayInv, [D!Next]_dayVars
    PROVE  DayInv'
<1>0. /\ DayTypes /\ due \subseteq D!Jobs \cup {D!CheckJob} /\ catchup \subseteq D!Jobs \cup {D!CheckJob}
      /\ runs \in [D!Jobs -> RunStates] /\ "plan-daily-final" \in D!Jobs
  BY StagesDeclared DEF DayInv, DayTypes
<1>1. ASSUME D!PublishCalendar PROVE DayInv'
  <2>1. /\ dayCalendar = "missing" /\ dayCalendar' \in {"open", "closed"}
        /\ UNCHANGED <<dayClock, due, batch, runs, enabled, catchup, up, check, dayFaults>>
    BY <1>1 DEF D!PublishCalendar
  <2> QED BY <1>0, <2>1 DEF DayInv, DayTypes, D!FrozenPlanComplete, RunsFound, LastFroze,
                            MessagesPaid, LooksOnce
<1>2. ASSUME D!Advance PROVE DayInv'
  <2>1. /\ batch \in [created : BOOLEAN, apis : SUBSET D!FinalApis, frozen : BOOLEAN,
                      closed : BOOLEAN, planned : BOOLEAN]
        /\ UNCHANGED <<dayClock, due, dayCalendar, runs, enabled, catchup, up, check, dayFaults>>
    BY <1>0, <1>2 DEF D!Advance, DayTypes
  <2>2. /\ batch' \in [created : BOOLEAN, apis : SUBSET D!FinalApis, frozen : BOOLEAN,
                       closed : BOOLEAN, planned : BOOLEAN]
        /\ batch'.created = batch.created /\ batch'.apis = batch.apis /\ batch'.frozen = batch.frozen
        /\ batch'.closed => batch.frozen
    BY <1>2, <2>1 DEF D!Advance, DayInv, RunsFound
  <2> QED BY <2>1, <2>2 DEF DayInv, DayTypes, D!FrozenPlanComplete, RunsFound, LastFroze,
                            MessagesPaid, LooksOnce
<1>3. ASSUME NEW j \in D!Jobs, D!SetEnabled(j) PROVE DayInv'
  BY <1>0, <1>3 DEF D!SetEnabled, DayInv, DayTypes, D!FrozenPlanComplete, RunsFound, LastFroze,
                    MessagesPaid, LooksOnce
<1>4. ASSUME NEW j \in D!Jobs, D!Fire(j) PROVE DayInv'
  <2>1. /\ UNCHANGED <<dayClock, dayCalendar, batch, enabled, catchup, up, check, dayFaults>>
        /\ due' \subseteq D!Jobs \cup {D!CheckJob} /\ catchup' \subseteq D!Jobs \cup {D!CheckJob}
        /\ D!Begin(j) \/ UNCHANGED runs
    BY <1>0, <1>4 DEF D!Fire
  <2>2. CASE D!Begin(j)
    BY <2>1, <2>2, BeginRun
  <2>3. CASE UNCHANGED runs
    BY <2>1, <2>3 DEF DayInv, DayTypes, D!FrozenPlanComplete, RunsFound, LastFroze,
                      MessagesPaid, LooksOnce
  <2> QED BY <2>1, <2>2, <2>3
<1>5. ASSUME NEW j \in D!Jobs, D!Request(j) PROVE DayInv'
  BY <1>0, <1>5, BeginRun DEF D!Request
<1>6. ASSUME D!FireCheck PROVE DayInv'
  BY <1>0, <1>6, CheckBegins DEF D!FireCheck
<1>7. ASSUME NEW j \in D!Jobs \cup {D!CheckJob}, D!CatchUp(j) PROVE DayInv'
  <2>1. /\ UNCHANGED <<dayClock, due, dayCalendar, batch, enabled, up, dayFaults>>
        /\ due' \subseteq D!Jobs \cup {D!CheckJob} /\ catchup' \subseteq D!Jobs \cup {D!CheckJob}
    BY <1>0, <1>7 DEF D!CatchUp
  <2>2. CASE j = D!CheckJob
    BY <1>7, <2>1, <2>2, CheckBegins DEF D!CatchUp
  <2>3. CASE j # D!CheckJob /\ j \in enabled
    BY <1>7, <2>1, <2>3, BeginRun DEF D!CatchUp
  <2>4. CASE j # D!CheckJob /\ j \notin enabled
    BY <1>7, <2>1, <2>4 DEF D!CatchUp, DayInv, DayTypes, D!FrozenPlanComplete, RunsFound, LastFroze,
                            MessagesPaid, LooksOnce
  <2> QED BY <2>2, <2>3, <2>4
<1>8. CASE UNCHANGED dayVars
  BY <1>8 DEF dayVars, DayInv, DayTypes, D!FrozenPlanComplete, RunsFound, LastFroze, MessagesPaid, LooksOnce
<1> QED BY <1>1, <1>2, <1>3, <1>4, <1>5, <1>6, <1>7, <1>8, TickKeeps, CrashKeeps, StartKeeps, PlanKeeps,
           AppendKeeps, EndKeeps, CheckReadKeeps, CheckSendKeeps, CheckEndKeeps DEF D!Next

LEMMA DayHolds ==
    ASSUME DayInv
    PROVE  D!TypeOK /\ D!FrozenPlanComplete /\ D!SuccessMeansFrozen /\ D!FewMessages
<1>1. D!FewMessages
  <2>1. check.messages \in Nat /\ dayFaults \in 0 .. MaxFaults /\ MaxFaults \in Nat
    BY PlanningAssumption DEF DayInv, DayTypes, CheckStates
  <2> QED BY <2>1 DEF DayInv, MessagesPaid, D!FewMessages
<1>2. D!TypeOK
  <2>1. check.messages \in 0 .. MaxFaults + 1
    BY <1>1, PlanningAssumption DEF DayInv, DayTypes, CheckStates, D!FewMessages
  <2> QED BY <2>1 DEF DayInv, DayTypes, CheckStates, RunStates, D!TypeOK
<1>3. D!SuccessMeansFrozen
  BY DEF DayInv, LastFroze, D!SuccessMeansFrozen
<1> QED BY <1>1, <1>2, <1>3 DEF DayInv

\* A run that appends is not refused.
LEMMA DayAccepts ==
    ASSUME DayInv, [D!Next]_dayVars
    PROVE  D!StagesAccepted
<1> SUFFICES ASSUME NEW j \in D!Jobs, runs[j].phase = "appending", runs'[j].phase = "failing"
             PROVE  FALSE
  BY DEF D!StagesAccepted
<1>1. runs \in [D!Jobs -> RunStates]
  BY DEF DayInv, DayTypes
<1>2. runs'[j] # runs[j]
  OBVIOUS
<1>3. PICK k \in D!Jobs : D!Fire(k) \/ D!Request(k) \/ D!Plan(k) \/ D!AppendTasks(k) \/ D!End(k) \/ D!Start
                          \/ D!Crash \/ D!CatchUp(k)
  BY <1>1, <1>2 DEF D!Next, dayVars, D!Tick, D!PublishCalendar, D!Advance, D!SetEnabled, D!FireCheck,
                    D!CheckRead, D!CheckSend, D!CheckEnd, D!CatchUp
<1>4. ~D!Start /\ ~D!Crash
  <2>1. D!Start => runs'[j] = [runs[j] EXCEPT !.status = D!Missed(runs[j].status)]
    BY DEF D!Start
  <2>2. D!Crash => runs'[j] = [runs[j] EXCEPT !.phase = "idle"]
    BY DEF D!Crash
  <2>3. runs[j] \in RunStates
    BY <1>1
  <2> QED BY <2>1, <2>2, <2>3 DEF RunStates
<1>5. j = k
  BY <1>1, <1>2, <1>3, <1>4 DEF D!Fire, D!Request, D!Plan, D!AppendTasks, D!End, D!CatchUp, D!Begin, D!SetRun,
                          D!CheckBegin
<1>6. D!AppendTasks(j)
  BY <1>1, <1>2, <1>3, <1>4, <1>5 DEF D!Fire, D!Request, D!Plan, D!End, D!CatchUp, D!Begin
<1>7. runs' = [runs EXCEPT ![j] = [phase |-> "done", status |-> "RUNNING"]]
  BY <1>6, NeverRefused DEF D!AppendTasks, D!SetRun
<1> QED BY <1>1, <1>7

\* A check that finds nothing found either no day to report or a complete one.
LEMMA DayJustified ==
    ASSUME DayInv, [D!Next]_dayVars
    PROVE  D!JustifiedIfSilent
<1> SUFFICES ASSUME check.phase = "reading", check'.phase = "silent"
             PROVE  \/ dayCalendar = "closed"
                    \/ batch.apis = D!FinalApis /\ batch.closed /\ batch.planned
                    \/ enabled = {} /\ ~batch.created
  BY DEF D!JustifiedIfSilent
<1>1. check \in CheckStates /\ enabled \subseteq D!Jobs
  BY DEF DayInv, DayTypes
<1>2. check' # check
  OBVIOUS
<1>3. D!CheckRead
  BY <1>1, <1>2 DEF D!Next, dayVars, D!Tick, D!PublishCalendar, D!Advance, D!SetEnabled, D!Fire, D!Request,
     D!Plan, D!AppendTasks, D!End, D!FireCheck, D!CheckBegin, D!CheckSend, D!CheckEnd, D!Crash, D!Start,
     D!CatchUp, CheckStates
<1>4. ~D!Issues
  <2>1. D!Issues => check'.phase \in {"sent", "sending"}
    BY <1>1, <1>3 DEF D!CheckRead, D!SetCheck, CheckStates
  <2> QED BY <2>1
<1>5. batch.created => batch.closed /\ batch.planned /\ batch.apis = D!FinalApis
  BY <1>4 DEF D!Issues, DayInv, RunsFound, D!FrozenPlanComplete
<1>6. \A j \in enabled : dayCalendar = "closed" \/ batch.created
  BY <1>1, <1>4 DEF D!Issues, DayInv, RunsFound
<1> QED BY <1>5, <1>6

-----------------------------------------------------------------------------
(* DeferredStages.  The batch of a stage has a key of the stage's own,     *)
(* the same in every round, and is found again under it.                   *)

StageKeys == Nat \X (Commands \cup {"older"}) \X {1, 2}

StageStates ==
    [api : {"ths_member", "dc_concept_cons"}, command : Commands \cup {"older"}, date : Nat,
     since : SUBSET (S!Boards \cup {"market_theme_daily"}), status : {"PENDING", "PLANNED"},
     batch : StageKeys \cup {<<>>}]

BatchStates ==
    [for : Nat, scopes : SUBSET (Codes \cup {"ALL"}), frozen : BOOLEAN,
     status : {"PENDING", "CLOSED", "CANCELLED"}]

LoopStates ==
    [phase : {"idle", "stages", "appending"}, todo : SUBSET Nat,
     marked : UNION {[some -> StageKeys \cup {<<>>}] : some \in SUBSET Nat},
     batch : StageKeys \cup {<<>>}, scopes : SUBSET (Codes \cup {"ALL"})]

StageTypes ==
    /\ stages \in Seq(StageStates)
    /\ codes \subseteq Codes
    /\ stageBatches \in UNION {[keys -> BatchStates] : keys \in SUBSET StageKeys}
    /\ loop \in LoopStates
    /\ loop.todo \cup DOMAIN loop.marked \subseteq DOMAIN stages
    /\ stageFaults \in 0 .. MaxFaults

StagesApart ==
    \A i, j \in DOMAIN stages :
        stages[i].command = stages[j].command /\ stages[i].date = stages[j].date => i = j

KeysOwn ==
    \A b \in DOMAIN stageBatches :
        stageBatches[b].for \in DOMAIN stages /\ b = S!BatchKey(stageBatches[b].for)

\* What a stage is marked with, in the table or in the open round.
Frozen(i, b) == b = S!BatchKey(i) /\ b \in DOMAIN stageBatches /\ stageBatches[b].frozen

MarksFrozen ==
    /\ \A i \in DOMAIN stages : stages[i].batch # <<>> => Frozen(i, stages[i].batch)
    /\ \A i \in DOMAIN loop.marked : loop.marked[i] # <<>> => Frozen(i, loop.marked[i])

Appending ==
    loop.phase = "appending" =>
        /\ loop.todo # {}
        /\ loop.batch = S!BatchKey(S!Current)
        /\ loop.batch \in DOMAIN stageBatches

StageInv ==
    /\ StageTypes
    /\ StagesApart
    /\ KeysOwn
    /\ S!BoardsFirst
    /\ MarksFrozen
    /\ Appending

LEMMA LeastOf ==
    ASSUME NEW T \in SUBSET Nat, IsFiniteSet(T), T # {}
    PROVE  \E m \in T : \A n \in T : m <= n
<1>1. Cardinality(T) \in Nat \ {0}
  BY FS_CardinalityType, FS_EmptySet
<1>2. 1 \in 1 .. Cardinality(T)
  BY <1>1
<1>3. PICK m \in T : Cardinality({k \in T : k < m}) = 1 - 1
  BY <1>2, Numbered
<1>4. IsFiniteSet({k \in T : k < m})
  BY FS_Subset
<1>5. {k \in T : k < m} = {}
  BY <1>3, <1>4, FS_EmptySet
<1>6. \A n \in T : m <= n
  <2> TAKE n \in T
  <2>1. ~(n < m)
    BY <1>5
  <2> QED BY <2>1
<1> QED BY <1>6

LEMMA CurrentIsNext ==
    ASSUME StageTypes, loop.todo # {}
    PROVE  S!Current \in loop.todo /\ S!Current \in DOMAIN stages
<1>1. loop.todo \subseteq DOMAIN stages /\ DOMAIN stages = 1 .. Len(stages) /\ Len(stages) \in Nat
  BY DEF StageTypes
<1>2. IsFiniteSet(DOMAIN stages)
  <2>1. 1 \in Int /\ Len(stages) \in Int
    BY <1>1
  <2> QED BY <1>1, <2>1, FS_Interval
<1>3. loop.todo \in SUBSET Nat /\ IsFiniteSet(loop.todo)
  BY <1>1, <1>2, FS_Subset
<1>4. \E i \in loop.todo : \A j \in loop.todo : i <= j
  BY <1>3, LeastOf
<1>5. S!Current \in loop.todo
  BY <1>4 DEF S!Current
<1> QED BY <1>1, <1>5

\* The keys of two stages differ.
LEMMA KeysApart ==
    ASSUME StageTypes, StagesApart
    PROVE  /\ \A i \in DOMAIN stages : S!BatchKey(i) \in StageKeys
           /\ \A i, j \in DOMAIN stages : S!BatchKey(i) = S!BatchKey(j) => i = j
<1>1. \A i \in DOMAIN stages : stages[i] \in StageStates
  BY DEF StageTypes
<1>2. ASSUME NEW i \in DOMAIN stages PROVE S!BatchKey(i) \in StageKeys
  <2>1. stages[i].date \in Nat /\ stages[i].command \in Commands \cup {"older"}
    BY <1>1 DEF StageStates
  <2> QED BY <2>1 DEF S!BatchKey, StageKeys
<1>3. ASSUME NEW i \in DOMAIN stages, NEW j \in DOMAIN stages, S!BatchKey(i) = S!BatchKey(j) PROVE i = j
  BY <1>3 DEF S!BatchKey, StagesApart
<1> QED BY <1>2, <1>3

LEMMA IdleLoop ==
    /\ S!Idle \in LoopStates /\ S!Idle.todo = {} /\ S!Idle.marked = <<>> /\ DOMAIN S!Idle.marked = {}
    /\ S!Idle.phase = "idle"
<1>1. <<>> \in [{} -> StageKeys \cup {<<>>}] /\ DOMAIN <<>> = {}
  OBVIOUS
<1>2. <<>> \in UNION {[some -> StageKeys \cup {<<>>}] : some \in SUBSET Nat}
  BY <1>1
<1> QED BY <1>1, <1>2 DEF S!Idle, LoopStates

LEMMA StageInitHolds ==
    ASSUME S!Init
    PROVE  StageInv
<1>1. stages \in Seq(StageStates) /\ (\A i, j \in DOMAIN stages : i = j)
      /\ \A i \in DOMAIN stages : stages[i].batch = <<>>
  <2>1. CASE stages = <<>>
    BY <2>1
  <2>2. CASE stages = <<S!Stage("dc_concept_cons", "older", 1)>>
    <3>1. S!Stage("dc_concept_cons", "older", 1) \in StageStates
          /\ S!Stage("dc_concept_cons", "older", 1).batch = <<>>
      BY DEF S!Stage, StageStates
    <3> QED BY <2>2, <3>1
  <2> QED BY <2>1, <2>2 DEF S!Init
<1>2. /\ loop \in LoopStates /\ loop.todo = {} /\ DOMAIN loop.marked = {} /\ loop.phase = "idle"
  BY IdleLoop DEF S!Init
<1>3. /\ stageBatches \in UNION {[keys -> BatchStates] : keys \in SUBSET StageKeys}
      /\ DOMAIN stageBatches = {}
  <2>1. <<>> \in [{} -> BatchStates] /\ DOMAIN <<>> = {}
    OBVIOUS
  <2>2. stageBatches = <<>>
    BY DEF S!Init
  <2> QED BY <2>1, <2>2
<1>4. StageTypes
  <2>1. codes \subseteq Codes /\ stageFaults \in 0 .. MaxFaults
    BY PlanningAssumption DEF S!Init
  <2>2. loop.todo \cup DOMAIN loop.marked \subseteq DOMAIN stages
    BY <1>2
  <2> QED BY <1>1, <1>2, <1>3, <2>1, <2>2 DEF StageTypes
<1> QED BY <1>1, <1>2, <1>3, <1>4 DEF StageInv, StagesApart, KeysOwn, S!BoardsFirst, MarksFrozen, Appending

\* Stages come and go on, under the round that is open: nothing is lost of those there are.
LEMMA StagesGrow ==
    ASSUME StageInv, stages' \in Seq(StageStates), DOMAIN stages \subseteq DOMAIN stages',
           \A i \in DOMAIN stages :
              /\ stages'[i].api = stages[i].api /\ stages'[i].command = stages[i].command
              /\ stages'[i].date = stages[i].date /\ stages[i].since \subseteq stages'[i].since,
           \A i \in DOMAIN stages' :
              stages'[i].batch # <<>> => i \in DOMAIN stages /\ Frozen(i, stages'[i].batch),
           StagesApart', UNCHANGED <<stageBatches, stageFaults>>, codes' \subseteq Codes,
           UNCHANGED loop \/ loop' = S!Idle
    PROVE  StageInv'
<1>1. \A i \in DOMAIN stages : S!BatchKey(i)' = S!BatchKey(i)
  BY DEF S!BatchKey
<1>2. CASE UNCHANGED loop
  <2>1. StageTypes'
    BY <1>2 DEF StageInv, StageTypes
  <2>2. KeysOwn'
    BY <1>1 DEF StageInv, KeysOwn
  <2>3. S!BoardsFirst'
    BY DEF StageInv, S!BoardsFirst, KeysOwn, S!Awaited
  <2>4. loop.marked = loop.marked' /\ \A i \in DOMAIN loop.marked : i \in DOMAIN stages
    BY <1>2 DEF StageInv, StageTypes
  <2>5. MarksFrozen'
    BY <1>1, <2>4 DEF StageInv, MarksFrozen, Frozen
  <2>6. Appending'
    <3>1. loop.phase = "appending" => S!Current \in DOMAIN stages
      BY CurrentIsNext DEF StageInv, Appending
    <3>2. S!Current' = S!Current
      BY <1>2 DEF S!Current
    <3>3. loop.phase = "appending" => S!BatchKey(S!Current)' = S!BatchKey(S!Current)
      BY <3>1, <3>2 DEF S!BatchKey
    <3> QED BY <1>2, <3>3 DEF StageInv, Appending
  <2> QED BY <2>1, <2>2, <2>3, <2>5, <2>6 DEF StageInv
<1>3. CASE loop' = S!Idle
  <2>1. /\ loop' \in LoopStates /\ loop'.todo = {} /\ DOMAIN loop'.marked = {} /\ loop'.phase = "idle"
    BY <1>3, IdleLoop
  <2>2. StageTypes'
    BY <2>1 DEF StageInv, StageTypes
  <2>3. KeysOwn'
    BY <1>1 DEF StageInv, KeysOwn
  <2>4. S!BoardsFirst'
    BY DEF StageInv, S!BoardsFirst, KeysOwn, S!Awaited
  <2>5. MarksFrozen'
    BY <1>1, <2>1 DEF StageInv, MarksFrozen, Frozen
  <2>6. Appending'
    BY <2>1 DEF Appending
  <2> QED BY <2>2, <2>3, <2>4, <2>5, <2>6 DEF StageInv
<1> QED BY <1>2, <1>3

\* The batches change, under a round that goes on.
LEMMA BatchesGrow ==
    ASSUME StageInv, UNCHANGED <<stages, codes>>, stageFaults' \in 0 .. MaxFaults,
           stageBatches' \in UNION {[keys -> BatchStates] : keys \in SUBSET StageKeys},
           DOMAIN stageBatches \subseteq DOMAIN stageBatches',
           \A b \in DOMAIN stageBatches :
              /\ stageBatches'[b].for = stageBatches[b].for
              /\ stageBatches[b].frozen => stageBatches'[b].frozen,
           \A b \in DOMAIN stageBatches' \ DOMAIN stageBatches :
              /\ stageBatches'[b].for \in DOMAIN stages
              /\ b = S!BatchKey(stageBatches'[b].for)
              /\ S!Gate(stageBatches'[b].for),
           loop' \in LoopStates, loop'.todo \cup DOMAIN loop'.marked \subseteq DOMAIN stages,
           \A i \in DOMAIN loop'.marked : loop'.marked[i] # <<>> =>
              \/ i \in DOMAIN loop.marked /\ loop'.marked[i] = loop.marked[i]
              \/ Frozen(i, loop.marked[i])',
           Appending'
    PROVE  StageInv'
<1>1. \A i : S!BatchKey(i)' = S!BatchKey(i)
  BY DEF S!BatchKey
<1>2. StageTypes'
  BY DEF StageInv, StageTypes
<1>3. StagesApart'
  BY DEF StageInv, StagesApart
<1>4. KeysOwn'
  BY <1>1 DEF StageInv, KeysOwn
<1>5. S!BoardsFirst'
  BY DEF StageInv, S!BoardsFirst, S!Awaited, S!Gate
<1>6. \A i, b : Frozen(i, b) => Frozen(i, b)'
  BY <1>1 DEF Frozen
<1>7. MarksFrozen'
  <2>1. \A i \in DOMAIN stages' : stages'[i].batch # <<>> => Frozen(i, stages[i].batch)'
    BY <1>6 DEF StageInv, MarksFrozen
  <2>2. \A i \in DOMAIN loop'.marked : loop'.marked[i] # <<>> => Frozen(i, loop.marked[i])'
    BY <1>6 DEF StageInv, MarksFrozen
  <2> QED BY <2>1, <2>2 DEF MarksFrozen
<1> QED BY <1>2, <1>3, <1>4, <1>5, <1>7 DEF StageInv

LEMMA OrderKeeps ==
    ASSUME StageInv, NEW order \in Commands, S!Order(order)
    PROVE  StageInv'
<1>1. /\ \A i \in DOMAIN stages : stages[i].command # order
      /\ UNCHANGED <<codes, stageBatches, loop, stageFaults>>
      /\ stages \in Seq(StageStates) /\ Len(stages) \in Nat
      /\ \A i \in DOMAIN stages : stages[i] \in StageStates
  BY DEF S!Order, StageInv, StageTypes
<1>2. PICK n \in 1 .. Dates : stages' = stages \o [date \in 1 .. n |-> S!Stage("ths_member", order, date)]
  BY DEF S!Order
<1> DEFINE new == [date \in 1 .. n |-> S!Stage("ths_member", order, date)]
<1>3. \A date \in 1 .. n : /\ new[date] \in StageStates /\ new[date].command = order
                           /\ new[date].date = date /\ new[date].batch = <<>>
  <2> TAKE date \in 1 .. n
  <2>1. date \in Nat
    BY <1>2
  <2>2. new[date] = S!Stage("ths_member", order, date)
    OBVIOUS
  <2> HIDE DEF new
  <2> QED BY <2>1, <2>2 DEF S!Stage, StageStates
<1>4. new \in Seq(StageStates) /\ Len(new) = n /\ n \in Nat
  <2>1. n \in Nat
    BY <1>2
  <2>2. new \in [1 .. n -> StageStates] /\ DOMAIN new = 1 .. n
    BY <1>3
  <2> HIDE DEF new
  <2> QED BY <2>1, <2>2
<1>5. stages' = stages \o new
  BY <1>2
<1> HIDE DEF new
<1>6. /\ stages' \in Seq(StageStates) /\ Len(stages') = Len(stages) + n
      /\ \A i \in 1 .. Len(stages) + n :
            stages'[i] = IF i <= Len(stages) THEN stages[i] ELSE new[i - Len(stages)]
  <2>1. /\ stages \o new \in Seq(StageStates) /\ Len(stages \o new) = Len(stages) + n
        /\ \A i \in 1 .. Len(stages) + n :
              (stages \o new)[i] = IF i <= Len(stages) THEN stages[i] ELSE new[i - Len(stages)]
    BY <1>1, <1>4, ConcatProperties
  <2> QED BY <1>5, <2>1
<1>7. /\ DOMAIN stages = 1 .. Len(stages) /\ DOMAIN stages' = 1 .. Len(stages) + n
      /\ DOMAIN stages \subseteq DOMAIN stages'
  BY <1>1, <1>4, <1>6
<1>8. \A i \in DOMAIN stages : stages'[i] = stages[i]
  BY <1>1, <1>6, <1>7
<1>9. \A i \in DOMAIN stages' \ DOMAIN stages :
        i - Len(stages) \in 1 .. n /\ stages'[i] = new[i - Len(stages)]
  BY <1>1, <1>4, <1>6, <1>7
<1>10. StagesApart'
  <2> SUFFICES ASSUME NEW i \in DOMAIN stages', NEW j \in DOMAIN stages',
                      stages'[i].command = stages'[j].command, stages'[i].date = stages'[j].date
               PROVE  i = j
    BY DEF StagesApart
  <2>1. CASE i \in DOMAIN stages /\ j \in DOMAIN stages
    BY <2>1, <1>8 DEF StageInv, StagesApart
  <2>2. CASE i \notin DOMAIN stages /\ j \notin DOMAIN stages
    <3>1. i - Len(stages) = j - Len(stages)
      BY <2>2, <1>3, <1>9
    <3> QED BY <3>1, <1>1, <1>4, <1>7
  <2>3. CASE i \in DOMAIN stages /\ j \notin DOMAIN stages
    BY <2>3, <1>1, <1>3, <1>8, <1>9
  <2>4. CASE i \notin DOMAIN stages /\ j \in DOMAIN stages
    BY <2>4, <1>1, <1>3, <1>8, <1>9
  <2> QED BY <2>1, <2>2, <2>3, <2>4
<1>11. \A i \in DOMAIN stages' :
         stages'[i].batch # <<>> => i \in DOMAIN stages /\ Frozen(i, stages'[i].batch)
  BY <1>3, <1>8, <1>9 DEF StageInv, MarksFrozen
<1>12. \A i \in DOMAIN stages :
         /\ stages'[i].api = stages[i].api /\ stages'[i].command = stages[i].command
         /\ stages'[i].date = stages[i].date /\ stages[i].since \subseteq stages'[i].since
  BY <1>8
<1>13. codes' \subseteq Codes
  BY <1>1 DEF StageInv, StageTypes
<1> QED BY <1>1, <1>6, <1>7, <1>10, <1>11, <1>12, <1>13, StagesGrow

\* A stage of which only fields change that do not tell it from others.
LEMMA StagesMarked ==
    ASSUME StageInv, DOMAIN stages' = DOMAIN stages,
           \A i \in DOMAIN stages : stages'[i].command = stages[i].command /\ stages'[i].date = stages[i].date
    PROVE  StagesApart'
BY DEF StageInv, StagesApart

LEMMA PublishKeeps ==
    ASSUME StageInv, NEW d \in S!Boards \cup {"market_theme_daily"}, S!Publish(d)
    PROVE  StageInv'
<1>1. /\ stages' = [i \in DOMAIN stages |-> [stages[i] EXCEPT !.since = stages[i].since \cup {d}]]
      /\ UNCHANGED <<stageBatches, loop, stageFaults>> /\ codes' \subseteq Codes
      /\ stages \in Seq(StageStates) /\ DOMAIN stages = 1 .. Len(stages) /\ Len(stages) \in Nat
  BY DEF S!Publish, StageInv, StageTypes
<1>2. ASSUME NEW i \in DOMAIN stages
      PROVE  /\ stages'[i] \in StageStates /\ stages'[i].batch = stages[i].batch
             /\ stages'[i].api = stages[i].api /\ stages'[i].command = stages[i].command
             /\ stages'[i].date = stages[i].date /\ stages[i].since \subseteq stages'[i].since
  <2>1. stages[i] \in StageStates /\ stages'[i] = [stages[i] EXCEPT !.since = stages[i].since \cup {d}]
    BY <1>1
  <2>2. stages[i].since \cup {d} \in SUBSET (S!Boards \cup {"market_theme_daily"})
    BY <2>1 DEF StageStates
  <2> QED BY <2>1, <2>2 DEF StageStates
<1>3. DOMAIN stages' = DOMAIN stages
  BY <1>1
<1>4. stages' \in Seq(StageStates)
  <2>1. stages' \in [1 .. Len(stages) -> StageStates]
    BY <1>1, <1>2
  <2> QED BY <2>1, <1>1
<1>5. StagesApart'
  BY <1>2, <1>3, StagesMarked
<1>6. \A i \in DOMAIN stages' :
         stages'[i].batch # <<>> => i \in DOMAIN stages /\ Frozen(i, stages'[i].batch)
  BY <1>2, <1>3 DEF StageInv, MarksFrozen
<1> QED BY <1>1, <1>2, <1>3, <1>4, <1>5, <1>6, StagesGrow

LEMMA EndRoundKeeps ==
    ASSUME StageInv, S!EndRound
    PROVE  StageInv'
<1>1. /\ stages' = [i \in DOMAIN stages |->
                      IF i \in DOMAIN loop.marked
                      THEN [stages[i] EXCEPT !.status = "PLANNED", !.batch = loop.marked[i]]
                      ELSE stages[i]]
      /\ loop' = S!Idle /\ UNCHANGED <<codes, stageBatches, stageFaults>>
  BY DEF S!EndRound
<1>a. /\ stages \in Seq(StageStates) /\ DOMAIN stages = 1 .. Len(stages) /\ Len(stages) \in Nat
      /\ codes \subseteq Codes
  BY DEF StageInv, StageTypes
<1>2. \A i \in DOMAIN loop.marked : loop.marked[i] \in StageKeys \cup {<<>>}
  BY DEF StageInv, StageTypes, LoopStates
<1>3. ASSUME NEW i \in DOMAIN stages
      PROVE  /\ stages'[i] \in StageStates
             /\ stages'[i].batch # <<>> => Frozen(i, stages'[i].batch)
             /\ stages'[i].api = stages[i].api /\ stages'[i].command = stages[i].command
             /\ stages'[i].date = stages[i].date /\ stages[i].since \subseteq stages'[i].since
  <2>0. stages[i] \in StageStates
    BY <1>a
  <2>1. CASE i \in DOMAIN loop.marked
    <3>1. stages'[i] = [stages[i] EXCEPT !.status = "PLANNED", !.batch = loop.marked[i]]
      BY <1>1, <2>1
    <3>2. stages'[i] \in StageStates /\ stages'[i].batch = loop.marked[i]
          /\ stages'[i].api = stages[i].api /\ stages'[i].command = stages[i].command
          /\ stages'[i].date = stages[i].date /\ stages'[i].since = stages[i].since
      BY <1>2, <2>0, <2>1, <3>1 DEF StageStates
    <3> QED BY <2>1, <3>2 DEF StageInv, MarksFrozen
  <2>2. CASE i \notin DOMAIN loop.marked
    BY <1>1, <2>0, <2>2 DEF StageInv, MarksFrozen
  <2> QED BY <2>1, <2>2
<1>4. DOMAIN stages' = DOMAIN stages
  BY <1>1
<1>5. stages' \in Seq(StageStates)
  <2>1. stages' \in [1 .. Len(stages) -> StageStates]
    BY <1>1, <1>a, <1>3
  <2> QED BY <2>1, <1>a
<1>6. StagesApart'
  BY <1>3, <1>4, StagesMarked
<1>7. \A i \in DOMAIN stages' :
         stages'[i].batch # <<>> => i \in DOMAIN stages /\ Frozen(i, stages'[i].batch)
  BY <1>3, <1>4
<1> QED BY <1>1, <1>a, <1>3, <1>4, <1>5, <1>6, <1>7, StagesGrow

\* The round is over, or lost, or a batch ends: the loop forgets, or keeps what it has.
LEMMA LoopEnds ==
    ASSUME StageInv, UNCHANGED <<stages, codes, stageBatches>>, loop' = S!Idle,
           stageFaults' \in 0 .. MaxFaults
    PROVE  StageInv'
<1>1. Appending'
  BY IdleLoop DEF Appending
<1>2. stageBatches \in UNION {[keys -> BatchStates] : keys \in SUBSET StageKeys}
  BY DEF StageInv, StageTypes
<1> QED BY <1>1, <1>2, IdleLoop, BatchesGrow

LEMMA StartRoundKeeps ==
    ASSUME StageInv, S!StartRound
    PROVE  StageInv'
<1> DEFINE pending == {i \in DOMAIN stages : stages[i].status = "PENDING"}
<1>1. /\ loop' = [S!Idle EXCEPT !.phase = "stages", !.todo = pending]
      /\ UNCHANGED <<stages, codes, stageBatches, stageFaults>>
  BY DEF S!StartRound
<1>2. /\ stages \in Seq(StageStates) /\ stageFaults \in 0 .. MaxFaults
      /\ stageBatches \in UNION {[keys -> BatchStates] : keys \in SUBSET StageKeys}
  BY DEF StageInv, StageTypes
<1>3. pending \subseteq DOMAIN stages /\ pending \subseteq Nat
  BY <1>2
<1> HIDE DEF pending
<1>4. /\ loop' \in LoopStates /\ loop'.phase = "stages" /\ loop'.todo = pending
      /\ loop'.marked = <<>> /\ DOMAIN loop'.marked = {}
  BY <1>1, <1>3, IdleLoop DEF LoopStates
<1>5. Appending'
  BY <1>4 DEF Appending
<1> QED BY <1>1, <1>2, <1>3, <1>4, <1>5, BatchesGrow

\* A mark under its stage.
LEMMA Marked ==
    ASSUME StageTypes, NEW i \in DOMAIN stages, NEW b \in StageKeys \cup {<<>>}
    PROVE  LET marked == S!Keep(loop.marked, i, b)
           IN  /\ marked \in UNION {[some -> StageKeys \cup {<<>>}] : some \in SUBSET Nat}
               /\ DOMAIN marked = DOMAIN loop.marked \cup {i}
               /\ \A j \in DOMAIN loop.marked : marked[j] = loop.marked[j]
               /\ i \notin DOMAIN loop.marked => marked[i] = b
<1>1. /\ loop.marked \in UNION {[some -> StageKeys \cup {<<>>}] : some \in SUBSET Nat}
      /\ i \in Nat
  BY DEF StageTypes, LoopStates
<1>2. PICK some \in SUBSET Nat : loop.marked \in [some -> StageKeys \cup {<<>>}]
  BY <1>1
<1> DEFINE marked == S!Keep(loop.marked, i, b)
<1>3. marked \in [some \cup {i} -> StageKeys \cup {<<>>}]
  BY <1>2 DEF S!Keep
<1>4. some \cup {i} \in SUBSET Nat
  BY <1>1
<1>5. marked \in UNION {[any -> StageKeys \cup {<<>>}] : any \in SUBSET Nat}
  <2> HIDE DEF marked
  <2> QED BY <1>3, <1>4
<1>6. /\ DOMAIN marked = DOMAIN loop.marked \cup {i}
      /\ \A j \in DOMAIN loop.marked : marked[j] = loop.marked[j]
      /\ i \notin DOMAIN loop.marked => marked[i] = b
  BY DEF S!Keep
<1> QED BY <1>5, <1>6

\* A batch under its key.
LEMMA KeptBatch ==
    ASSUME StageTypes, NEW key \in StageKeys, NEW new \in BatchStates
    PROVE  LET kept == S!Keep(stageBatches, key, new)
           IN  /\ kept \in UNION {[keys -> BatchStates] : keys \in SUBSET StageKeys}
               /\ DOMAIN kept = DOMAIN stageBatches \cup {key}
               /\ \A b \in DOMAIN stageBatches : kept[b] = stageBatches[b]
               /\ key \notin DOMAIN stageBatches => kept[key] = new
<1>1. stageBatches \in UNION {[keys -> BatchStates] : keys \in SUBSET StageKeys}
  BY DEF StageTypes
<1>2. PICK keys \in SUBSET StageKeys : stageBatches \in [keys -> BatchStates]
  BY <1>1
<1> DEFINE kept == S!Keep(stageBatches, key, new)
<1>3. kept \in [keys \cup {key} -> BatchStates]
  BY <1>2 DEF S!Keep
<1>4. keys \cup {key} \in SUBSET StageKeys
  OBVIOUS
<1>5. kept \in UNION {[any -> BatchStates] : any \in SUBSET StageKeys}
  <2> HIDE DEF kept
  <2> QED BY <1>3, <1>4
<1>6. /\ DOMAIN kept = DOMAIN stageBatches \cup {key}
      /\ \A b \in DOMAIN stageBatches : kept[b] = stageBatches[b]
      /\ key \notin DOMAIN stageBatches => kept[key] = new
  BY DEF S!Keep
<1> QED BY <1>5, <1>6

\* A stage is passed over, given up, or has its batch created or found.
LEMMA VisitKeeps ==
    ASSUME StageInv, S!Visit
    PROVE  StageInv'
<1> DEFINE i == S!Current
<1>1. /\ StageTypes /\ StagesApart /\ loop \in LoopStates /\ loop.todo # {} /\ loop.todo \in SUBSET Nat
      /\ loop.phase = "stages"
      /\ UNCHANGED <<stages, codes, stageFaults>>
      /\ stageBatches \in UNION {[keys -> BatchStates] : keys \in SUBSET StageKeys}
      /\ stageFaults \in 0 .. MaxFaults
      /\ loop.todo \cup DOMAIN loop.marked \subseteq DOMAIN stages
  BY DEF S!Visit, StageInv, StageTypes, LoopStates
<1>2. i \in loop.todo /\ i \in DOMAIN stages
  BY <1>1, CurrentIsNext
<1>3. stages[i] \in StageStates /\ i \in Nat
  BY <1>1, <1>2 DEF StageTypes
<1>4. /\ S!BatchKey(i) \in StageKeys
      /\ \A j, k \in DOMAIN stages : S!BatchKey(j) = S!BatchKey(k) => j = k
  BY <1>1, <1>2, KeysApart
<1>5. S!Scopes(i) \in SUBSET (Codes \cup {"ALL"})
  BY <1>1 DEF S!Scopes, StageTypes
<1>6. S!Current' = CHOOSE j \in loop'.todo : \A k \in loop'.todo : j <= k
  BY DEF S!Current
<1>7. i = CHOOSE j \in loop.todo : \A k \in loop.todo : j <= k
  BY DEF S!Current
<1>8. CASE /\ loop' = [loop EXCEPT !.todo = loop.todo \ {i}]
           /\ UNCHANGED stageBatches
  <2> HIDE DEF i
  <2>1. /\ loop' \in LoopStates /\ loop'.phase = "stages" /\ loop'.todo = loop.todo \ {i}
        /\ loop'.marked = loop.marked
    BY <1>1, <1>8 DEF LoopStates
  <2>2. Appending'
    BY <2>1 DEF Appending
  <2>3. loop'.todo \cup DOMAIN loop'.marked \subseteq DOMAIN stages
    BY <1>1, <2>1
  <2> QED BY <1>1, <1>8, <2>1, <2>2, <2>3, BatchesGrow
<1>9. CASE /\ loop' = [loop EXCEPT !.todo = loop.todo \ {i}, !.marked = S!Keep(loop.marked, i, <<>>)]
           /\ UNCHANGED stageBatches
  <2> HIDE DEF i
  <2> DEFINE marked == S!Keep(loop.marked, i, <<>>)
  <2>1. /\ marked \in UNION {[some -> StageKeys \cup {<<>>}] : some \in SUBSET Nat}
        /\ DOMAIN marked = DOMAIN loop.marked \cup {i}
        /\ \A j \in DOMAIN loop.marked : marked[j] = loop.marked[j]
        /\ i \notin DOMAIN loop.marked => marked[i] = <<>>
    BY <1>1, <1>2, Marked
  <2>2. loop' = [loop EXCEPT !.todo = loop.todo \ {i}, !.marked = marked]
    BY <1>9
  <2> HIDE DEF marked
  <2>3. /\ loop' \in LoopStates /\ loop'.phase = "stages" /\ loop'.todo = loop.todo \ {i}
        /\ loop'.marked = marked
    BY <1>1, <2>1, <2>2 DEF LoopStates
  <2>4. Appending'
    BY <2>3 DEF Appending
  <2>5. loop'.todo \cup DOMAIN loop'.marked \subseteq DOMAIN stages
    BY <1>1, <1>2, <2>1, <2>3
  <2>6. \A j \in DOMAIN loop'.marked : loop'.marked[j] # <<>> =>
           j \in DOMAIN loop.marked /\ loop'.marked[j] = loop.marked[j]
    BY <2>1, <2>3
  <2> QED BY <1>1, <1>9, <2>3, <2>4, <2>5, <2>6, BatchesGrow
<1>10. ASSUME S!Gate(i),
              loop' = [loop EXCEPT !.phase = "appending", !.batch = S!BatchKey(i),
                                   !.scopes = S!Scopes(i)],
              stageBatches' = S!Keep(stageBatches, S!BatchKey(i),
                                     [for |-> i, scopes |-> {}, frozen |-> FALSE, status |-> "PENDING"])
       PROVE  StageInv'
  <2> DEFINE new == [for |-> i, scopes |-> {}, frozen |-> FALSE, status |-> "PENDING"]
             key == S!BatchKey(i)
  <2>1. new \in BatchStates /\ new.for = i
    BY <1>3 DEF BatchStates
  <2>2. key \in StageKeys /\ stageBatches' = S!Keep(stageBatches, key, new)
    BY <1>4, <1>10
  <2> HIDE DEF new, key
  <2>3. /\ stageBatches' \in UNION {[keys -> BatchStates] : keys \in SUBSET StageKeys}
        /\ DOMAIN stageBatches' = DOMAIN stageBatches \cup {key}
        /\ \A b \in DOMAIN stageBatches : stageBatches'[b] = stageBatches[b]
        /\ key \notin DOMAIN stageBatches => stageBatches'[key] = new
    BY <1>1, <2>1, <2>2, KeptBatch
  <2>4. /\ loop' \in LoopStates /\ loop'.phase = "appending" /\ loop'.todo = loop.todo
        /\ loop'.marked = loop.marked /\ loop'.batch = key
    BY <1>1, <1>4, <1>5, <1>10 DEF LoopStates, key
  <2>5. S!Current' = S!Current
    BY <1>6, <1>7, <2>4
  <2>6. S!BatchKey(S!Current)' = key
    BY <1>1, <2>5 DEF S!BatchKey, key
  <2>7. Appending'
    BY <1>1, <2>3, <2>4, <2>6 DEF Appending
  <2>8. \A b \in DOMAIN stageBatches' \ DOMAIN stageBatches :
           /\ stageBatches'[b].for \in DOMAIN stages
           /\ b = S!BatchKey(stageBatches'[b].for)
           /\ S!Gate(stageBatches'[b].for)
    BY <1>2, <1>10, <2>1, <2>3 DEF key
  <2> HIDE DEF i
  <2> QED BY <1>1, <2>3, <2>4, <2>7, <2>8, BatchesGrow
<1> QED BY <1>8, <1>9, <1>10 DEF S!Visit, S!Skipped

\* What is found under the key of a stage is the batch of the stage.
LEMMA OwnBatch ==
    ASSUME StageInv, loop.phase = "appending"
    PROVE  /\ S!Current \in loop.todo /\ S!Current \in DOMAIN stages
           /\ loop.batch = S!BatchKey(S!Current) /\ loop.batch \in DOMAIN stageBatches
           /\ stageBatches[loop.batch].for = S!Current
<1>1. S!Current \in loop.todo /\ S!Current \in DOMAIN stages
  BY CurrentIsNext DEF StageInv, Appending
<1>2. loop.batch = S!BatchKey(S!Current) /\ loop.batch \in DOMAIN stageBatches
  BY DEF StageInv, Appending
<1>3. \A j, k \in DOMAIN stages : S!BatchKey(j) = S!BatchKey(k) => j = k
  BY KeysApart DEF StageInv
<1> QED BY <1>1, <1>2, <1>3 DEF StageInv, KeysOwn

LEMMA AppendTasksKeeps ==
    ASSUME StageInv, S!AppendTasks
    PROVE  StageInv'
<1> DEFINE i == S!Current
           b == loop.batch
<1>1. /\ StageTypes /\ loop \in LoopStates /\ loop.todo \in SUBSET Nat /\ loop.phase = "appending"
      /\ UNCHANGED <<stages, codes, stageFaults>>
      /\ stageBatches \in UNION {[keys -> BatchStates] : keys \in SUBSET StageKeys}
      /\ stageFaults \in 0 .. MaxFaults
      /\ loop.todo \cup DOMAIN loop.marked \subseteq DOMAIN stages
  BY DEF S!AppendTasks, StageInv, StageTypes, LoopStates
<1>2. /\ i \in loop.todo /\ i \in DOMAIN stages /\ b = S!BatchKey(i) /\ b \in DOMAIN stageBatches
      /\ stageBatches[b].for = i
  BY <1>1, OwnBatch
<1>3. PICK keys \in SUBSET StageKeys : stageBatches \in [keys -> BatchStates]
  BY <1>1
<1>4. stageBatches[b] \in BatchStates /\ b \in StageKeys /\ loop.scopes \in SUBSET (Codes \cup {"ALL"})
  BY <1>1, <1>2, <1>3 DEF LoopStates
<1>5. CASE loop' = S!Idle /\ UNCHANGED stageBatches
  BY <1>1, <1>5, LoopEnds
<1>6. CASE /\ stageBatches' = [stageBatches EXCEPT ![b].scopes = stageBatches[b].scopes \cup loop.scopes,
                                                   ![b].frozen = TRUE]
           /\ loop' = [loop EXCEPT !.phase = "stages", !.todo = loop.todo \ {i},
                                   !.marked = S!Keep(loop.marked, i, b), !.batch = <<>>,
                                   !.scopes = {}]
  <2> DEFINE marked == S!Keep(loop.marked, i, b)
  <2>1. /\ marked \in UNION {[some -> StageKeys \cup {<<>>}] : some \in SUBSET Nat}
        /\ DOMAIN marked = DOMAIN loop.marked \cup {i}
        /\ \A j \in DOMAIN loop.marked : marked[j] = loop.marked[j]
        /\ i \notin DOMAIN loop.marked => marked[i] = b
    BY <1>1, <1>2, <1>4, Marked
  <2>2. loop' = [loop EXCEPT !.phase = "stages", !.todo = loop.todo \ {i}, !.marked = marked,
                             !.batch = <<>>, !.scopes = {}]
    BY <1>6
  <2> HIDE DEF marked, i
  <2>3. /\ loop' \in LoopStates /\ loop'.phase = "stages" /\ loop'.todo = loop.todo \ {i}
        /\ loop'.marked = marked
    BY <1>1, <2>1, <2>2 DEF LoopStates
  <2>4. Appending'
    BY <2>3 DEF Appending
  <2>5. loop'.todo \cup DOMAIN loop'.marked \subseteq DOMAIN stages
    BY <1>1, <1>2, <2>1, <2>3
  <2>6. /\ stageBatches' \in [keys -> BatchStates]
        /\ DOMAIN stageBatches' = DOMAIN stageBatches
        /\ \A c \in DOMAIN stageBatches :
              /\ stageBatches'[c].for = stageBatches[c].for
              /\ stageBatches[c].frozen => stageBatches'[c].frozen
        /\ stageBatches'[b].frozen
    <3> HIDE DEF b
    <3>1. stageBatches[b].scopes \cup loop.scopes \in SUBSET (Codes \cup {"ALL"})
      BY <1>4 DEF BatchStates
    <3>2. \A c \in keys \ {b} : stageBatches'[c] = stageBatches[c]
      BY <1>3, <1>6 DEF b
    <3>3. stageBatches'[b] = [for |-> stageBatches[b].for, scopes |-> stageBatches[b].scopes \cup loop.scopes,
                              frozen |-> TRUE, status |-> stageBatches[b].status]
      BY <1>2, <1>3, <1>4, <1>6 DEF BatchStates, b
    <3>4. stageBatches'[b] \in BatchStates
      BY <1>4, <3>1, <3>3 DEF BatchStates
    <3>5. DOMAIN stageBatches' = keys /\ DOMAIN stageBatches = keys
      BY <1>3, <1>6
    <3>6. stageBatches' \in [keys -> BatchStates]
      BY <1>3, <1>6, <3>2, <3>4, <3>5
    <3> QED BY <3>2, <3>3, <3>5, <3>6
  <2>7. stageBatches' \in UNION {[any -> BatchStates] : any \in SUBSET StageKeys}
    BY <2>6
  <2>8. ASSUME NEW j \in DOMAIN loop'.marked, loop'.marked[j] # <<>>
        PROVE  \/ j \in DOMAIN loop.marked /\ loop'.marked[j] = loop.marked[j]
               \/ Frozen(j, loop.marked[j])'
    <3>1. S!BatchKey(j)' = S!BatchKey(j)
      BY <1>1 DEF S!BatchKey
    <3>2. CASE j \in DOMAIN loop.marked
      BY <2>1, <2>3, <3>2
    <3>3. CASE j \notin DOMAIN loop.marked
      <4>1. j = i /\ loop'.marked[j] = b
        BY <2>1, <2>3, <3>3
      <4>2. loop'.marked[j] = S!BatchKey(j)' /\ b \in DOMAIN stageBatches' /\ stageBatches'[b].frozen
        BY <1>2, <2>6, <3>1, <4>1
      <4> QED BY <4>1, <4>2 DEF Frozen
    <3> QED BY <3>2, <3>3
  <2>9. DOMAIN stageBatches \subseteq DOMAIN stageBatches' /\ DOMAIN stageBatches' \ DOMAIN stageBatches = {}
    BY <2>6
  <2> QED BY <1>1, <2>3, <2>4, <2>5, <2>6, <2>7, <2>8, <2>9, BatchesGrow
<1> QED BY <1>5, <1>6 DEF S!AppendTasks

\* A batch is closed or cancelled.
LEMMA BatchEnds ==
    ASSUME StageInv, NEW b \in DOMAIN stageBatches, NEW ending \in {"CLOSED", "CANCELLED"},
           stageBatches' = [stageBatches EXCEPT ![b].status = ending],
           UNCHANGED <<stages, codes, loop>>, stageFaults' \in 0 .. MaxFaults
    PROVE  StageInv'
<1>1. PICK keys \in SUBSET StageKeys : stageBatches \in [keys -> BatchStates]
  BY DEF StageInv, StageTypes
<1>2. stageBatches[b] \in BatchStates /\ stageBatches'[b] = [stageBatches[b] EXCEPT !.status = ending]
  BY <1>1
<1>3. /\ stageBatches'[b] \in BatchStates /\ stageBatches'[b].for = stageBatches[b].for
      /\ stageBatches'[b].frozen = stageBatches[b].frozen
  BY <1>2 DEF BatchStates
<1>4. stageBatches' \in [keys -> BatchStates] /\ DOMAIN stageBatches' = DOMAIN stageBatches
  BY <1>1, <1>3
<1>5. \A c \in DOMAIN stageBatches :
         stageBatches'[c].for = stageBatches[c].for /\ stageBatches'[c].frozen = stageBatches[c].frozen
  BY <1>1, <1>3
<1>6. stageBatches' \in UNION {[any -> BatchStates] : any \in SUBSET StageKeys}
  BY <1>4
<1>7. loop' = loop /\ loop \in LoopStates /\ loop.todo \cup DOMAIN loop.marked \subseteq DOMAIN stages
  BY DEF StageInv, StageTypes
<1>8. Appending'
  <2>1. S!Current' = S!Current
    BY DEF S!Current
  <2>2. S!BatchKey(S!Current)' = S!BatchKey(S!Current)
    BY <2>1 DEF S!BatchKey
  <2> QED BY <1>4, <1>7, <2>2 DEF StageInv, Appending
<1> QED BY <1>4, <1>5, <1>6, <1>7, <1>8, BatchesGrow

LEMMA StageStepHolds ==
    ASSUME StageInv, [S!Next]_stageVars
    PROVE  StageInv'
<1>0. stageFaults \in 0 .. MaxFaults /\ MaxFaults \in Nat
  BY PlanningAssumption DEF StageInv, StageTypes
<1>1. ASSUME S!LoseRound PROVE StageInv'
  BY <1>0, <1>1, LoopEnds DEF S!LoseRound
<1>2. ASSUME NEW b \in DOMAIN stageBatches, S!Close(b) \/ S!Cancel(b) PROVE StageInv'
  BY <1>0, <1>2, BatchEnds DEF S!Close, S!Cancel
<1>3. CASE UNCHANGED stageVars
  <2>1. S!Current' = S!Current
    BY <1>3 DEF stageVars, S!Current
  <2>2. \A i : S!BatchKey(i)' = S!BatchKey(i)
    BY <1>3 DEF stageVars, S!BatchKey
  <2>3. S!BatchKey(S!Current)' = S!BatchKey(S!Current)
    BY <1>3, <2>1 DEF stageVars, S!BatchKey
  <2> QED BY <1>3, <2>2, <2>3 DEF stageVars, StageInv, StageTypes, StagesApart, KeysOwn, S!BoardsFirst,
             S!Awaited, MarksFrozen, Frozen, Appending
<1> QED BY <1>1, <1>2, <1>3, OrderKeeps, PublishKeeps, StartRoundKeeps, VisitKeeps, AppendTasksKeeps,
           EndRoundKeeps DEF S!Next

LEMMA StagesHold ==
    ASSUME StageInv
    PROVE  S!TypeOK /\ S!OneBatchPerStage /\ S!BoardsFirst /\ S!MarkedIsPlanned
<1>1. S!OneBatchPerStage
  BY DEF StageInv, KeysOwn, S!OneBatchPerStage
<1>2. S!MarkedIsPlanned
  <2> SUFFICES ASSUME NEW i \in DOMAIN stages, stages[i].batch # <<>>
               PROVE  /\ stageBatches[stages[i].batch].for = i
                      /\ stageBatches[stages[i].batch].frozen
    BY DEF S!MarkedIsPlanned
  <2>1. Frozen(i, stages[i].batch)
    BY DEF StageInv, MarksFrozen
  <2>2. \A j, k \in DOMAIN stages : S!BatchKey(j) = S!BatchKey(k) => j = k
    BY KeysApart DEF StageInv
  <2> QED BY <2>1, <2>2 DEF Frozen, StageInv, KeysOwn
<1>3. S!TypeOK
  <2>1. \A i \in DOMAIN stages : stages[i] \in StageStates
    BY DEF StageInv, StageTypes
  <2>2. \A b \in DOMAIN stageBatches : stageBatches[b] \in BatchStates
    BY DEF StageInv, StageTypes
  <2>3. \A i \in DOMAIN stages : stages[i].batch \in {<<>>} \cup DOMAIN stageBatches
    BY DEF StageInv, MarksFrozen, Frozen
  <2>4. /\ codes \subseteq Codes /\ loop.phase \in {"idle", "stages", "appending"}
        /\ loop.todo \cup DOMAIN loop.marked \subseteq DOMAIN stages
        /\ stageFaults \in 0 .. MaxFaults
    BY DEF StageInv, StageTypes, LoopStates
  <2> QED BY <2>1, <2>2, <2>3, <2>4 DEF StageStates, BatchStates, S!TypeOK
<1> QED BY <1>1, <1>2, <1>3 DEF StageInv

-----------------------------------------------------------------------------
(* The parts together.                                                     *)

\* A step is one of the part that is drawn; the task of RetryPolicy only steps in its own.
LEMMA PartSteps ==
    ASSUME [PlanningNext]_all
    PROVE  /\ part' = part
           /\ [Next]_vars
           /\ part = "plan_day" => [D!Next]_dayVars
           /\ part = "deferred" => [S!Next]_stageVars
           /\ part = "repair" => [R!Next]_repairVars
           /\ part = "manual" => [M!Next]_manualVars
BY DEF PlanningNext, all

TwiceInv ==
    /\ part = "repair" => RP!IInv
    /\ part = "manual" => ManualInv

\* Whatever the commands, and however they overlap with one another, with the planner and with
\* the executor: a logical task has a second repair under way only if what that repairs was
\* scheduled no earlier than the first, a key has one effect, and of two recoveries that
\* collect an API of a day the later one had read its state before the other committed.
THEOREM CommandsCollectOnce == PlanningSpec => []NothingTwice
<1>1. PlanningInit => TwiceInv
  BY ManualInitHolds, RepairsAgree, RepairsBounded, RP!InitInv DEF PlanningInit, TwiceInv
<1>2. TwiceInv /\ [PlanningNext]_all => TwiceInv'
  BY PartSteps, ManualStepHolds, RepairsAgree, RepairsBounded, RP!StepInv DEF TwiceInv
<1>3. TwiceInv => NothingTwice
  BY ManualTyped, RepairsHold DEF TwiceInv, NothingTwice, ManualInv
<1> QED BY <1>1, <1>2, <1>3, PTL DEF PlanningSpec

\* The task of RetryPolicy is tried as in its own specification, and rests beside the others.
THEOREM AttemptsAreUsedAmongOthers == PlanningSpec => []AttemptsUsedInTime
<1>1. PlanningInit => IInv
  BY InitHolds DEF PlanningInit, Resting
<1>2. IInv /\ [PlanningNext]_all => IInv'
  BY PartSteps, StepHolds
<1>3. IInv => AttemptsUsedInTime
  BY DEF IInv
<1> QED BY <1>1, <1>2, <1>3, PTL DEF PlanningSpec

OrderInv ==
    /\ part = "plan_day" => DayInv
    /\ part = "deferred" => StageInv

\* Of the day: in whatever order its stages run, are repeated or missed, a frozen plan has
\* every daily API, the record of the last stage tells the truth of it, and there is one
\* message and one for each fault. Of the deferred stages: each has one batch however many
\* rounds are lost, planned after its boards are published, and is marked with a frozen one.
THEOREM PlansComeInOrder == PlanningSpec => []PlansInOrder
<1>1. PlanningInit => OrderInv
  BY DayInitHolds, StageInitHolds DEF PlanningInit, OrderInv
<1>2. OrderInv /\ [PlanningNext]_all => OrderInv'
  BY PartSteps, DayStepHolds, StageStepHolds DEF OrderInv
<1>3. OrderInv => PlansInOrder
  BY DayHolds, StagesHold DEF OrderInv, PlansInOrder
<1> QED BY <1>1, <1>2, <1>3, PTL DEF PlanningSpec

\* No step of a day, of a repair or of a recovery passes over a stage, missing data or a
\* failure: a stage is never refused, a silent check is right, a repair of everything takes
\* every failure that is idle, and a recovery has all the datasets made again that its days
\* miss.
THEOREM NothingIsPassedOver == PlanningSpec => NothingLeftOut
<1> DEFINE None_ ==
        /\ part = "plan_day" => D!StagesAccepted /\ D!JustifiedIfSilent
        /\ part = "repair" => R!NoneLeftOut
        /\ part = "manual" => M!CoveredIfRecovered
<1>1. PlanningInit => OrderInv /\ TwiceInv
  BY DayInitHolds, StageInitHolds, ManualInitHolds, RepairsAgree, RepairsBounded, RP!InitInv
     DEF PlanningInit, OrderInv, TwiceInv
<1>2. OrderInv /\ TwiceInv /\ [PlanningNext]_all => OrderInv' /\ TwiceInv'
  BY PartSteps, DayStepHolds, StageStepHolds, ManualStepHolds, RepairsAgree, RepairsBounded, RP!StepInv
     DEF OrderInv, TwiceInv
<1>3. OrderInv /\ TwiceInv /\ [PlanningNext]_all => [None_]_all
  <2> SUFFICES ASSUME OrderInv, TwiceInv, PlanningNext PROVE [None_]_all
    OBVIOUS
  <2>1. part = "plan_day" => D!StagesAccepted /\ D!JustifiedIfSilent
    BY PartSteps, DayAccepts, DayJustified DEF OrderInv
  <2>2. part = "repair" => R!NoneLeftOut \/ UNCHANGED repairVars
    <3>1. part = "repair" => RP!NoneLeftOut \/ UNCHANGED RP!vars
      BY PartSteps, RepairsAgree, RepairsBounded, RP!StepNoneLeftOut DEF TwiceInv
    <3> QED BY <3>1 DEF R!NoneLeftOut, RP!NoneLeftOut, R!Requests, RP!Requests, R!SameScope, RP!SameScope,
               RP!vars, repairVars
  <2>3. part = "manual" => M!CoveredIfRecovered
    BY PartSteps, RecoveryCovers DEF TwiceInv
  <2>4. CASE part = "repair" /\ UNCHANGED repairVars
    <3>1. UNCHANGED all
      BY <2>4 DEF PlanningNext, all
    <3> QED BY <3>1
  <2> QED BY <2>1, <2>2, <2>3, <2>4
<1>4. [](OrderInv /\ TwiceInv) /\ [][PlanningNext]_all => [][None_]_all
  <2> HIDE DEF None_
  <2> QED BY <1>3, PTL
<1>5. NothingLeftOut <=> [][None_]_all
  BY DEF NothingLeftOut
<1> HIDE DEF None_
<1> QED BY <1>1, <1>2, <1>4, <1>5, PTL DEF PlanningSpec
=============================================================================
