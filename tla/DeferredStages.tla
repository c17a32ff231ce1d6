---------------------------- MODULE DeferredStages ----------------------------
(***************************************************************************)
(* Board members are asked for board by board, so an order for them waits  *)
(* until the boards it also orders are published. The order leaves a       *)
(* PENDING stage per date; a job, after each processing plan, plans a      *)
(* frozen batch for every stage whose boards were published since. One     *)
(* transaction holds the marks of all stages of a round, but the planner   *)
(* commits each batch in transactions of its own.                          *)
(***************************************************************************)
EXTENDS Naturals, FiniteSets, Sequences

CONSTANTS
    Commands,       \* orders of an administrator; each has a creation time of its own
    Dates,          \* bound: the business dates of an order are 1 .. n, n <= Dates
    Codes,          \* codes of boards
    MaxFaults       \* bound: lost transactions, processes that die, cancelled batches

VARIABLES
    stages,     \* deferred_collection_stage, by creation
    codes,      \* the codes of the published boards
    batches,    \* [scheduled_at -> collection_batch], of those planned for stages
    loop,       \* the running round: its stages, those it marked, the open plan
    faults      \* faults still to come

vars == <<stages, codes, batches, loop, faults>>

Boards == {"concept_board", "theme_index"}

\* What a stage waits for. No command makes a dc_concept_cons stage any more, but older
\* versions left some.
Awaited(stage) == IF stage.api = "ths_member" THEN Boards ELSE {"market_theme_daily"}

Stage(api, command, date) ==
    [api |-> api, command |-> command, date |-> date, since |-> {}, status |-> "PENDING",
     batch |-> <<>>]

\* A mark or a batch under its key; what is there already stays.
Keep(f, key, value) == [k \in DOMAIN f \cup {key} |-> IF k \in DOMAIN f THEN f[k] ELSE value]

Idle == [phase |-> "idle", todo |-> {}, marked |-> <<>>, batch |-> <<>>, scopes |-> {}]

TypeOK ==
    /\ \A i \in DOMAIN stages :
         /\ stages[i].since \subseteq Boards \cup {"market_theme_daily"}
         /\ stages[i].status \in {"PENDING", "PLANNED"}
         /\ stages[i].batch \in {<<>>} \cup DOMAIN batches
    /\ codes \subseteq Codes
    /\ \A b \in DOMAIN batches :
         /\ batches[b].scopes \subseteq Codes \cup {"ALL"}
         /\ batches[b].status \in {"PENDING", "CLOSED", "CANCELLED"}
    /\ loop.phase \in {"idle", "stages", "appending"}
    /\ loop.todo \cup DOMAIN loop.marked \subseteq DOMAIN stages
    /\ faults \in 0 .. MaxFaults

\* Perhaps a stage of an older version.
Init ==
    /\ stages \in {<<>>, <<Stage("dc_concept_cons", "older", 1)>>}
    /\ codes = {}
    /\ batches = <<>>
    /\ loop = Idle
    /\ faults = MaxFaults

\* An order with ths_index, or without published boards: one transaction adds a stage for
\* every date.
Order(command) ==
    /\ \A i \in DOMAIN stages : stages[i].command # command
    /\ \E n \in 1 .. Dates :
         stages' = stages \o [date \in 1 .. n |-> Stage("ths_member", command, date)]
    /\ UNCHANGED <<codes, batches, loop, faults>>

\* A release is published; those of boards bring their codes, which may come and go.
Publish(dataset) ==
    /\ stages' = [i \in DOMAIN stages |-> [stages[i] EXCEPT !.since = @ \cup {dataset}]]
    /\ codes' \in IF dataset \in Boards THEN SUBSET Codes ELSE {codes}
    /\ UNCHANGED <<batches, loop, faults>>

-----------------------------------------------------------------------------
(* A round of plan_deferred_collection_stages.                             *)

StartRound ==
    /\ loop.phase = "idle"
    /\ loop' = [Idle EXCEPT !.phase = "stages",
                            !.todo = {i \in DOMAIN stages : stages[i].status = "PENDING"}]
    /\ loop'.todo # {}
    /\ UNCHANGED <<stages, codes, batches, faults>>

Current == CHOOSE i \in loop.todo : \A j \in loop.todo : i <= j

\* published_at >= created_at of the stage.
Gate(i) == Awaited(stages[i]) \subseteq stages[i].since

\* The creation time of the stage and an offset: the same in every round, and different
\* from that of the order's own batch.
BatchKey(i) ==
    <<stages[i].date, stages[i].command, IF stages[i].api = "dc_concept_cons" THEN 1 ELSE 2>>

Scopes(i) == IF stages[i].api = "dc_concept_cons" THEN {"ALL"} ELSE codes

\* Variant: a stage that waits ends the round.
SkippedAll(i) == {}

\* What a round still has to visit after a stage that must wait.
Skipped(i) == loop.todo \ {i}

\* The first half of one stage: wait, give up for want of codes, or create the batch.
Visit ==
    /\ loop.phase = "stages"
    /\ loop.todo # {}
    /\ LET i == Current
       IN  CASE ~Gate(i) ->
                    /\ loop' = [loop EXCEPT !.todo = Skipped(i)]
                    /\ UNCHANGED batches
             [] Gate(i) /\ Scopes(i) = {} ->
                    /\ loop' = [loop EXCEPT !.todo = @ \ {i}, !.marked = Keep(@, i, <<>>)]
                    /\ UNCHANGED batches
             [] OTHER ->
                    /\ loop' = [loop EXCEPT !.phase = "appending", !.batch = BatchKey(i),
                                            !.scopes = Scopes(i)]
                    /\ batches' = Keep(batches, BatchKey(i),
                                       [for |-> i, scopes |-> {}, frozen |-> FALSE,
                                        status |-> "PENDING"])
    /\ UNCHANGED <<stages, codes, faults>>

\* append_tasks refuses a cancelled batch, and new tasks in a frozen or closed one.
Refused(batch) ==
    batch.status = "CANCELLED" \/ (batch.frozen /\ ~(loop.scopes \subseteq batch.scopes))

\* The second half: tasks are added and the plan frozen. An error ends the round, and its
\* transaction with all marks.
AppendTasks ==
    /\ loop.phase = "appending"
    /\ LET i == Current
           b == loop.batch
       IN  IF Refused(batches[b]) THEN loop' = Idle /\ UNCHANGED batches
           ELSE /\ batches' = [batches EXCEPT ![b].scopes = @ \cup loop.scopes,
                                              ![b].frozen = TRUE]
                /\ loop' = [loop EXCEPT !.phase = "stages", !.todo = @ \ {i},
                                        !.marked = Keep(@, i, b), !.batch = <<>>,
                                        !.scopes = {}]
    /\ UNCHANGED <<stages, codes, faults>>

EndRound ==
    /\ loop.phase = "stages"
    /\ loop.todo = {}
    /\ stages' = [i \in DOMAIN stages |->
                    IF i \in DOMAIN loop.marked
                    THEN [stages[i] EXCEPT !.status = "PLANNED", !.batch = loop.marked[i]]
                    ELSE stages[i]]
    /\ loop' = Idle
    /\ UNCHANGED <<codes, batches, faults>>

\* The process dies, or the transaction of the marks is lost.
LoseRound ==
    /\ faults > 0
    /\ loop.phase # "idle"
    /\ loop' = Idle
    /\ faults' = faults - 1
    /\ UNCHANGED <<stages, codes, batches>>

-----------------------------------------------------------------------------
(* The life of a batch.                                                    *)

Close(b) ==
    /\ batches[b].frozen
    /\ batches[b].status = "PENDING"
    /\ batches' = [batches EXCEPT ![b].status = "CLOSED"]
    /\ UNCHANGED <<stages, codes, loop, faults>>

Cancel(b) ==
    /\ faults > 0
    /\ batches[b].status = "PENDING"
    /\ batches' = [batches EXCEPT ![b].status = "CANCELLED"]
    /\ faults' = faults - 1
    /\ UNCHANGED <<stages, codes, loop>>

Next ==
    \/ \E command \in Commands : Order(command)
    \/ \E dataset \in Boards \cup {"market_theme_daily"} : Publish(dataset)
    \/ StartRound \/ Visit \/ AppendTasks \/ EndRound \/ LoseRound
    \/ \E b \in DOMAIN batches : Close(b) \/ Cancel(b)

Round == StartRound \/ Visit \/ AppendTasks \/ EndRound

Spec == Init /\ [][Next]_vars

\* The job of the rounds always comes back.
FairSpec == Spec /\ WF_vars(Round)

-----------------------------------------------------------------------------
(* Properties.                                                             *)

\* Rounds that are lost after the batch was committed and before its stage was marked are
\* repeated without a second batch, and two stages never share one.
OneBatchPerStage ==
    \A b, c \in DOMAIN batches : batches[b].for = batches[c].for => b = c

\* No member is asked for before the boards of the order are published.
BoardsFirst ==
    \A b \in DOMAIN batches :
        LET stage == stages[batches[b].for]
        IN  Awaited(stage) \subseteq stage.since

\* A stage is marked with the batch that was planned for it, and not before the plan is
\* frozen, whatever became of the batch since.
MarkedIsPlanned ==
    \A i \in DOMAIN stages :
        stages[i].batch # <<>> =>
            /\ batches[stages[i].batch].for = i
            /\ batches[stages[i].batch].frozen

\* A stage whose round was lost after its batch and that planning refuses from then on: the
\* batch is cancelled, or boards came up that its frozen plan does not have.
Stuck ==
    \E i \in DOMAIN stages :
        /\ stages[i].status = "PENDING"
        /\ BatchKey(i) \in DOMAIN batches
        /\ LET batch == batches[BatchKey(i)]
           IN  batch.status = "CANCELLED" \/ (batch.frozen /\ ~(Scopes(i) \subseteq batch.scopes))

Published(i) == \E j \in DOMAIN stages \cap {i} : Gate(j)
PlannedOrStuck(i) == Stuck \/ \E j \in DOMAIN stages \cap {i} : stages[j].status = "PLANNED"
MaxStages == Cardinality(Commands) * Dates + 1

\* Every stage whose boards are published is planned in the end, unless a stage is stuck,
\* which ends every round, also for the stages after it.
StagesPlanned == \A i \in 1 .. MaxStages : Published(i) ~> PlannedOrStuck(i)
=============================================================================
