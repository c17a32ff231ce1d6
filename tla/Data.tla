--------------------------------- MODULE Data ---------------------------------
(***************************************************************************)
(* What becomes of the data: how they are asked for, stored, saved,        *)
(* checked, published and read, each for itself.  A behaviour is one of a  *)
(* single part, which is drawn at the start; the variables of the other    *)
(* parts are None.  Those of two parts that have one name are told apart   *)
(* by a prefix.                                                            *)
(***************************************************************************)
EXTENDS AssetStore, Integers

CONSTANTS
    Files, MaxBackups, BackupFaults,                            \* Backup
    Threads, Limited, Unlimited, All, Every, MaxAttempts, Wait, Horizon,    \* ProviderCalls
    MaxKeys, Limit, MaxChanges,                                 \* Paging
    Codes, Days, SecondMonth, MaxTasks, MaxRows, Families,      \* Publication
    Main, Lost, Beijing, Gone,                                  \* RowQuality
    StockCodes, Times, Amounts, KeyRows,                        \* RowRules
    Tables, PartitionDates, MonthsAhead, Years, MaxSteps,       \* BusinessDates
    Dates, TradeDays, FirstDays, Topics                         \* MarketQuery

VARIABLES
    part,       \* the part that is drawn
    db, disk, root, backups, job, backupFaults,
    callClock, next, call, sent,
    offsets, source, pageRows, last, pageOutcome, before, changes,
    family, masters, tableRows, tasks, publicationClock, themes,
    stocks, quality, qualityRows,
    input, output,
    partitions, promised, calendar, steps,
    tool, releases, names, snapshots, toolCall

B == INSTANCE Backup WITH faults <- backupFaults, MaxFaults <- BackupFaults
C == INSTANCE ProviderCalls WITH clock <- callClock
G == INSTANCE Paging WITH rows <- pageRows, outcome <- pageOutcome
P == INSTANCE Publication WITH rows <- tableRows, clock <- publicationClock
U == INSTANCE RowQuality WITH day <- stocks, outcome <- quality, written <- qualityRows
L == INSTANCE RowRules WITH Codes <- StockCodes, MaxRows <- KeyRows
N == INSTANCE BusinessDates WITH Dates <- PartitionDates
Q == INSTANCE MarketQuery WITH call <- toolCall

backupVars == <<db, disk, root, backups, job, backupFaults>>
callVars == <<callClock, next, call, sent>>
pagingVars == <<offsets, source, pageRows, last, pageOutcome, before, changes>>
publicationVars == <<family, masters, tableRows, tasks, publicationClock, themes>>
checkVars == <<stocks, quality, qualityRows, input, output>>
dateVars == <<partitions, promised, calendar, steps>>
queryVars == <<tool, releases, names, snapshots, toolCall>>

all == <<part, vars, backupVars, callVars, pagingVars, publicationVars, checkVars, dateVars,
         queryVars>>

ASSUME DataAssumption ==
    /\ None \notin Files \cup {"tmp", "part", "whole", "rotten", "backup", "restore"}
    /\ "tmp" \notin Files /\ BackupFaults \in Nat
    /\ MaxAttempts \in Nat \ {0} /\ Wait \in Nat /\ Horizon \in Nat
    /\ All \notin Limited \cup Unlimited /\ Every \in [Limited \cup {All} -> Nat]
    /\ None \notin Limited \cup Unlimited /\ None \notin Nat
    /\ None \notin {"sealed", "empty", "DUPLICATE_NATURAL_KEY", "RESULT_MAY_BE_TRUNCATED"}
    /\ MaxKeys \in Nat /\ Limit \in Nat \ {0} /\ MaxChanges \in Nat
    /\ MaxTasks \in Nat
    /\ \A f \in Families :
          /\ f \subseteq DOMAIN P!Rules
          /\ "market_theme_member_daily" \in f => "market_theme_daily" \in f
    /\ PartitionDates \subseteq [year : Nat, month : 1 .. 12, day : Nat \ {0}]
    /\ MonthsAhead \in Nat /\ MaxSteps \in Nat
    /\ Dates \subseteq Nat /\ \E n \in Dates : Dates = 1 .. n
    /\ TradeDays \subseteq Dates /\ FirstDays \subseteq Dates
    /\ None \notin {"answered", "not_ready", "first", "of_the_day"}
    /\ Main \cup Lost \cup Beijing \subseteq Nat
    /\ Gone \subseteq [U!Kinds -> Nat]
    /\ Times \subseteq Int /\ KeyRows \in Nat
    /\ Amounts \subseteq [cents : Int, places : Int] /\ None \notin Amounts
    /\ \A a, b \in Amounts : a.cents = b.cents => a = b
    /\ None # {} /\ \A row \in L!Coded \cup L!Listed : None # {row}

-----------------------------------------------------------------------------
Parts == {"assets", "backup", "calls", "paging", "publication", "quality", "rules", "dates",
          "queries"}

NoBackup ==
    db = None /\ disk = None /\ root = None /\ backups = None /\ job = None /\ backupFaults = None

NoCalls == callClock = None /\ next = None /\ call = None /\ sent = None

NoPaging ==
    /\ offsets = None /\ source = None /\ pageRows = None /\ last = None /\ pageOutcome = None
    /\ before = None /\ changes = None

NoPublication ==
    /\ family = None /\ masters = None /\ tableRows = None /\ tasks = None
    /\ publicationClock = None /\ themes = None

NoDates == partitions = None /\ promised = None /\ calendar = None /\ steps = None

NoQueries ==
    tool = None /\ releases = None /\ names = None /\ snapshots = None /\ toolCall = None

DataInit ==
    /\ part \in Parts
    /\ Init
    /\ IF part = "backup" THEN B!Init ELSE NoBackup
    /\ IF part = "calls" THEN C!Init ELSE NoCalls
    /\ IF part = "paging" THEN G!Init ELSE NoPaging
    /\ IF part = "publication" THEN P!Init ELSE NoPublication
    /\ IF part = "quality" THEN U!Init ELSE stocks = None /\ quality = None /\ qualityRows = None
    /\ IF part = "rules" THEN L!Init ELSE input = None /\ output = None
    /\ IF part = "dates" THEN N!Init ELSE NoDates
    /\ IF part = "queries" THEN Q!Init ELSE NoQueries

\* A step is one of the part that is drawn.
DataNext ==
    /\ UNCHANGED part
    /\ \/ part = "assets" /\ Next
       \/ part = "backup" /\ B!Next
       \/ part = "calls" /\ C!Next
       \/ part = "paging" /\ G!Next
       \/ part = "publication" /\ P!Next
       \/ part = "quality" /\ U!Next /\ UNCHANGED <<input, output>>
       \/ part = "rules" /\ L!Next /\ UNCHANGED <<stocks, quality, qualityRows>>
       \/ part = "dates" /\ N!Next
       \/ part = "queries" /\ Q!Next
    /\ part # "assets" => UNCHANGED vars
    /\ part # "backup" => UNCHANGED backupVars
    /\ part # "calls" => UNCHANGED callVars
    /\ part # "paging" => UNCHANGED pagingVars
    /\ part # "publication" => UNCHANGED publicationVars
    /\ part \notin {"quality", "rules"} => UNCHANGED checkVars
    /\ part # "dates" => UNCHANGED dateVars
    /\ part # "queries" => UNCHANGED queryVars

DataSpec == DataInit /\ [][DataNext]_all

-----------------------------------------------------------------------------
(* The properties of the parts; the modules state each of the conjuncts.   *)
(* AssetsKept and LiveLeftAlone are those of AssetStore.                   *)

\* The files of registered assets are there, and in the backups of them.
\* - Outside a restore the assets of the database name files that are there.
\* - A backup can be restored, over however many earlier ones its files are spread.
\* - A restore gives all of the backup or leaves all as it was, whichever step of it fails.
FilesKept ==
    /\ [](part = "backup" => B!TypeOK /\ B!AssetsThere /\ B!ChainHolds)
    /\ [][part = "backup" => B!BeforeOrAfter]_all

\* The provider is asked within its budgets and read to the end.
\* - Requests keep the distance of their budgets, in whatever order threads reserve and
\*   wake.
\* - A sealed result is the whole table, though rows came while it was paged.
SourceRead ==
    /\ part = "calls" => C!TypeOK /\ C!BudgetsKept
    /\ part = "paging" => G!TypeOK /\ G!NothingMissed

\* The published tables are consistent, whatever is published beside.
\* - Every published row finds its codes in the master tables.
\* - The rows of a scope are those of one publication.
\* - Pruning by a parent's time that was read earlier keeps the latest themes.
\* - A date that was promised has exactly one partition.
\* - The calendar has whole years of both exchanges.
TablesConsistent ==
    /\ part = "publication" => P!TypeOK /\ P!RowsHaveMasters /\ P!OneWritePerScope /\ P!LatestThemesKept
    /\ part = "dates" => N!TypeOK /\ N!OnePartitionForDate /\ N!YearsWhole

\* What is kept of a day and of repeated rows is right, in whatever order they come.
\* - The figures of Beijing never keep a day from being published.
\* - No stock is published with the figures of the day before.
\* - A segment that is not late is not taken for late.
\* - A day that is published has lost few of the stocks that the master has.
\* - The row under the present code of a stock is the one that stays.
\* - The latest complete snapshot of a hot list is found again among the rows of a day.
\* - What one of two rows of a key knows is kept, and the most precise amount.
\* - Rows of a key that are far apart are refused, and those that are all close are not.
RowsChecked ==
    /\ part = "quality" =>
            /\ U!TypeOK /\ U!BeijingNeverBlocks /\ U!NothingOfYesterday
            /\ U!TodayKept /\ U!FewLost
    /\ part = "rules" =>
            /\ L!TypeOK /\ L!PresentCodeWins /\ L!LatestWholeSnapshot
            /\ L!NothingKnownLost /\ L!ApartOut

\* Answers are of released and of the newest data, and are what was asked for, though
\* it is published beside.
\* - An answer is of a day for which all it shows is released.
\* - An answer is not of an older day than the newest that was complete.
\* - A topic that is taken is the only one that matches so well.
\* - The constituents are not later than asked for, and of a released month.
AnswersSound ==
    /\ [](part = "queries" => Q!TypeOK /\ Q!NothingUnpublished /\ Q!NewestComplete)
    /\ [][part = "queries" => Q!OnlyMatch /\ Q!PickedWell]_all
=============================================================================
