----------------------------- MODULE ProviderCalls -----------------------------
(***************************************************************************)
(* The requests that task threads make of the provider: each one takes a   *)
(* slot of its endpoint's limiter, if it has one, then a slot of the       *)
(* limiter all share, sleeps until then, is sent, and is made again after  *)
(* a network error.  A limiter gives its slots under its lock; the threads *)
(* sleep outside it and may oversleep.                                     *)
(***************************************************************************)
EXTENDS Integers, FiniteSets

CONSTANTS
    Threads,
    Limited,        \* APIs with a budget of their own
    Unlimited,      \* other APIs
    All,            \* name of the limiter that all requests share
    Every,          \* [Limited \cup {All} -> ticks between two slots], window / requests
    MaxAttempts,    \* tushare_max_attempts
    Wait,           \* ticks before a retry
    Horizon,        \* bound of the clock
    None

VARIABLES
    clock,
    next,       \* [limiter -> _next_request_at]
    call,       \* [thread -> its query]
    sent        \* history: the requests that reached the provider

vars == <<clock, next, call, sent>>

Apis == Limited \cup Unlimited
Limiters == Limited \cup {All}
Idle == [step |-> "idle", api |-> None, own |-> None, slot |-> None, tries |-> 0]

TypeOK ==
    /\ clock \in 0 .. Horizon
    /\ next \in [Limiters -> Nat]
    /\ \A t \in Threads :
         /\ call[t].step \in {"idle", "reserve own", "sleep own", "reserve", "sleep", "sent", "wait"}
         /\ call[t].api \in Apis \cup {None}
         /\ call[t].tries \in 0 .. MaxAttempts
    /\ \A s \in sent : s.at \in 0 .. Horizon

Init ==
    /\ clock = 0
    /\ next = [l \in Limiters |-> 0]
    /\ call = [t \in Threads |-> Idle]
    /\ sent = {}

Tick ==
    /\ clock < Horizon
    /\ clock' = clock + 1
    /\ UNCHANGED <<next, call, sent>>

\* What request() does first.
Begin(api) == IF api \in Limited THEN "reserve own" ELSE "reserve"

Query(t, api) ==
    /\ call[t] = Idle
    /\ call' = [call EXCEPT ![t] = [Idle EXCEPT !.step = Begin(api), !.api = api, !.tries = 1]]
    /\ UNCHANGED <<clock, next, sent>>

\* Variant: slots nobody took are kept for later.
AdvanceCredit(l, slot) == next[l] + Every[l]

Advance(l, slot) == slot + Every[l]

\* acquire, as far as the lock.
Slot(l) == IF clock > next[l] THEN clock ELSE next[l]
Reserve(l) == next' = [next EXCEPT ![l] = Advance(l, Slot(l))]

ReserveOwn(t) ==
    /\ call[t].step = "reserve own"
    /\ Reserve(call[t].api)
    /\ call' = [call EXCEPT ![t].step = "sleep own", ![t].own = Slot(call[t].api)]
    /\ UNCHANGED <<clock, sent>>

SleptOwn(t) ==
    /\ call[t].step = "sleep own"
    /\ clock >= call[t].own
    /\ call' = [call EXCEPT ![t].step = "reserve"]
    /\ UNCHANGED <<clock, next, sent>>

ReserveShared(t) ==
    /\ call[t].step = "reserve"
    /\ Reserve(All)
    /\ call' = [call EXCEPT ![t].step = "sleep", ![t].slot = Slot(All)]
    /\ UNCHANGED <<clock, sent>>

\* The sleep is over and the request goes out.
Send(t) ==
    /\ call[t].step = "sleep"
    /\ clock >= call[t].slot
    /\ call' = [call EXCEPT ![t].step = "sent"]
    /\ sent' = sent \cup {[by |-> t, try |-> call[t].tries, api |-> call[t].api,
                           own |-> call[t].own, slot |-> call[t].slot, at |-> clock]}
    /\ UNCHANGED <<clock, next>>

\* A table, or an error that is not retried.
Answered(t) ==
    /\ call[t].step = "sent"
    /\ call' = [call EXCEPT ![t] = Idle]
    /\ UNCHANGED <<clock, next, sent>>

\* A network error; the last one fails the query.
NetworkError(t) ==
    /\ call[t].step = "sent"
    /\ call' = [call EXCEPT ![t] =
                  IF call[t].tries = MaxAttempts THEN Idle
                  ELSE [call[t] EXCEPT !.step = "wait", !.tries = @ + 1]]
    /\ UNCHANGED <<clock, next, sent>>

\* request() from the start.
Retried(t) == [call[t] EXCEPT !.step = Begin(call[t].api), !.own = None, !.slot = None]

Retry(t) ==
    /\ call[t].step = "wait"
    /\ clock >= call[t].slot + Wait
    /\ call' = [call EXCEPT ![t] = Retried(t)]
    /\ UNCHANGED <<clock, next, sent>>

Next ==
    \/ Tick
    \/ \E t \in Threads :
        \/ \E api \in Apis : Query(t, api)
        \/ ReserveOwn(t) \/ SleptOwn(t) \/ ReserveShared(t) \/ Send(t)
        \/ Answered(t) \/ NetworkError(t) \/ Retry(t)

Spec == Init /\ [][Next]_vars

-----------------------------------------------------------------------------
(* Properties.                                                             *)

Apart(requests, slot(_), every) ==
    \A r, s \in requests : r # s => slot(r) - slot(s) >= every \/ slot(s) - slot(r) >= every

Shared(r) == r.slot
Own(r) == r.own

\* Every physical request, retries too, has slots of its own in the limiters it is subject
\* to, as far apart as the budgets say, whatever order the threads reserve and wake in, and
\* is not sent before them.
BudgetsKept ==
    /\ Apart(sent, Shared, Every[All])
    /\ \A api \in Limited : Apart({r \in sent : r.api = api}, Own, Every[api])
    /\ \A r \in sent : r.at >= r.slot /\ (r.api \in Limited => r.slot >= r.own)
=============================================================================
