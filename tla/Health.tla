------------------------------- MODULE Health -------------------------------
(***************************************************************************)
(* GET /health, which pings Postgres and Redis at the same time, and the   *)
(* page app/health, which asks it when it is opened, every 30 seconds, and *)
(* when Refresh is pressed.                                                *)
(*                                                                         *)
(* The ping of Redis goes through the connection of the budget check: while*)
(* Redis is away it waits in the offline queue, and the health check with  *)
(* it.  So checks of the page overlap, and each of them writes to the page *)
(* when it ends.  What a check that nobody waits for any more still does   *)
(* is seen by nobody, and such a check is dropped.                         *)
(***************************************************************************)
EXTENDS Naturals, Sequences, SequencesExt

CONSTANTS
    Check,      \* bound: checks of the page that are under way at a time
    MaxChanges, \* bound: changes of what becomes of the two stores
    MaxBreaks,  \* bound: broken connections and crashes of the gateway
    MaxVisits   \* bound: times the page is opened

ASSUME HealthAssumption == MaxChanges \in Nat /\ MaxBreaks \in Nat /\ MaxVisits \in Nat

VARIABLES
    store,    \* external: how Postgres and Redis answer at the moment
    request,  \* the page's requests: "none", "sent", "pinging", or "broken"
    ping,     \* the handler's two pings: "none", "waiting", or a status
    queue,    \* Redis commands not yet answered, which are so in their order
    mounted,  \* is the page open?
    loading,  \* its state, ...
    health,   \* ... and the report it has, or NoHealth
    seen,     \* history: the statuses each store has had since a request was sent
    shown,    \* history: the same of the request whose report the page has
    changes, breaks, visits

pageVars    == <<mounted, loading, health, visits>>
gatewayVars == <<request, ping, queue>>
healthVars == <<store, gatewayVars, pageVars, seen, shown, changes, breaks>>

Store  == {"postgres", "redis"}
Status == {"connected", "disconnected"}

\* A store that is "disconnected" answers with errors (for Redis: one that
\* cannot write its file refuses PING).  A Redis that is "away" does not answer:
\* ioredis holds the commands back, or sends them again, until it does.
Answers(s) == IF s = "redis" THEN Status \cup {"away"} ELSE Status

\* The page has no report yet: health?.postgres ?? 'disconnected'.
NoHealth == [from |-> "nobody", postgres |-> "disconnected", redis |-> "disconnected"]

\* MOCK_HEALTH, shown when the request fails.
MockHealth == [from |-> "mock", postgres |-> "connected", redis |-> "connected"]

NoPings == [s \in Store |-> "none"]
Nothing == [s \in Store |-> {}]

HealthTypeOK ==
    /\ store \in [Store -> Status \cup {"away"}] /\ store.postgres # "away"
    /\ request \in [Check -> {"none", "sent", "pinging", "broken"}]
    /\ ping \in [Check -> [Store -> Status \cup {"none", "waiting"}]]
    /\ queue \in Seq(Check)
    /\ mounted \in BOOLEAN /\ loading \in BOOLEAN
    /\ health \in [from : {"nobody", "mock", "gateway"}, postgres : Status, redis : Status]
    /\ seen \in [Check -> [Store -> SUBSET (Status \cup {"away"})]]
    /\ shown \in [Store -> SUBSET (Status \cup {"away"})]
    /\ changes \in 0..MaxChanges /\ breaks \in 0..MaxBreaks /\ visits \in 0..MaxVisits

HealthInit ==
    /\ store \in [Store -> Status \cup {"away"}] /\ store.postgres # "away"
    /\ request = [c \in Check |-> "none"]
    /\ ping = [c \in Check |-> NoPings]
    /\ queue = <<>>
    /\ mounted = FALSE /\ loading = TRUE
    /\ health = NoHealth
    /\ seen = [c \in Check |-> Nothing]
    /\ shown = Nothing
    /\ changes = 0 /\ breaks = 0 /\ visits = 0
-----------------------------------------------------------------------------
(***************************************************************************)
(* The page.                                                               *)
(***************************************************************************)
\* Mutant: the page shows that it is checking when it is opened, and only then.
SendQuietly(c) ==
    /\ request[c] = "none"
    /\ request' = [request EXCEPT ![c] = "sent"]
    /\ seen' = [seen EXCEPT ![c] = [s \in Store |-> {store[s]}]]
    /\ loading' = (loading \/ health = NoHealth)
    /\ UNCHANGED <<store, ping, queue, shown, changes, breaks>>

\* check(): the page is loading and sends a request.
Send(c) ==
    /\ request[c] = "none"
    /\ request' = [request EXCEPT ![c] = "sent"]
    /\ seen' = [seen EXCEPT ![c] = [s \in Store |-> {store[s]}]]
    /\ loading' = TRUE
    /\ UNCHANGED <<store, ping, queue, shown, changes, breaks>>

\* The effect: a first check, and the interval.
Open(c) ==
    /\ ~mounted /\ visits < MaxVisits
    /\ mounted' = TRUE
    /\ visits' = visits + 1
    /\ UNCHANGED health
    /\ Send(c)

\* Mutant: the interval is cleared when the first check ends.
PollOnce(c) == mounted /\ health = NoHealth /\ Send(c) /\ UNCHANGED <<mounted, health, visits>>

\* The interval does not ask whether the last check has ended, ...
Poll(c) == mounted /\ Send(c) /\ UNCHANGED <<mounted, health, visits>>

\* ... but the button is disabled while the page is loading.
Refresh(c) == ~loading /\ mounted /\ Send(c) /\ UNCHANGED <<mounted, health, visits>>

\* The cleanup clears the interval; replies no longer find a page to write to,
\* and the page's state is gone.
Leave ==
    /\ mounted
    /\ mounted' = FALSE
    /\ request' = [c \in Check |-> "none"]
    /\ ping' = [c \in Check |-> NoPings]
    /\ queue' = <<>>
    /\ seen' = [c \in Check |-> Nothing]
    /\ loading' = TRUE /\ health' = NoHealth /\ shown' = Nothing
    /\ UNCHANGED <<store, visits, changes, breaks>>

\* What a check leaves on the page, whichever it is, and its end.
Show(c, h) ==
    /\ health' = h
    /\ loading' = FALSE
    /\ shown' = seen[c]
    /\ request' = [request EXCEPT ![c] = "none"]
    /\ ping' = [ping EXCEPT ![c] = NoPings]
    /\ seen' = [seen EXCEPT ![c] = Nothing]
    /\ UNCHANGED <<store, mounted, visits, changes>>

\* Promise.all of the two pings.
BothAnswered(c) == \A s \in Store : ping[c][s] \in Status

\* The handler returns, and its reply arrives.
Arrive(c) ==
    /\ request[c] = "pinging"
    /\ BothAnswered(c)
    /\ Show(c, [from |-> "gateway", postgres |-> ping[c].postgres, redis |-> ping[c].redis])
    /\ UNCHANGED <<queue, breaks>>

\* Nobody waits any more for what Redis will answer c.
Withdraw(c) ==
    \/ c \notin Range(queue) /\ UNCHANGED queue
    \/ \E n \in DOMAIN queue : queue[n] = c /\ queue' = RemoveAt(queue, n)

\* The browser gives up, or does not reach the gateway: the page shows the mock.
FetchFails(c) ==
    /\ request[c] \in {"sent", "pinging"}
    /\ breaks < MaxBreaks
    /\ breaks' = breaks + 1
    /\ Withdraw(c)
    /\ Show(c, MockHealth)

\* A request that the gateway took with it when it crashed.
CrashIsSeen(c) ==
    /\ request[c] = "broken"
    /\ Show(c, MockHealth)
    /\ UNCHANGED <<queue, breaks>>
-----------------------------------------------------------------------------
(***************************************************************************)
(* The gateway and the stores.                                             *)
(***************************************************************************)
stillVars == <<pageVars, seen, shown, changes, breaks>>

\* Mutant: a check takes over what another one under way has already found.
HandleShared(c) ==
    /\ request[c] = "sent"
    /\ request' = [request EXCEPT ![c] = "pinging"]
    /\ ping' = [ping EXCEPT ![c] = [s \in Store |->
                   IF \E d \in Check : ping[d][s] \in Status
                   THEN ping[CHOOSE d \in Check : ping[d][s] \in Status][s] ELSE "waiting"]]
    /\ queue' = IF ping'[c].redis = "waiting" THEN Append(queue, c) ELSE queue
    /\ UNCHANGED <<store, stillVars>>

\* check(): both pings begin.
Handle(c) ==
    /\ request[c] = "sent"
    /\ request' = [request EXCEPT ![c] = "pinging"]
    /\ ping' = [ping EXCEPT ![c] = [s \in Store |-> "waiting"]]
    /\ queue' = Append(queue, c)
    /\ UNCHANGED <<store, stillVars>>

\* checkPostgres: SELECT 1 succeeds or throws.
CheckPostgres(c) ==
    /\ ping[c].postgres = "waiting"
    /\ ping' = [ping EXCEPT ![c].postgres = store.postgres]
    /\ UNCHANGED <<store, request, queue, stillVars>>

\* checkRedis: PONG or an error, for the oldest command first.
CheckRedis ==
    /\ queue # <<>>
    /\ store.redis # "away"
    /\ ping' = [ping EXCEPT ![Head(queue)].redis = store.redis]
    /\ queue' = Tail(queue)
    /\ UNCHANGED <<store, request, stillVars>>

\* Something becomes of a store: it fails, goes away, or is back.
StoreChanges(s, a) ==
    /\ changes < MaxChanges
    /\ a # store[s]
    /\ changes' = changes + 1
    /\ store' = [store EXCEPT ![s] = a]
    /\ seen' = [c \in Check |-> IF request[c] \in {"sent", "pinging"}
                                THEN [seen[c] EXCEPT ![s] = @ \cup {a}] ELSE seen[c]]
    /\ UNCHANGED <<gatewayVars, pageVars, shown, breaks>>

\* The process dies and is started again.
GatewayCrash ==
    /\ breaks < MaxBreaks
    /\ \E c \in Check : request[c] = "pinging"
    /\ breaks' = breaks + 1
    /\ request' = [c \in Check |-> IF request[c] = "pinging" THEN "broken" ELSE request[c]]
    /\ ping' = [c \in Check |-> NoPings]
    /\ queue' = <<>>
    /\ UNCHANGED <<store, pageVars, seen, shown, changes>>
-----------------------------------------------------------------------------
CheckStep(c) == Handle(c) \/ CheckPostgres(c) \/ Arrive(c) \/ CrashIsSeen(c)

User   == Leave \/ \E c \in Check : Open(c) \/ Refresh(c)
Faults == GatewayCrash \/ \E c \in Check : FetchFails(c)

HealthNext ==
    \/ User
    \/ \E c \in Check : Poll(c) \/ CheckStep(c)
    \/ CheckRedis
    \/ \E s \in Store : \E a \in Answers(s) : StoreChanges(s, a)
    \/ Faults

HealthSpec == HealthInit /\ [][HealthNext]_healthVars

\* The interval fires, the gateway works, and stores that answer do so.  A
\* Postgres that is gone is an error in the end; a Redis that is away owes nothing.
HealthFairness ==
    /\ WF_healthVars(\E c \in Check : Poll(c))
    /\ WF_healthVars(CheckRedis)
    /\ \A c \in Check : WF_healthVars(CheckStep(c))

HealthFairSpec == HealthSpec /\ HealthFairness
-----------------------------------------------------------------------------
(***************************************************************************)
(* Properties.                                                             *)
(***************************************************************************)

\* The cards of the page, and its banner.
Card(s) == IF loading THEN "checking" ELSE health[s]
AllOk   == health.from # "nobody" /\ \A s \in Store : health[s] = "connected"
Banner  == IF loading THEN "checking" ELSE IF AllOk THEN "operational" ELSE "degraded"

\* A report of the gateway says of each store what it really was at some moment
\* after the check was sent, over overlapping checks, crashes and a queue of
\* pings that outlives an outage: never what an earlier check has found.
ReportIsReal ==
    health.from = "gateway" => \A s \in Store : health[s] \in shown[s]

StaysOpen(p, r) == <>[](mounted /\ store.postgres = p /\ store.redis = r)

\* If both stores keep answering as they do and no request fails any more
\* (MaxBreaks), the page comes to show it and goes on showing it: no late reply of
\* an overlapping check and no mock stays, and the spinner does not either.
PageConverges ==
    \A p, r \in Status : StaysOpen(p, r) =>
        /\ <>[](Card("postgres") \in {p, "checking"} /\ Card("redis") \in {r, "checking"})
        /\ []<>(Banner = IF p = "connected" /\ r = "connected" THEN "operational" ELSE "degraded")

\* While Redis is away and no request fails, the page claims nothing, not even of
\* Postgres: every check waits, and the page is checking for as long as that lasts.
AwayIsUnknown ==
    (\E p \in Status : StaysOpen(p, "away")) => <>[](Banner = "checking")
=============================================================================
