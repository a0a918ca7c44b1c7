------------------------------ MODULE ActivityCalls ------------------------------
(***************************************************************************)
(* What the activities of one worker process share, and what each of them  *)
(* does before it has its answer: the budget (ratelimit/budget.go), the    *)
(* assumed-role configs (connectors/aws/tenant_auth.go) and the Athena     *)
(* query it waits for (connectors/aws/athena/client.go).                   *)
(*                                                                         *)
(* A call is PlanActions, whose three steps these are; TriageAnomaly takes *)
(* the same three between its other sources.  Activities takes a budget and *)
(* tenant clients (activities.go:45-53); no command of the repository      *)
(* passes it any yet, and this is the process of one that does.            *)
(*                                                                         *)
(* A deadline is kept as the whole units of time that are left until it,   *)
(* which the code compares with its clock; so no bound on time is needed.  *)
(***************************************************************************)
EXTENDS Integers, Sequences, FiniteSetsExt

CONSTANTS
    Slots,              \* the activities a worker runs at a time
    Tenants,            \* tenant ids, each as the parts between its separators
    Roles, NoRole,      \* IAM roles, whose names hold no separator, and a tenant without one
    Regions, NoRegion,  \* regions, and a tenant that names none
    BaseRegion,         \* the region the provider was made with
    Requests,           \* what a call may ask for
    MaxPerWindow, WindowSize,
    SessionDuration, RefreshBefore,
    PollTimeout,        \* athena's pollTimeout
    ActivityTimeout     \* StartToCloseTimeout of the workflow's activities

ASSUME CallsAssumption ==
    /\ IsFiniteSet(Slots)
    /\ Tenants \subseteq Seq(STRING)
    /\ NoRole \notin Roles /\ NoRegion \notin Regions /\ BaseRegion \in Regions
    /\ Requests \subseteq [tenant : Tenants, role : Roles \cup {NoRole},
                           region : Regions \cup {NoRegion}]
    /\ {MaxPerWindow, WindowSize, SessionDuration, RefreshBefore} \subseteq Nat \ {0}
    /\ RefreshBefore < SessionDuration
    /\ {PollTimeout, ActivityTimeout} \subseteq Nat
    /\ ActivityTimeout <= PollTimeout

VARIABLES
    counts,     \* ActivityBudget.counts: the calls in each tenant's window and its end
    recent,     \* how many calls of each tenant were recorded how long ago
    cache,      \* TenantConfigProvider.cache: the config of each key and its expiry
    slot        \* the call each slot is busy with

budgetVars == <<counts, recent>>
callVars == <<budgetVars, cache, slot>>

\* An aws.Config: the tenant and the role of its session and the region it is for.
\* The worker's own is no tenant's.
OwnConfig == [tenant |-> <<>>, role |-> NoRole, region |-> BaseRegion]

Free == [pc |-> "free"]
Call(request) ==
    [pc |-> "check", request |-> request, config |-> OwnConfig,
     closes |-> ActivityTimeout, gives_up |-> 0]
At(s, pc) == slot[s].pc = pc
Request(s) == slot[s].request
Goto(s, pc) == slot' = [slot EXCEPT ![s].pc = pc]
Leave(s) == slot' = [slot EXCEPT ![s] = Free]

\* cacheKey joins the two names with a separator.
KeyOfTenant(r) == r.tenant
Key(r) == Append(r.tenant, r.role)
Keys == {Key(r) : r \in {q \in Requests : q.role # NoRole}}

NoWindow == [count |-> 0, left |-> -1]
NoSession == [config |-> OwnConfig, left |-> 0]
Ages == 0..WindowSize
NoneRecent == [age \in Ages |-> 0]

\* A process starts with nothing in memory.
CallsInit ==
    /\ counts = [t \in Tenants |-> NoWindow]
    /\ recent = [t \in Tenants |-> NoneRecent]
    /\ cache = [k \in Keys |-> NoSession]
    /\ slot = [s \in Slots |-> Free]

\* The process ends and takes the budget, the configs and the calls with it.
Forget ==
    /\ counts' = [t \in Tenants |-> NoWindow]
    /\ recent' = [t \in Tenants |-> NoneRecent]
    /\ cache' = [k \in Keys |-> NoSession]
    /\ slot' = [s \in Slots |-> Free]

Sooner(left) == IF left > 0 THEN left - 1 ELSE left

\* A window that is over and a config that has to be renewed are as good as none.
Tick ==
    /\ counts' = [t \in Tenants |->
          IF counts[t].left > 0 THEN [counts[t] EXCEPT !.left = @ - 1] ELSE NoWindow]
    /\ recent' = [t \in Tenants |->
          [age \in Ages |-> IF age = 0 THEN 0 ELSE recent[t][age - 1]]]
    /\ cache' = [k \in Keys |->
          IF cache[k].left > RefreshBefore + 1 THEN [cache[k] EXCEPT !.left = @ - 1] ELSE NoSession]
    /\ slot' = [s \in Slots |->
          IF At(s, "free") THEN Free
          ELSE [slot[s] EXCEPT !.closes = Sooner(@), !.gives_up = Sooner(@)]]

\* A worker takes a call up.
Begin(s) ==
    /\ At(s, "free")
    /\ \E r \in Requests : slot' = [slot EXCEPT ![s] = Call(r)]
    /\ UNCHANGED <<budgetVars, cache>>

-----------------------------------------------------------------------------
(* The budget: two calls that take its lock, and other calls between them.   *)

\* now.After(windowEnd): at its end a window still counts.
Ended(window) == window.left < 0

\* `wc.count > b.maxPerWindow` would let one call more through.
HasRoomForOneMore(window) == Ended(window) \/ window.count <= MaxPerWindow
HasRoom(window) == Ended(window) \/ window.count < MaxPerWindow

Check(s) ==
    /\ At(s, "check")
    /\ IF HasRoom(counts[Request(s).tenant]) THEN Goto(s, "record") ELSE Leave(s)
    /\ UNCHANGED <<budgetVars, cache>>

CountedFromZero(window) ==
    IF Ended(window) THEN [count |-> 0, left |-> WindowSize]
    ELSE [window EXCEPT !.count = @ + 1]
Counted(window) ==
    IF Ended(window) THEN [count |-> 1, left |-> WindowSize]
    ELSE [window EXCEPT !.count = @ + 1]

Record(s) ==
    LET t == Request(s).tenant
    IN  /\ At(s, "record")
        /\ counts' = [counts EXCEPT ![t] = Counted(@)]
        /\ recent' = [recent EXCEPT ![t][0] = @ + 1]
        /\ Goto(s, "resolve")
        /\ UNCHANGED cache

-----------------------------------------------------------------------------
(* The client: the worker's own, or one with the tenant's role.              *)

Fresh(session) == session.left > RefreshBefore

\* The region is the caller's, if it names one.
RegionFor(r, otherwise) == IF r.region = NoRegion THEN otherwise ELSE r.region

ResolveOwn(s) ==
    /\ At(s, "resolve")
    /\ Request(s).role = NoRole
    /\ Goto(s, "query")
    /\ UNCHANGED <<budgetVars, cache>>

ResolveWith(s, pc, config) ==
    /\ slot' = [slot EXCEPT ![s].pc = pc,
                            ![s].config = [config EXCEPT !.region = RegionFor(Request(s), @)]]
    /\ UNCHANGED <<budgetVars, cache>>

\* The fast path of ForTenant: the config that was stored under the key, whose it may
\* be, in a copy for the caller's region.
ResolveCached(s) ==
    /\ At(s, "resolve")
    /\ Request(s).role # NoRole
    /\ Fresh(cache[Key(Request(s))])
    /\ ResolveWith(s, "query", cache[Key(Request(s))].config)

\* The slow path: a session of the caller's role, named after the tenant.  The lock is
\* released, and several calls may be on it.
SessionOf(r) == [tenant |-> r.tenant, role |-> r.role, region |-> BaseRegion]

ResolveAnew(s) ==
    /\ At(s, "resolve")
    /\ Request(s).role # NoRole
    /\ ~Fresh(cache[Key(Request(s))])
    /\ ResolveWith(s, "assume", SessionOf(Request(s)))

AssumeFails(s) ==
    /\ At(s, "assume")
    /\ Leave(s)
    /\ UNCHANGED <<budgetVars, cache>>

\* The whole config is stored, and the one that is stored last stays; the call goes on
\* with its own.
StoreConfig(s) ==
    /\ At(s, "assume")
    /\ cache' = [cache EXCEPT ![Key(Request(s))] =
            [config |-> slot[s].config, left |-> SessionDuration]]
    /\ Goto(s, "query")
    /\ UNCHANGED budgetVars

-----------------------------------------------------------------------------
(* The query, in a context of its own: the call does not learn that the      *)
(* workflow stopped waiting.                                                 *)

GivesUpEarly == ActivityTimeout - 1
GivesUpNever == -1
GivesUp == PollTimeout

StartQuery(s) ==
    /\ At(s, "query")
    /\ slot' = [slot EXCEPT ![s].pc = "poll", ![s].gives_up = GivesUp]
    /\ UNCHANGED <<budgetVars, cache>>

\* It was refused, failed or cancelled, or a poll failed; or it succeeded and its
\* rows were read or not.
QueryEnds(s) ==
    /\ slot[s].pc \in {"query", "poll"}
    /\ Leave(s)
    /\ UNCHANGED <<budgetVars, cache>>

\* The poll gives up and leaves the query running; the call returns an error.
PollTimesOut(s) ==
    /\ At(s, "poll")
    /\ slot[s].gives_up = 0
    /\ Leave(s)
    /\ UNCHANGED <<budgetVars, cache>>

\* What a call does by itself; the end of its query is Athena's.
Proceed(s) ==
    \/ Check(s) \/ Record(s)
    \/ ResolveOwn(s) \/ ResolveCached(s) \/ ResolveAnew(s) \/ AssumeFails(s) \/ StoreConfig(s)
    \/ StartQuery(s) \/ PollTimesOut(s)

-----------------------------------------------------------------------------

PCs == {"free", "check", "record", "resolve", "assume", "query", "poll"}
Configs == [tenant : Tenants \cup {<<>>}, role : Roles \cup {NoRole}, region : Regions]

CallsTypeOK ==
    /\ counts \in [Tenants -> [count : Nat, left : -1..WindowSize]]
    /\ recent \in [Tenants -> [Ages -> Nat]]
    /\ cache \in [Keys -> [config : Configs, left : 0..SessionDuration]]
    /\ \A s \in Slots : slot[s].pc \in PCs
    /\ \A s \in Slots : ~At(s, "free") =>
          Request(s) \in Requests /\ slot[s].config \in Configs

\* Calls of a tenant that passed Check and were not recorded yet.
Admitted(t) == {s \in Slots : At(s, "record") /\ Request(s).tenant = t}
Used(t) == IF Ended(counts[t]) THEN 0 ELSE counts[t].count
MostInWindow == MaxPerWindow - 1 + Cardinality(Slots)

\* However the calls interleave, a window holds at most the budget and what the
\* other slots may have been let through meanwhile (activities.go:61-64,
\* budget.go:40-71).
BudgetOverrun == \A t \in Tenants : Used(t) + Cardinality(Admitted(t)) <= MostInWindow

\* In no period as long as a window are there more calls than two windows hold
\* (budget.go:46, 63-68).
TwoWindowsAtMost ==
    \A t \in Tenants : MapThenSumSet(LAMBDA age : recent[t][age], Ages) <= 2 * MostInWindow

\* The regions that calls of a tenant with a role may have had a session made for.
RegionsOf(tenant, role) ==
    {BaseRegion} \cup
    {r.region : r \in {q \in Requests : q.tenant = tenant /\ q.role = role /\ q.region # NoRegion}}

\* A call never works with the session of another tenant or role, whatever is stored
\* under its key, whoever stored it meanwhile and however two refreshes overlap; nor
\* in another region than the one it names.  One that names none works in the base
\* region or in one that a call of its own tenant and role named
\* (tenant_auth.go:61-64, 75-105).
ConfigOfCaller ==
    \A s \in Slots : slot[s].pc \in {"query", "poll"} =>
        LET r == Request(s)
            config == slot[s].config
        IN  IF r.role = NoRole THEN config = OwnConfig
            ELSE /\ config.tenant = r.tenant
                 /\ config.role = r.role
                 /\ config.region \in (IF r.region = NoRegion THEN RegionsOf(r.tenant, r.role)
                                        ELSE {r.region})

\* A poll that gives up does so when the workflow has stopped waiting: its error is
\* never heard (client.go:68, 114-115, anomaly_lifecycle.go:79).
GivesUpUnheard == \A s \in Slots : At(s, "poll") /\ slot[s].gives_up = 0 => slot[s].closes = 0
=============================================================================
