--------------------------- MODULE WorkerProcessProofs ---------------------------
(***************************************************************************)
(* What holds of a worker process whatever its slots, tenants, limits and  *)
(* queues: the invariants of its calls, of its budget and of its workers.  *)
(***************************************************************************)
EXTENDS WorkerProcess, FoldTheorems, SequenceTheorems

-----------------------------------------------------------------------------
(* The calls.                                                                *)

Calls ==
    [pc : PCs \ {"free"}, request : Requests, config : Configs,
     closes : 0..ActivityTimeout, gives_up : 0..PollTimeout]

\* A config is a session of a tenant with a role, made for one of their calls.
SessionFor(config, tenant, role) ==
    /\ config.tenant = tenant /\ config.role = role
    /\ config.region \in RegionsOf(tenant, role)

\* The config of a call is the one it asked for.
ForCaller(c) ==
    /\ SessionFor(c.config, c.request.tenant, c.request.role)
    /\ c.request.region \in {NoRegion, c.config.region}

\* What is so of a slot: until it resolved its client a call holds the worker's own
\* config, one that assumes a role was given one to assume, and the workflow's
\* patience with a call ends no later than the call's with its query.
SlotInv(c) ==
    \/ c = Free
    \/ /\ c \in Calls
       /\ c.pc \in {"check", "record", "resolve"} => c.config = OwnConfig
       /\ c.pc = "assume" => c.request.role # NoRole /\ ForCaller(c)
       /\ c.pc \in {"query", "poll"} =>
             IF c.request.role = NoRole THEN c.config = OwnConfig ELSE ForCaller(c)
       /\ c.pc = "poll" => c.closes <= c.gives_up

\* What is stored under the key of a call and still counts is a session of its tenant
\* and its role.
SessionType == [config : Configs, left : 0..SessionDuration]
CacheInv ==
    \A r \in Requests : r.role # NoRole /\ cache[Key(r)].left > 0 =>
        SessionFor(cache[Key(r)].config, r.tenant, r.role)

CallsInv ==
    /\ counts \in [Tenants -> [count : Nat, left : -1..WindowSize]]
    /\ recent \in [Tenants -> [Ages -> Nat]]
    /\ cache \in [Keys -> SessionType] /\ CacheInv
    /\ slot \in [Slots -> {Free} \cup Calls]
    /\ \A s \in Slots : SlotInv(slot[s])

LEMMA ConstantTypes ==
    /\ BaseRegion \in Regions
    /\ MaxPerWindow \in Nat \ {0} /\ WindowSize \in Nat \ {0}
    /\ SessionDuration \in Nat \ {0} /\ RefreshBefore \in Nat \ {0}
    /\ RefreshBefore < SessionDuration
    /\ PollTimeout \in Nat /\ ActivityTimeout \in Nat /\ ActivityTimeout <= PollTimeout
  BY CallsAssumption

LEMMA RequestTypes ==
    ASSUME NEW r \in Requests
    PROVE  /\ r.tenant \in Tenants /\ r.role \in Roles \cup {NoRole}
           /\ r.region \in Regions \cup {NoRegion}
           /\ r = [tenant |-> r.tenant, role |-> r.role, region |-> r.region]
           /\ r.role # NoRole => Key(r) \in Keys
           /\ \A region \in Regions : RegionFor(r, region) \in Regions
           /\ RegionsOf(r.tenant, r.role) \subseteq Regions
           /\ \A region \in RegionsOf(r.tenant, r.role) :
                  RegionFor(r, region) \in RegionsOf(r.tenant, r.role)
           /\ BaseRegion \in RegionsOf(r.tenant, r.role)
<1>1. /\ r.tenant \in Tenants /\ r.role \in Roles \cup {NoRole}
      /\ r.region \in Regions \cup {NoRegion}
      /\ r = [tenant |-> r.tenant, role |-> r.role, region |-> r.region]
  BY CallsAssumption
<1>2. r.role # NoRole => Key(r) \in Keys
  BY DEF Keys
<1>3. \A region \in Regions : RegionFor(r, region) \in Regions
  BY <1>1 DEF RegionFor
<1>4. RegionsOf(r.tenant, r.role) \subseteq Regions /\ BaseRegion \in RegionsOf(r.tenant, r.role)
  BY CallsAssumption DEF RegionsOf
<1>5. \A region \in RegionsOf(r.tenant, r.role) :
         RegionFor(r, region) \in RegionsOf(r.tenant, r.role)
  BY DEF RegionFor, RegionsOf
<1>6. QED
  BY <1>1, <1>2, <1>3, <1>4, <1>5

\* No two tenants and no two roles of one have a key in common: the last part of a key
\* is the role.
LEMMA KeysApart ==
    ASSUME NEW r \in Requests, NEW q \in Requests, Key(r) = Key(q)
    PROVE  r.tenant = q.tenant /\ r.role = q.role
<1> DEFINE T == STRING \cup Roles \cup {NoRole}
<1>1. r.tenant \in Seq(STRING) /\ q.tenant \in Seq(STRING)
  BY RequestTypes, CallsAssumption
<1>2. r.tenant \in Seq(T) /\ q.tenant \in Seq(T)
  <2>1. STRING \subseteq T
    OBVIOUS
  <2> HIDE DEF T
  <2>2. QED
    BY <1>1, <2>1, SeqMonotonic
<1>3. r.role \in T /\ q.role \in T
  BY RequestTypes
<1>4. Append(r.tenant, r.role) = Append(q.tenant, q.role)
  BY DEF Key
<1>5. QED
  <2> HIDE DEF T
  <2>1. \A s, t \in Seq(T), e, f \in T : Append(s, e) = Append(t, f) => s = t /\ e = f
    BY AppendInjective
  <2>2. \A t \in Seq(T), f \in T :
           Append(r.tenant, r.role) = Append(t, f) => r.tenant = t /\ r.role = f
    BY <1>2, <1>3, <2>1
  <2>3. QED
    BY <1>2, <1>3, <1>4, <2>2

\* A session of the tenant and the role of a call is what the call asked for, once it
\* is in the region of the call.
LEMMA InCallersRegion ==
    ASSUME NEW r \in Requests, NEW config \in Configs, SessionFor(config, r.tenant, r.role)
    PROVE  LET handed == [config EXCEPT !.region = RegionFor(r, config.region)]
           IN  /\ handed \in Configs /\ SessionFor(handed, r.tenant, r.role)
               /\ r.region \in {NoRegion, handed.region}
<1> DEFINE region == RegionFor(r, config.region)
           handed == [config EXCEPT !.region = region]
<1>1. config.region \in RegionsOf(r.tenant, r.role)
  BY DEF SessionFor
<1>2. region \in RegionsOf(r.tenant, r.role) /\ region \in Regions
  BY <1>1, RequestTypes
<1>3. r.region \in {NoRegion, region}
  BY DEF RegionFor
<1> HIDE DEF region
<1>4. handed \in Configs /\ handed.region = region
      /\ handed.tenant = config.tenant /\ handed.role = config.role
  BY <1>2 DEF Configs
<1>5. SessionFor(handed, r.tenant, r.role) /\ r.region \in {NoRegion, handed.region}
  <2> HIDE DEF handed
  <2>1. QED
    BY <1>2, <1>3, <1>4 DEF SessionFor
<1>6. QED
  BY <1>4, <1>5 DEF region

\* What a step of one call does to its slot: it becomes free or goes on as it should,
\* and only Check lets it go to record.
LEMMA CallStepKeeps ==
    ASSUME CallsInv, NEW s \in Slots, Begin(s) \/ Proceed(s) \/ QueryEnds(s)
    PROVE  \E c \in {Free} \cup Calls : SlotInv(c) /\ (c.pc = "record" => Check(s)) /\ slot' = [slot EXCEPT ![s] = c]
<1> DEFINE c == slot[s]
           r == c.request
<1>1. ASSUME Leave(s)
      PROVE  \E d \in {Free} \cup Calls : SlotInv(d) /\ d.pc # "record" /\ slot' = [slot EXCEPT ![s] = d]
  BY <1>1 DEF Leave, SlotInv, Free
<1>2. ASSUME c.pc # "free"
      PROVE  c \in Calls /\ SlotInv(c) /\ c # Free /\ r \in Requests
  BY <1>2 DEF CallsInv, Free, Calls
<1>4. CASE Begin(s)
  <2>1. PICK q \in Requests : slot' = [slot EXCEPT ![s] = Call(q)]
    BY <1>4 DEF Begin
  <2>2. OwnConfig \in Configs
    BY ConstantTypes DEF OwnConfig, Configs
  <2>3. Call(q) \in Calls
    BY <2>2, ConstantTypes DEF Call, Calls, PCs
  <2>4. SlotInv(Call(q))
    BY <2>3 DEF SlotInv, Call
  <2>5. QED
    BY <2>1, <2>3, <2>4 DEF Call
<1>5. CASE Check(s)
  <2>1. CASE Leave(s)
    BY <1>1, <2>1
  <2>2. CASE Goto(s, "record")
    <3>1. c.pc = "check"
      BY <1>5 DEF Check, At
    <3>2. [c EXCEPT !.pc = "record"] \in Calls /\ SlotInv([c EXCEPT !.pc = "record"])
      BY <1>2, <3>1 DEF SlotInv, Calls, PCs
    <3>3. QED
      BY <1>5, <2>2, <3>2 DEF Goto
  <2>3. QED
    BY <1>5, <2>1, <2>2 DEF Check
<1>6. CASE Record(s)
  <2>1. c.pc = "record" /\ slot' = [slot EXCEPT ![s].pc = "resolve"]
    BY <1>6 DEF Record, At, Goto
  <2> DEFINE d == [c EXCEPT !.pc = "resolve"]
  <2>2. d \in Calls /\ d.pc # "record" /\ SlotInv(d)
    BY <1>2, <2>1 DEF SlotInv, Calls, PCs
  <2>3. QED
    BY <2>1, <2>2
<1>7. CASE ResolveOwn(s)
  <2>1. c.pc = "resolve" /\ r.role = NoRole /\ slot' = [slot EXCEPT ![s].pc = "query"]
    BY <1>7 DEF ResolveOwn, At, Goto, Request
  <2> DEFINE d == [c EXCEPT !.pc = "query"]
  <2>2. d \in Calls /\ d.pc # "record" /\ SlotInv(d)
    BY <1>2, <2>1 DEF SlotInv, Calls, PCs
  <2>3. QED
    BY <2>1, <2>2
<1>8. ASSUME NEW pc \in {"query", "assume"}, NEW config \in Configs,
             SessionFor(config, r.tenant, r.role),
             c.pc = "resolve", r.role # NoRole, ResolveWith(s, pc, config)
      PROVE  \E d \in {Free} \cup Calls : SlotInv(d) /\ d.pc # "record" /\ slot' = [slot EXCEPT ![s] = d]
  <2> DEFINE handed == [config EXCEPT !.region = RegionFor(r, config.region)]
             d == [c EXCEPT !.pc = pc, !.config = handed]
  <2>1. slot' = [slot EXCEPT ![s] = d]
    BY <1>8 DEF ResolveWith, Request, CallsInv
  <2>2. c \in Calls /\ r \in Requests
    BY <1>2, <1>8
  <2>3. /\ handed \in Configs /\ SessionFor(handed, r.tenant, r.role)
        /\ r.region \in {NoRegion, handed.region}
    BY <1>8, <2>2, InCallersRegion
  <2> HIDE DEF handed
  <2>4. d \in Calls /\ d.pc = pc /\ d.request = r /\ d.config = handed
    BY <2>2, <2>3 DEF Calls, PCs
  <2>5. SlotInv(d)
    <3> HIDE DEF d
    <3>1. QED
      BY <1>8, <2>3, <2>4 DEF SlotInv, ForCaller
  <2>6. QED
    BY <2>1, <2>4, <2>5
<1>9. CASE ResolveCached(s)
  <2>1. /\ c.pc = "resolve" /\ r.role # NoRole
        /\ cache[Key(r)].left > RefreshBefore
        /\ ResolveWith(s, "query", cache[Key(r)].config)
    BY <1>9 DEF ResolveCached, At, Request, Fresh
  <2>2. r \in Requests /\ cache[Key(r)] \in SessionType
    BY <1>2, <2>1, RequestTypes DEF CallsInv
  <2>3. cache[Key(r)].config \in Configs /\ cache[Key(r)].left > 0
    BY <2>1, <2>2, ConstantTypes DEF SessionType
  <2>4. SessionFor(cache[Key(r)].config, r.tenant, r.role)
    BY <2>1, <2>2, <2>3 DEF CallsInv, CacheInv
  <2>5. QED
    BY <1>8, <2>1, <2>3, <2>4
<1>10. CASE ResolveAnew(s)
  <2>1. /\ c.pc = "resolve" /\ r.role # NoRole
        /\ ResolveWith(s, "assume", SessionOf(r))
    BY <1>10 DEF ResolveAnew, At, Request
  <2>2. r \in Requests
    BY <1>2, <2>1
  <2>3. SessionOf(r) \in Configs /\ SessionFor(SessionOf(r), r.tenant, r.role)
    BY <2>2, RequestTypes, ConstantTypes DEF SessionOf, Configs, SessionFor
  <2>4. QED
    BY <1>8, <2>1, <2>3
<1>11. CASE AssumeFails(s) \/ QueryEnds(s) \/ PollTimesOut(s)
  BY <1>1, <1>11 DEF AssumeFails, QueryEnds, PollTimesOut
<1>12. CASE StoreConfig(s)
  <2>1. c.pc = "assume" /\ slot' = [slot EXCEPT ![s].pc = "query"]
    BY <1>12 DEF StoreConfig, At, Goto
  <2> DEFINE d == [c EXCEPT !.pc = "query"]
  <2>2. d \in Calls /\ d.pc # "record" /\ SlotInv(d)
    BY <1>2, <2>1 DEF SlotInv, Calls, PCs, ForCaller
  <2>3. QED
    BY <2>1, <2>2
<1>13. CASE StartQuery(s)
  <2> DEFINE d == [c EXCEPT !.pc = "poll", !.gives_up = PollTimeout]
  <2>1. c.pc = "query" /\ slot' = [slot EXCEPT ![s] = d]
    BY <1>13 DEF StartQuery, At, GivesUp, CallsInv
  <2>2. d \in Calls
    <3>1. PollTimeout \in 0..PollTimeout /\ "poll" \in PCs \ {"free"}
      BY ConstantTypes DEF PCs
    <3>2. c \in Calls
      BY <1>2, <2>1
    <3>3. QED
      BY <3>1, <3>2 DEF Calls
  <2>3. /\ d.pc = "poll" /\ d.request = r /\ d.config = c.config
        /\ d.closes \in 0..ActivityTimeout /\ d.gives_up = PollTimeout
    BY <1>2, <2>1 DEF Calls
  <2>4. SlotInv(d)
    <3> HIDE DEF d
    <3>1. QED
      BY <1>2, <2>1, <2>2, <2>3, ConstantTypes DEF SlotInv, ForCaller
  <2>5. QED
    BY <2>1, <2>2, <2>3, <2>4
<1>14. QED
  BY <1>4, <1>5, <1>6, <1>7, <1>9, <1>10, <1>11, <1>12, <1>13 DEF Proceed


\* A call by itself writes counts and recent in Record and cache in StoreConfig.
LEMMA CallStepWrites ==
    ASSUME NEW s \in Slots, Begin(s) \/ Proceed(s) \/ QueryEnds(s)
    PROVE  /\ UNCHANGED budgetVars \/ Record(s)
           /\ UNCHANGED cache \/ StoreConfig(s)
  BY DEF Begin, Proceed, QueryEnds, Check, Record, ResolveOwn, ResolveCached, ResolveAnew,
         ResolveWith, AssumeFails, StoreConfig, StartQuery, PollTimesOut

LEMMA NothingInMemory ==
    /\ CallsInit => CallsInv
    /\ Forget => CallsInv'
<1>1. /\ NoWindow \in [count : Nat, left : -1..WindowSize]
      /\ NoneRecent \in [Ages -> Nat]
      /\ NoSession \in SessionType /\ ~(NoSession.left > 0)
  BY ConstantTypes DEF NoWindow, NoneRecent, NoSession, SessionType, OwnConfig, Configs
<1>2. SlotInv(Free)
  BY DEF SlotInv
<1>3. ASSUME NEW r \in Requests, r.role # NoRole
      PROVE  [k \in Keys |-> NoSession][Key(r)] = NoSession
  BY <1>3, RequestTypes
<1>4. CallsInit => CallsInv
  BY <1>1, <1>2, <1>3 DEF CallsInit, CallsInv, CacheInv
<1>5. Forget => CallsInv'
  BY <1>1, <1>2, <1>3 DEF Forget, CallsInv, CacheInv
<1>6. QED
  BY <1>4, <1>5

LEMMA CallKeepsCallsInv ==
    ASSUME CallsInv, NEW s \in Slots, Begin(s) \/ Proceed(s) \/ QueryEnds(s)
    PROVE  CallsInv'
<1>1. PICK c \in {Free} \cup Calls : SlotInv(c) /\ slot' = [slot EXCEPT ![s] = c]
  BY CallStepKeeps
<1>2. slot' \in [Slots -> {Free} \cup Calls] /\ \A q \in Slots : SlotInv(slot'[q])
  BY <1>1 DEF CallsInv
<1>3. ~At(s, "free") => slot[s] \in Calls
  BY DEF CallsInv, At, Free
<1>4. CASE Record(s)
  <2> DEFINE t == slot[s].request.tenant
  <2>1. /\ counts' = [counts EXCEPT ![t] = Counted(counts[t])]
        /\ recent' = [recent EXCEPT ![t][0] = recent[t][0] + 1]
        /\ slot[s] \in Calls
    BY <1>3, <1>4 DEF Record, Request, At
  <2>2. t \in Tenants
    BY <2>1, RequestTypes DEF Calls
  <2>3. Counted(counts[t]) \in [count : Nat, left : -1..WindowSize]
    BY <2>2, ConstantTypes DEF Counted, CallsInv, Ended
  <2>4. counts' \in [Tenants -> [count : Nat, left : -1..WindowSize]]
    BY <2>1, <2>2, <2>3 DEF CallsInv
  <2>5. recent' \in [Tenants -> [Ages -> Nat]]
    BY <2>1, <2>2, ConstantTypes DEF CallsInv, Ages
  <2>6. UNCHANGED cache
    BY <1>4 DEF Record
  <2>7. QED
    BY <1>2, <2>4, <2>5, <2>6 DEF CallsInv, CacheInv
<1>5. CASE StoreConfig(s)
  <2> DEFINE q == slot[s].request
             stored == [config |-> slot[s].config, left |-> SessionDuration]
  <2>1. /\ cache' = [cache EXCEPT ![Key(q)] = stored]
        /\ slot[s] \in Calls /\ SlotInv(slot[s]) /\ slot[s].pc = "assume"
    BY <1>3, <1>5 DEF StoreConfig, Request, At, CallsInv
  <2>2. q \in Requests /\ q.role # NoRole /\ SessionFor(slot[s].config, q.tenant, q.role)
    BY <2>1 DEF Calls, SlotInv, Free, ForCaller
  <2>3. Key(q) \in Keys
    BY <2>2, RequestTypes
  <2>4. stored \in SessionType /\ stored.config = slot[s].config
    <3>1. SessionDuration \in 0..SessionDuration
      BY ConstantTypes
    <3>2. QED
      BY <2>1, <3>1 DEF Calls, SessionType
  <2> HIDE DEF stored, q
  <2>5. cache' \in [Keys -> SessionType]
    BY <2>1, <2>3, <2>4 DEF CallsInv
  <2>6. ASSUME NEW r \in Requests, r.role # NoRole, cache'[Key(r)].left > 0
        PROVE  SessionFor(cache'[Key(r)].config, r.tenant, r.role)
    <3>1. Key(r) \in Keys /\ cache \in [Keys -> SessionType]
      BY <2>6, RequestTypes DEF CallsInv
    <3>2. CASE Key(r) = Key(q)
      <4>1. r.tenant = q.tenant /\ r.role = q.role
        BY <2>2, <3>2, KeysApart
      <4>2. cache'[Key(r)] = stored
        BY <2>1, <3>1, <3>2
      <4>3. QED
        BY <2>2, <2>4, <4>1, <4>2
    <3>3. CASE Key(r) # Key(q)
      <4>1. cache'[Key(r)] = cache[Key(r)]
        BY <2>1, <3>1, <3>3
      <4>2. QED
        BY <2>6, <4>1 DEF CallsInv, CacheInv
    <3>4. QED
      BY <3>2, <3>3
  <2>7. UNCHANGED budgetVars
    BY <1>5 DEF StoreConfig
  <2>8. CacheInv'
    BY <2>6 DEF CacheInv
  <2>9. QED
    BY <1>2, <2>5, <2>7, <2>8 DEF CallsInv, budgetVars
<1>6. CASE UNCHANGED <<budgetVars, cache>>
  BY <1>2, <1>6 DEF CallsInv, CacheInv, budgetVars
<1>7. CASE ~Record(s) /\ ~StoreConfig(s)
  BY <1>6, <1>7, CallStepWrites
<1>8. QED
  BY <1>4, <1>5, <1>7

LEMMA TickKeepsCallsInv ==
    ASSUME CallsInv, Tick
    PROVE  CallsInv'
<1>1. counts' \in [Tenants -> [count : Nat, left : -1..WindowSize]]
  <2>1. ASSUME NEW t \in Tenants
        PROVE  (IF counts[t].left > 0 THEN [counts[t] EXCEPT !.left = @ - 1] ELSE NoWindow)
                  \in [count : Nat, left : -1..WindowSize]
    BY ConstantTypes DEF CallsInv, NoWindow
  <2>2. QED
    BY <2>1 DEF Tick
<1>2. recent' \in [Tenants -> [Ages -> Nat]]
  <2>1. ASSUME NEW t \in Tenants, NEW age \in Ages
        PROVE  (IF age = 0 THEN 0 ELSE recent[t][age - 1]) \in Nat
    <3>1. age # 0 => age - 1 \in Ages
      BY ConstantTypes DEF Ages
    <3>2. QED
      BY <3>1 DEF CallsInv
  <2>2. QED
    BY <2>1 DEF Tick
<1>3. cache' \in [Keys -> SessionType] /\ CacheInv'
  <2> DEFINE aged(k) ==
        IF cache[k].left > RefreshBefore + 1 THEN [cache[k] EXCEPT !.left = @ - 1] ELSE NoSession
  <2>1. cache' = [k \in Keys |-> aged(k)]
    BY DEF Tick
  <2>2. NoSession \in SessionType /\ ~(NoSession.left > 0)
    BY ConstantTypes DEF NoSession, SessionType, OwnConfig, Configs
  <2>3. ASSUME NEW k \in Keys
        PROVE  /\ aged(k) \in SessionType
               /\ aged(k).left > 0 => cache[k].left > 0 /\ aged(k).config = cache[k].config
    <3>1. cache[k] \in SessionType
      BY DEF CallsInv
    <3>2. CASE cache[k].left > RefreshBefore + 1
      BY <3>1, <3>2, ConstantTypes DEF SessionType
    <3>3. CASE ~(cache[k].left > RefreshBefore + 1)
      BY <2>2, <3>3
    <3>4. QED
      BY <3>2, <3>3
  <2> HIDE DEF aged
  <2>4. cache' \in [Keys -> SessionType]
    BY <2>1, <2>3
  <2>5. ASSUME NEW r \in Requests, r.role # NoRole, cache'[Key(r)].left > 0
        PROVE  SessionFor(cache'[Key(r)].config, r.tenant, r.role)
    <3>1. Key(r) \in Keys /\ cache'[Key(r)] = aged(Key(r))
      BY <2>1, <2>5, RequestTypes
    <3>2. QED
      BY <2>3, <2>5, <3>1 DEF CallsInv, CacheInv
  <2>6. QED
    BY <2>4, <2>5 DEF CacheInv
<1>4. ASSUME NEW s \in Slots
      PROVE  slot'[s] \in {Free} \cup Calls /\ SlotInv(slot'[s])
  <2>1. CASE At(s, "free")
    BY <2>1 DEF Tick, SlotInv
  <2>2. CASE ~At(s, "free")
    <3> DEFINE c == slot[s]
               d == [c EXCEPT !.closes = Sooner(@), !.gives_up = Sooner(@)]
    <3>1. c \in Calls /\ SlotInv(c) /\ c # Free
      BY <2>2 DEF CallsInv, At, Free
    <3>2. slot'[s] = d
      BY <2>2 DEF Tick
    <3>3. Sooner(c.closes) \in 0..ActivityTimeout /\ Sooner(c.gives_up) \in 0..PollTimeout
      BY <3>1, ConstantTypes DEF Calls, Sooner
    <3>4. c.closes <= c.gives_up => Sooner(c.closes) <= Sooner(c.gives_up)
      BY <3>1, ConstantTypes DEF Calls, Sooner
    <3>5. /\ d \in Calls /\ d.pc = c.pc /\ d.request = c.request /\ d.config = c.config
          /\ d.closes = Sooner(c.closes) /\ d.gives_up = Sooner(c.gives_up)
      BY <3>1, <3>3 DEF Calls
    <3>6. SlotInv(d)
      <4> HIDE DEF d
      <4>1. QED
        BY <3>1, <3>4, <3>5 DEF SlotInv, ForCaller
    <3>7. QED
      BY <3>2, <3>5, <3>6
  <2>3. QED
    BY <2>1, <2>2
<1>5. slot' \in [Slots -> {Free} \cup Calls]
  BY <1>4 DEF Tick
<1>6. QED
  BY <1>1, <1>2, <1>3, <1>4, <1>5 DEF CallsInv

-----------------------------------------------------------------------------
(* The budget.                                                               *)

LEMMA CountTypes ==
    ASSUME NEW t \in Tenants, CallsInv
    PROVE  /\ Used(t) \in Nat
           /\ IsFiniteSet(Admitted(t)) /\ IsFiniteSet(Slots)
           /\ Cardinality(Admitted(t)) \in 0..Cardinality(Slots)
           /\ MostInWindow \in Nat
<1>1. IsFiniteSet(Slots)
  BY CallsAssumption
<1>2. Admitted(t) \in SUBSET Slots
  BY DEF Admitted
<1>3. Cardinality(Slots) \in Nat
  BY <1>1, FS_CardinalityType
<1>4. QED
  BY <1>1, <1>2, <1>3, PartSizes, ConstantTypes DEF Used, MostInWindow, CallsInv

\* The calls of a step change Used and Admitted of a tenant only in Check and Record.
LEMMA BudgetStep ==
    ASSUME CallsInv, CallsInv', BudgetOverrun,
           \/ \E s \in Slots : Begin(s) \/ Proceed(s) \/ QueryEnds(s)
           \/ Tick
           \/ Forget
           \/ UNCHANGED callVars
    PROVE  BudgetOverrun'
<1> SUFFICES ASSUME NEW t \in Tenants
             PROVE  Used(t)' + Cardinality(Admitted(t)') <= MostInWindow
  BY DEF BudgetOverrun, MostInWindow
<1>1. Used(t) + Cardinality(Admitted(t)) <= MostInWindow
  BY DEF BudgetOverrun
<1>2. /\ Used(t)' \in Nat
      /\ IsFiniteSet(Admitted(t)') /\ Cardinality(Admitted(t)') \in 0..Cardinality(Slots)
      /\ Used(t) \in Nat
      /\ IsFiniteSet(Admitted(t)) /\ Cardinality(Admitted(t)) \in 0..Cardinality(Slots)
      /\ MostInWindow \in Nat /\ Cardinality(Slots) \in Nat
  <2>1. IsFiniteSet(Admitted(t)') /\ Admitted(t)' \in SUBSET Slots
    BY CountTypes, FS_Subset DEF Admitted
  <2>2. Used(t)' \in Nat
    BY DEF Used, CallsInv
  <2>3. Cardinality(Slots) \in Nat
    BY CountTypes, FS_CardinalityType
  <2>4. QED
    BY <2>1, <2>2, <2>3, CountTypes, PartSizes
\* Whatever frees a slot or lets time pass uses up nothing.
<1>3. ASSUME Admitted(t)' \subseteq Admitted(t), Used(t)' <= Used(t)
      PROVE  Used(t)' + Cardinality(Admitted(t)') <= MostInWindow
  <2>1. Cardinality(Admitted(t)') <= Cardinality(Admitted(t))
    BY <1>2, <1>3, FS_Subset
  <2>2. QED
    BY <1>1, <1>2, <1>3, <2>1
<1>4. ASSUME NEW s \in Slots, Check(s), ~Leave(s)
      PROVE  Used(t)' + Cardinality(Admitted(t)') <= MostInWindow
  <2> DEFINE u == slot[s].request.tenant
  <2>1. /\ HasRoom(counts[u]) /\ slot' = [slot EXCEPT ![s].pc = "record"]
        /\ UNCHANGED counts /\ slot[s].pc = "check"
    BY <1>4 DEF Check, At, Request, Goto, budgetVars
  <2>2. slot[s] \in Calls
    BY <2>1 DEF CallsInv, Free
  <2>3. u \in Tenants
    BY <2>2, RequestTypes DEF Calls
  <2>4. CASE t = u
    <3>1. Used(t)' <= MaxPerWindow - 1
      <4>1. counts[t].count \in Nat /\ Used(t)' = Used(t) /\ MaxPerWindow \in Nat \ {0}
        BY <2>1, ConstantTypes DEF Used, Ended, CallsInv
      <4>2. Ended(counts[t]) \/ counts[t].count < MaxPerWindow
        BY <2>1, <2>4 DEF HasRoom
      <4>3. QED
        BY <4>1, <4>2 DEF Used
    <3>2. QED
      BY <1>2, <3>1, ConstantTypes DEF MostInWindow
  <2>5. CASE t # u
    <3>1. slot'[s].request = slot[s].request /\ \A q \in Slots \ {s} : slot'[q] = slot[q]
      BY <2>1, <2>2 DEF CallsInv, Calls
    <3>2. Admitted(t)' \subseteq Admitted(t)
      BY <2>5, <3>1 DEF Admitted, At, Request
    <3>3. Used(t)' = Used(t)
      BY <2>1 DEF Used
    <3>4. QED
      BY <1>2, <1>3, <3>2, <3>3
  <2>6. QED
    BY <2>4, <2>5
<1>5. ASSUME NEW s \in Slots, Record(s)
      PROVE  Used(t)' + Cardinality(Admitted(t)') <= MostInWindow
  <2> DEFINE u == slot[s].request.tenant
  <2>1. /\ slot[s].pc = "record" /\ slot' = [slot EXCEPT ![s].pc = "resolve"]
        /\ counts' = [counts EXCEPT ![u] = Counted(counts[u])]
    BY <1>5 DEF Record, At, Request, Goto
  <2>2. slot[s] \in Calls
    BY <2>1 DEF CallsInv, Free
  <2>3. slot'[s].pc = "resolve" /\ \A q \in Slots \ {s} : slot'[q] = slot[q]
    BY <2>1, <2>2 DEF CallsInv, Calls
  <2>4. Admitted(t)' = Admitted(t) \ {s}
    BY <2>3 DEF Admitted, At, Request
  <2>5. CASE t = u
    <3>1. s \in Admitted(t)
      BY <2>1, <2>5 DEF Admitted, At, Request
    <3>2. Cardinality(Admitted(t)') = Cardinality(Admitted(t)) - 1
      BY <1>2, <2>4, <3>1, FS_RemoveElement
    <3>3. Used(t)' = Used(t) + 1
      BY <2>1, <2>5, ConstantTypes DEF Used, Counted, Ended, CallsInv
    <3>4. QED
      BY <1>1, <1>2, <3>2, <3>3
  <2>6. CASE t # u
    <3>1. Used(t)' = Used(t)
      BY <2>1, <2>6 DEF Used, CallsInv
    <3>2. QED
      BY <1>2, <1>3, <2>4, <3>1
  <2>7. QED
    BY <2>5, <2>6
<1>6. ASSUME NEW s \in Slots, Begin(s) \/ Proceed(s) \/ QueryEnds(s),
             ~Check(s) \/ Leave(s), ~Record(s)
      PROVE  Used(t)' + Cardinality(Admitted(t)') <= MostInWindow
  <2>1. UNCHANGED counts
    BY <1>6, CallStepWrites DEF budgetVars
  <2>2. PICK c \in {Free} \cup Calls : c.pc # "record" /\ slot' = [slot EXCEPT ![s] = c]
    <3>1. CASE Leave(s)
      BY <3>1 DEF Leave, Free
    <3>2. CASE ~Check(s)
      BY <1>6, <3>2, CallStepKeeps
    <3>3. QED
      BY <1>6, <3>1, <3>2
  <2>3. \A q \in Slots : slot'[q] = slot[q] \/ slot'[q].pc # "record"
    BY <2>2 DEF CallsInv
  <2>4. Admitted(t)' \subseteq Admitted(t)
    BY <2>3 DEF Admitted, At, Request
  <2>5. QED
    BY <1>2, <1>3, <2>1, <2>4 DEF Used
<1>7. CASE Tick
  <2>1. \A q \in Slots : /\ slot'[q].pc = slot[q].pc
                         /\ slot[q].pc # "free" => slot'[q].request = slot[q].request
    <3>1. ASSUME NEW q \in Slots, slot[q].pc # "free"
          PROVE  slot'[q].pc = slot[q].pc /\ slot'[q].request = slot[q].request
      <4>1. slot[q] \in Calls
        BY <3>1 DEF CallsInv, Free
      <4>2. QED
        BY <1>7, <3>1, <4>1 DEF Tick, At, Calls
    <3>2. QED
      BY <1>7, <3>1 DEF Tick, At, Free
  <2>2. Admitted(t)' \subseteq Admitted(t)
    BY <2>1 DEF Admitted, At, Request
  <2>3. Used(t)' <= Used(t)
    <3>1. counts[t] \in [count : Nat, left : -1..WindowSize]
      BY DEF CallsInv
    <3>2. counts'[t] = IF counts[t].left > 0 THEN [counts[t] EXCEPT !.left = @ - 1] ELSE NoWindow
      BY <1>7 DEF Tick
    <3>3. CASE counts[t].left > 0
      BY <3>1, <3>2, <3>3, ConstantTypes DEF Used, Ended
    <3>4. CASE ~(counts[t].left > 0)
      <4>1. Used(t)' = 0
        BY <3>2, <3>4 DEF Used, Ended, NoWindow
      <4>2. QED
        BY <1>2, <4>1
    <3>5. QED
      BY <3>3, <3>4
  <2>4. QED
    BY <1>3, <2>2, <2>3
<1>8. CASE Forget
  <2>1. Admitted(t)' = {}
    BY <1>8 DEF Forget, Admitted, At, Free
  <2>2. Used(t)' = 0
    BY <1>8 DEF Forget, Used, Ended, NoWindow
  <2>3. QED
    BY <1>2, <1>3, <2>1, <2>2
<1>9. CASE UNCHANGED callVars
  BY <1>2, <1>3, <1>9 DEF callVars, budgetVars, Used, Admitted, At, Request
<1>10. QED
  BY <1>4, <1>5, <1>6, <1>7, <1>8, <1>9

-----------------------------------------------------------------------------
(* Two windows.                                                              *)

\* How the window counts the calls that were made within the last WindowSize: all
\* since it began, and the calls before it are no more than one window holds.
WindowInv(t) ==
    IF Ended(counts[t])
    THEN recent[t][0] = 0 /\ SumOver(recent[t], Ages) <= MostInWindow
    ELSE LET age == WindowSize - counts[t].left     \* of the window
         IN  /\ SumOver(recent[t], 0..age) = counts[t].count
             /\ SumOver(recent[t], (age + 1)..WindowSize) <= MostInWindow

WindowsInv == \A t \in Tenants : WindowInv(t)

\* A unit of time later nothing is new and all else is a unit older.
LEMMA OneOlder ==
    ASSUME NEW f \in [Ages -> Nat], NEW g,
           g = [age \in Ages |-> IF age = 0 THEN 0 ELSE f[age - 1]],
           NEW a \in 0..(WindowSize - 1)
    PROVE  /\ SumOver(g, 0..(a + 1)) = SumOver(f, 0..a)
           /\ SumOver(g, (a + 2)..WindowSize) <= SumOver(f, (a + 1)..WindowSize)
<1>1. WindowSize \in Nat \ {0} /\ a \in Nat /\ a + 1 <= WindowSize
  BY ConstantTypes
<1>2. \A i \in 0..(WindowSize - 1) : f[i] \in Nat /\ g[i + 1] = f[i]
  <2>1. \A i \in 0..(WindowSize - 1) : i \in Ages /\ i + 1 \in Ages /\ i + 1 # 0 /\ (i + 1) - 1 = i
    BY <1>1 DEF Ages
  <2>2. QED
    BY <2>1
<1>3. g[0] = 0 /\ \A i \in Ages : f[i] \in Nat /\ g[i] \in Nat
  <2>1. \A i \in Ages : i # 0 => i - 1 \in Ages
    BY <1>1 DEF Ages
  <2>2. QED
    BY <1>1, <2>1 DEF Ages
<1>4. SumOver(g, 0..(a + 1)) = SumOver(f, 0..a)
  <2>1. SumOver(g, (0 + 1)..(0 + (a + 1))) = SumOver(f, 0..(0 + (a + 1) - 1))
    <3>1. \A i \in 0..(0 + (a + 1) - 1) : f[i] \in Int /\ g[i + 1] = f[i]
      BY <1>1, <1>2
    <3>2. 0 \in Nat /\ a + 1 \in Nat
      BY <1>1
    <3>3. QED
      BY <3>1, <3>2, SumShift
  <2>2. (0 + 1)..(0 + (a + 1)) = 1..(a + 1) /\ 0..(0 + (a + 1) - 1) = 0..a
    BY <1>1
  <2>3. SumOver(g, 0..(a + 1)) = g[0] + SumOver(g, (0..(a + 1)) \ {0})
    <3>1. 0 \in 0..(a + 1) /\ \A i \in 0..(a + 1) : g[i] \in Int
      BY <1>1, <1>3 DEF Ages
    <3>2. IsFiniteSet(0..(a + 1))
      BY <1>1, FS_Interval
    <3>3. QED
      BY <3>1, <3>2, SumRemove
  <2>4. (0..(a + 1)) \ {0} = 1..(a + 1)
    BY <1>1
  <2>5. SumOver(f, 0..a) \in Int
    <3>1. \A i \in 0..a : f[i] \in Int
      BY <1>1, <1>3 DEF Ages
    <3>2. IsFiniteSet(0..a)
      BY <1>1, FS_Interval
    <3>3. QED
      BY <3>1, <3>2, SumType
  <2>6. SumOver(g, 1..(a + 1)) = SumOver(f, 0..a)
    BY <2>1, <2>2
  <2>7. SumOver(g, 0..(a + 1)) = g[0] + SumOver(g, 1..(a + 1))
    BY <2>3, <2>4
  <2>8. QED
    BY <1>3, <2>5, <2>6, <2>7
<1>5. SumOver(g, (a + 2)..WindowSize) <= SumOver(f, (a + 1)..WindowSize)
  <2> DEFINE n == a + 1
             m == WindowSize - n
  <2>1. n \in Nat /\ m \in Nat
    BY <1>1
  <2>2. (n + 1)..(n + m) = (a + 2)..WindowSize /\ n..(n + m - 1) = (a + 1)..(WindowSize - 1)
    BY <1>1
  <2>3. \A i \in n..(n + m - 1) : f[i] \in Int /\ g[i + 1] = f[i]
    BY <1>1, <1>2
  <2>4. SumOver(g, (n + 1)..(n + m)) = SumOver(f, n..(n + m - 1))
    <3> HIDE DEF n, m
    <3>1. QED
      BY <2>1, <2>3, SumShift
  <2>5. SumOver(g, (a + 2)..WindowSize) = SumOver(f, (a + 1)..(WindowSize - 1))
    <3> HIDE DEF n, m
    <3>1. QED
      BY <2>2, <2>4
  <2>6. (a + 1)..(WindowSize - 1) \in SUBSET ((a + 1)..WindowSize)
    BY <1>1
  <2>7. IsFiniteSet((a + 1)..WindowSize) /\ \A i \in (a + 1)..WindowSize : f[i] \in Nat
    <3>1. \A i \in (a + 1)..WindowSize : i \in Ages
      BY <1>1 DEF Ages
    <3>2. IsFiniteSet((a + 1)..WindowSize)
      BY <1>1, FS_Interval
    <3>3. QED
      BY <1>3, <3>1, <3>2
  <2>8. SumOver(f, (a + 1)..(WindowSize - 1)) <= SumOver(f, (a + 1)..WindowSize)
    BY <2>6, <2>7, SumPart
  <2>9. QED
    BY <2>5, <2>8
<1>6. QED
  BY <1>4, <1>5

LEMMA WindowTick ==
    ASSUME CallsInv, BudgetOverrun, WindowsInv, Tick, NEW t \in Tenants
    PROVE  WindowInv(t)'
<1> DEFINE f == recent[t]
           g == [age \in Ages |-> IF age = 0 THEN 0 ELSE f[age - 1]]
           w == counts[t]
<1>1. f \in [Ages -> Nat] /\ w \in [count : Nat, left : -1..WindowSize] /\ WindowInv(t)
  BY DEF CallsInv, WindowsInv
<1>2. /\ recent'[t] = g
      /\ counts'[t] = IF w.left > 0 THEN [w EXCEPT !.left = @ - 1] ELSE NoWindow
  BY DEF Tick
<1>3. WindowSize \in Nat \ {0} /\ WindowSize - 1 \in 0..(WindowSize - 1)
      /\ (WindowSize - 1) + 1 = WindowSize /\ Ages = 0..WindowSize
  BY ConstantTypes DEF Ages
<1>4. w.count <= MostInWindow \/ Ended(w)
  <2>1. Used(t) + Cardinality(Admitted(t)) <= MostInWindow
    BY DEF BudgetOverrun
  <2>2. Used(t) \in Nat /\ MostInWindow \in Nat /\ Cardinality(Admitted(t)) \in Nat
    BY CountTypes
  <2>3. QED
    BY <2>1, <2>2 DEF Used
<1>5. g[0] = 0
  BY <1>3
<1>6. CASE w.left > 0
  <2> DEFINE a == WindowSize - w.left
  <2>1. a \in 0..(WindowSize - 1)
    BY <1>1, <1>3, <1>6
  <2>2. /\ SumOver(f, 0..a) = w.count
        /\ SumOver(f, (a + 1)..WindowSize) <= MostInWindow
    BY <1>1, <1>6 DEF WindowInv, Ended
  <2>3. /\ SumOver(g, 0..(a + 1)) = SumOver(f, 0..a)
        /\ SumOver(g, (a + 2)..WindowSize) <= SumOver(f, (a + 1)..WindowSize)
    <3> HIDE DEF a, f
    <3>1. QED
      BY <1>1, <2>1, OneOlder
  <2>4. counts'[t].count = w.count /\ counts'[t].left = w.left - 1
    BY <1>1, <1>2, <1>6
  <2>5. WindowSize - counts'[t].left = a + 1 /\ (a + 1) + 1 = a + 2 /\ counts'[t].left >= 0
    BY <1>1, <1>3, <1>6, <2>4
  <2>6. ~Ended(counts'[t])
    BY <1>1, <1>6, <2>4 DEF Ended
  <2>7. SumOver(g, (a + 2)..WindowSize) \in Int /\ SumOver(f, (a + 1)..WindowSize) \in Int
        /\ MostInWindow \in Int
    <3>1. \A i \in Ages : f[i] \in Int /\ g[i] \in Int
      <4>1. \A i \in Ages : i # 0 => i - 1 \in Ages
        BY <1>3
      <4>2. QED
        BY <1>1, <4>1
    <3>2. (a + 2)..WindowSize \subseteq Ages /\ (a + 1)..WindowSize \subseteq Ages
      BY <1>3, <2>1
    <3>3. IsFiniteSet((a + 2)..WindowSize) /\ IsFiniteSet((a + 1)..WindowSize)
      <4>1. a + 2 \in Int /\ a + 1 \in Int /\ WindowSize \in Int
        BY <1>3, <2>1
      <4>2. QED
        BY <4>1, FS_Interval
    <3>4. SumOver(g, (a + 2)..WindowSize) \in Int
      BY <3>1, <3>2, <3>3, SumType
    <3>5. SumOver(f, (a + 1)..WindowSize) \in Int
      BY <3>1, <3>2, <3>3, SumType
    <3>6. QED
      BY <3>4, <3>5, CountTypes
  <2>8. SumOver(g, (a + 2)..WindowSize) <= MostInWindow
    BY <2>2, <2>3, <2>7
  <2>9. SumOver(recent'[t], 0..(a + 1)) = counts'[t].count
        /\ SumOver(recent'[t], (a + 2)..WindowSize) <= MostInWindow
    BY <1>2, <2>2, <2>3, <2>4, <2>8
  <2>10. QED
    <3> HIDE DEF a
    <3>1. QED
      BY <2>5, <2>6, <2>9 DEF WindowInv
<1>7. CASE ~(w.left > 0)
  <2>1. Ended(counts'[t])
    BY <1>2, <1>7 DEF Ended, NoWindow
  <2>2. SumOver(g, 0..WindowSize) = SumOver(f, 0..(WindowSize - 1))
    <3> DEFINE b == WindowSize - 1
    <3>1. b \in 0..(WindowSize - 1) /\ b + 1 = WindowSize
      BY <1>3
    <3>2. SumOver(g, 0..(b + 1)) = SumOver(f, 0..b)
      <4> HIDE DEF f, b
      <4>1. QED
        BY <1>1, <3>1, OneOlder
    <3>3. SumOver(g, 0..WindowSize) = SumOver(f, 0..b)
      <4> HIDE DEF b
      <4>1. QED
        BY <3>1, <3>2
    <3>4. QED
      BY <3>3
  <2>3. SumOver(f, 0..(WindowSize - 1)) <= SumOver(f, 0..WindowSize)
        /\ SumOver(f, 0..(WindowSize - 1)) \in Nat /\ SumOver(f, 0..WindowSize) \in Nat
    <3>1. IsFiniteSet(0..WindowSize) /\ 0..(WindowSize - 1) \in SUBSET (0..WindowSize)
      BY <1>3, FS_Interval
    <3>2. \A i \in 0..WindowSize : f[i] \in Nat
      BY <1>1, <1>3
    <3>3. QED
      BY <3>1, <3>2, SumPart
  <2>4. SumOver(f, 0..WindowSize) <= MostInWindow
    <3>1. CASE Ended(w)
      BY <1>1, <1>3, <3>1 DEF WindowInv
    <3>2. CASE ~Ended(w)
      <4>1. w.left = 0 /\ WindowSize - w.left = WindowSize
        BY <1>1, <1>3, <1>7, <3>2 DEF Ended
      <4>2. SumOver(f, 0..WindowSize) = w.count
        BY <1>1, <3>2, <4>1 DEF WindowInv
      <4>3. QED
        BY <1>4, <3>2, <4>2
    <3>3. QED
      BY <3>1, <3>2
  <2>5. SumOver(g, 0..WindowSize) <= MostInWindow
    BY <2>2, <2>3, <2>4, CountTypes
  <2>6. QED
    BY <1>2, <1>3, <1>5, <2>1, <2>5 DEF WindowInv
<1>8. QED
  BY <1>6, <1>7

LEMMA WindowRecord ==
    ASSUME CallsInv, WindowsInv, NEW s \in Slots, Record(s), NEW t \in Tenants
    PROVE  WindowInv(t)'
<1> DEFINE u == slot[s].request.tenant
           f == recent[t]
           g == recent'[t]
           w == counts[t]
<1>1. /\ counts' = [counts EXCEPT ![u] = Counted(counts[u])]
      /\ recent' = [recent EXCEPT ![u][0] = recent[u][0] + 1]
  BY DEF Record, Request
<1>2. f \in [Ages -> Nat] /\ w \in [count : Nat, left : -1..WindowSize] /\ WindowInv(t)
  BY DEF CallsInv, WindowsInv
<1>3. WindowSize \in Nat \ {0} /\ 0 \in Ages /\ Ages = 0..WindowSize
  BY ConstantTypes DEF Ages
<1>4. CASE t # u
  <2>1. g = f /\ counts'[t] = w
    BY <1>1, <1>4 DEF CallsInv
  <2>2. QED
    BY <1>2, <2>1 DEF WindowInv
<1>5. CASE t = u
  <2>1. counts'[t] = Counted(w) /\ g = [f EXCEPT ![0] = f[0] + 1]
    BY <1>1, <1>5 DEF CallsInv
  <2>2. \A i \in Ages : f[i] \in Int /\ g[i] = IF i = 0 THEN f[i] + 1 ELSE f[i]
    BY <1>2, <2>1
  \* Of the calls since a, one is new; of those before, none is.
  <2>3. ASSUME NEW a \in Ages
        PROVE  /\ SumOver(g, 0..a) = SumOver(f, 0..a) + 1
               /\ SumOver(g, (a + 1)..WindowSize) = SumOver(f, (a + 1)..WindowSize)
    <3>1. a \in Int /\ a + 1 \in Int /\ WindowSize \in Int /\ 0 \in 0..a
      BY <1>3
    <3>2. IsFiniteSet(0..a) /\ IsFiniteSet((a + 1)..WindowSize)
      BY <3>1, FS_Interval
    <3>3. 0..a \subseteq Ages /\ (a + 1)..WindowSize \subseteq Ages \ {0}
      BY <1>3
    <3>4. SumOver(g, 0..a) = SumOver(f, 0..a) + 1
      <4>1. \A i \in 0..a : f[i] \in Int /\ g[i] = IF i = 0 THEN f[i] + 1 ELSE f[i]
        BY <2>2, <3>3
      <4> HIDE DEF f, g
      <4>2. QED
        BY <3>1, <3>2, <4>1, SumAddOne
    <3>5. SumOver(g, (a + 1)..WindowSize) = SumOver(f, (a + 1)..WindowSize)
      <4>1. \A i \in (a + 1)..WindowSize : f[i] \in Int /\ g[i] = f[i]
        BY <2>2, <3>3
      <4> HIDE DEF f, g
      <4>2. QED
        BY <3>2, <4>1, SumSame
    <3>6. QED
      BY <3>4, <3>5
  <2>4. CASE Ended(w)
    <3>1. counts'[t].count = 1 /\ counts'[t].left = WindowSize
      BY <2>1, <2>4 DEF Counted
    <3>2. SumOver(f, {0}) = f[0]
      <4>1. SumOver(f, {0}) = f[0] + SumOver(f, {0} \ {0})
        <5>1. IsFiniteSet({0})
          BY FS_Singleton
        <5>2. \A i \in {0} : f[i] \in Int
          BY <1>2, <1>3
        <5> HIDE DEF f
        <5>3. QED
          BY <5>1, <5>2, SumRemove
      <4>2. {0} \ {0} = {} /\ f[0] \in Int
        BY <1>2, <1>3
      <4>3. QED
        BY <4>1, <4>2, SumEmpty
    <3>3. f[0] = 0 /\ SumOver(f, Ages) <= MostInWindow
      BY <1>2, <2>4 DEF WindowInv
    <3>4. 0..0 = {0} /\ WindowSize - counts'[t].left = 0 /\ 0 + 1 = 1
      BY <1>3, <3>1
    <3>5. SumOver(g, 0..0) = 1
      BY <1>3, <2>3, <3>2, <3>3, <3>4
    <3>6. SumOver(g, 1..WindowSize) <= MostInWindow
      <4>1. SumOver(g, 1..WindowSize) = SumOver(f, 1..WindowSize)
        BY <1>3, <2>3, <3>4
      <4>2. 1..WindowSize \in SUBSET Ages /\ IsFiniteSet(Ages)
        BY <1>3, FS_Interval
      <4>3. /\ SumOver(f, 1..WindowSize) \in Nat /\ SumOver(f, Ages) \in Nat
            /\ SumOver(f, 1..WindowSize) <= SumOver(f, Ages)
        BY <1>2, <4>2, SumPart
      <4>4. QED
        BY <3>3, <4>1, <4>3, CountTypes
    <3>7. ~Ended(counts'[t])
      BY <1>3, <3>1 DEF Ended
    <3>8. QED
      BY <3>1, <3>4, <3>5, <3>6, <3>7 DEF WindowInv
  <2>5. CASE ~Ended(w)
    <3> DEFINE a == WindowSize - w.left
    <3>1. counts'[t].count = w.count + 1 /\ counts'[t].left = w.left
      BY <1>2, <2>1, <2>5 DEF Counted
    <3>2. a \in Ages
      BY <1>2, <1>3, <2>5 DEF Ended
    <3>3. SumOver(f, 0..a) = w.count /\ SumOver(f, (a + 1)..WindowSize) <= MostInWindow
      BY <1>2, <2>5 DEF WindowInv
    <3>4. SumOver(g, 0..a) = counts'[t].count /\ SumOver(g, (a + 1)..WindowSize) <= MostInWindow
      <4> HIDE DEF a
      <4>1. QED
        BY <2>3, <3>1, <3>2, <3>3
    <3>5. WindowSize - counts'[t].left = a /\ ~Ended(counts'[t])
      BY <2>5, <3>1 DEF Ended
    <3>6. QED
      <4> HIDE DEF a
      <4>1. QED
        BY <3>4, <3>5 DEF WindowInv
  <2>6. QED
    BY <2>4, <2>5
<1>6. QED
  BY <1>4, <1>5

\* A process without calls is within its limits.
LEMMA NothingCounted ==
    ASSUME NEW f, f = NoneRecent
    PROVE  f[0] = 0 /\ SumOver(f, Ages) = 0
<1> DEFINE U == {T \in SUBSET Ages : SumOver(f, T) = 0}
<1>1. IsFiniteSet(Ages) /\ 0 \in Ages
  BY ConstantTypes, FS_Interval DEF Ages
<1>2. \A i \in Ages : f[i] = 0
  BY DEF NoneRecent
<1>3. {} \in U
  BY SumEmpty
<1>4. ASSUME NEW T \in SUBSET Ages, T # {}, \A x \in T : T \ {x} \in U PROVE T \in U
  <2>1. PICK x \in T : SumOver(f, T \ {x}) = 0
    BY <1>4
  <2>2. IsFiniteSet(T)
    BY <1>1, FS_Subset
  <2>3. SumOver(f, T) = f[x] + SumOver(f, T \ {x})
    BY <1>2, <2>2, SumRemove
  <2>4. QED
    BY <1>2, <2>1, <2>3
<1>5. SUBSET Ages \subseteq U
  <2> HIDE DEF U
  <2>1. QED
    BY <1>1, <1>3, <1>4, PartInduction
<1>6. QED
  BY <1>1, <1>2, <1>5

-----------------------------------------------------------------------------
(* The calls of a process, which others start and end.                       *)

CallsWithinLimits == CallsInv /\ BudgetOverrun /\ WindowsInv

LEMMA NoCallsInLimits ==
    ASSUME counts = [t \in Tenants |-> NoWindow], recent = [t \in Tenants |-> NoneRecent],
           slot = [s \in Slots |-> Free]
    PROVE  BudgetOverrun /\ WindowsInv
<1>1. MostInWindow \in Nat
  BY CallsAssumption, ConstantTypes, FS_CardinalityType DEF MostInWindow
<1>2. ASSUME NEW t \in Tenants PROVE Used(t) + Cardinality(Admitted(t)) <= MostInWindow
  <2>1. Used(t) = 0 /\ Admitted(t) = {}
    BY DEF Used, Admitted, Ended, NoWindow, At, Free
  <2>2. QED
    BY <1>1, <2>1, FS_EmptySet
<1>3. ASSUME NEW t \in Tenants PROVE WindowInv(t)
  <2>1. recent[t] = NoneRecent /\ Ended(counts[t])
    BY DEF Ended, NoWindow
  <2>2. QED
    BY <1>1, <2>1, NothingCounted DEF WindowInv
<1>4. QED
  BY <1>2, <1>3 DEF BudgetOverrun, WindowsInv

LEMMA CallsInvariance ==
    ASSUME CallsWithinLimits,
           \/ \E s \in Slots : Begin(s) \/ Proceed(s) \/ QueryEnds(s)
           \/ Tick
           \/ Forget
           \/ UNCHANGED callVars
    PROVE  CallsWithinLimits'
<1>1. CallsInv'
  <2>1. CASE UNCHANGED callVars
    BY <2>1 DEF CallsWithinLimits, CallsInv, CacheInv, callVars, budgetVars
  <2>2. QED
    BY <2>1, CallKeepsCallsInv, TickKeepsCallsInv, NothingInMemory DEF CallsWithinLimits
<1>2. BudgetOverrun'
  BY <1>1, BudgetStep DEF CallsWithinLimits
<1>3. ASSUME NEW t \in Tenants PROVE WindowInv(t)'
  <2>1. CASE UNCHANGED budgetVars
    <3>1. WindowInv(t)
      BY DEF CallsWithinLimits, WindowsInv
    <3>2. QED
      BY <2>1, <3>1 DEF budgetVars, WindowInv
  <2>2. CASE Tick
    BY <2>2, WindowTick DEF CallsWithinLimits
  <2>3. ASSUME NEW s \in Slots, Record(s) PROVE WindowInv(t)'
    BY <2>3, WindowRecord DEF CallsWithinLimits
  <2>4. CASE Forget
    <3>1. recent'[t] = NoneRecent /\ Ended(counts'[t])
      BY <2>4 DEF Forget, Ended, NoWindow
    <3>2. QED
      BY <3>1, NothingCounted, CountTypes DEF WindowInv, CallsWithinLimits
  <2>5. QED
    BY <2>1, <2>2, <2>3, <2>4, CallStepWrites DEF callVars
<1>4. QED
  BY <1>1, <1>2, <1>3 DEF CallsWithinLimits, WindowsInv

(* What a process in its limits promises of its calls. *)
LEMMA PromisesOfCalls ==
    ASSUME CallsWithinLimits
    PROVE  CallsTypeOK /\ BudgetOverrun /\ TwoWindowsAtMost /\ ConfigOfCaller /\ GivesUpUnheard
<1>1. ASSUME NEW s \in Slots, ~At(s, "free")
      PROVE  slot[s] \in Calls /\ SlotInv(slot[s]) /\ slot[s] # Free
  BY <1>1 DEF CallsWithinLimits, CallsInv, At, Free
<1>2. CallsTypeOK
  <2>1. \A s \in Slots : slot[s].pc \in PCs
    BY <1>1 DEF At, Calls, PCs
  <2>2. QED
    BY <1>1, <2>1 DEF CallsTypeOK, CallsWithinLimits, CallsInv, SessionType, Calls, Request
<1>3. TwoWindowsAtMost
  <2>1. ASSUME NEW t \in Tenants PROVE SumOver(recent[t], Ages) <= 2 * MostInWindow
    <3> DEFINE f == recent[t]
               a == WindowSize - counts[t].left
    <3>1. /\ f \in [Ages -> Nat] /\ counts[t] \in [count : Nat, left : -1..WindowSize]
          /\ WindowInv(t) /\ Used(t) + Cardinality(Admitted(t)) <= MostInWindow
      BY DEF CallsWithinLimits, CallsInv, WindowsInv, BudgetOverrun
    <3>2. Used(t) \in Nat /\ MostInWindow \in Nat /\ Cardinality(Admitted(t)) \in Nat
      BY CountTypes DEF CallsWithinLimits
    <3>3. CASE Ended(counts[t])
      <4>1. SumOver(f, Ages) <= MostInWindow
        BY <3>1, <3>3 DEF WindowInv
      <4>2. SumOver(f, Ages) \in Nat
        <5>1. IsFiniteSet(Ages)
          BY ConstantTypes, FS_Interval DEF Ages
        <5>2. QED
          BY <3>1, <5>1, SumNat
      <4>3. QED
        BY <3>2, <4>1, <4>2
    <3>4. CASE ~Ended(counts[t])
      <4>1. SumOver(f, 0..a) = counts[t].count /\ SumOver(f, (a + 1)..WindowSize) <= MostInWindow
        BY <3>1, <3>4 DEF WindowInv
      <4>2. a \in 0..WindowSize /\ a \in Int /\ a + 1 \in Int /\ WindowSize \in Int
        BY <3>1, <3>4, ConstantTypes DEF Ended
      <4>3. IsFiniteSet(0..a) /\ IsFiniteSet((a + 1)..WindowSize)
        <5> HIDE DEF a
        <5>1. QED
          BY <4>2, FS_Interval
      <4>4. /\ (0..a) \cap ((a + 1)..WindowSize) = {}
            /\ (0..a) \cup ((a + 1)..WindowSize) = Ages
        <5> HIDE DEF a
        <5>1. QED
          BY <4>2 DEF Ages
      <4>5. SumOver(f, (0..a) \cup ((a + 1)..WindowSize))
              = SumOver(f, 0..a) + SumOver(f, (a + 1)..WindowSize)
        <5>1. \A x \in (0..a) \cup ((a + 1)..WindowSize) : f[x] \in Int
          BY <3>1, <4>4
        <5> HIDE DEF a, f
        <5>2. QED
          BY <4>3, <4>4, <5>1, SumUnion
      <4>6. SumOver(f, (a + 1)..WindowSize) \in Nat
        <5>1. \A x \in (a + 1)..WindowSize : f[x] \in Nat
          BY <3>1, <4>4
        <5> HIDE DEF a, f
        <5>2. QED
          BY <4>3, <5>1, SumNat
      <4>7. counts[t].count <= MostInWindow /\ counts[t].count \in Nat
        BY <3>1, <3>2, <3>4 DEF Used
      <4>8. SumOver(f, Ages) = SumOver(f, 0..a) + SumOver(f, (a + 1)..WindowSize)
        BY <4>4, <4>5
      <4>9. QED
        <5> HIDE DEF a, f
        <5>1. SumOver(f, Ages) <= 2 * MostInWindow
          BY <3>2, <4>1, <4>6, <4>7, <4>8
        <5>2. QED
          BY <5>1 DEF f
    <3>5. QED
      BY <3>3, <3>4
  <2>2. QED
    BY <2>1 DEF TwoWindowsAtMost, SumOver
<1>4. ConfigOfCaller
  BY <1>1 DEF ConfigOfCaller, At, SlotInv, ForCaller, SessionFor, Request
<1>5. GivesUpUnheard
  BY <1>1 DEF GivesUpUnheard, At, SlotInv, Calls
<1>6. QED
  BY <1>2, <1>3, <1>4, <1>5 DEF CallsWithinLimits

-----------------------------------------------------------------------------
(* The queues of a list.                                                     *)

\* What a part or its full name may be.
Names == STRING \cup Queues

LEMMA FullNames ==
    ASSUME NEW part \in STRING
    PROVE  FullName(part) \in Names /\ (FullName(part) = "" <=> part = "")
<1>1. /\ DOMAIN ShortNames = {"anomaly", "detect", "exec"}
      /\ \A q \in {"anomaly", "detect", "exec"} : ShortNames[q] \in Queues
  BY DEF ShortNames, Queues
<1>2. \A q \in Queues : q # ""
  BY DEF Queues, QueueAnomaly, QueueDetect, QueueExec
<1>3. CASE part \in {"anomaly", "detect", "exec"}
  <2>1. FullName(part) \in Queues /\ part # ""
    BY <1>1, <1>3 DEF FullName
  <2>2. QED
    BY <1>2, <2>1 DEF Names
<1>4. CASE part \notin {"anomaly", "detect", "exec"}
  <2>1. FullName(part) = part
    BY <1>1, <1>4 DEF FullName
  <2>2. QED
    BY <2>1 DEF Names
<1>5. QED
  BY <1>3, <1>4

\* What the loop has seen after k parts.
SeenAfter(seen, parts, k) ==
    /\ seen \in Seq(Names)
    /\ \A i, j \in DOMAIN seen : seen[i] = seen[j] => i = j
    /\ {seen[i] : i \in DOMAIN seen} = {FullName(parts[i]) : i \in 1..k} \ {""}

LEMMA SeenStep ==
    ASSUME NEW parts \in Seq(STRING), NEW k \in Nat, k + 1 \in DOMAIN parts,
           NEW seen, SeenAfter(seen, parts, k)
    PROVE  SeenAfter(Seen(seen, parts[k + 1]), parts, k + 1)
<1> DEFINE part == parts[k + 1]
           name == FullName(part)
           Of(s) == {s[i] : i \in DOMAIN s}
<1>1. part \in STRING /\ name \in Names /\ (name = "" <=> part = "")
  <2>1. part \in STRING
    BY LenProperties, ElementOfSeq
  <2>2. QED
    BY <2>1, FullNames
<1>2. {FullName(parts[i]) : i \in 1..(k + 1)} = {FullName(parts[i]) : i \in 1..k} \cup {name}
  OBVIOUS
<1>3. Contains(seen, name) <=> name \in Of(seen)
  <2>1. DOMAIN seen = 1..Len(seen)
    BY LenProperties DEF SeenAfter
  <2>2. QED
    BY <2>1 DEF Contains
<1>4. CASE part = "" \/ Contains(seen, name)
  <2>1. Seen(seen, part) = seen
    BY <1>4 DEF Seen
  <2>2. name = "" \/ name \in Of(seen)
    BY <1>1, <1>3, <1>4
  <2>3. {FullName(parts[i]) : i \in 1..(k + 1)} \ {""} = {FullName(parts[i]) : i \in 1..k} \ {""}
    BY <1>2, <2>2 DEF SeenAfter
  <2>4. QED
    BY <2>1, <2>3 DEF SeenAfter
<1>5. CASE ~(part = "" \/ Contains(seen, name))
  <2> DEFINE more == Append(seen, name)
  <2>1. Seen(seen, part) = more
    BY <1>5 DEF Seen
  <2>2. /\ more \in Seq(Names) /\ Len(more) = Len(seen) + 1
        /\ more[Len(seen) + 1] = name /\ \A i \in DOMAIN seen : more[i] = seen[i]
        /\ DOMAIN seen = 1..Len(seen) /\ DOMAIN more = 1..(Len(seen) + 1) /\ Len(seen) \in Nat
    <3>1. seen \in Seq(Names)
      BY DEF SeenAfter
    <3>2. Len(seen) \in Nat /\ DOMAIN seen = 1..Len(seen)
      BY <3>1, LenProperties
    <3> HIDE DEF name, part
    <3>3. more \in Seq(Names) /\ Len(more) = Len(seen) + 1
      BY <1>1, <3>1, AppendProperties
    <3>4. more[Len(seen) + 1] = name /\ \A i \in 1..Len(seen) : more[i] = seen[i]
      <4>1. name \in Names
        BY <1>1
      <4>2. /\ Append(seen, name)[Len(seen) + 1] = name
            /\ \A i \in 1..Len(seen) : Append(seen, name)[i] = seen[i]
        BY <3>1, <4>1, AppendProperties
      <4>3. QED
        BY <4>2
    <3>5. DOMAIN more = 1..(Len(seen) + 1)
      BY <3>3, LenProperties
    <3>6. QED
      BY <3>2, <3>3, <3>4, <3>5
  <2>3. name \notin Of(seen) /\ name # ""
    BY <1>1, <1>3, <1>5
  <2>4. \A i \in DOMAIN more : i \in DOMAIN seen \/ i = Len(seen) + 1
    BY <2>2
  <2>5. \A i, j \in DOMAIN more : more[i] = more[j] => i = j
    BY <2>2, <2>3, <2>4 DEF SeenAfter
  <2>6. Of(more) = Of(seen) \cup {name}
    BY <2>2, <2>4
  <2>7. Of(more) = {FullName(parts[i]) : i \in 1..(k + 1)} \ {""}
    BY <1>2, <2>3, <2>6 DEF SeenAfter
  <2>8. SeenAfter(more, parts, k + 1)
    <3> HIDE DEF more
    <3>1. QED
      BY <2>2, <2>5, <2>7 DEF SeenAfter
  <2>9. QED
    BY <2>1, <2>8
<1>6. QED
  BY <1>4, <1>5

LEMMA SeenAll ==
    ASSUME NEW parts \in Seq(STRING)
    PROVE  SeenAfter(FoldLeft(Seen, <<>>, parts), parts, Len(parts))
<1> DEFINE pick == [T \in SUBSET DOMAIN parts |-> Max(T)]
           step == [i \in DOMAIN parts |-> [seen \in Seq(Names) |-> Seen(seen, parts[i])]]
           Pass(g) == g = [T \in SUBSET DOMAIN parts |->
                              IF T = {} THEN <<>> ELSE Seen(g[T \ {Max(T)}], parts[Max(T)])]
           fold == CHOOSE g : Pass(g)
<1>1. /\ Len(parts) \in Nat /\ DOMAIN parts = 1..Len(parts) /\ IsFiniteSet(DOMAIN parts)
      /\ \A i \in DOMAIN parts : parts[i] \in STRING
  BY LenProperties, ElementOfSeq, FS_Interval
<1>2. step \in [DOMAIN parts -> [Seq(Names) -> Seq(Names)]]
  <2>1. ASSUME NEW i \in DOMAIN parts, NEW seen \in Seq(Names)
        PROVE  Seen(seen, parts[i]) \in Seq(Names)
    BY <1>1, FullNames, AppendProperties DEF Seen
  <2>2. QED
    BY <2>1
<1>3. PICK g \in [SUBSET DOMAIN parts -> Seq(Names)] : Folds(g, DOMAIN parts, <<>>, pick, step)
  <2>1. Picks(pick, DOMAIN parts)
    BY <1>1, MaxIsGreatest DEF Picks
  <2>2. <<>> \in Seq(Names)
    BY EmptySeq
  <2> HIDE DEF pick, step
  <2>3. QED
    BY <1>1, <1>2, <2>1, <2>2, FoldExists
<1>4. Pass(g)
  <2>1. ASSUME NEW T \in SUBSET DOMAIN parts
        PROVE  g[T] = IF T = {} THEN <<>> ELSE Seen(g[T \ {Max(T)}], parts[Max(T)])
    <3>1. pick[T] = Max(T) /\ (T # {} => Max(T) \in DOMAIN parts)
      BY <1>1, MaxIsGreatest
    <3>2. g[T] = IF T = {} THEN <<>> ELSE step[pick[T]][g[T \ {pick[T]}]]
      BY <1>3 DEF Folds
    <3>3. T \ {Max(T)} \in SUBSET DOMAIN parts
      OBVIOUS
    <3>4. QED
      BY <1>3, <3>1, <3>2, <3>3
  <2>2. QED
    BY <1>3, <2>1
<1>5. Pass(fold)
  <2> HIDE DEF Pass
  <2>1. QED
    BY <1>4
<1>6. FoldLeft(Seen, <<>>, parts) = fold[DOMAIN parts]
  BY DEF FoldLeft, MapThenFoldSet
<1> DEFINE U == {k \in Nat : k <= Len(parts) => SeenAfter(fold[1..k], parts, k)}
<1>7. 0 \in U
  <2>1. 1..0 = {} /\ fold[{}] = <<>>
    <3>1. {} \in SUBSET DOMAIN parts /\ 1..0 = {}
      OBVIOUS
    <3> HIDE DEF fold
    <3>2. QED
      BY <1>5, <3>1
  <2>2. SeenAfter(<<>>, parts, 0)
    BY DEF SeenAfter
  <2>3. QED
    BY <2>1, <2>2
<1>8. ASSUME NEW k \in Nat, k \in U PROVE k + 1 \in U
  <2>1. SUFFICES ASSUME k + 1 <= Len(parts)
                 PROVE  SeenAfter(fold[1..(k + 1)], parts, k + 1)
    OBVIOUS
  <2>2. Max(1..(k + 1)) = k + 1 /\ (1..(k + 1)) \ {k + 1} = 1..k
    BY MaxOfFirst
  <2>3. 1..(k + 1) \in SUBSET DOMAIN parts /\ 1..(k + 1) # {}
    <3>1. 1 \in 1..(k + 1) /\ \A i \in 1..(k + 1) : i \in 1..Len(parts)
      BY <1>1, <2>1
    <3>2. QED
      BY <1>1, <3>1
  <2>4. fold[1..(k + 1)] = Seen(fold[1..k], parts[k + 1])
    <3> HIDE DEF fold
    <3>1. QED
      BY <1>5, <2>2, <2>3
  <2>5. SeenAfter(fold[1..k], parts, k) /\ k + 1 \in DOMAIN parts
    BY <1>1, <1>8, <2>1
  <2>6. QED
    <3> HIDE DEF fold
    <3>1. QED
      BY <2>4, <2>5, SeenStep
<1>9. Len(parts) \in U
  <2> HIDE DEF U
  <2>1. QED
    BY <1>1, <1>7, <1>8, NumberInduction
<1>10. QED
  BY <1>1, <1>6, <1>9

(* The queues of a list that parses are those it names, each once, or finops-anomaly *)
(* if it names none.                                                                *)
LEMMA ParsedQueues ==
    ASSUME NEW parts \in Seq(STRING), ~ParseFails(parts)
    PROVE  LET queues == ParseQueues(parts)
               named == {FullName(parts[i]) : i \in DOMAIN parts} \ {""}
           IN  /\ queues \in Seq(Queues) /\ queues # <<>>
               /\ \A i, j \in DOMAIN queues : queues[i] = queues[j] => i = j
               /\ {queues[i] : i \in DOMAIN queues} = IF named = {} THEN {QueueAnomaly} ELSE named
<1> DEFINE seen == FoldLeft(Seen, <<>>, parts)
           queues == ParseQueues(parts)
           named == {FullName(parts[i]) : i \in DOMAIN parts} \ {""}
           Of(s) == {s[i] : i \in DOMAIN s}
<1>1. SeenAfter(seen, parts, Len(parts)) /\ DOMAIN parts = 1..Len(parts)
  BY SeenAll
<1>2. queues = IF seen = <<>> THEN <<QueueAnomaly>> ELSE seen
  BY DEF ParseQueues
<1>3. named \subseteq Queues
  <2>1. ASSUME NEW i \in DOMAIN parts, FullName(parts[i]) # "" PROVE FullName(parts[i]) \in Queues
    <3>1. parts[i] \in STRING
      BY LenProperties, ElementOfSeq
    <3>2. parts[i] # ""
      BY <2>1, <3>1, FullNames
    <3>3. QED
      BY <3>2 DEF ParseFails
  <2>2. QED
    BY <2>1
<1>4. seen \in Seq(Names) /\ Of(seen) = named
  BY <1>1 DEF SeenAfter
<1> HIDE DEF seen, queues, named
<1>5. CASE seen = <<>>
  <2>1. named = {}
    BY <1>4, <1>5
  <2>2. queues = <<QueueAnomaly>>
    BY <1>2, <1>5
  <2>3. DOMAIN queues = {1} /\ queues[1] = QueueAnomaly /\ queues \in Seq(Queues) /\ queues # <<>>
    BY <2>2 DEF Queues
  <2>4. QED
    BY <2>1, <2>3 DEF queues, named
<1>6. CASE seen # <<>>
  <2>1. queues = seen
    BY <1>2, <1>6
  <2>2. \A i \in DOMAIN seen : seen[i] \in Queues
    BY <1>3, <1>4
  <2>3. Len(seen) \in Nat /\ DOMAIN seen = 1..Len(seen) /\ Len(seen) # 0
    BY <1>4, <1>6, EmptySeq
  <2>4. seen \in Seq(Queues)
    BY <1>4, <2>2, <2>3
  <2>5. named # {}
    <3>1. seen[1] \in Of(seen)
      BY <2>3
    <3>2. QED
      BY <1>4, <3>1
  <2>6. QED
    BY <1>1, <1>4, <1>6, <2>1, <2>4, <2>5 DEF SeenAfter, queues, named
<1>7. QED
  BY <1>5, <1>6

-----------------------------------------------------------------------------
(* The process.                                                              *)

Workers == [queue : Queues, status : {"running", "failed", "stopped"}]

ProcessTypeOK ==
    /\ told \in Seq(STRING)
    /\ workers \in Seq(Workers)
    /\ interrupted \in BOOLEAN
    /\ exit \in {"not started", "none", "ok", "error", "killed"}

\* What makes the exit status tell of the workers: one that is up has workers, and
\* none of them stops before the signal.
ProcessInv ==
    /\ ProcessTypeOK
    /\ OneWorkerPerQueue
    /\ StatusTellsWorkers
    /\ Running => workers # <<>>
    /\ \A i \in DOMAIN workers : workers[i].status = "stopped" => interrupted

IInv == CallsWithinLimits /\ ProcessInv

LEMMA InductiveInit == Init => IInv
<1> SUFFICES ASSUME Init PROVE IInv
  OBVIOUS
<1>1. CallsWithinLimits
  BY NothingInMemory, NoCallsInLimits DEF Init, CallsInit, CallsWithinLimits
<1>2. ProcessInv
  <2>1. told \in Seq(STRING)
    BY EmptySeq DEF Init
  <2>2. workers \in Seq(Workers)
    BY EmptySeq DEF Init
  <2>3. DOMAIN workers = {}
    <3>1. workers = <<>>
      BY DEF Init
    <3>2. Len(workers) = 0 /\ DOMAIN workers = 1..Len(workers)
      BY <2>2, <3>1, EmptySeq, LenProperties
    <3>3. QED
      BY <3>2
  <2>4. QED
    BY <2>1, <2>2, <2>3 DEF Init, ProcessInv, ProcessTypeOK, OneWorkerPerQueue, StatusTellsWorkers, Running
<1>3. QED
  BY <1>1, <1>2 DEF IInv

\* What a step of the process does to its calls.
LEMMA StepOfCalls ==
    ASSUME [Next]_vars
    PROVE  \/ \E s \in Slots : Begin(s) \/ Proceed(s) \/ QueryEnds(s)
           \/ Tick
           \/ Forget
           \/ UNCHANGED callVars
  BY DEF Next, vars, Start, Interrupt, Exit, Die, TimePasses, WorkerFails, WorkerStops, TakeUp, CallStep

\* One worker has another status; what the others are and serve stays.
LEMMA WorkerStatusChanges ==
    ASSUME ProcessTypeOK, NEW i \in DOMAIN workers, NEW status \in {"failed", "stopped"},
           workers' = [workers EXCEPT ![i].status = status]
    PROVE  /\ workers' \in Seq(Workers) /\ DOMAIN workers' = DOMAIN workers
           /\ \A j \in DOMAIN workers : /\ workers'[j].queue = workers[j].queue
                                        /\ workers'[j].status = IF j = i THEN status ELSE workers[j].status
<1>1. workers \in Seq(Workers) /\ DOMAIN workers = 1..Len(workers)
      /\ \A j \in DOMAIN workers : workers[j] \in Workers
  BY LenProperties, ElementOfSeq DEF ProcessTypeOK
<1> DEFINE w == [workers[i] EXCEPT !.status = status]
<1>2. w \in Workers /\ w.queue = workers[i].queue /\ w.status = status
  BY <1>1 DEF Workers
<1>3. workers' = [workers EXCEPT ![i] = w]
  OBVIOUS
<1>4. workers' \in Seq(Workers)
  <2> HIDE DEF w
  <2>1. QED
    BY <1>1, <1>2, <1>3, ExceptSeq
<1>5. DOMAIN workers' = DOMAIN workers /\ \A j \in DOMAIN workers : workers'[j] = IF j = i THEN w ELSE workers[j]
  <2> HIDE DEF w
  <2>1. QED
    BY <1>3
<1>6. QED
  <2> HIDE DEF w
  <2>1. QED
    BY <1>2, <1>4, <1>5

\* So it serves the same queues.
LEMMA SameQueues ==
    ASSUME OneWorkerPerQueue, UNCHANGED told, DOMAIN workers' = DOMAIN workers,
           workers' # <<>> => workers # <<>>,
           \A j \in DOMAIN workers : workers'[j].queue = workers[j].queue
    PROVE  OneWorkerPerQueue'
<1> SUFFICES ASSUME workers' # <<>>
             PROVE  OneWorkerPerQueue'
  BY DEF OneWorkerPerQueue
<1> DEFINE named == {FullName(told[i]) : i \in DOMAIN told} \ {""}
<1>1. {workers'[j].queue : j \in DOMAIN workers'} = {workers[j].queue : j \in DOMAIN workers}
  OBVIOUS
<1>2. \A i, j \in DOMAIN workers' : workers'[i].queue = workers'[j].queue => i = j
  BY DEF OneWorkerPerQueue
<1>3. {workers[j].queue : j \in DOMAIN workers} = IF named = {} THEN {QueueAnomaly} ELSE named
  BY DEF OneWorkerPerQueue
<1>4. named' = named
  OBVIOUS
<1>5. {workers'[j].queue : j \in DOMAIN workers'} = IF named' = {} THEN {QueueAnomaly} ELSE named'
  BY <1>1, <1>3, <1>4 DEF QueueAnomaly
<1>6. QED
  BY <1>2, <1>5 DEF OneWorkerPerQueue

LEMMA StartKeeps ==
    ASSUME ProcessInv, Start
    PROVE  ProcessInv'
<1>1. PICK env \in Environments, parts \in QueueLists, dialled \in BOOLEAN :
         /\ told' = parts
         /\ IF ConfigLoads(env) /\ dialled /\ ~ParseFails(parts)
              THEN /\ workers' = [i \in DOMAIN ParseQueues(parts) |->
                                     [queue |-> ParseQueues(parts)[i], status |-> "running"]]
                   /\ exit' = "none"
              ELSE workers' = <<>> /\ exit' = "error"
  BY DEF Start
<1>2. parts \in Seq(STRING) /\ interrupted' = FALSE
  BY ProcessAssumption DEF Start
<1>3. CASE ConfigLoads(env) /\ dialled /\ ~ParseFails(parts)
  <2> DEFINE queues == ParseQueues(parts)
             named == {FullName(parts[i]) : i \in DOMAIN parts} \ {""}
  <2>1. /\ queues \in Seq(Queues) /\ queues # <<>>
        /\ \A i, j \in DOMAIN queues : queues[i] = queues[j] => i = j
        /\ {queues[i] : i \in DOMAIN queues} = IF named = {} THEN {QueueAnomaly} ELSE named
    BY <1>2, <1>3, ParsedQueues
  <2>2. workers' = [i \in DOMAIN queues |-> [queue |-> queues[i], status |-> "running"]]
        /\ exit' = "none"
    BY <1>1, <1>3
  <2> HIDE DEF queues
  <2>3. Len(queues) \in Nat \ {0} /\ DOMAIN queues = 1..Len(queues)
        /\ \A i \in DOMAIN queues : queues[i] \in Queues
    <3>1. Len(queues) \in Nat /\ DOMAIN queues = 1..Len(queues)
      BY <2>1, LenProperties
    <3>2. Len(queues) # 0
      BY <2>1, EmptySeq
    <3>3. \A i \in 1..Len(queues) : queues[i] \in Queues
      BY <2>1, ElementOfSeq
    <3>4. QED
      BY <3>1, <3>2, <3>3
  <2>4. DOMAIN workers' = DOMAIN queues
        /\ \A i \in DOMAIN queues : workers'[i].queue = queues[i] /\ workers'[i].status = "running"
    BY <2>2
  <2>5. workers' \in Seq(Workers)
    <3>1. \A i \in DOMAIN queues : [queue |-> queues[i], status |-> "running"] \in Workers
      BY <2>3 DEF Workers
    <3>2. QED
      BY <2>2, <2>3, <3>1
  <2>6. {workers'[i].queue : i \in DOMAIN workers'} = {queues[i] : i \in DOMAIN queues}
    BY <2>4
  <2>7. OneWorkerPerQueue'
    <3>1. \A i, j \in DOMAIN workers' : workers'[i].queue = workers'[j].queue => i = j
      BY <2>1, <2>4
    <3>2. {FullName(told'[i]) : i \in DOMAIN told'} \ {""} = named
      BY <1>1
    <3> HIDE DEF named
    <3>3. {workers'[i].queue : i \in DOMAIN workers'} = IF named = {} THEN {QueueAnomaly} ELSE named
      BY <2>1, <2>6
    <3>4. QED
      BY <3>1, <3>2, <3>3 DEF OneWorkerPerQueue
  <2>8. workers' # <<>>
    <3>1. 1 \in DOMAIN workers'
      BY <2>3, <2>4
    <3>2. QED
      BY <3>1
  <2>9. QED
    BY <1>1, <1>2, <2>2, <2>4, <2>5, <2>7, <2>8 DEF ProcessInv, ProcessTypeOK, StatusTellsWorkers, Running
<1>4. CASE ~(ConfigLoads(env) /\ dialled /\ ~ParseFails(parts))
  <2>1. workers' = <<>> /\ exit' = "error" /\ told' = parts
    BY <1>1, <1>4
  <2>2. workers' \in Seq(Workers) /\ DOMAIN workers' = {}
    BY <2>1, EmptySeq
  <2>3. QED
    BY <1>2, <2>1, <2>2 DEF ProcessInv, ProcessTypeOK, OneWorkerPerQueue, StatusTellsWorkers, Running
<1>5. QED
  BY <1>3, <1>4

\* Where the workers are what they were, they serve what they served.
LEMMA WorkersStay ==
    ASSUME OneWorkerPerQueue, UNCHANGED <<told, workers>>
    PROVE  OneWorkerPerQueue'
  BY SameQueues

LEMMA ProcessKeeps ==
    ASSUME ProcessInv, [Next]_vars
    PROVE  ProcessInv'
<1>1. CASE UNCHANGED processVars
  <2>1. OneWorkerPerQueue'
    BY <1>1, WorkersStay DEF processVars, ProcessInv
  <2>2. StatusTellsWorkers'
    BY <1>1 DEF processVars, ProcessInv, StatusTellsWorkers
  <2>3. QED
    BY <1>1, <2>1, <2>2 DEF processVars, ProcessInv, ProcessTypeOK, Running
<1>2. CASE Start
  BY <1>2, StartKeeps
<1>3. ASSUME NEW i \in DOMAIN workers, NEW status \in {"failed", "stopped"},
             workers' = [workers EXCEPT ![i].status = status],
             Running, UNCHANGED <<told, interrupted, exit>>, status = "stopped" => interrupted
      PROVE  ProcessInv'
  <2>1. /\ workers' \in Seq(Workers) /\ DOMAIN workers' = DOMAIN workers
        /\ \A j \in DOMAIN workers : /\ workers'[j].queue = workers[j].queue
                                     /\ workers'[j].status = IF j = i THEN status ELSE workers[j].status
    BY <1>3, WorkerStatusChanges DEF ProcessInv
  <2>2. workers' # <<>> /\ workers # <<>>
    BY <1>3, <2>1
  <2>3. OneWorkerPerQueue'
    BY <1>3, <2>1, <2>2, SameQueues DEF ProcessInv
  <2>4. StatusTellsWorkers'
    BY <1>3 DEF Running, StatusTellsWorkers
  <2>5. \A j \in DOMAIN workers' : workers'[j].status = "stopped" => interrupted'
    BY <1>3, <2>1 DEF ProcessInv
  <2>6. QED
    BY <1>3, <2>1, <2>2, <2>3, <2>4, <2>5 DEF ProcessInv, ProcessTypeOK, Running
<1>4. ASSUME NEW i \in DOMAIN workers, WorkerFails(i) \/ WorkerStops(i)
      PROVE  ProcessInv'
  BY <1>3, <1>4 DEF WorkerFails, WorkerStops
<1>5. CASE Interrupt
  <2>1. OneWorkerPerQueue'
    BY <1>5, WorkersStay DEF Interrupt, ProcessInv
  <2>2. StatusTellsWorkers'
    BY <1>5 DEF Interrupt, Running, StatusTellsWorkers
  <2>3. QED
    BY <1>5, <2>1, <2>2 DEF Interrupt, ProcessInv, ProcessTypeOK, Running
<1>6. CASE Exit
  <2>1. /\ UNCHANGED <<told, workers, interrupted>> /\ exit' = Status /\ workers # <<>>
        /\ \A i \in DOMAIN workers : workers[i].status # "running"
    BY <1>6 DEF Exit, WaitReturns, Working, ProcessInv
  <2>2. \A i \in DOMAIN workers : workers[i].status \in {"failed", "stopped"}
    <3>1. \A i \in DOMAIN workers : workers[i] \in Workers
      BY LenProperties, ElementOfSeq DEF ProcessInv, ProcessTypeOK
    <3>2. QED
      BY <2>1, <3>1 DEF Workers
  <2>3. \E i \in DOMAIN workers : TRUE
    <3>1. DOMAIN workers = 1..Len(workers) /\ Len(workers) \in Nat
      BY LenProperties DEF ProcessInv, ProcessTypeOK
    <3>2. Len(workers) # 0
      BY <2>1, EmptySeq DEF ProcessInv, ProcessTypeOK
    <3>3. QED
      BY <3>1, <3>2
  <2>4. StatusTellsWorkers'
    <3>1. CASE \E i \in DOMAIN workers : workers[i].status = "failed"
      BY <2>1, <3>1 DEF Status, StatusTellsWorkers
    <3>2. CASE ~\E i \in DOMAIN workers : workers[i].status = "failed"
      <4>1. \A i \in DOMAIN workers : workers[i].status = "stopped"
        BY <2>2, <3>2
      <4>2. interrupted
        BY <2>3, <4>1 DEF ProcessInv
      <4>3. QED
        BY <2>1, <3>2, <4>1, <4>2 DEF Status, StatusTellsWorkers
    <3>3. QED
      BY <3>1, <3>2
  <2>5. OneWorkerPerQueue'
    BY <2>1, WorkersStay DEF ProcessInv
  <2>6. QED
    BY <2>1, <2>4, <2>5 DEF ProcessInv, ProcessTypeOK, Status, Running
<1>7. CASE Die
  <2>1. OneWorkerPerQueue'
    BY <1>7, WorkersStay DEF Die, ProcessInv
  <2>2. QED
    BY <1>7, <2>1 DEF Die, ProcessInv, ProcessTypeOK, StatusTellsWorkers, Running
<1>8. QED
  BY <1>1, <1>2, <1>4, <1>5, <1>6, <1>7 DEF Next, vars, TimePasses, TakeUp, CallStep

LEMMA InductiveStep == IInv /\ [Next]_vars => IInv'
  BY StepOfCalls, CallsInvariance, ProcessKeeps DEF IInv

LEMMA Invariance == Spec => []IInv
  BY InductiveInit, InductiveStep, PTL DEF Spec

-----------------------------------------------------------------------------
(* What is proved of a worker process.                                       *)

(* The types of all that the process and its calls keep. *)
THEOREM TypeTheorem == Spec => []TypeOK
<1>1. IInv => TypeOK
  BY PromisesOfCalls DEF IInv, ProcessInv, ProcessTypeOK, TypeOK, Workers
<1>2. QED
  BY <1>1, Invariance, PTL

(* Calls of a tenant that were let through and not recorded yet, and those its      *)
(* window holds, are never more than the budget and the other slots together, for   *)
(* every number of slots and every budget (budget.go:40-71).                        *)
THEOREM BudgetTheorem == Spec => []BudgetOverrun
<1>1. IInv => BudgetOverrun
  BY DEF IInv, CallsWithinLimits
<1>2. QED
  BY <1>1, Invariance, PTL

(* No period of the length of a window sees more calls than two windows hold, for   *)
(* every length (budget.go:46, 63-68).                                              *)
THEOREM TwoWindowsTheorem == Spec => []TwoWindowsAtMost
<1>1. IInv => TwoWindowsAtMost
  BY PromisesOfCalls DEF IInv
<1>2. QED
  BY <1>1, Invariance, PTL

(* A query runs with a session of the tenant and the role its call asked for, and   *)
(* in a region that is this call's own, although what it is handed is whatever      *)
(* config was stored last under the key of the two (tenant_auth.go:61-64, 75-105).   *)
THEOREM ConfigTheorem == Spec => []ConfigOfCaller
<1>1. IInv => ConfigOfCaller
  BY PromisesOfCalls DEF IInv
<1>2. QED
  BY <1>1, Invariance, PTL

(* A poll that gives up does so when its workflow no longer waits, as long as the   *)
(* activity's timeout is no longer than the poll's (client.go:68, 114-115).         *)
THEOREM UnheardTheorem == Spec => []GivesUpUnheard
<1>1. IInv => GivesUpUnheard
  BY PromisesOfCalls DEF IInv
<1>2. QED
  BY <1>1, Invariance, PTL

(* A process that is up has one worker for each queue it was told of, for every     *)
(* list of queues (registry.go:53-92).                                              *)
THEOREM WorkersTheorem == Spec => []OneWorkerPerQueue
<1>1. IInv => OneWorkerPerQueue
  BY DEF IInv, ProcessInv
<1>2. QED
  BY <1>1, Invariance, PTL

(* The exit status tells of every worker (main.go:133-158). *)
THEOREM StatusTheorem == Spec => []StatusTellsWorkers
<1>1. IInv => StatusTellsWorkers
  BY DEF IInv, ProcessInv
<1>2. QED
  BY <1>1, Invariance, PTL
=============================================================================
